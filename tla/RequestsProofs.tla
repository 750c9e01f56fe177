--------------------------- MODULE RequestsProofs ---------------------------
(* The requests of the dashboard: the rollback of the writes of ConfigApply, *)
(* for every value of its constants, and the automation worker beside any    *)
(* number of requests, subscriptions and groups, where what the worker read  *)
(* without the lock is still so when it stores.                              *)
EXTENDS ConfigApply, Automation, TLAPS

-----------------------------------------------------------------------------
(* Configuration writes.                                                   *)

RollingBack == {"Connect", "Replace", "Apply", "Subscription"}

\* From the moment the error is decided on, not only when it is answered.
StoreInv == job.op \in RollingBack /\ job.error /\ ~job.lost => store = job.backup

RInv == TypeOK /\ StoreInv

LEMMA RInvInit == Init => RInv
  <1> SUFFICES ASSUME Init PROVE RInv
    OBVIOUS
  <1> USE DEF Init
  <1>1. core \in Configs \cup {Off, Test}
    OBVIOUS
  <1>2. job \in Jobs
    BY DEF Jobs, AllOperations
  <1>3. TypeOK
    BY <1>1, <1>2 DEF TypeOK, Threads, Nobody, Labels
  <1>4. StoreInv
    BY DEF StoreInv
  <1> QED BY <1>3, <1>4 DEF RInv

LEMMA ReloadRInv ==
  ASSUME RInv, NEW t \in Threads, Reload(t)
  PROVE  RInv'
  <1> USE DEF RInv, TypeOK
  <1>1. UNCHANGED <<store, job, testing, excused, crashed>>
    BY DEF Reload, NewTemplateFromConnectedServers, Stop, StartProcess, StartCommit
  <1>2. StoreInv'
    BY <1>1 DEF StoreInv
  <1>3. pc' \in [Threads -> Labels]
    BY DEF Reload, NewTemplateFromConnectedServers, Stop, StartProcess, Refused, NotSpawned,
           Spawned, StartCommit, Updated, Goto, Labels
  <1>4. failed' \in [Threads -> BOOLEAN]
    BY DEF Reload, NewTemplateFromConnectedServers, Stop, StartProcess, Refused, NotSpawned,
           Spawned, StartCommit, Updated
  <1>5. core' \in Configs \cup {Off, Test} /\ tmpl' \in [Threads -> Configs \cup {Test}]
    BY DEF Reload, NewTemplateFromConnectedServers, Stop, StartProcess, Refused, NotSpawned,
           Spawned, StartCommit
  <1>6. startMu' \in Threads \cup {Nobody}
    BY DEF Reload, NewTemplateFromConnectedServers, Stop, StartProcess, Refused, NotSpawned,
           Spawned, StartCommit
  <1> QED BY <1>1, <1>2, <1>3, <1>4, <1>5, <1>6

\* The record a request starts with.
Began(op, error, retry) ==
    /\ job' = [op |-> op, backup |-> store, was |-> Running, error |-> error,
               lost |-> FALSE, retry |-> retry, unrestored |-> FALSE]
    /\ error => store' = store
    /\ retry => error /\ op = "Connect"

LEMMA RequestBegins ==
  ASSUME Request
  PROVE  \E op \in Operations, error \in BOOLEAN, retry \in BOOLEAN : Began(op, error, retry)
  <1>1. CASE StartV2ray
    BY <1>1, Zenon DEF StartV2ray, Refuse, Enter, Begin, Began
  <1>2. CASE StopV2ray
    BY <1>2, Zenon DEF StopV2ray, Refuse, Enter, Begin, Began
  <1>3. CASE Connect
    BY <1>3, Zenon DEF Connect, Refuse, Enter, Begin, Began
  <1>4. CASE Disconnect
    BY <1>4, Zenon DEF Disconnect, Refuse, Enter, Begin, Began
  <1>5. CASE replaceOutboundConnections
    BY <1>5, Zenon DEF replaceOutboundConnections, Refuse, Enter, Begin, Began
  <1>6. CASE applyCoreConfig
    BY <1>6, Zenon DEF applyCoreConfig, Refuse, Enter, Begin, Began
  <1>7. CASE storeSubscriptionUpdate
    BY <1>7, Zenon DEF storeSubscriptionUpdate, Refuse, Enter, Begin, Began
  <1>8. CASE DeleteWhich
    BY <1>8, Zenon DEF DeleteWhich, Refuse, Enter, Begin, Began
  <1>9. CASE ImportServer
    BY <1>9, Zenon DEF ImportServer, Refuse, Enter, Begin, Began
  <1>10. CASE PutGFWList
    BY <1>10, Zenon DEF PutGFWList, Refuse, Enter, Begin, Began
  <1>11. CASE TestHttpLatency
    BY <1>11, Zenon DEF TestHttpLatency, Refuse, Enter, Begin, Began
  <1> QED BY <1>1, <1>2, <1>3, <1>4, <1>5, <1>6, <1>7, <1>8, <1>9, <1>10, <1>11 DEF Request

LEMMA RequestRInv ==
  ASSUME RInv, Request
  PROVE  RInv'
  <1> USE DEF RInv, TypeOK
  <1>1. UNCHANGED <<core, startMu, failed, excused>> /\ crashed' = FALSE
    BY DEF Request, StartV2ray, StopV2ray, Connect, Disconnect, replaceOutboundConnections,
           applyCoreConfig, storeSubscriptionUpdate, DeleteWhich, ImportServer, PutGFWList,
           TestHttpLatency, Refuse, Enter, Begin
  <1>2. store' \in Configs
    BY DEF Request, StartV2ray, StopV2ray, Connect, Disconnect, replaceOutboundConnections,
           applyCoreConfig, storeSubscriptionUpdate, DeleteWhich, ImportServer, PutGFWList,
           TestHttpLatency, Refuse, Enter, Begin, Dropping, Selecting, Configs
  <1>3. pc' \in [Threads -> Labels]
    BY DEF Request, StartV2ray, StopV2ray, Connect, Disconnect, replaceOutboundConnections,
           applyCoreConfig, storeSubscriptionUpdate, DeleteWhich, ImportServer, PutGFWList,
           TestHttpLatency, Refuse, Enter, Begin, Goto, IfRunning, Labels
  <1>4. testing' \in BOOLEAN /\ tmpl' \in [Threads -> Configs \cup {Test}]
    BY DEF Request, StartV2ray, StopV2ray, Connect, Disconnect, replaceOutboundConnections,
           applyCoreConfig, storeSubscriptionUpdate, DeleteWhich, ImportServer, PutGFWList,
           TestHttpLatency, Refuse, Enter, Begin
  <1>6. PICK op \in Operations, error \in BOOLEAN, retry \in BOOLEAN : Began(op, error, retry)
    BY RequestBegins
  <1>7. job' \in Jobs
    BY <1>6, ConfigAssumption DEF Began, Jobs, Running
  <1>8. StoreInv'
    BY <1>6, Zenon DEF Began, StoreInv
  <1> QED BY <1>1, <1>2, <1>3, <1>4, <1>7, <1>8

LEMMA OutcomeRInv ==
  ASSUME RInv, Outcome
  PROVE  RInv'
  <1> USE DEF RInv, TypeOK
  <1>1. UNCHANGED <<core, startMu, tmpl, failed, crashed>>
    BY DEF Outcome, ConnectFailed, DisconnectFailed, ReplaceFailed, SubscriptionFailed, ApplyFailed,
           Restored, Reloaded, ReloadAgain, TestStarted, TestsDone, TestEnded, Return, WriteBack, Answer
  <1>2. testing' \in BOOLEAN /\ excused' \in BOOLEAN
    BY Zenon DEF Outcome, ConnectFailed, DisconnectFailed, ReplaceFailed, SubscriptionFailed, ApplyFailed,
           Restored, Reloaded, ReloadAgain, TestStarted, TestsDone, TestEnded, Return, WriteBack, Answer
  <1>3. pc' \in [Threads -> Labels]
    BY DEF Outcome, ConnectFailed, DisconnectFailed, ReplaceFailed, SubscriptionFailed, ApplyFailed,
           Restored, Reloaded, ReloadAgain, TestStarted, TestsDone, TestEnded, Return, WriteBack, Answer, Goto,
           IfRunning, Labels
  <1> DEFINE WrittenBack(written) ==
               /\ store' = IF written THEN job.backup ELSE store
               /\ job' = [job EXCEPT !.error = TRUE, !.lost = ~written, !.retry = TRUE]
             Answering(error) ==
               /\ store' = store
               /\ job' = [job EXCEPT !.error = error]
               /\ error => job.op \notin RollingBack
  <1>4. ASSUME NEW written \in BOOLEAN, WrittenBack(written)
        PROVE  store' \in Configs /\ job' \in Jobs /\ StoreInv'
    BY <1>4 DEF Jobs, StoreInv
  <1>5. ASSUME NEW error \in BOOLEAN, Answering(error)
        PROVE  store' \in Configs /\ job' \in Jobs /\ StoreInv'
    BY <1>5 DEF Jobs, StoreInv
  <1>6. CASE ConnectFailed \/ ReplaceFailed \/ SubscriptionFailed \/ ApplyFailed
    <2>1. PICK written \in BOOLEAN : WrittenBack(written)
      BY <1>6 DEF ConnectFailed, ReplaceFailed, SubscriptionFailed, ApplyFailed, WriteBack
    <2> QED BY <2>1, <1>4, <1>1, <1>2, <1>3
  <1>7. CASE DisconnectFailed
    <2>1. (\E written \in BOOLEAN : WrittenBack(written)) \/ Answering(TRUE)
      BY <1>7 DEF DisconnectFailed, WriteBack, Answer, ReloadFailed, RollingBack
    <2> QED BY <2>1, <1>4, <1>5, <1>1, <1>2, <1>3
  <1>8. CASE Reloaded
    <2>1. Answering(failed["request"]) /\ failed["request"] \in BOOLEAN
      BY <1>8 DEF Reloaded, Answer, RollingBack, Threads
    <2> QED BY <2>1, <1>5, <1>1, <1>2, <1>3
  <1>9. CASE TestEnded
    <2>1. \E error \in BOOLEAN : Answering(error)
      BY <1>9 DEF TestEnded, Answer, RollingBack, Threads, Jobs
    <2> QED BY <2>1, <1>5, <1>1, <1>2, <1>3
  <1>10. CASE Restored \/ ReloadAgain \/ TestStarted \/ TestsDone \/ Return
    <2>1. store' = store
      BY <1>10 DEF Restored, ReloadAgain, TestStarted, TestsDone, Return
    <2>2. job' \in Jobs
      BY <1>10 DEF Restored, ReloadAgain, TestStarted, TestsDone, Return, Jobs, Threads
    <2>3. StoreInv'
      BY <1>10, <2>1 DEF Restored, ReloadAgain, TestStarted, TestsDone, Return, Jobs, StoreInv, RollingBack
    <2> QED BY <2>1, <2>2, <2>3, <1>1, <1>2, <1>3
  <1> QED BY <1>6, <1>7, <1>8, <1>9, <1>10 DEF Outcome

LEMMA NextRInv == RInv /\ [Next]_vars => RInv'
  <1> SUFFICES ASSUME RInv, [Next]_vars PROVE RInv'
    OBVIOUS
  <1>1. CASE BackgroundUpdate \/ BackgroundDone
    <2>1. pc' \in [Threads -> Labels]
      BY <1>1 DEF BackgroundUpdate, BackgroundDone, Goto, RInv, TypeOK, Labels
    <2> QED BY <1>1, <2>1 DEF BackgroundUpdate, BackgroundDone, RInv, TypeOK, StoreInv
  <1>2. CASE Crash
    BY <1>2 DEF Crash, RInv, TypeOK, StoreInv
  <1>3. CASE UNCHANGED vars
    BY <1>3 DEF vars, RInv, TypeOK, StoreInv
  <1> QED BY <1>1, <1>2, <1>3, RequestRInv, OutcomeRInv, ReloadRInv DEF Next

\* The types of ConfigApply and, from the moment a request decides on its error, the
\* store being its backup again unless the rollback could not be written.
THEOREM RollbackInvariance == Spec => []RInv
  BY RInvInit, NextRInv, PTL DEF Spec

\* Every variable of ConfigApply keeps its type.
THEOREM ConfigTypes == Spec => []TypeOK
  <1>1. RInv => TypeOK
    BY DEF RInv
  <1> QED BY <1>1, RollbackInvariance, PTL

\* A request that answers an error has left the stored configuration as it was,
\* unless the database refused the rollback: for any selections, settings and
\* requests, with and without the background update.
THEOREM Rollback == Spec => []FailureRestoresStore
  <1>1. RInv => FailureRestoresStore
    BY DEF RInv, StoreInv, FailureRestoresStore, RollingBack, Jobs, TypeOK
  <1> QED BY <1>1, RollbackInvariance, PTL

-----------------------------------------------------------------------------
(* The core a failed change took down.  The background update is left out: *)
(* it takes no turn, and may put another core in the place of this one.    *)

Restoring == {"Replace", "Apply", "Subscription"}

Goal == IF NothingToRun(job.backup) THEN Off ELSE job.backup

\* The second reload works from the backup, step by step.
RestoreInv ==
    job.retry /\ ~job.lost /\ job.op \in Restoring =>
        /\ pc["request"] = "stop" => NothingToRun(job.backup)
        /\ pc["request"] = "start" => tmpl["request"] = job.backup /\ ~NothingToRun(job.backup)
        /\ pc["request"] = "commit" => (core = job.backup \/ crashed) /\ ~NothingToRun(job.backup)
        /\ pc["request"] = "updated" => core = Goal \/ crashed \/ failed["request"]
        /\ pc["request"] = "done" => core = Goal \/ crashed \/ job.unrestored

CInv ==
    /\ RInv
    /\ ~Background
    /\ pc["updater"] = "idle"
    /\ pc["request"] = "tests" => job.op = "Latency"
    /\ job.retry /\ job.op \in Restoring => job.error
    /\ RestoreInv

LEMMA ReloadCInv ==
  ASSUME CInv, NEW t \in Threads, Reload(t)
  PROVE  CInv'
  <1>1. RInv'
    BY ReloadRInv DEF CInv
  <1>2. t = "request"
    BY DEF CInv, Threads, Reload, NewTemplateFromConnectedServers, Stop, StartProcess, StartCommit
  <1> USE <1>2 DEF CInv, RInv, TypeOK, Threads, Goto, Updated
  <1>3. UNCHANGED <<store, job, crashed>>
    BY DEF Reload, NewTemplateFromConnectedServers, Stop, StartProcess, StartCommit
  <1>4. pc'["updater"] = "idle" /\ pc'["request"] # "tests"
    BY DEF Reload, NewTemplateFromConnectedServers, Stop, StartProcess, Refused, NotSpawned,
           Spawned, StartCommit
  <1>5. RestoreInv'
    <2> SUFFICES ASSUME job.retry, ~job.lost, job.op \in Restoring PROVE RestoreInv'
      BY <1>3 DEF RestoreInv
    <2>1. store = job.backup
      BY DEF StoreInv, RollingBack, Restoring
    <2>2. CASE NewTemplateFromConnectedServers(t)
      BY <2>1, <2>2 DEF NewTemplateFromConnectedServers, RestoreInv, NothingToRun
    <2>3. CASE Stop(t)
      BY <2>3 DEF Stop, RestoreInv, NothingToRun, Goal
    <2>4. CASE StartProcess(t)
      BY <2>4 DEF StartProcess, Refused, NotSpawned, Spawned, RestoreInv, NothingToRun
    <2>5. CASE StartCommit(t)
      BY <2>5 DEF StartCommit, RestoreInv, NothingToRun, Goal
    <2> QED BY <2>2, <2>3, <2>4, <2>5 DEF Reload
  <1> QED BY <1>1, <1>3, <1>4, <1>5

LEMMA RequestCInv ==
  ASSUME CInv, Request
  PROVE  CInv'
  <1>1. RInv'
    BY RequestRInv DEF CInv
  <1>2. pc'["updater"] = "idle" /\ pc'["request"] # "tests"
    BY DEF CInv, RInv, TypeOK, Threads, Request, StartV2ray, StopV2ray, Connect, Disconnect,
           replaceOutboundConnections, applyCoreConfig, storeSubscriptionUpdate, DeleteWhich,
           ImportServer, PutGFWList, TestHttpLatency, Refuse, Enter, Begin, Goto, IfRunning
  <1>3. ~job'.retry \/ job'.op = "Connect"
    BY RequestBegins DEF Began
  <1> QED BY <1>1, <1>2, <1>3 DEF CInv, RestoreInv, Restoring

LEMMA OutcomeCInv ==
  ASSUME CInv, Outcome
  PROVE  CInv'
  <1>1. RInv'
    BY OutcomeRInv DEF CInv
  <1> USE DEF CInv, RInv, TypeOK, Threads, Goto
  <1>2. pc'["updater"] = "idle"
    BY DEF Outcome, ConnectFailed, DisconnectFailed, ReplaceFailed, SubscriptionFailed, ApplyFailed,
           Restored, Reloaded, ReloadAgain, TestStarted, TestsDone, TestEnded, Return, WriteBack, Answer
  <1>3. CASE ConnectFailed \/ DisconnectFailed
    <2>1. job'.op \notin Restoring /\ pc'["request"] # "tests"
      BY <1>3 DEF ConnectFailed, DisconnectFailed, ReloadFailed, WriteBack, Answer, Restoring,
                  Jobs, IfRunning
    <2> QED BY <1>1, <1>2, <2>1 DEF RestoreInv
  <1>4. CASE ReplaceFailed \/ SubscriptionFailed \/ ApplyFailed
    <2>1. /\ pc'["request"] \in {"build", "done"}
          /\ pc'["request"] = "done" => job'.lost
          /\ job'.error
      BY <1>4 DEF ReplaceFailed, SubscriptionFailed, ApplyFailed, WriteBack, Jobs
    <2> QED BY <1>1, <1>2, <2>1 DEF RestoreInv
  <1>5. CASE Restored
    <2>1. /\ pc'["request"] = "done"
          /\ job' = [job EXCEPT !.unrestored = failed["request"]]
          /\ pc["request"] = "updated"
          /\ UNCHANGED <<core, crashed>>
      BY <1>5 DEF Restored
    <2>2. /\ job'.retry = job.retry /\ job'.lost = job.lost /\ job'.op = job.op
          /\ job'.error = job.error /\ job'.backup = job.backup
          /\ job'.unrestored = failed["request"]
      BY <2>1 DEF Jobs
    <2> QED BY <1>1, <1>2, <2>1, <2>2 DEF RestoreInv, Goal, NothingToRun
  <1>6. CASE Reloaded
    <2>1. ~job'.retry /\ pc'["request"] = "done"
      BY <1>6 DEF Reloaded, Answer, Jobs
    <2> QED BY <1>1, <1>2, <2>1 DEF RestoreInv
  <1>7. CASE ReloadAgain \/ TestStarted \/ TestsDone \/ TestEnded
    <2>1. job'.op \in {"Import", "Latency"} /\ (pc'["request"] = "tests" => job'.op = "Latency")
      BY <1>7 DEF ReloadAgain, TestStarted, TestsDone, TestEnded, Answer, Jobs
    <2> QED BY <1>1, <1>2, <2>1 DEF RestoreInv, Restoring
  <1>8. CASE Return
    BY <1>1, <1>2, <1>8 DEF Return, RestoreInv
  <1> QED BY <1>3, <1>4, <1>5, <1>6, <1>7, <1>8 DEF Outcome

LEMMA NextCInv == CInv /\ [Next]_vars => CInv'
  <1> SUFFICES ASSUME CInv, [Next]_vars PROVE CInv'
    OBVIOUS
  <1>1. RInv'
    BY NextRInv DEF CInv
  <1>2. ~BackgroundUpdate /\ ~BackgroundDone
    BY DEF CInv, BackgroundUpdate, BackgroundDone
  <1>3. CASE Crash
    BY <1>1, <1>3 DEF Crash, CInv, RestoreInv
  <1>4. CASE UNCHANGED vars
    BY <1>1, <1>4 DEF vars, CInv, RestoreInv, Goal, NothingToRun
  <1> QED BY <1>2, <1>3, <1>4, RequestCInv, OutcomeCInv, ReloadCInv DEF Next

-----------------------------------------------------------------------------
(* Core and store never part silently, and a latency test gives back what  *)
(* it borrowed.  Again without the background update.                      *)

\* The core in place is the one for the tests.
Testing == job.op = "Latency" /\ ~job.retry
InStep == core \in {Off, store}

\* What each place of a request says of core and store.
StepInv ==
    /\ pc["request"] = "idle" => InStep \/ excused
    /\ pc["request"] \in {"build", "stop"} => ~Testing
    /\ pc["request"] = "start" => tmpl["request"] = IF Testing THEN Test ELSE store
    /\ pc["request"] = "commit" => Testing \/ InStep
    /\ pc["request"] = "updated" => Testing \/ InStep \/ failed["request"]
    /\ pc["request"] = "tests" => Testing
    /\ pc["request"] = "done" => InStep \/ job.error \/ (excused /\ store = job.backup)
    /\ job.retry => job.error \/ job.op = "Latency"

\* What each place of the second half of a latency test says.
BorrowInv ==
    job.op = "Latency" =>
        /\ job.retry /\ pc["request"] \in {"build", "start"} => GiveBack
        /\ job.retry /\ pc["request"] = "stop" => ~GiveBack
        /\ job.retry /\ pc["request"] = "commit" => GiveBack /\ (core = store \/ crashed)
        /\ job.retry /\ pc["request"] = "updated" => core = (IF GiveBack THEN store ELSE Off) \/ crashed \/ failed["request"]
        /\ pc["request"] = "done" => core = (IF GiveBack THEN store ELSE Off) \/ crashed \/ job.error

MInv == CInv /\ StepInv /\ BorrowInv
LEMMA ReloadMInv ==
  ASSUME MInv, NEW t \in Threads, Reload(t)
  PROVE  MInv'
  <1>1. CInv'
    BY ReloadCInv DEF MInv
  <1>2. t = "request"
    BY DEF MInv, CInv, Threads, Reload, NewTemplateFromConnectedServers, Stop, StartProcess, StartCommit
  <1>3. UNCHANGED <<store, job, crashed, excused>>
    BY DEF Reload, NewTemplateFromConnectedServers, Stop, StartProcess, StartCommit
  <1>4. TypeOK
    BY DEF MInv, CInv, RInv
  <1> USE <1>2, <1>3, <1>4 DEF TypeOK, Threads, Goto, Updated
  <1> USE DEF MInv, Testing, InStep, GiveBack
  <1>5. CASE NewTemplateFromConnectedServers(t)
    <2>1. StepInv'
      BY <1>5 DEF NewTemplateFromConnectedServers, StepInv
    <2>2. BorrowInv'
      BY <1>5 DEF NewTemplateFromConnectedServers, StepInv, BorrowInv, NothingToRun
    <2> QED BY <1>1, <2>1, <2>2
  <1>6. CASE Stop(t)
    BY <1>1, <1>6 DEF Stop, StepInv, BorrowInv
  <1>7. CASE StartProcess(t)
    <2>1. StepInv'
      BY <1>7 DEF StartProcess, Refused, NotSpawned, Spawned, StepInv
    <2>2. BorrowInv'
      BY <1>7 DEF StartProcess, Refused, NotSpawned, Spawned, StepInv, BorrowInv
    <2> QED BY <1>1, <2>1, <2>2
  <1>8. CASE StartCommit(t)
    <2>1. StepInv'
      BY <1>8 DEF StartCommit, StepInv
    <2>2. BorrowInv'
      BY <1>8, SMTT(30) DEF StartCommit, StepInv, BorrowInv
    <2> QED BY <1>1, <2>1, <2>2
  <1> QED BY <1>5, <1>6, <1>7, <1>8 DEF Reload

LEMMA RequestMInv ==
  ASSUME MInv, Request
  PROVE  MInv'
  <1>1. CInv'
    BY RequestCInv DEF MInv
  <1>2. pc["request"] = "idle" /\ UNCHANGED <<core, excused>>
    BY DEF Request, StartV2ray, StopV2ray, Connect, Disconnect, replaceOutboundConnections,
           applyCoreConfig, storeSubscriptionUpdate, DeleteWhich, ImportServer, PutGFWList,
           TestHttpLatency, Refuse, Enter, Begin
  <1>3. InStep \/ excused
    BY <1>2 DEF MInv, StepInv
  <1>4. pc \in [Threads -> Labels] /\ tmpl \in [Threads -> Configs \cup {Test}]
    BY DEF MInv, CInv, RInv, TypeOK
  \* The job as Begin makes it, and where the request goes on.
  <1> DEFINE Went(op, error, retry, label) ==
               /\ job' = [op |-> op, backup |-> store, was |-> Running, error |-> error,
                          lost |-> FALSE, retry |-> retry, unrestored |-> FALSE]
               /\ pc' = [pc EXCEPT !["request"] = label]
  <1>5. \/ \E op \in Operations, retry \in BOOLEAN : Went(op, TRUE, retry, "done")
        \/ \E op \in Operations : op # "Latency" /\ \E error \in BOOLEAN : Went(op, error, error, "build")
        \/ \E op \in Operations : op # "Latency" /\ Went(op, FALSE, FALSE, "stop")
        \/ \E op \in Operations : op # "Latency" /\ Went(op, FALSE, FALSE, "done") /\ (core = Off \/ store' = store)
        \/ Went("Latency", FALSE, FALSE, "start") /\ tmpl' = [tmpl EXCEPT !["request"] = Test]
    <2> USE DEF Goto, Running
    <2>1. CASE StartV2ray
      BY <2>1, Zenon DEF StartV2ray, Refuse, Enter, Begin
    <2>2. CASE StopV2ray
      BY <2>2, Zenon DEF StopV2ray, Refuse, Enter, Begin
    <2>3. CASE Connect
      BY <2>3, Zenon DEF Connect, Refuse, Enter, Begin
    <2>4. CASE Disconnect
      BY <2>4, Zenon DEF Disconnect, Refuse, Enter, Begin, IfRunning
    <2>5. CASE replaceOutboundConnections
      BY <2>5, Zenon DEF replaceOutboundConnections, Refuse, Enter, Begin, IfRunning
    <2>6. CASE applyCoreConfig
      BY <2>6, Zenon DEF applyCoreConfig, Refuse, Enter, Begin, IfRunning
    <2>7. CASE storeSubscriptionUpdate
      BY <2>7, Zenon DEF storeSubscriptionUpdate, Refuse, Enter, Begin, IfRunning
    <2>8. CASE DeleteWhich
      BY <2>8, Zenon DEF DeleteWhich, Refuse, Enter, Begin, IfRunning
    <2>9. CASE ImportServer
      BY <2>9, Zenon DEF ImportServer, Refuse, Enter, Begin
    <2>10. CASE PutGFWList
      BY <2>10, Zenon DEF PutGFWList, Refuse, Enter, Begin
    <2>11. CASE TestHttpLatency
      BY <2>11, Zenon DEF TestHttpLatency, Refuse, Enter, Begin
    <2> QED BY <2>1, <2>2, <2>3, <2>4, <2>5, <2>6, <2>7, <2>8, <2>9, <2>10, <2>11 DEF Request
  <1> USE DEF MInv, StepInv, BorrowInv, Testing, InStep, Threads
  <1>6. ASSUME NEW op \in Operations, NEW retry \in BOOLEAN, Went(op, TRUE, retry, "done") PROVE MInv'
    BY <1>1, <1>4, <1>6
  <1>7. ASSUME NEW op \in Operations, op # "Latency", NEW error \in BOOLEAN, NEW label \in {"build", "stop"},
               Went(op, error, error, label)
        PROVE  MInv'
    BY <1>1, <1>4, <1>7
  <1>8. ASSUME NEW op \in Operations, op # "Latency", Went(op, FALSE, FALSE, "done"), core = Off \/ store' = store PROVE MInv'
    BY <1>1, <1>2, <1>3, <1>4, <1>8
  <1>9. ASSUME Went("Latency", FALSE, FALSE, "start"), tmpl' = [tmpl EXCEPT !["request"] = Test] PROVE MInv'
    BY <1>1, <1>4, <1>9
  <1> HIDE DEF Went, MInv, StepInv, BorrowInv, Testing, InStep, Threads
  <1> QED BY <1>5, <1>6, <1>7, <1>8, <1>9

LEMMA OutcomeMInv ==
  ASSUME MInv, Outcome
  PROVE  MInv'
  <1>1. CInv'
    BY OutcomeCInv DEF MInv
  <1>2. TypeOK
    BY DEF MInv, CInv, RInv
  <1>3. UNCHANGED <<core, tmpl, failed, crashed>>
    BY DEF Outcome, ConnectFailed, DisconnectFailed, ReplaceFailed, SubscriptionFailed, ApplyFailed,
           Restored, Reloaded, ReloadAgain, TestStarted, TestsDone, TestEnded, Return, WriteBack, Answer
  <1> USE <1>2, <1>3 DEF TypeOK, Threads, Goto, Testing, InStep
  <1>4. CASE ConnectFailed \/ DisconnectFailed \/ ReplaceFailed \/ SubscriptionFailed \/ ApplyFailed
    <2>1. /\ job'.error /\ job'.op = job.op /\ job.op # "Latency"
          /\ pc'["request"] = "done" \/ (pc'["request"] = "build" /\ job'.retry)
      <3>1. ASSUME NEW written \in BOOLEAN, NEW label, WriteBack(written, label)
            PROVE  job'.error /\ job'.retry /\ job'.op = job.op /\ pc'["request"] = label
        BY <3>1 DEF WriteBack, Jobs
      <3>2. ASSUME Answer(TRUE) PROVE job'.error /\ job'.op = job.op /\ pc'["request"] = "done"
        BY <3>2 DEF Answer, Jobs
      <3> QED BY <1>4, <3>1, <3>2 DEF ConnectFailed, DisconnectFailed, ReplaceFailed, SubscriptionFailed,
                  ApplyFailed, ReloadFailed, IfRunning
    <2> QED BY <1>1, <2>1 DEF MInv, StepInv, BorrowInv
  <1>5. CASE Restored
    <2>1. /\ pc'["request"] = "done" /\ pc["request"] = "updated" /\ UNCHANGED <<store, excused>>
          /\ job'.op = job.op /\ job.op # "Latency" /\ job'.error = job.error /\ job'.retry = job.retry /\ job.retry
      BY <1>5 DEF Restored, Jobs
    <2> QED BY <1>1, <2>1 DEF MInv, StepInv, BorrowInv
  <1>6. CASE Reloaded
    <2>1. /\ pc'["request"] = "done" /\ pc["request"] = "updated" /\ UNCHANGED <<store, excused>>
          /\ job'.op = job.op /\ job.op # "Latency" /\ job'.error = failed["request"] /\ ~job'.retry
      BY <1>6 DEF Reloaded, Answer, Jobs
    <2> QED BY <1>1, <2>1 DEF MInv, StepInv, BorrowInv
  <1>7. CASE ReloadAgain
    BY <1>1, <1>7 DEF ReloadAgain, MInv, StepInv, BorrowInv
  <1>8. CASE TestStarted \/ TestsDone
    <2>1. /\ job.op = "Latency" /\ job'.op = job.op /\ job'.was = job.was /\ UNCHANGED <<store, excused>>
          /\ \/ pc'["request"] = "tests" /\ ~job'.retry
             \/ /\ job'.retry
                /\ \/ pc'["request"] = "build" /\ GiveBack
                   \/ pc'["request"] = "stop" /\ ~GiveBack
                   \/ pc'["request"] = "done" /\ job'.error
      BY <1>8 DEF TestStarted, TestsDone, MInv, CInv, Jobs
    <2>2. GiveBack' <=> GiveBack
      BY <2>1 DEF GiveBack
    <2>3. StepInv'
      BY <2>1 DEF StepInv
    <2>4. BorrowInv'
      BY <2>1, <2>2 DEF BorrowInv
    <2> QED BY <1>1, <2>3, <2>4 DEF MInv
  <1>9. CASE TestEnded
    <2>1. /\ pc'["request"] = "done" /\ pc["request"] = "updated" /\ UNCHANGED <<store, excused>>
          /\ job.op = "Latency" /\ job'.op = job.op /\ job'.was = job.was /\ job.retry /\ job'.retry
          /\ failed["request"] => job'.error
      BY <1>9 DEF TestEnded, Answer, Jobs
    <2>2. GiveBack' <=> GiveBack
      BY <2>1 DEF GiveBack
    <2>3. StepInv'
      BY <2>1 DEF StepInv, MInv
    <2>4. BorrowInv'
      BY <2>1, <2>2 DEF BorrowInv, MInv
    <2> QED BY <1>1, <2>3, <2>4 DEF MInv
  <1>10. CASE Return
    <2>1. /\ pc["request"] = "done" /\ pc'["request"] = "idle" /\ UNCHANGED <<store, job>>
          /\ excused' = (core \notin {Off, store} /\ (job.error \/ (excused /\ store = job.backup)))
      BY <1>10 DEF Return
    <2>2. InStep \/ job.error \/ (excused /\ store = job.backup)
      BY <2>1 DEF MInv, StepInv
    <2>3. InStep' \/ excused'
      BY <2>1, <2>2, Zenon DEF InStep
    <2> QED BY <1>1, <2>1, <2>3 DEF MInv, StepInv, BorrowInv
  <1> QED BY <1>4, <1>5, <1>6, <1>7, <1>8, <1>9, <1>10 DEF Outcome

LEMMA NextMInv == MInv /\ [Next]_vars => MInv'
  <1> SUFFICES ASSUME MInv, [Next]_vars PROVE MInv'
    OBVIOUS
  <1>1. CInv'
    BY NextCInv DEF MInv
  <1>2. ~BackgroundUpdate /\ ~BackgroundDone
    BY DEF MInv, CInv, BackgroundUpdate, BackgroundDone
  <1>3. CASE Crash
    BY <1>1, <1>3 DEF Crash, MInv, StepInv, BorrowInv, Testing, InStep, GiveBack
  <1>4. CASE UNCHANGED vars
    BY <1>1, <1>4 DEF vars, MInv, StepInv, BorrowInv, Testing, InStep, GiveBack
  <1> QED BY <1>2, <1>3, <1>4, RequestMInv, OutcomeMInv, ReloadMInv DEF Next

LEMMA CInvInit == ~Background /\ Init => MInv
  <1> SUFFICES ASSUME ~Background, Init PROVE MInv
    OBVIOUS
  <1>1. CInv
    BY RInvInit DEF CInv, RestoreInv, Init, Threads
  <1> QED BY <1>1 DEF MInv, StepInv, BorrowInv, Testing, InStep, Init, Threads

\* Without the background update, a failed change of the selection, the
\* settings or a subscription leaves the stored configuration and, when its
\* second reload succeeds, the core it found; and a latency test that succeeds
\* gives the host back (Connect, replaceOutboundConnections, applyCoreConfig,
\* storeSubscriptionUpdate, TestHttpLatency): for any selections and settings,
\* whatever failed on the way and whenever a core died.
THEOREM Restores == ~Background /\ Spec => []FailureRestores
  <1>1. MInv => FailureRestores
    <2> SUFFICES ASSUME MInv PROVE FailureRestores
      OBVIOUS
    <2>1. FailureRestoresStore
      BY DEF MInv, CInv, RInv, StoreInv, FailureRestoresStore, RollingBack, Jobs, TypeOK
    <2>2. FailureRestoresCore
      BY DEF MInv, CInv, RestoreInv, FailureRestoresCore, Answered, Goal, Restoring
    <2>3. LatencyGivesBack
      BY DEF MInv, BorrowInv, LatencyGivesBack, Answered, GiveBack
    <2> QED BY <2>1, <2>2, <2>3 DEF FailureRestores
  <1> QED BY <1>1, CInvInit, NextMInv, PTL DEF Spec

\* Without the background update, core and store never part silently between
\* requests: a core that runs what is not stored was left by a request that
\* answered an error, and by no success since.
THEOREM MismatchReported == ~Background /\ Spec => []MismatchIsReported
  <1>1. MInv => MismatchIsReported
    BY DEF MInv, StepInv, InStep, MismatchIsReported
  <1> QED BY <1>1, CInvInit, NextMInv, PTL DEF Spec

-----------------------------------------------------------------------------
(* The automation worker.                                                  *)

USE DEF requests, conf, schedule, groups, pass

\* The type invariant, by the parts of the state that steps leave alone.
RequestType ==
    /\ req \in [Requests -> {"waiting", "turn", "polling", "mutating", "releasing", "done", "refused"}]
    /\ mutation \in Requests \cup {NoOne}
    /\ configMu \in Requests \cup {"worker", NoOne}
    /\ ctx \in {"none", "live", "cancelled"}
FlagType == wake \in BOOLEAN /\ stopping \in BOOLEAN /\ regularDue \in BOOLEAN
VersionType ==
    /\ policy \in [Subs -> 0..MaxVersion]
    /\ catalog \in 1..MaxVersion
    /\ sawPolicy \in [Subs -> 0..MaxVersion]
    /\ sawCatalog \in 0..MaxVersion
    /\ signature \in [Subs -> 0..MaxVersion]
    /\ groupSignature \in [Groups -> 0..MaxVersion]
PassType ==
    /\ wpc \in {"enter", "read", "subs", "health", "fetch", "update", "finish", "check",
                "catalog", "groups", "probe", "lock", "write", "sleep", "asleep", "ended"}
    /\ todo \in (SUBSET Subs) \cup (SUBSET Groups)
    /\ cur \in Subs \cup Groups \cup {NoOne}
DeadlineType ==
    /\ nextUpdate \in [Subs -> Deadlines]
    /\ nextHealth \in [Subs -> Deadlines]
    /\ nextRetry \in [Subs -> Deadlines]
    /\ groupNext \in [Groups -> Deadlines]

\* Who holds ConfigurationMu across steps is where it holds it.
MuInv ==
    /\ \A r \in Requests : req[r] = "mutating" <=> configMu = r
    /\ wpc = "write" <=> configMu = "worker"

\* A pass has a context and works on subscriptions it has seen enabled.
PassInv ==
    /\ wpc \notin {"enter", "sleep", "asleep", "ended"} => ctx # "none"
    /\ wpc = "subs" => \A s \in todo : s \in Subs /\ sawPolicy[s] # 0
    /\ wpc \in {"health", "fetch", "update", "finish", "check"} =>
          /\ cur \in Subs /\ sawPolicy[cur] # 0
          /\ \A s \in todo : s \in Subs /\ sawPolicy[s] # 0

\* What the write relies on.
ProbeInv == wpc = "write" => sawCatalog = catalog

\* Recovery's deadlines are there at every moment of a pass, not only at its end.
KeepInv ==
    \A s \in Subs : Failsafe(s) /\ signature[s] # 0 =>
        nextUpdate[s] # "none" /\ (nextHealth[s] # "none" \/ nextRetry[s] # "none")

AutoType == RequestType /\ FlagType /\ VersionType /\ PassType /\ DeadlineType
AutoInv == AutoType /\ MuInv /\ PassInv /\ ProbeInv /\ KeepInv

LEMMA TypeParts == AutoType <=> AutomationTypeOK
  BY DEF AutoType, RequestType, FlagType, VersionType, PassType, DeadlineType, AutomationTypeOK

LEMMA AutoInit == AutomationInit => AutoInv
  <1> SUFFICES ASSUME AutomationInit PROVE AutoInv
    OBVIOUS
  <1> USE AutomationAssumption DEF AutomationInit
  <1>1. RequestType
    BY DEF RequestType
  <1>2. FlagType
    BY DEF FlagType
  <1>3. VersionType
    BY DEF VersionType
  <1>4. PassType
    BY DEF PassType
  <1>5. DeadlineType
    BY DEF DeadlineType, Deadlines
  <1>6. MuInv /\ PassInv /\ ProbeInv /\ KeepInv
    BY DEF MuInv, PassInv, ProbeInv, KeepInv
  <1> QED BY <1>1, <1>2, <1>3, <1>4, <1>5, <1>6 DEF AutoInv, AutoType

-----------------------------------------------------------------------------
(* Steps that leave the pass and its schedules alone.                      *)

\* What the steps of the requests do, seen from the worker.
LEMMA Outside ==
  ASSUME AutoInv, RequestType', FlagType', VersionType', MuInv',
         UNCHANGED <<pass, schedule, groups>>, ctx = "none" \/ ctx' # "none",
         catalog' = catalog \/ configMu # "worker"
  PROVE  AutoInv'
  <1>1. PassType' /\ DeadlineType'
    BY DEF AutoInv, AutoType, PassType, DeadlineType
  <1>2. PassInv'
    BY DEF AutoInv, PassInv
  <1>3. ProbeInv'
    BY DEF AutoInv, MuInv, ProbeInv
  <1>4. KeepInv'
    BY DEF AutoInv, KeepInv, Failsafe
  <1> QED BY <1>1, <1>2, <1>3, <1>4 DEF AutoInv, AutoType

LEMMA AutoRequest ==
  ASSUME AutoInv, NEW r \in Requests,
         TakeTurn(r) \/ GiveUp(r) \/ TryLock(r) \/ Mutate(r) \/ Release(r)
  PROVE  AutoInv'
  <1> USE AutomationAssumption
  <1>1. RequestType'
    BY DEF AutoInv, AutoType, RequestType, TakeTurn, GiveUp, TryLock, Mutate, Release
  <1>2. FlagType'
    BY DEF AutoInv, AutoType, FlagType, TakeTurn, GiveUp, TryLock, Mutate, Release
  <1>3. VersionType'
    <2>1. CASE Mutate(r)
      <3>1. catalog' \in 1..MaxVersion /\ policy' \in [Subs -> 0..MaxVersion]
        BY <2>1 DEF Mutate, AutoInv, AutoType, VersionType
      <3> QED BY <2>1, <3>1 DEF Mutate, AutoInv, AutoType, VersionType
    <2>2. CASE TakeTurn(r) \/ GiveUp(r) \/ TryLock(r) \/ Release(r)
      BY <2>2 DEF AutoInv, AutoType, VersionType, TakeTurn, GiveUp, TryLock, Release
    <2> QED BY <2>1, <2>2
  <1>4. MuInv'
    <2>1. CASE TakeTurn(r) \/ GiveUp(r) \/ Release(r)
      BY <2>1 DEF AutoInv, AutoType, RequestType, MuInv, TakeTurn, GiveUp, Release
    <2>2. CASE TryLock(r)
      BY <2>2 DEF AutoInv, AutoType, RequestType, MuInv, TryLock
    <2>3. CASE Mutate(r)
      BY <2>3 DEF AutoInv, AutoType, RequestType, MuInv, Mutate
    <2> QED BY <2>1, <2>2, <2>3
  <1>5. /\ UNCHANGED <<pass, schedule, groups>>
        /\ ctx = "none" \/ ctx' # "none"
        /\ catalog' = catalog \/ configMu # "worker"
    BY DEF AutoInv, AutoType, RequestType, MuInv, TakeTurn, GiveUp, TryLock, Mutate, Release
  <1> QED BY <1>1, <1>2, <1>3, <1>4, <1>5, Outside

LEMMA AutoStop ==
  ASSUME AutoInv, StopAutomation
  PROVE  AutoInv'
  <1>1. RequestType' /\ VersionType'
    BY DEF AutoInv, AutoType, RequestType, VersionType, StopAutomation
  <1>2. FlagType'
    BY DEF AutoInv, AutoType, FlagType, StopAutomation
  <1>3. MuInv'
    BY DEF AutoInv, MuInv, StopAutomation
  <1>4. UNCHANGED <<pass, schedule, groups>> /\ (ctx = "none" \/ ctx' # "none") /\ catalog' = catalog
    BY DEF StopAutomation
  <1> QED BY <1>1, <1>2, <1>3, <1>4, Outside

-----------------------------------------------------------------------------
(* The steps of the worker, by the part of the state they are about.       *)

LEMMA WorkerRequest ==
  ASSUME AutoInv, Worker \/ Tick
  PROVE  RequestType' /\ FlagType'
  <1>1. UNCHANGED <<req, mutation, stopping>>
    BY DEF Worker, Tick, StepEnter, StepRead, Process, Health, Fetch, ApplyUpdate, Finish, Check,
           StepCatalog, ProcessGroup, ProbeGroup, LockGroup, WriteGroup, StepReturn, Sleep, WorkerEnds
  <1>2. configMu' \in {configMu, "worker", NoOne}
    BY DEF Worker, Tick, StepEnter, StepRead, Process, Health, Fetch, ApplyUpdate, Finish, Check,
           StepCatalog, ProcessGroup, ProbeGroup, LockGroup, WriteGroup, StepReturn, Sleep, WorkerEnds
  <1>3. ctx' \in {ctx, "none", "live", "cancelled"}
    BY DEF Worker, Tick, StepEnter, StepRead, Process, Health, Fetch, ApplyUpdate, Finish, Check,
           StepCatalog, ProcessGroup, ProbeGroup, LockGroup, WriteGroup, StepReturn, Sleep, WorkerEnds
  <1>4. wake' \in {wake, FALSE}
    BY DEF Worker, Tick, StepEnter, StepRead, Process, Health, Fetch, ApplyUpdate, Finish, Check,
           StepCatalog, ProcessGroup, ProbeGroup, LockGroup, WriteGroup, StepReturn, Sleep, WorkerEnds
  <1>5. regularDue' \in BOOLEAN
    <2>1. ASSUME NEW s \in Subs, Process(s) PROVE regularDue' \in BOOLEAN
      <3>1. regularDue' = (signature[s] # sawPolicy[s] \/ nextUpdate[s] = "due")
        BY <2>1 DEF Process
      <3> QED BY <3>1, Zenon
    <2>2. regularDue' = regularDue \/ \E s \in Subs : Process(s)
      BY DEF Worker, Tick, StepEnter, StepRead, Health, Fetch, ApplyUpdate, Finish, Check,
             StepCatalog, ProcessGroup, ProbeGroup, LockGroup, WriteGroup, StepReturn, Sleep, WorkerEnds
    <2>3. regularDue \in BOOLEAN
      BY DEF AutoInv, AutoType, FlagType
    <2> QED BY <2>1, <2>2, <2>3, Zenon
  <1>6. RequestType'
    BY <1>1, <1>2, <1>3 DEF AutoInv, AutoType, RequestType
  <1>7. FlagType'
    BY <1>1, <1>4, <1>5 DEF AutoInv, AutoType, FlagType
  <1> QED BY <1>6, <1>7

LEMMA WorkerVersion ==
  ASSUME AutoInv, Worker \/ Tick
  PROVE  VersionType'
  <1> USE AutomationAssumption DEF AutoInv, AutoType, VersionType
  <1>1. CASE StepRead
    BY <1>1 DEF StepRead
  <1>2. ASSUME NEW s \in Subs, Process(s) PROVE VersionType'
    <2>1. signature' = [signature EXCEPT ![s] = sawPolicy[s]]
      BY <1>2 DEF Process
    <2>2. UNCHANGED <<policy, catalog, sawPolicy, sawCatalog, groupSignature>>
      BY <1>2 DEF Process
    <2> QED BY <2>1, <2>2
  <1>3. CASE ApplyUpdate
    BY <1>3 DEF ApplyUpdate
  <1>4. CASE StepCatalog
    BY <1>4 DEF StepCatalog
  <1>5. ASSUME NEW g \in Groups, ProcessGroup(g) PROVE VersionType'
    BY <1>5 DEF ProcessGroup
  <1>6. CASE \/ StepEnter \/ Health \/ Fetch \/ Finish \/ Check \/ ProbeGroup \/ LockGroup
             \/ WriteGroup \/ StepReturn \/ Sleep \/ WorkerEnds \/ Tick
    BY <1>6 DEF StepEnter, Health, Fetch, Finish, Check, ProbeGroup, LockGroup, WriteGroup,
                StepReturn, Sleep, WorkerEnds, Tick
  <1> QED BY <1>1, <1>2, <1>3, <1>4, <1>5, <1>6 DEF Worker

LEMMA WorkerPass ==
  ASSUME AutoInv, Worker \/ Tick
  PROVE  PassType'
  <1> USE DEF AutoInv, AutoType, PassType
  <1>1. CASE StepEnter \/ StepRead \/ Sleep \/ WorkerEnds \/ Tick \/ StepReturn
    BY <1>1 DEF StepEnter, StepRead, Sleep, WorkerEnds, Tick, StepReturn, PassReturns
  <1>2. ASSUME NEW s \in Subs, Process(s) PROVE PassType'
    BY <1>2 DEF Process
  <1>3. CASE Health \/ Fetch \/ ApplyUpdate \/ Finish \/ Check
    BY <1>3 DEF Health, Fetch, ApplyUpdate, Finish, Check, PassReturns, NextSub
  <1>4. CASE StepCatalog
    <2>1. todo' = Groups /\ cur' = NoOne /\ wpc' = "groups"
      BY <1>4 DEF StepCatalog
    <2>2. Groups \in (SUBSET Subs) \cup (SUBSET Groups)
      OBVIOUS
    <2> QED BY <2>1, <2>2
  <1>5. ASSUME NEW g \in Groups, ProcessGroup(g) PROVE PassType'
    BY <1>5 DEF ProcessGroup, GroupReturned
  <1>6. CASE ProbeGroup \/ LockGroup \/ WriteGroup
    BY <1>6 DEF ProbeGroup, LockGroup, WriteGroup, GroupDone, GroupReturned
  <1> QED BY <1>1, <1>2, <1>3, <1>4, <1>5, <1>6 DEF Worker

LEMMA WorkerMu ==
  ASSUME AutoInv, Worker \/ Tick
  PROVE  MuInv'
  <1> USE AutomationAssumption DEF AutoInv, AutoType, RequestType, MuInv
  <1>1. CASE LockGroup
    BY <1>1 DEF LockGroup, GroupDone, GroupReturned
  <1>2. CASE WriteGroup
    BY <1>2 DEF WriteGroup, GroupDone, GroupReturned
  <1>3. CASE Tick
    BY <1>3 DEF Tick
  <1>4. CASE \/ StepEnter \/ StepRead \/ \E s \in Subs : Process(s)
             \/ StepCatalog \/ StepReturn \/ Sleep \/ WorkerEnds
    BY <1>4 DEF StepEnter, StepRead, Process, StepCatalog, StepReturn, Sleep, WorkerEnds, PassReturns
  <1>5. CASE Health \/ Fetch \/ ApplyUpdate \/ Finish \/ Check
    BY <1>5 DEF Health, Fetch, ApplyUpdate, Finish, Check, PassReturns, NextSub
  <1>6. CASE ProbeGroup \/ \E g \in Groups : ProcessGroup(g)
    BY <1>6 DEF ProbeGroup, ProcessGroup, GroupDone, GroupReturned
  <1> QED BY <1>1, <1>2, <1>3, <1>4, <1>5, <1>6 DEF Worker

LEMMA WorkerProbe ==
  ASSUME AutoInv, Worker \/ Tick
  PROVE  ProbeInv'
  <1> USE DEF AutoInv, ProbeInv
  <1>1. CASE LockGroup \/ WriteGroup \/ ProbeGroup \/ \E g \in Groups : ProcessGroup(g)
    BY <1>1 DEF LockGroup, WriteGroup, ProbeGroup, ProcessGroup, GroupDone, GroupReturned
  <1>2. CASE Tick
    BY <1>2 DEF Tick
  <1>3. CASE \/ StepEnter \/ StepRead \/ \E s \in Subs : Process(s)
             \/ StepCatalog \/ StepReturn \/ Sleep \/ WorkerEnds
    BY <1>3 DEF StepEnter, StepRead, Process, StepCatalog, StepReturn, Sleep, WorkerEnds, PassReturns
  <1>4. CASE Health \/ Fetch \/ ApplyUpdate \/ Finish \/ Check
    BY <1>4 DEF Health, Fetch, ApplyUpdate, Finish, Check, PassReturns, NextSub
  <1> QED BY <1>1, <1>2, <1>3, <1>4 DEF Worker

LEMMA WorkerPassInv ==
  ASSUME AutoInv, Worker \/ Tick
  PROVE  PassInv'
  <1> USE DEF AutoInv, PassInv
  <1>1. CASE StepEnter \/ Sleep \/ WorkerEnds \/ StepReturn
    BY <1>1 DEF StepEnter, Sleep, WorkerEnds, StepReturn, PassReturns
  <1>2. CASE StepRead
    BY <1>2 DEF StepRead
  <1>3. CASE Tick
    BY <1>3 DEF Tick
  <1>4. ASSUME NEW s \in Subs, Process(s) PROVE PassInv'
    <2>1. /\ wpc = "subs" /\ s \in todo /\ cur' = s /\ todo' = todo \ {s}
          /\ wpc' \in {"subs", "health", "fetch"}
          /\ UNCHANGED <<sawPolicy, ctx>>
      BY <1>4 DEF Process
    <2> QED BY <2>1
  <1>5. CASE Health \/ Fetch
    BY <1>5 DEF Health, Fetch, PassReturns, NextSub
  <1>6. CASE ApplyUpdate
    BY <1>6 DEF ApplyUpdate
  <1>7. CASE Finish \/ Check
    BY <1>7 DEF Finish, Check, PassReturns, NextSub
  <1>8. CASE StepCatalog
    <2>1. wpc = "subs" /\ wpc' = "groups" /\ ctx' = ctx
      BY <1>8 DEF StepCatalog
    <2> QED BY <2>1
  <1>9. CASE \E g \in Groups : ProcessGroup(g)
    BY <1>9 DEF ProcessGroup, GroupReturned
  <1>10. CASE ProbeGroup \/ LockGroup \/ WriteGroup
    BY <1>10 DEF ProbeGroup, LockGroup, WriteGroup, GroupDone, GroupReturned
  <1> QED BY <1>1, <1>2, <1>3, <1>4, <1>5, <1>6, <1>7, <1>8, <1>9, <1>10 DEF Worker

\* Deadlines: the types and what recovery keeps, together.
DeadlinesKept == DeadlineType' /\ KeepInv'

LEMMA KeepIfUntouched ==
  ASSUME AutoInv, UNCHANGED <<nextUpdate, nextHealth, nextRetry, signature>>,
         groupNext' \in [Groups -> Deadlines]
  PROVE  DeadlinesKept
  BY DEF DeadlinesKept, AutoInv, AutoType, DeadlineType, KeepInv, Failsafe

LEMMA KeepProcess ==
  ASSUME AutoInv, NEW s \in Subs, Process(s)
  PROVE  DeadlinesKept
  <1> DEFINE fresh == signature[s] # sawPolicy[s]
             regular == fresh \/ nextUpdate[s] = "due"
             retry == ~fresh /\ nextRetry[s] = "due"
             health == ~fresh /\ nextHealth[s] = "due"
  <1>1. /\ sawPolicy[s] # 0
        /\ signature' = [signature EXCEPT ![s] = sawPolicy[s]]
        /\ UNCHANGED groupNext
    BY DEF Process, AutoInv, PassInv
  <1>2. CASE ~regular /\ ~retry
    <2>1. /\ nextHealth' = nextHealth \/ nextHealth' = [nextHealth EXCEPT ![s] = "later"]
          /\ UNCHANGED <<nextUpdate, nextRetry>>
      BY <1>2 DEF Process
    <2>2. signature[s] = sawPolicy[s]
      BY <1>2
    <2>3. DeadlineType'
      BY <1>1, <2>1 DEF AutoInv, AutoType, DeadlineType, Deadlines
    <2>4. KeepInv'
      BY <1>1, <2>1, <2>2 DEF AutoInv, AutoType, VersionType, DeadlineType, KeepInv, Failsafe
    <2> QED BY <2>3, <2>4 DEF DeadlinesKept
  <1>3. CASE regular \/ retry
    <2>1. /\ nextUpdate' = IF ~Failsafe(s)
                           THEN IF fresh THEN [nextUpdate EXCEPT ![s] = "due"] ELSE nextUpdate
                           ELSE IF regular THEN [nextUpdate EXCEPT ![s] = "later"] ELSE nextUpdate
          /\ nextHealth' = IF Failsafe(s) \/ fresh THEN [nextHealth EXCEPT ![s] = "none"] ELSE nextHealth
          /\ nextRetry' = IF Failsafe(s) THEN [nextRetry EXCEPT ![s] = "later"]
                          ELSE IF fresh THEN [nextRetry EXCEPT ![s] = "none"] ELSE nextRetry
      BY <1>3 DEF Process
    <2>2. DeadlineType'
      BY <1>1, <2>1 DEF AutoInv, AutoType, DeadlineType, Deadlines
    <2>3. KeepInv'
      <3> SUFFICES ASSUME NEW t \in Subs, Failsafe(t), signature'[t] # 0
                   PROVE  nextUpdate'[t] # "none" /\ (nextHealth'[t] # "none" \/ nextRetry'[t] # "none")
        BY DEF KeepInv, Failsafe
      <3>1. CASE t # s
        BY <3>1, <1>1, <2>1 DEF AutoInv, AutoType, VersionType, DeadlineType, KeepInv
      <3>2. CASE t = s
        <4>1. nextRetry'[s] = "later"
          BY <3>2, <2>1 DEF AutoInv, AutoType, DeadlineType
        <4>2. CASE regular
          BY <4>1, <4>2, <3>2, <2>1 DEF AutoInv, AutoType, DeadlineType
        <4>3. CASE ~regular
          BY <4>1, <4>3, <3>2, <2>1, <1>1 DEF AutoInv, AutoType, DeadlineType, KeepInv
        <4> QED BY <4>2, <4>3
      <3> QED BY <3>1, <3>2
    <2> QED BY <2>2, <2>3 DEF DeadlinesKept
  <1> QED BY <1>2, <1>3

LEMMA KeepCurrent ==
  ASSUME AutoInv, Health \/ Fetch \/ Finish \/ Check
  PROVE  DeadlinesKept
  <1>1. cur \in Subs
    BY DEF AutoInv, PassInv, Health, Fetch, Finish, Check
  <1>2. UNCHANGED <<signature, groupNext>>
    BY DEF Health, Fetch, Finish, Check
  <1>3. DeadlineType'
    BY <1>1, <1>2 DEF AutoInv, AutoType, DeadlineType, Deadlines, Health, Fetch, Finish, Check, Rearmed
  <1>4. KeepInv'
    <2> USE <1>1, <1>2 DEF AutoInv, AutoType, DeadlineType, KeepInv, Failsafe
    <2>1. CASE Health
      BY <2>1 DEF Health
    <2>2. CASE Fetch
      BY <2>2 DEF Fetch, Rearmed
    <2>3. CASE Finish
      BY <2>3 DEF Finish
    <2>4. CASE Check
      BY <2>4 DEF Check, Rearmed
    <2> QED BY <2>1, <2>2, <2>3, <2>4
  <1> QED BY <1>3, <1>4 DEF DeadlinesKept

LEMMA KeepCatalog ==
  ASSUME AutoInv, StepCatalog
  PROVE  DeadlinesKept
  <1> DEFINE gone == {s \in Subs : sawPolicy[s] = 0}
             drop(d, v) == [s \in Subs |-> IF s \in gone THEN v ELSE d[s]]
  <1>1. /\ signature' = drop(signature, 0)
        /\ nextUpdate' = drop(nextUpdate, "none")
        /\ nextHealth' = drop(nextHealth, "none")
        /\ nextRetry' = drop(nextRetry, "none")
        /\ UNCHANGED groupNext
    BY DEF StepCatalog
  <1>2. DeadlineType'
    BY <1>1 DEF AutoInv, AutoType, DeadlineType, Deadlines
  <1>3. KeepInv'
    BY <1>1 DEF AutoInv, KeepInv, Failsafe
  <1> QED BY <1>2, <1>3 DEF DeadlinesKept

LEMMA KeepTick ==
  ASSUME AutoInv, Tick
  PROVE  DeadlinesKept
  <1>1. DeadlineType'
    BY DEF AutoInv, AutoType, DeadlineType, Deadlines, Tick, Elapses
  <1>2. KeepInv'
    BY DEF AutoInv, AutoType, DeadlineType, KeepInv, Failsafe, Tick, Elapses
  <1> QED BY <1>1, <1>2 DEF DeadlinesKept

LEMMA WorkerKeeps ==
  ASSUME AutoInv, Worker \/ Tick
  PROVE  DeadlinesKept
  <1>1. CASE \/ StepEnter \/ StepRead \/ ApplyUpdate \/ StepReturn \/ Sleep \/ WorkerEnds
             \/ \E g \in Groups : ProcessGroup(g)
    <2>1. UNCHANGED <<nextUpdate, nextHealth, nextRetry, signature, groupNext>>
      BY <1>1 DEF StepEnter, StepRead, ApplyUpdate, StepReturn, Sleep, WorkerEnds, ProcessGroup
    <2> QED BY <2>1, KeepIfUntouched DEF AutoInv, AutoType, DeadlineType
  <1>2. CASE ProbeGroup \/ LockGroup \/ WriteGroup
    <2>1. UNCHANGED <<nextUpdate, nextHealth, nextRetry, signature>>
      BY <1>2 DEF ProbeGroup, LockGroup, WriteGroup
    <2>2. groupNext' = groupNext \/ groupNext' = [groupNext EXCEPT ![cur] = "later"]
      BY <1>2 DEF ProbeGroup, LockGroup, WriteGroup, GroupDone
    <2>3. groupNext' \in [Groups -> Deadlines]
      BY <2>2 DEF AutoInv, AutoType, DeadlineType, Deadlines
    <2> QED BY <2>1, <2>3, KeepIfUntouched
  <1> QED BY <1>1, <1>2, KeepProcess, KeepCurrent, KeepCatalog, KeepTick DEF Worker

-----------------------------------------------------------------------------
(* The theorems.                                                           *)

LEMMA AutoNext == AutoInv /\ [AutomationNext]_automationVars => AutoInv'
  <1> SUFFICES ASSUME AutoInv, [AutomationNext]_automationVars PROVE AutoInv'
    OBVIOUS
  <1>1. CASE Worker \/ Tick
    BY <1>1, WorkerRequest, WorkerVersion, WorkerPass, WorkerMu, WorkerProbe, WorkerPassInv, WorkerKeeps
       DEF AutoInv, AutoType, DeadlinesKept
  <1>2. CASE UNCHANGED automationVars
    <2>1. RequestType' /\ FlagType' /\ VersionType'
      BY <1>2 DEF automationVars, AutoInv, AutoType, RequestType, FlagType, VersionType
    <2>2. MuInv' /\ UNCHANGED <<pass, schedule, groups, ctx, catalog>>
      BY <1>2 DEF automationVars, AutoInv, MuInv
    <2> QED BY <2>1, <2>2, Outside
  <1> QED BY <1>1, <1>2, AutoRequest, AutoStop DEF AutomationNext

LEMMA AutoInvariance == AutomationSpec => []AutoInv
  BY AutoInit, AutoNext, PTL DEF AutomationSpec

\* While the worker writes what it probed, nobody else has changed the catalog:
\* every one that could needs ConfigurationMu, which the worker took before it
\* compared what it had probed with what is stored.
THEOREM WritesProbed == AutomationSpec => []WritesWhatItProbed
  <1>1. AutoInv => WritesWhatItProbed
    BY DEF AutoInv, MuInv, ProbeInv, WritesWhatItProbed
  <1> QED BY <1>1, AutoInvariance, PTL

\* Wherever in a pass a request cancels it, every failsafe subscription that has
\* a schedule keeps the deadlines that resume its recovery.
THEOREM RecoveryKeeps == AutomationSpec => []RecoveryKeepsADeadline
  <1>1. AutoInv => RecoveryKeepsADeadline
    BY DEF AutoInv, KeepInv, RecoveryKeepsADeadline
  <1> QED BY <1>1, AutoInvariance, PTL

\* A download is stored only while its subscription still has the policy that
\* the pass read, and only by a pass that has not been cancelled.
THEOREM StoresFetched == AutomationSpec => StoresWhatItFetched
  <1>1. ASSUME AutoInv, [AutomationNext]_automationVars
        PROVE  [configMu = NoOne => StoresWhatItFetchedAct]_automationVars
    <2> SUFFICES ASSUME AutomationNext, configMu = NoOne, wpc = "update", catalog' # catalog
                 PROVE  ctx = "live" /\ policy[cur] = sawPolicy[cur] /\ policy[cur] # 0
      BY <1>1 DEF StoresWhatItFetchedAct
    <2>1. \A r \in Requests : ~Mutate(r)
      BY <1>1, AutomationAssumption DEF AutoInv, MuInv, Mutate
    <2>2. ~StopAutomation /\ ~Tick /\ \A r \in Requests : ~TakeTurn(r) /\ ~GiveUp(r) /\ ~TryLock(r) /\ ~Release(r)
      BY DEF StopAutomation, Tick, TakeTurn, GiveUp, TryLock, Release
    <2>3. ApplyUpdate
      BY <2>1, <2>2 DEF AutomationNext, Worker, StepEnter, StepRead, Process, Health, Fetch, Finish, Check,
         StepCatalog, ProcessGroup, ProbeGroup, LockGroup, WriteGroup, StepReturn, Sleep, WorkerEnds
    <2>4. ~Cancelled /\ policy[cur] = sawPolicy[cur]
      BY <2>3 DEF ApplyUpdate
    <2>5. ctx \in {"live", "cancelled"} /\ sawPolicy[cur] # 0
      BY <1>1 DEF AutoInv, AutoType, RequestType, PassInv
    <2> QED BY <2>4, <2>5 DEF Cancelled
  <1> QED BY <1>1, AutoInvariance, PTL DEF AutomationSpec, StoresWhatItFetched
=============================================================================
