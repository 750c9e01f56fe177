---------------------------- MODULE ConfigApply ----------------------------
(***************************************************************************)
(* How a change of the stored configuration reaches the running core.      *)
(*                                                                         *)
(* The thread "request" is the holder of ConfigurationMu: a dashboard      *)
(* request or a step of the automation worker, one at a time.  The thread  *)
(* "updater" is the background update of the GFWList, which takes no turn. *)
(* Both reload the core through updateV2RayConfig.                         *)
(*                                                                         *)
(* A configuration is what is selected and a version of all the settings.  *)
(* The process manager is reduced to the configuration its core was        *)
(* started from; see CoreProcessManager for what is inside it.  The death  *)
(* of a core and its reaping by handleUnexpectedStop are one step.         *)
(***************************************************************************)
CONSTANTS
    Selections, NoServer,  \* what may be selected; nothing is
    Versions,              \* versions of the settings
    FailClosed,            \* those in which an empty group needs a core
    NeedsGfwlist,          \* those that cannot start without the GFWList
    GfwlistMode,           \* those of them that an update of the list restarts
    Off, Test,             \* no core; the temporary core of a latency test
    Operations,            \* the requests that are made
    Background             \* the GFWList is updated in the background

Threads == {"request", "updater"}
Nobody  == "nobody"
AllOperations == {"Start", "Stop", "Connect", "Disconnect", "Replace", "Apply",
                  "Subscription", "Delete", "Import", "Latency", "Gfwlist"}
Labels == {"idle", "build", "stop", "start", "commit", "updated", "tests", "done"}
Configs == [sel : Selections \cup {NoServer}, ver : Versions]

ASSUME ConfigAssumption ==
    /\ NoServer \notin Selections
    /\ FailClosed \subseteq Versions
    /\ NeedsGfwlist \subseteq Versions
    /\ GfwlistMode \subseteq NeedsGfwlist
    /\ Off \notin Configs /\ Test \notin Configs /\ Off # Test
    /\ Operations \subseteq AllOperations
    /\ Background \in BOOLEAN

VARIABLES
    store,     \* the database
    core,      \* the configuration the manager's process was started from
    startMu,   \* who is inside CoreProcessManager.start
    testing,   \* m.testing
    pc,        \* where each thread is
    tmpl,      \* the template each thread has built
    failed,    \* each thread's last reload returned an error
    job,       \* the locals of the request
    crashed,   \* history: a core has died since the request began
    excused    \* history: an error was answered that left core and store apart

vars == <<store, core, startMu, testing, pc, tmpl, failed, job, crashed, excused>>

Jobs == [op : AllOperations,
         backup : Configs,       \* the stored configuration before the change
         was : BOOLEAN,          \* a core was running
         error : BOOLEAN,        \* the answer is an error
         lost : BOOLEAN,         \* the backup could not be written back
         retry : BOOLEAN,        \* the reload is the second one
         unrestored : BOOLEAN]   \* the second reload failed

\* Every variable keeps its type.
TypeOK ==
    /\ store \in Configs
    /\ core \in Configs \cup {Off, Test}
    /\ startMu \in Threads \cup {Nobody}
    /\ testing \in BOOLEAN
    /\ pc \in [Threads -> Labels]
    /\ tmpl \in [Threads -> Configs \cup {Test}]
    /\ failed \in [Threads -> BOOLEAN]
    /\ job \in Jobs
    /\ crashed \in BOOLEAN
    /\ excused \in BOOLEAN

Running == core # Off

\* No server is selected and no group is to fail closed.
NothingToRun(c) == c.sel = NoServer /\ c.ver \notin FailClosed

Init ==
    /\ store \in Configs
    /\ core \in {Off} \cup {c \in {store} : ~NothingToRun(c)}
    /\ startMu = Nobody
    /\ testing = FALSE
    /\ pc = [t \in Threads |-> "idle"]
    /\ tmpl = [t \in Threads |-> store]
    /\ failed = [t \in Threads |-> FALSE]
    /\ job = [op |-> "Stop", backup |-> store, was |-> FALSE, error |-> FALSE,
              lost |-> FALSE, retry |-> FALSE, unrestored |-> FALSE]
    /\ crashed = FALSE
    /\ excused = FALSE

Goto(t, label) == pc' = [pc EXCEPT ![t] = label]

-----------------------------------------------------------------------------
(* updateV2RayConfig, from whichever thread.                               *)

\* An update has come to its end.
Updated(t, error) ==
    /\ failed' = [failed EXCEPT ![t] = error]
    /\ Goto(t, "updated")

\* The template is built from what is stored now.  A server that cannot be
\* located or a template that cannot be built is an error, and the core is
\* left alone.
NewTemplateFromConnectedServers(t) ==
    /\ pc[t] = "build"
    /\ \/ NothingToRun(store) /\ Goto(t, "stop") /\ UNCHANGED <<tmpl, failed>>
       \/ /\ ~NothingToRun(store)
          /\ tmpl' = [tmpl EXCEPT ![t] = store]
          /\ Goto(t, "start")
          /\ UNCHANGED failed
       \/ ~NothingToRun(store) /\ Updated(t, TRUE) /\ UNCHANGED tmpl
    /\ UNCHANGED <<store, core, startMu, testing, job, crashed, excused>>

\* ProcessManager.Stop(true).
Stop(t) ==
    /\ pc[t] = "stop"
    /\ core' = Off
    /\ Updated(t, FALSE)
    /\ UNCHANGED <<store, startMu, testing, tmpl, job, crashed, excused>>

\* The first half of start: refused because the GFWList is missing, failed
\* with the old process stopped, or a new process in its place.
Refused(t) ==
    /\ IF tmpl[t] = Test
          THEN job.was /\ store.ver \in NeedsGfwlist
          ELSE tmpl[t].ver \in NeedsGfwlist
    /\ Updated(t, TRUE)
    /\ UNCHANGED <<core, startMu>>

NotSpawned(t) ==
    /\ core' = Off
    /\ Updated(t, TRUE)
    /\ UNCHANGED startMu

Spawned(t) ==
    /\ core' = tmpl[t]
    /\ startMu' = t
    /\ Goto(t, "commit")
    /\ UNCHANGED failed

StartProcess(t) ==
    /\ pc[t] = "start"
    /\ startMu = Nobody
    /\ Refused(t) \/ NotSpawned(t) \/ Spawned(t)
    /\ UNCHANGED <<store, testing, tmpl, job, crashed, excused>>

\* The second half: afterStart and the commit, or an error that stops the
\* process.  Only this call can have put a process there since.
StartCommit(t) ==
    /\ pc[t] = "commit"
    /\ \/ Running /\ Updated(t, FALSE) /\ UNCHANGED core
       \/ core' = Off /\ Updated(t, TRUE)
    /\ startMu' = Nobody
    /\ UNCHANGED <<store, testing, tmpl, job, crashed, excused>>

\* A core exits on its own.
Crash ==
    /\ Running
    /\ core' = Off
    /\ crashed' = TRUE
    /\ UNCHANGED <<store, startMu, testing, pc, tmpl, failed, job, excused>>

-----------------------------------------------------------------------------
(* The requests: what each checks and stores.                              *)

\* A request begins and goes on at label.
Begin(op, error, retry, label) ==
    /\ op \in Operations
    /\ pc["request"] = "idle"
    /\ job' = [op |-> op, backup |-> store, was |-> Running, error |-> error,
               lost |-> FALSE, retry |-> retry, unrestored |-> FALSE]
    /\ crashed' = FALSE
    /\ Goto("request", label)
    /\ UNCHANGED <<core, startMu, failed, excused>>

Enter(op, error, label) ==
    /\ Begin(op, error, FALSE, label)
    /\ UNCHANGED <<testing, tmpl>>

\* A request is turned down by its checks, or its first write fails.
Refuse(op) ==
    /\ Enter(op, TRUE, "done")
    /\ UNCHANGED store

IfRunning == IF Running THEN "build" ELSE "done"

Selecting(s) == store' = [store EXCEPT !.sel = s]

\* Some of what is selected is taken out, or nothing is.
Dropping ==
    \E s \in Selections \cup {NoServer} : (store.sel = NoServer => s = NoServer) /\ Selecting(s)

StartV2ray ==
    \/ Refuse("Start")
    \/ /\ ~NothingToRun(store)
       /\ Enter("Start", FALSE, "build")
       /\ UNCHANGED store

StopV2ray ==
    /\ Enter("Stop", FALSE, "stop")
    /\ UNCHANGED store

\* A server is added to the selection, and the core started or reloaded.  When
\* the write fails the deferred rollback reloads a running core.
Connect ==
    \/ Refuse("Connect")
    \/ /\ Running
       /\ Begin("Connect", TRUE, TRUE, "build")
       /\ UNCHANGED <<store, testing, tmpl>>
    \/ /\ \E s \in Selections : Selecting(s)
       /\ Enter("Connect", FALSE, "build")

Disconnect ==
    \/ Refuse("Disconnect")
    \/ Dropping /\ Enter("Disconnect", FALSE, IfRunning)

replaceOutboundConnections ==
    \/ Refuse("Replace")
    \/ /\ \E s \in Selections \cup {NoServer} : Selecting(s)
       /\ Enter("Replace", FALSE, IfRunning)

\* A setting, the ports, the inbounds, the DNS or routing rules, a group's
\* setting.
applyCoreConfig ==
    \/ Refuse("Apply")
    \/ /\ \E v \in Versions : store' = [store EXCEPT !.ver = v]
       /\ Enter("Apply", FALSE, IfRunning)

\* New contents of a subscription.  Unless they affect what is selected nothing
\* is reloaded.
storeSubscriptionUpdate ==
    \/ Refuse("Subscription")
    \/ /\ Enter("Subscription", FALSE, "done")
       /\ UNCHANGED store
    \/ /\ store.sel # NoServer
       /\ \E s \in (Selections \cup {NoServer}) \ {store.sel} : Selecting(s)
       /\ Enter("Subscription", FALSE, IfRunning)

DeleteWhich ==
    \/ Refuse("Delete")
    \/ Dropping /\ Enter("Delete", FALSE, IfRunning)

\* One server is edited; a selected one is reloaded, once for each group it is
\* in, whether or not a core runs.
ImportServer ==
    \/ Refuse("Import")
    \/ /\ Enter("Import", FALSE, "done")
       /\ UNCHANGED store
    \/ /\ store.sel # NoServer
       /\ \E s \in Selections : Selecting(s)
       /\ Enter("Import", FALSE, "build")

\* CheckAndUpdateGFWList once the list has been replaced: a request, or the
\* updater.
UsesGfwlist == Running /\ store.ver \in GfwlistMode

PutGFWList ==
    \/ Refuse("Gfwlist")
    \/ /\ Enter("Gfwlist", FALSE, IF UsesGfwlist THEN "build" ELSE "done")
       /\ UNCHANGED store

BackgroundUpdate ==
    /\ Background
    /\ pc["updater"] = "idle"
    /\ UsesGfwlist
    /\ Goto("updater", "build")
    /\ UNCHANGED <<store, core, startMu, testing, tmpl, failed, job, crashed, excused>>

BackgroundDone ==
    /\ pc["updater"] = "updated"
    /\ Goto("updater", "idle")
    /\ UNCHANGED <<store, core, startMu, testing, tmpl, failed, job, crashed, excused>>

\* The template of the test core is made from the stored configuration or, when
\* that fails or no core runs, from an empty one.  A test of no server returns
\* at once and is left out.
TestHttpLatency ==
    \/ Refuse("Latency")
    \/ /\ Begin("Latency", FALSE, FALSE, "start")
       /\ testing' = TRUE
       /\ tmpl' = [tmpl EXCEPT !["request"] = Test]
       /\ UNCHANGED store

-----------------------------------------------------------------------------
(* The requests: what each does with the outcome of its reload.            *)

\* The first reload of a request that rolls back has failed.
ReloadFailed(op) ==
    /\ pc["request"] = "updated"
    /\ job.op = op
    /\ failed["request"]
    /\ ~job.retry

\* The backup is written back, or that fails, and the request goes on at label.
WriteBack(written, label) ==
    /\ store' = IF written THEN job.backup ELSE store
    /\ job' = [job EXCEPT !.error = TRUE, !.lost = ~written, !.retry = TRUE]
    /\ Goto("request", label)
    /\ UNCHANGED <<core, startMu, testing, tmpl, failed, crashed, excused>>

Answer(error) ==
    /\ job' = [job EXCEPT !.error = error]
    /\ Goto("request", "done")
    /\ UNCHANGED <<store, core, startMu, testing, tmpl, failed, crashed, excused>>

\* The core is only restarted if the failed reload left it running.
ConnectFailed ==
    /\ ReloadFailed("Connect")
    /\ \E written \in BOOLEAN : WriteBack(written, IfRunning)

\* The selection is only written back if the failed reload left the core
\* running, and the group was not empty anyway.
DisconnectFailed ==
    /\ ReloadFailed("Disconnect")
    /\ \/ Running /\ \E written \in BOOLEAN : WriteBack(written, "build")
       \/ (~Running \/ store = job.backup) /\ Answer(TRUE)

\* Mutants: the core is only restarted if it still runs, or is restarted until
\* that works.
ReplaceFailed_IfRunning ==
    /\ ReloadFailed("Replace")
    /\ \E written \in BOOLEAN : WriteBack(written, IfRunning)
ReplaceFailed_Again ==
    /\ ReloadFailed("Replace")
    /\ store' = job.backup
    /\ Goto("request", "build")
    /\ UNCHANGED <<core, startMu, testing, tmpl, failed, job, crashed, excused>>

ReplaceFailed ==
    /\ ReloadFailed("Replace")
    /\ \E written \in BOOLEAN : WriteBack(written, "build")

SubscriptionFailed ==
    /\ ReloadFailed("Subscription")
    /\ \E written \in BOOLEAN : WriteBack(written, "build")

\* A backup that cannot be written back is not started either.
ApplyFailed ==
    /\ ReloadFailed("Apply")
    /\ \E written \in BOOLEAN : WriteBack(written, IF written THEN "build" ELSE "done")

\* The second reload: its own error is only reported by applyCoreConfig.
Restored ==
    /\ pc["request"] = "updated"
    /\ job.op # "Latency"
    /\ job.retry
    /\ job' = [job EXCEPT !.unrestored = failed["request"]]
    /\ Goto("request", "done")
    /\ UNCHANGED <<store, core, startMu, testing, tmpl, failed, crashed, excused>>

\* Mutant: the failure is logged and the answer is a success.
Reloaded_Logged ==
    /\ pc["request"] = "updated"
    /\ job.op # "Latency"
    /\ ~job.retry
    /\ failed["request"] => job.op \in {"Start", "Stop", "Delete", "Import", "Gfwlist"}
    /\ Answer(FALSE)

\* A reload that succeeded, or one whose failure is only reported.
Reloaded ==
    /\ pc["request"] = "updated"
    /\ job.op # "Latency"
    /\ ~job.retry
    /\ failed["request"] => job.op \in {"Start", "Stop", "Delete", "Import", "Gfwlist"}
    /\ Answer(failed["request"])

\* The edited server is selected in another group as well.
ReloadAgain ==
    /\ pc["request"] = "updated"
    /\ job.op = "Import"
    /\ ~failed["request"]
    /\ Goto("request", "build")
    /\ UNCHANGED <<store, core, startMu, testing, tmpl, failed, job, crashed, excused>>

\* What follows a latency test: the previous core is brought back if there was
\* one and something is selected, and otherwise the test core is stopped.
GiveBack == job.was /\ store.sel # NoServer

TestStarted ==
    /\ pc["request"] = "updated"
    /\ job.op = "Latency" /\ ~job.retry
    /\ \/ /\ ~failed["request"]
          /\ Goto("request", "tests")
          /\ UNCHANGED <<testing, job>>
       \/ /\ failed["request"]
          /\ testing' = FALSE
          /\ job' = [job EXCEPT !.error = TRUE, !.retry = TRUE]
          /\ Goto("request", IF GiveBack THEN "build" ELSE "done")
    /\ UNCHANGED <<store, core, startMu, tmpl, failed, crashed, excused>>

TestsDone ==
    /\ pc["request"] = "tests"
    /\ testing' = FALSE
    /\ job' = [job EXCEPT !.retry = TRUE]
    /\ Goto("request", IF GiveBack THEN "build" ELSE "stop")
    /\ UNCHANGED <<store, core, startMu, tmpl, failed, crashed, excused>>

\* Saving the results may fail as well.
TestEnded ==
    /\ pc["request"] = "updated"
    /\ job.op = "Latency" /\ job.retry
    /\ \E saved \in BOOLEAN : Answer(job.error \/ failed["request"] \/ ~saved)

\* The turn is released.
Return ==
    /\ pc["request"] = "done"
    /\ excused' = (core \notin {Off, store} /\ (job.error \/ (excused /\ store = job.backup)))
    /\ Goto("request", "idle")
    /\ UNCHANGED <<store, core, startMu, testing, tmpl, failed, job, crashed>>

Reload(t) ==
    \/ NewTemplateFromConnectedServers(t)
    \/ Stop(t)
    \/ StartProcess(t)
    \/ StartCommit(t)

Request ==
    \/ StartV2ray \/ StopV2ray \/ Connect \/ Disconnect \/ replaceOutboundConnections
    \/ applyCoreConfig \/ storeSubscriptionUpdate \/ DeleteWhich \/ ImportServer
    \/ PutGFWList \/ TestHttpLatency

Outcome ==
    \/ ConnectFailed \/ DisconnectFailed \/ ReplaceFailed \/ SubscriptionFailed
    \/ ApplyFailed \/ Restored \/ Reloaded \/ ReloadAgain \/ TestStarted \/ TestsDone
    \/ TestEnded \/ Return

Next ==
    \/ Request
    \/ Outcome
    \/ \E t \in Threads : Reload(t)
    \/ BackgroundUpdate
    \/ BackgroundDone
    \/ Crash

Spec == Init /\ [][Next]_vars

-----------------------------------------------------------------------------
Answered == pc["request"] = "done"

\* Connect, replaceOutboundConnections, applyCoreConfig and
\* storeSubscriptionUpdate that answer an error leave the stored configuration
\* as it was, whatever their reload did and whether or not a core runs, unless
\* the database refused the rollback itself.
FailureRestoresStore ==
    Answered /\ job.error /\ ~job.lost
        /\ job.op \in {"Connect", "Replace", "Apply", "Subscription"} => store = job.backup

\* The core a failed change took down is brought back: once the second reload
\* of replaceOutboundConnections, applyCoreConfig or storeSubscriptionUpdate has
\* succeeded, the core runs the previous configuration (or none, if that asks
\* for none, or it died again).
FailureRestoresCore ==
    Answered /\ job.retry /\ ~job.lost /\ ~job.unrestored /\ ~crashed
        /\ job.op \in {"Replace", "Apply", "Subscription"} =>
            core = IF NothingToRun(job.backup) THEN Off ELSE job.backup

\* Between requests the core runs what is stored, unless the last request that
\* changed either answered an error.  No sequence of requests, failures of any
\* of their steps and crashes makes the two differ silently; the temporary core of
\* a latency test is one that differs.
MismatchIsReported ==
    pc["request"] = "idle" => core \in {Off, store} \/ excused

\* TestHttpLatency that succeeds gives the host back as it found it: the stored
\* configuration runs again if a core ran before, and none does otherwise.
\* A core that ran with nothing selected, for a group that fails closed, is
\* excepted: it is not brought back.
LatencyGivesBack ==
    Answered /\ job.op = "Latency" /\ ~job.error /\ ~crashed =>
        /\ ~job.was => core = Off
        /\ job.was /\ store.sel # NoServer => core = store

\* Every request is answered, also while the background update competes for
\* CoreProcessManager.start.
RequestsFinish == []<>(pc["request"] = "idle")

\* A request that fails undoes what it did: the store, the core, and for a
\* latency test that succeeds the core it borrowed the host from.
FailureRestores == FailureRestoresStore /\ FailureRestoresCore /\ LatencyGivesBack

-----------------------------------------------------------------------------
(* What the repository says and the code does not do.                      *)

\* subscription.go:372: after an error of the reload "subscription stored".
SubscriptionStored ==
    Answered /\ job.op = "Subscription" /\ job.retry => store # job.backup
=============================================================================
