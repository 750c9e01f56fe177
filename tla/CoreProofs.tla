----------------------------- MODULE CoreProofs -----------------------------
(* The core's processes below the manager's lock (CoreProcess), for any      *)
(* number of starts and of deaths of the service: what is true of a process *)
(* is a property of its own record, whatever the others do.                 *)
(* The TUN inbound inside the core (TunInbound), for any number of sockets, *)
(* sessions and datagrams: its sends are safe, its table entries are        *)
(* served, its hijack stays within its limit and a failure is reported; the *)
(* three parts of its state have an inductive invariant each, and an action *)
(* of one part leaves the others alone.                                     *)
EXTENDS CoreProcess, TunInbound, FiniteSetTheorems, TLAPS

States == Steps \cup {"none", "refused", "lost", "up", "stopped", "gone"}
Cores == {"none", "loading", "serving", "failed", "finished"}
Waiters == {"none", "waits", "reports", "done"}

Record == [at : States, core : Cores, api : BOOLEAN, stop : BOOLEAN, cancel : BOOLEAN,
           term : BOOLEAN, unexpected : BOOLEAN, waiter : Waiters, producers : BOOLEAN,
           died : BOOLEAN, shown : BOOLEAN, reports : 0..1]

\* Before the spawn there is no core, before poststart nobody waits for it.
Unstarted(q) ==
    /\ q.at \in {"none", "template", "config", "ports", "prestart"} => q.core = "none"
    /\ q.at \in {"none", "template", "config", "ports", "prestart", "spawn"} => q.waiter = "none"

\* What is reported has died: a core that ended unasked is marked as dead, the
\* waiter comes to report it at most once and only when nobody asked.
Reported(q) ==
    /\ q.core \in {"failed", "finished"} => q.died \/ q.stop
    /\ q.waiter = "reports" => q.core \in {"failed", "finished"} /\ q.died
    /\ q.reports > 0 => q.core \in {"failed", "finished"} /\ q.died /\ q.waiter = "done"

\* Producers run until the context is cancelled, and no longer than the process.
Producing(q) ==
    /\ q.producers => ~q.cancel /\ q.at \in Steps \cup {"lost", "up"}
    /\ q.at = "refused" => q.cancel

\* A process that is up was seen to listen, unless another could be taken for it.
Served(q, fixed) ==
    /\ q.api => q.shown
    /\ q.at = "up" => q.shown \/ fixed

Good(q, fixed) == q \in Record /\ Unstarted(q) /\ Reported(q) /\ Producing(q) /\ Served(q, fixed)

ProcessInv ==
    /\ cpfixed \in BOOLEAN
    /\ cpowner \in 0..MaxStarts
    /\ cpports \in Foreign..MaxStarts
    /\ cpproc \in [Starts -> Record]
    /\ \A p \in Starts : Good(cpproc[p], cpfixed)
    /\ OrphanNeverRefuses

-----------------------------------------------------------------------------
(* Records.                                                                *)

LEMMA FreshGood ==
  ASSUME NEW fixed \in BOOLEAN, NEW q,
         \/ q = NoProcess
         \/ q = [NoProcess EXCEPT !.at = "gone"]
         \/ q = [NoProcess EXCEPT !.at = "template", !.producers = TRUE]
  PROVE  Good(q, fixed)
  <1> DEFINE Fresh == /\ q.core = "none" /\ q.waiter = "none" /\ q.reports = 0
                      /\ q.api = FALSE /\ q.cancel = FALSE
                      /\ q.producers = FALSE \/ q.at = "template"
                      /\ q.at \in {"none", "gone", "template"}
  <1>0. NoProcess \in Record
    BY DEF NoProcess, Record, States, Steps, Cores, Waiters
  <1>1. ASSUME q = [NoProcess EXCEPT !.at = "gone"] PROVE q \in Record /\ Fresh
    <2>1. q \in Record
      BY <1>0, <1>1 DEF Record, States
    <2>2. Fresh
      BY <1>0, <1>1 DEF NoProcess
    <2> QED BY <2>1, <2>2
  <1>2. ASSUME q = [NoProcess EXCEPT !.at = "template", !.producers = TRUE]
        PROVE  q \in Record /\ Fresh
    <2>1. q \in Record
      BY <1>0, <1>2 DEF Record, States, Steps
    <2>2. Fresh
      BY <1>0, <1>2 DEF NoProcess
    <2> QED BY <2>1, <2>2
  <1>3. q \in Record /\ Fresh
    <2>1. CASE q = NoProcess
      BY <1>0, <2>1 DEF NoProcess
    <2> QED BY <2>1, <1>1, <1>2
  <1> QED BY <1>3 DEF Good, Unstarted, Reported, Producing, Served, Steps

LEMMA CloseGood ==
  ASSUME NEW q, NEW fixed \in BOOLEAN, Good(q, fixed)
  PROVE  Good([Close(q) EXCEPT !.at = "stopped"], fixed)
  <1> DEFINE v == [Close(q) EXCEPT !.at = "stopped"]
  <1>0. q \in Record
    BY DEF Good
  <1>1. v \in Record
    BY <1>0 DEF Close, Record, States
  <1>2. /\ v.at = "stopped" /\ v.core = q.core /\ v.waiter = q.waiter /\ v.died = q.died
        /\ v.reports = q.reports /\ v.api = q.api /\ v.shown = q.shown
    BY <1>0 DEF Close, Record
  <1>3. (q.stop => v.stop) /\ v.cancel
    BY <1>0 DEF Close, Record
  <1>4. ~v.producers
    BY <1>0 DEF Close, Record, Good, Producing
  <1> HIDE DEF v
  <1>5. Unstarted(v) /\ Producing(v) /\ Served(v, fixed)
    BY <1>2, <1>3, <1>4 DEF Good, Unstarted, Producing, Served
  <1>6. Reported(v)
    BY <1>2, <1>3 DEF Good, Reported
  <1>7. Good(v, fixed)
    BY <1>1, <1>5, <1>6 DEF Good
  <1> QED BY <1>7 DEF v

LEMMA RollbackGood ==
  ASSUME NEW q, NEW fixed \in BOOLEAN, Good(q, fixed)
  PROVE  Good(Rollback(q), fixed)
  <1> DEFINE v == Rollback(q)
  <1>0. q \in Record
    BY DEF Good
  <1>1. v \in Record
    BY <1>0 DEF Rollback, Record, States
  <1>2. /\ v.at = "refused" /\ v.core = q.core /\ v.waiter = q.waiter /\ v.died = q.died
        /\ v.reports = q.reports /\ v.api = q.api /\ v.shown = q.shown /\ v.stop = q.stop
        /\ v.cancel = TRUE /\ v.producers = FALSE
    BY <1>0 DEF Rollback, Record
  <1> HIDE DEF v
  <1>3. Unstarted(v) /\ Producing(v) /\ Served(v, fixed)
    BY <1>2 DEF Good, Unstarted, Producing, Served
  <1>4. Reported(v)
    BY <1>2 DEF Good, Reported
  <1>5. Good(v, fixed)
    BY <1>1, <1>3, <1>4 DEF Good
  <1> QED BY <1>5 DEF v

\* A step of one process, seen from the others.
LEMMA OneMoves ==
  ASSUME ProcessInv, NEW p \in Starts, NEW q,
         cpproc' = [cpproc EXCEPT ![p] = q], Good(q, cpfixed), UNCHANGED cpfixed,
         cpowner' \in 0..MaxStarts, cpports' \in Foreign..MaxStarts, OrphanNeverRefuses'
  PROVE  ProcessInv'
  <1>1. q \in Record
    BY DEF Good
  <1> QED BY <1>1 DEF ProcessInv

\* A step that changes nothing but one process.
LEMMA OneStep ==
  ASSUME ProcessInv, NEW p \in Starts, NEW q,
         cpproc' = [cpproc EXCEPT ![p] = q], Good(q, cpfixed), Rest
  PROVE  ProcessInv'
  BY OneMoves DEF Rest, ProcessInv, OrphanNeverRefuses

LEMMA ProcessInvInit == ProcessInit => ProcessInv
  <1> SUFFICES ASSUME ProcessInit PROVE ProcessInv
    OBVIOUS
  <1>1. cpfixed \in BOOLEAN
    BY DEF ProcessInit
  <1>2. NoProcess \in Record /\ Good(NoProcess, cpfixed)
    BY <1>1, FreshGood DEF Good
  <1> QED BY <1>1, <1>2, ProcessAssumption DEF ProcessInit, ProcessInv, OrphanNeverRefuses, Free, Foreign, Orphan

-----------------------------------------------------------------------------
(* What each step makes of a record.                                       *)

LEMMA AtGood ==
  ASSUME NEW q, NEW fixed \in BOOLEAN, Good(q, fixed), NEW to \in States,
         \/ q.at = "template" /\ to = "config"
         \/ q.at = "config" /\ to = "ports"
         \/ q.at = "ports" /\ to = "prestart"
         \/ q.at = "waiting" /\ to = "lost"
         \/ q.at = "waiting" /\ to = "up" /\ (q.api \/ fixed)
  PROVE  Good([q EXCEPT !.at = to], fixed)
  <1> DEFINE v == [q EXCEPT !.at = to]
  <1>0. q \in Record
    BY DEF Good
  <1>1. v \in Record
    BY <1>0 DEF Record
  <1>2. /\ v.at = to /\ v.core = q.core /\ v.waiter = q.waiter /\ v.died = q.died
        /\ v.reports = q.reports /\ v.api = q.api /\ v.shown = q.shown /\ v.stop = q.stop
        /\ v.cancel = q.cancel /\ v.producers = q.producers
    BY <1>0 DEF Record
  <1> HIDE DEF v
  <1>3. Unstarted(v)
    BY <1>2 DEF Good, Unstarted
  <1>4. Producing(v)
    BY <1>2 DEF Good, Producing, Steps
  <1>5. Served(v, fixed)
    BY <1>2 DEF Good, Served
  <1>6. Reported(v)
    BY <1>2 DEF Good, Reported
  <1>7. Good(v, fixed)
    BY <1>1, <1>3, <1>4, <1>5, <1>6 DEF Good
  <1> QED BY <1>7 DEF v

LEMMA TermGood ==
  ASSUME NEW q, NEW fixed \in BOOLEAN, Good(q, fixed)
  PROVE  Good([q EXCEPT !.term = TRUE], fixed)
  <1> DEFINE v == [q EXCEPT !.term = TRUE]
  <1>0. q \in Record
    BY DEF Good
  <1>1. v \in Record
    BY <1>0 DEF Record
  <1>2. /\ v.at = q.at /\ v.core = q.core /\ v.waiter = q.waiter /\ v.died = q.died
        /\ v.reports = q.reports /\ v.api = q.api /\ v.shown = q.shown /\ v.stop = q.stop
        /\ v.cancel = q.cancel /\ v.producers = q.producers
    BY <1>0 DEF Record
  <1> HIDE DEF v
  <1>3. Unstarted(v) /\ Reported(v) /\ Producing(v) /\ Served(v, fixed)
    BY <1>2 DEF Good, Unstarted, Reported, Producing, Served
  <1>4. Good(v, fixed)
    BY <1>1, <1>3 DEF Good
  <1> QED BY <1>4 DEF v

LEMMA SpawnGood ==
  ASSUME NEW q, NEW fixed \in BOOLEAN, Good(q, fixed), q.at = "prestart"
  PROVE  Good([q EXCEPT !.at = "spawn", !.core = "loading"], fixed)
  <1> DEFINE v == [q EXCEPT !.at = "spawn", !.core = "loading"]
  <1>0. q \in Record
    BY DEF Good
  <1>1. v \in Record
    BY <1>0 DEF Record, States, Steps, Cores
  <1>2. /\ v.at = "spawn" /\ v.core = "loading" /\ v.waiter = q.waiter /\ v.reports = q.reports
        /\ v.api = q.api /\ v.shown = q.shown /\ v.cancel = q.cancel /\ v.producers = q.producers
    BY <1>0 DEF Record
  <1> HIDE DEF v
  <1>3. Unstarted(v) /\ Reported(v) /\ Producing(v) /\ Served(v, fixed)
    BY <1>2 DEF Good, Unstarted, Reported, Producing, Served, Steps
  <1>4. Good(v, fixed)
    BY <1>1, <1>3 DEF Good
  <1> QED BY <1>4 DEF v

LEMMA WaiterGood ==
  ASSUME NEW q, NEW fixed \in BOOLEAN, Good(q, fixed), q.at = "spawn"
  PROVE  Good([q EXCEPT !.at = "waiting", !.waiter = "waits"], fixed)
  <1> DEFINE v == [q EXCEPT !.at = "waiting", !.waiter = "waits"]
  <1>0. q \in Record
    BY DEF Good
  <1>1. v \in Record
    BY <1>0 DEF Record, States, Steps, Waiters
  <1>2. /\ v.at = "waiting" /\ v.core = q.core /\ v.waiter = "waits" /\ v.reports = q.reports
        /\ v.died = q.died /\ v.stop = q.stop
        /\ v.api = q.api /\ v.shown = q.shown /\ v.cancel = q.cancel /\ v.producers = q.producers
    BY <1>0 DEF Record
  <1> HIDE DEF v
  <1>3. Unstarted(v) /\ Reported(v) /\ Producing(v) /\ Served(v, fixed)
    BY <1>2 DEF Good, Unstarted, Reported, Producing, Served, Steps
  <1>4. Good(v, fixed)
    BY <1>1, <1>3 DEF Good
  <1> QED BY <1>4 DEF v

LEMMA BindsGood ==
  ASSUME NEW q, NEW fixed \in BOOLEAN, Good(q, fixed), q.core = "loading"
  PROVE  Good([q EXCEPT !.core = "serving", !.api = TRUE, !.shown = TRUE], fixed)
  <1> DEFINE v == [q EXCEPT !.core = "serving", !.api = TRUE, !.shown = TRUE]
  <1>0. q \in Record
    BY DEF Good
  <1>1. v \in Record
    BY <1>0 DEF Record, Cores
  <1>2. /\ v.at = q.at /\ v.core = "serving" /\ v.waiter = q.waiter /\ v.reports = q.reports
        /\ v.shown = TRUE /\ v.cancel = q.cancel /\ v.producers = q.producers
    BY <1>0 DEF Record
  <1> HIDE DEF v
  <1>3. Unstarted(v) /\ Reported(v) /\ Producing(v) /\ Served(v, fixed)
    BY <1>2 DEF Good, Unstarted, Reported, Producing, Served
  <1>4. Good(v, fixed)
    BY <1>1, <1>3 DEF Good
  <1> QED BY <1>4 DEF v

LEMMA EndGood ==
  ASSUME NEW q, NEW fixed \in BOOLEAN, Good(q, fixed), q.core \in {"loading", "serving"},
         NEW how \in {"failed", "finished"}
  PROVE  Good([q EXCEPT !.core = how, !.api = FALSE, !.died = ~q.stop], fixed)
  <1> DEFINE v == [q EXCEPT !.core = how, !.api = FALSE, !.died = ~q.stop]
  <1>0. q \in Record
    BY DEF Good
  <1>1. v \in Record
    BY <1>0 DEF Record, Cores
  <1>2. /\ v.at = q.at /\ v.core = how /\ v.waiter = q.waiter /\ v.reports = q.reports
        /\ v.stop = q.stop /\ v.shown = q.shown /\ v.cancel = q.cancel /\ v.producers = q.producers
        /\ v.api = FALSE
    BY <1>0 DEF Record
  <1>3. v.died \/ v.stop
    BY <1>0 DEF Record
  <1> HIDE DEF v
  <1>4. Unstarted(v) /\ Reported(v) /\ Producing(v) /\ Served(v, fixed)
    BY <1>2, <1>3 DEF Good, Unstarted, Reported, Producing, Served
  <1>5. Good(v, fixed)
    BY <1>1, <1>4 DEF Good
  <1> QED BY <1>5 DEF v

LEMMA BindFailsGood ==
  ASSUME NEW q, NEW fixed \in BOOLEAN, Good(q, fixed), q.core = "loading"
  PROVE  Good([q EXCEPT !.core = "failed", !.died = ~q.stop], fixed)
  <1> DEFINE v == [q EXCEPT !.core = "failed", !.died = ~q.stop]
  <1>0. q \in Record
    BY DEF Good
  <1>1. v \in Record
    BY <1>0 DEF Record, Cores
  <1>2. /\ v.at = q.at /\ v.core = "failed" /\ v.waiter = q.waiter /\ v.reports = q.reports
        /\ v.stop = q.stop /\ v.shown = q.shown /\ v.cancel = q.cancel /\ v.producers = q.producers
        /\ v.api = q.api
    BY <1>0 DEF Record
  <1>3. v.died \/ v.stop
    BY <1>0 DEF Record
  <1> HIDE DEF v
  <1>4. Unstarted(v) /\ Reported(v) /\ Producing(v) /\ Served(v, fixed)
    BY <1>2, <1>3 DEF Good, Unstarted, Reported, Producing, Served
  <1>5. Good(v, fixed)
    BY <1>1, <1>4 DEF Good
  <1> QED BY <1>5 DEF v

\* Wait has returned; the report is on its way or was not wanted.
LEMMA WaitGood ==
  ASSUME NEW q, NEW fixed \in BOOLEAN, Good(q, fixed), q.waiter = "waits",
         q.core \in {"failed", "finished"}, NEW u \in BOOLEAN
  PROVE  Good([q EXCEPT !.waiter = IF q.stop THEN "done" ELSE "reports", !.unexpected = u], fixed)
  <1> DEFINE v == [q EXCEPT !.waiter = IF q.stop THEN "done" ELSE "reports", !.unexpected = u]
  <1>0. q \in Record
    BY DEF Good
  <1>1. v \in Record
    BY <1>0 DEF Record, Waiters
  <1>2. /\ v.at = q.at /\ v.core = q.core /\ v.reports = q.reports /\ v.died = q.died
        /\ v.stop = q.stop /\ v.shown = q.shown /\ v.cancel = q.cancel /\ v.producers = q.producers
        /\ v.api = q.api /\ v.waiter = IF q.stop THEN "done" ELSE "reports"
    BY <1>0 DEF Record
  <1> HIDE DEF v
  <1>3. Unstarted(v) /\ Reported(v) /\ Producing(v) /\ Served(v, fixed)
    BY <1>2 DEF Good, Unstarted, Reported, Producing, Served
  <1>4. Good(v, fixed)
    BY <1>1, <1>3 DEF Good
  <1> QED BY <1>4 DEF v

LEMMA ReportGood ==
  ASSUME NEW q, NEW fixed \in BOOLEAN, Good(q, fixed), q.waiter = "reports"
  PROVE  Good([q EXCEPT !.waiter = "done", !.reports = @ + 1], fixed)
  <1> DEFINE v == [q EXCEPT !.waiter = "done", !.reports = @ + 1]
  <1>0. q \in Record /\ q.reports = 0
    BY DEF Good, Reported, Record
  <1>1. v \in Record
    <2>1. q.reports + 1 \in 0..1
      BY <1>0
    <2> QED BY <1>0, <2>1 DEF Record, Waiters
  <1>2. /\ v.at = q.at /\ v.core = q.core /\ v.waiter = "done" /\ v.died = q.died
        /\ v.stop = q.stop /\ v.shown = q.shown /\ v.cancel = q.cancel /\ v.producers = q.producers
        /\ v.api = q.api
    BY <1>0 DEF Record
  <1> HIDE DEF v
  <1>3. Unstarted(v) /\ Reported(v) /\ Producing(v) /\ Served(v, fixed)
    BY <1>2 DEF Good, Unstarted, Reported, Producing, Served
  <1>4. Good(v, fixed)
    BY <1>1, <1>3 DEF Good
  <1> QED BY <1>4 DEF v

-----------------------------------------------------------------------------
(* The steps.                                                              *)

LEMMA StepKeeps ==
  ASSUME ProcessInv, NEW p \in Starts, NEW from, NEW to \in States, Step(p, from, to),
         (from = "template" /\ to = "config") \/ (from = "ports" /\ to = "prestart")
  PROVE  ProcessInv'
  <1> DEFINE q == cpproc[p]
  <1>1. Good(q, cpfixed) /\ q.at = from /\ cpfixed \in BOOLEAN
    BY DEF ProcessInv, Step, Is
  <1>2. CASE cpproc' = [cpproc EXCEPT ![p].at = to]
    <2>1. Good([q EXCEPT !.at = to], cpfixed)
      BY <1>1, AtGood
    <2>2. cpproc' = [cpproc EXCEPT ![p] = [q EXCEPT !.at = to]]
      BY <1>2
    <2> QED BY <2>1, <2>2, OneStep DEF Step
  <1>3. CASE cpproc' = [cpproc EXCEPT ![p] = Rollback(@)]
    BY <1>1, <1>3, RollbackGood, OneStep DEF Step
  <1> QED BY <1>2, <1>3 DEF Step

LEMMA CheckKeeps ==
  ASSUME ProcessInv, NEW p \in Starts, CheckInboundPortsOccupied(p)
  PROVE  ProcessInv'
  <1> DEFINE q == cpproc[p]
  <1>1. Good(q, cpfixed) /\ q.at = "config" /\ cpfixed \in BOOLEAN
    BY DEF ProcessInv, CheckInboundPortsOccupied, Is
  <1>2. cpowner' \in 0..MaxStarts /\ UNCHANGED cpfixed
    BY DEF ProcessInv, CheckInboundPortsOccupied
  <1>3. cpports' \in Foreign..MaxStarts
    BY ProcessAssumption DEF ProcessInv, CheckInboundPortsOccupied, Free, Foreign
  <1>4. OrphanNeverRefuses'
    BY DEF ProcessInv, OrphanNeverRefuses, CheckInboundPortsOccupied, killOrphanCore, Orphan, Foreign
  <1>5. CASE cpproc' = [cpproc EXCEPT ![p] = Rollback(@)]
    <2>1. Good(Rollback(q), cpfixed)
      BY <1>1, RollbackGood
    <2> QED BY <1>5, <2>1, <1>2, <1>3, <1>4, OneMoves
  <1>6. CASE cpproc' = [cpproc EXCEPT ![p].at = "ports"]
    <2>1. Good([q EXCEPT !.at = "ports"], cpfixed)
      BY <1>1, AtGood DEF States, Steps
    <2>2. cpproc' = [cpproc EXCEPT ![p] = [q EXCEPT !.at = "ports"]]
      BY <1>6
    <2> QED BY <2>1, <2>2, <1>2, <1>3, <1>4, OneMoves
  <1> QED BY <1>5, <1>6 DEF CheckInboundPortsOccupied

LEMMA SpawnKeeps ==
  ASSUME ProcessInv, NEW p \in Starts, StartCoreProcess(p) \/ Poststart(p)
  PROVE  ProcessInv'
  <1> DEFINE q == cpproc[p]
  <1>1. Good(q, cpfixed) /\ cpfixed \in BOOLEAN /\ Rest
    BY DEF ProcessInv, StartCoreProcess, Poststart
  <1>2. CASE cpproc' = [cpproc EXCEPT ![p] = Rollback(@)]
    BY <1>1, <1>2, RollbackGood, OneStep
  <1>3. CASE q.at = "prestart" /\ cpproc' = [cpproc EXCEPT ![p].at = "spawn", ![p].core = "loading"]
    <2> DEFINE v == [q EXCEPT !.at = "spawn", !.core = "loading"]
    <2>1. Good(v, cpfixed)
      BY <1>1, <1>3, SpawnGood
    <2>2. cpproc' = [cpproc EXCEPT ![p] = v]
      BY <1>3 DEF ProcessInv
    <2> QED BY <2>1, <2>2, <1>1, OneStep
  <1>4. CASE q.at = "spawn" /\ cpproc' = [cpproc EXCEPT ![p].at = "waiting", ![p].waiter = "waits"]
    <2> DEFINE v == [q EXCEPT !.at = "waiting", !.waiter = "waits"]
    <2>1. Good(v, cpfixed)
      BY <1>1, <1>4, WaiterGood
    <2>2. cpproc' = [cpproc EXCEPT ![p] = v]
      BY <1>4 DEF ProcessInv
    <2> QED BY <2>1, <2>2, <1>1, OneStep
  <1> QED BY <1>2, <1>3, <1>4 DEF StartCoreProcess, Poststart, Is

LEMMA WaitLoopKeeps ==
  ASSUME ProcessInv, NEW p \in Starts, DialSucceeds(p) \/ ExitSeen(p) \/ TimesOut(p)
  PROVE  ProcessInv'
  <1> DEFINE q == cpproc[p]
  <1>1. Good(q, cpfixed) /\ cpfixed \in BOOLEAN /\ q.at = "waiting"
    BY DEF ProcessInv, DialSucceeds, ExitSeen, TimesOut, Is
  <1>2. CASE DialSucceeds(p)
    <2>1. q.api \/ cpfixed
      BY <1>2 DEF DialSucceeds
    <2>2. Good([q EXCEPT !.at = "up"], cpfixed)
      BY <1>1, <2>1, AtGood DEF States
    <2>3. cpproc' = [cpproc EXCEPT ![p] = [q EXCEPT !.at = "up"]]
      BY <1>2 DEF DialSucceeds
    <2>4. cpowner' \in 0..MaxStarts
      BY <1>2, ProcessAssumption DEF DialSucceeds, Starts
    <2> QED BY <1>2, <2>2, <2>3, <2>4, OneMoves DEF DialSucceeds, ProcessInv, OrphanNeverRefuses
  <1>3. CASE ExitSeen(p)
    <2>1. Good([q EXCEPT !.at = "lost"], cpfixed)
      BY <1>1, AtGood DEF States
    <2>2. cpproc' = [cpproc EXCEPT ![p] = [q EXCEPT !.at = "lost"]]
      BY <1>3 DEF ExitSeen
    <2> QED BY <1>3, <2>1, <2>2, OneStep DEF ExitSeen
  <1>4. CASE TimesOut(p)
    <2> DEFINE v == [q EXCEPT !.at = "lost"]
               w == [v EXCEPT !.term = TRUE]
    <2>1. Good(v, cpfixed)
      BY <1>1, AtGood DEF States
    <2>2. cpproc' = [cpproc EXCEPT ![p] = w]
      BY <1>4 DEF TimesOut, ProcessInv
    <2> HIDE DEF v
    <2>3. Good(w, cpfixed)
      BY <1>1, <2>1, TermGood
    <2> QED BY <1>4, <2>2, <2>3, OneStep DEF TimesOut
  <1> QED BY <1>2, <1>3, <1>4

LEMMA CoreBindsKeeps ==
  ASSUME ProcessInv, NEW p \in Starts, CoreBinds(p)
  PROVE  ProcessInv'
  <1> DEFINE q == cpproc[p]
  <1>1. Good(q, cpfixed) /\ cpfixed \in BOOLEAN /\ q.core = "loading" /\ q \in Record
    BY DEF ProcessInv, CoreBinds, Good
  <1>2. cpowner' \in 0..MaxStarts /\ UNCHANGED cpfixed /\ OrphanNeverRefuses'
    BY DEF ProcessInv, CoreBinds, OrphanNeverRefuses
  <1>3. cpports' \in Foreign..MaxStarts
    BY ProcessAssumption DEF ProcessInv, CoreBinds, Starts, Foreign
  <1>4. CASE cpports = Free
    <2> DEFINE v == [q EXCEPT !.core = "serving", !.api = TRUE, !.shown = TRUE]
    <2>1. Good(v, cpfixed)
      BY <1>1, BindsGood
    <2>2. cpproc' = [cpproc EXCEPT ![p] = v]
      BY <1>4 DEF CoreBinds, ProcessInv
    <2> QED BY <2>1, <2>2, <1>2, <1>3, OneMoves
  <1>5. CASE cpports # Free
    <2> DEFINE w == [q EXCEPT !.core = "failed", !.died = ~q.stop]
    <2>1. Good(w, cpfixed)
      BY <1>1, BindFailsGood
    <2>2. cpproc' = [cpproc EXCEPT ![p] = w]
      BY <1>5 DEF CoreBinds, ProcessInv
    <2> QED BY <2>1, <2>2, <1>2, <1>3, OneMoves
  <1> QED BY <1>4, <1>5

LEMMA CoreExitsKeeps ==
  ASSUME ProcessInv, NEW p \in Starts, NEW how \in {"failed", "finished"}, CoreExits(p, how)
  PROVE  ProcessInv'
  <1> DEFINE q == cpproc[p]
             v == [q EXCEPT !.core = how, !.api = FALSE, !.died = ~q.stop]
  <1>1. Good(v, cpfixed)
    BY EndGood DEF ProcessInv, CoreExits, Alive
  <1>2. cpproc' = [cpproc EXCEPT ![p] = v]
    BY DEF CoreExits, ProcessInv
  <1>3. cpowner' \in 0..MaxStarts /\ UNCHANGED cpfixed /\ OrphanNeverRefuses'
    BY DEF ProcessInv, CoreExits, OrphanNeverRefuses
  <1>4. cpports' \in Foreign..MaxStarts
    BY ProcessAssumption DEF ProcessInv, CoreExits, Free, Foreign
  <1> QED BY <1>1, <1>2, <1>3, <1>4, OneMoves

LEMMA WaitReturnsKeeps ==
  ASSUME ProcessInv, NEW p \in Starts, WaitReturns(p)
  PROVE  ProcessInv'
  <1> DEFINE q == cpproc[p]
             u == q.core = "failed" /\ ~q.stop
             v == [q EXCEPT !.waiter = IF q.stop THEN "done" ELSE "reports", !.unexpected = u]
  <1>1. u \in BOOLEAN
    BY Zenon
  <1>2. cpproc' = [cpproc EXCEPT ![p] = v]
    BY DEF WaitReturns, ProcessInv
  <1> HIDE DEF u
  <1>3. Good(v, cpfixed)
    BY <1>1, WaitGood DEF ProcessInv, WaitReturns
  <1> QED BY <1>2, <1>3, OneStep DEF WaitReturns

LEMMA ReportsKeeps ==
  ASSUME ProcessInv, NEW p \in Starts, waiterReports(p)
  PROVE  ProcessInv'
  <1> DEFINE q == [cpproc[p] EXCEPT !.waiter = "done", !.reports = @ + 1]
             v == IF cpowner = p THEN [Close(q) EXCEPT !.at = "stopped"] ELSE q
  <1>1. cpproc' = [cpproc EXCEPT ![p] = v]
    BY DEF waiterReports
  <1>2. Good(q, cpfixed) /\ cpfixed \in BOOLEAN
    BY ReportGood DEF ProcessInv, waiterReports
  <1> HIDE DEF q
  <1>3. Good(v, cpfixed)
    BY <1>2, CloseGood
  <1> HIDE DEF v
  <1>4. cpowner' \in 0..MaxStarts /\ cpports' \in Foreign..MaxStarts /\ UNCHANGED cpfixed
    BY ProcessAssumption DEF ProcessInv, waiterReports
  <1>5. OrphanNeverRefuses'
    BY DEF ProcessInv, waiterReports, OrphanNeverRefuses
  <1> QED BY <1>1, <1>3, <1>4, <1>5, OneMoves

LEMMA SetAPIKeeps ==
  ASSUME ProcessInv, NEW p \in Starts, SetAPI(p)
  PROVE  ProcessInv'
  <1> DEFINE new == [NoProcess EXCEPT !.at = "template", !.producers = TRUE]
             closed(q) == [Close(cpproc[q]) EXCEPT !.at = "stopped"]
             v(q) == IF q = p THEN new ELSE IF q = cpowner THEN closed(q) ELSE cpproc[q]
  <1>1. Good(new, cpfixed)
    BY FreshGood DEF ProcessInv
  <1>2. \A q \in Starts : Good(closed(q), cpfixed)
    BY CloseGood DEF ProcessInv
  <1>3. cpproc' = [q \in Starts |-> v(q)]
    BY DEF SetAPI
  <1> HIDE DEF new, closed
  <1>4. \A q \in Starts : Good(v(q), cpfixed)
    BY <1>1, <1>2 DEF ProcessInv
  <1>5. \A q \in Starts : v(q) \in Record
    BY <1>4 DEF Good
  <1> HIDE DEF v
  <1>6. /\ cpowner' \in 0..MaxStarts /\ UNCHANGED <<cpports, cpfixed>>
        /\ OrphanNeverRefuses'
    BY ProcessAssumption DEF ProcessInv, SetAPI, OrphanNeverRefuses
  <1> QED BY <1>3, <1>4, <1>5, <1>6 DEF ProcessInv

LEMMA CloseOwnedKeeps ==
  ASSUME ProcessInv, CloseOwned
  PROVE  ProcessInv'
  <1>1. cpowner \in Starts
    BY ProcessAssumption DEF ProcessInv, CloseOwned, Starts
  <1> DEFINE v == [Close(cpproc[cpowner]) EXCEPT !.at = "stopped"]
  <1>2. Good(v, cpfixed)
    BY <1>1, CloseGood DEF ProcessInv
  <1>3. cpproc' = [cpproc EXCEPT ![cpowner] = v]
    BY DEF CloseOwned
  <1> HIDE DEF v
  <1>4. /\ cpowner' \in 0..MaxStarts /\ cpports' \in Foreign..MaxStarts
        /\ UNCHANGED cpfixed /\ OrphanNeverRefuses'
    BY ProcessAssumption DEF ProcessInv, CloseOwned, OrphanNeverRefuses
  <1> QED BY <1>1, <1>2, <1>3, <1>4, OneMoves

LEMMA KilledKeeps ==
  ASSUME ProcessInv, ServiceKilled
  PROVE  ProcessInv'
  <1> DEFINE gone == [NoProcess EXCEPT !.at = "gone"]
             v(p) == IF Is(p, "none") THEN cpproc[p] ELSE gone
  <1>1. Good(gone, cpfixed)
    BY FreshGood DEF ProcessInv
  <1>2. cpproc' = [p \in Starts |-> v(p)]
    BY DEF ServiceKilled
  <1> HIDE DEF gone
  <1>3. \A p \in Starts : Good(v(p), cpfixed)
    BY <1>1 DEF ProcessInv
  <1>4. \A p \in Starts : v(p) \in Record
    BY <1>3 DEF Good
  <1> HIDE DEF v
  <1>5. cpports' \in Foreign..MaxStarts
    BY ProcessAssumption DEF ProcessInv, ServiceKilled, Free, Orphan, Foreign
  <1>6. cpowner' \in 0..MaxStarts /\ UNCHANGED cpfixed /\ OrphanNeverRefuses'
    BY ProcessAssumption DEF ProcessInv, ServiceKilled, OrphanNeverRefuses
  <1> QED BY <1>2, <1>3, <1>4, <1>5, <1>6 DEF ProcessInv

LEMMA ProcessInvNext == ProcessInv /\ [ProcessNext]_processVars => ProcessInv'
  <1> SUFFICES ASSUME ProcessInv, [ProcessNext]_processVars PROVE ProcessInv'
    OBVIOUS
  <1>1. ASSUME NEW p \in Starts, NewProcess(p) PROVE ProcessInv'
    <2>1. CASE WriteV2rayConfig(p)
      BY <2>1, StepKeeps DEF WriteV2rayConfig, States, Steps
    <2>2. CASE Prestart(p)
      BY <2>2, StepKeeps DEF Prestart, States, Steps
    <2> QED BY <1>1, <2>1, <2>2, CheckKeeps, SpawnKeeps, WaitLoopKeeps DEF NewProcess
  <1>2. ASSUME NEW p \in Starts, Signalled(p) PROVE ProcessInv'
    BY <1>2, CoreExitsKeeps DEF Signalled, KilledByService, TermByService
  <1>3. CASE ForeignLeaves
    BY <1>3, ProcessAssumption DEF ForeignLeaves, ProcessInv, OrphanNeverRefuses, Free, Foreign
  <1>4. CASE UNCHANGED processVars
    BY <1>4 DEF processVars, ProcessInv, OrphanNeverRefuses
  <1> QED BY <1>1, <1>2, <1>3, <1>4, SetAPIKeeps, CoreBindsKeeps, CoreExitsKeeps, WaitReturnsKeeps,
             ReportsKeeps, CloseOwnedKeeps, KilledKeeps DEF ProcessNext, WaiterStep

LEMMA ProcessInvariance == ProcessSpec => []ProcessInv
  BY ProcessInvInit, ProcessInvNext, PTL DEF ProcessSpec

-----------------------------------------------------------------------------
(* The theorems.                                                           *)

\* What the manager may rely on: a process that is up has shown its own core
\* (unless the API port is configured), a death that is reported is real, was
\* not asked for and is reported once, and producers end with their process.
THEOREM ProcessIsSafe == ProcessSpec => []ProcessSafe
  <1>1. ProcessInv => ProcessSafe
    <2> SUFFICES ASSUME ProcessInv PROVE ProcessSafe
      OBVIOUS
    <2>1. ProcessTypeOK
      BY DEF ProcessInv, ProcessTypeOK, Record, States, Cores, Waiters
    <2>2. UpMeansServed
      BY DEF ProcessInv, Good, Served, UpMeansServed, Is
    <2>3. OnlyRealDeathsReported
      BY DEF ProcessInv, Good, Reported, OnlyRealDeathsReported, Alive
    <2>4. ProducersFollowOwner
      BY DEF ProcessInv, Good, Producing, ProducersFollowOwner
    <2> QED BY <2>1, <2>2, <2>3, <2>4 DEF ProcessSafe
  <1> QED BY <1>1, ProcessInvariance, PTL

\* A start that the deferred functions of NewProcess undo leaves no producer
\* running and no core that is not being killed.
THEOREM RefusedLeaves == ProcessSpec => []RefusedLeavesNothing
  <1>1. ProcessInv => RefusedLeavesNothing
    BY DEF ProcessInv, Good, Producing, RefusedLeavesNothing, Is
  <1> QED BY <1>1, ProcessInvariance, PTL

\* On a Unix the core of a service that was killed never keeps a later start
\* from its ports.
THEOREM OrphanIsKilled == ProcessSpec => []OrphanNeverRefuses
  <1>1. ProcessInv => OrphanNeverRefuses
    BY DEF ProcessInv
  <1> QED BY <1>1, ProcessInvariance, PTL
-----------------------------------------------------------------------------
(* The TUN inbound.                                                        *)

Conn == [pc : {"unused", "dispatch", "closed", "ended"}, src : Sources \cup {0}, queued : 0..UdpQueue, open : BOOLEAN]

\* Sessions that were made have a source, and the input path knows for whom it
\* missed one.
UdpInv ==
    /\ tnmap \in [Sources -> UdpConns \cup {0}]
    /\ tnconn \in [UdpConns -> Conn]
    /\ \A c \in UdpConns : tnconn[c].pc # "unused" => tnconn[c].src \in Sources
    /\ tninput.pc = "missed" => tninput.src \in Sources
    /\ EntriesAreServed
    /\ SendsAreSafe

\* A part of the state that an action leaves alone.
UdpAlone == UNCHANGED udpVars /\ (tninput'.pc = "missed" => tninput' = tninput)

LEMMA UdpInit == TunInboundInit => UdpInv
BY TunInboundAssumption DEF TunInboundInit, UdpInv, Conn, Idle, EntriesAreServed, SendsAreSafe

LEMMA UdpStutter == UdpInv /\ UdpAlone => UdpInv'
BY DEF UdpInv, UdpAlone, udpVars, EntriesAreServed, SendsAreSafe

\* A datagram put on a session of the table: enqueue keeps all but the queue.
LEMMA UdpEnqueue ==
    ASSUME UdpInv, NEW s \in Sources, tnmap[s] # 0, enqueue(tnmap[s]), tninput'.pc # "missed"
    PROVE  UdpInv'
<1> DEFINE d == tnmap[s]
<1>1. d \in UdpConns /\ tnconn[d] \in Conn /\ tnconn[d].open
  BY DEF UdpInv, EntriesAreServed
<1>2. /\ tnconn' \in [UdpConns -> Conn]
      /\ \A c \in UdpConns : /\ tnconn'[c].pc = tnconn[c].pc /\ tnconn'[c].src = tnconn[c].src
                             /\ tnconn'[c].open = tnconn[c].open
  BY <1>1, TunInboundAssumption DEF UdpInv, enqueue, Conn
<1>3. tnmap' = tnmap
  BY DEF enqueue
<1>4. ~tnpanic'
  BY <1>1 DEF UdpInv, enqueue, SendsAreSafe
<1> QED
  BY <1>2, <1>3, <1>4 DEF UdpInv, EntriesAreServed, SendsAreSafe

LEMMA UdpPacket ==
    ASSUME UdpInv, NEW s \in Sources, handlePacket(s)
    PROVE  UdpInv'
<1>1. CASE tnmap[s] # 0
  BY <1>1, UdpEnqueue DEF handlePacket, Returns, Idle
<1>2. CASE tnmap[s] = 0
  BY <1>2 DEF handlePacket, udpVars, UdpInv, EntriesAreServed, SendsAreSafe
<1> QED
  BY <1>1, <1>2

LEMMA UdpLocked == UdpInv /\ handlePacketLocked => UdpInv'
<1> SUFFICES ASSUME UdpInv, handlePacketLocked PROVE UdpInv'
  OBVIOUS
<1> DEFINE s == tninput.src
<1>0. s \in Sources /\ tninput'.pc # "missed"
  BY DEF UdpInv, handlePacketLocked, Returns, Idle
<1>1. CASE tnmap[s] # 0
  BY <1>0, <1>1, UdpEnqueue DEF handlePacketLocked
<1>2. CASE tnmap[s] = 0
  <2>1. PICK c \in UdpConns :
            /\ tnconn[c].pc = "unused"
            /\ tnconn' = [tnconn EXCEPT ![c] = [pc |-> "dispatch", src |-> s, queued |-> 1, open |-> TRUE]]
            /\ tnmap' = [tnmap EXCEPT ![s] = c]
            /\ UNCHANGED tnpanic
    BY <1>2 DEF handlePacketLocked
  <2>2. tnconn' \in [UdpConns -> Conn] /\ tnmap' \in [Sources -> UdpConns \cup {0}]
    <3>1. [pc |-> "dispatch", src |-> s, queued |-> 1, open |-> TRUE] \in Conn
      BY <1>0, TunInboundAssumption DEF Conn
    <3> QED
      BY <1>0, <2>1, <3>1 DEF UdpInv
  <2>3. /\ \A d \in UdpConns \ {c} : tnconn'[d] = tnconn[d]
        /\ tnconn'[c].pc = "dispatch" /\ tnconn'[c].open /\ tnconn'[c].src = s
    BY <2>1 DEF UdpInv
  <2>4. /\ tnmap'[s] = c
        /\ \A t \in Sources \ {s} : tnmap'[t] = tnmap[t] /\ tnmap[t] # c
    BY <1>0, <2>1, TunInboundAssumption DEF UdpInv, EntriesAreServed
  <2>5. EntriesAreServed'
    BY <2>2, <2>3, <2>4 DEF UdpInv, EntriesAreServed
  <2> QED
    BY <1>0, <2>1, <2>2, <2>3, <2>5 DEF UdpInv, SendsAreSafe
<1> QED
  BY <1>1, <1>2

LEMMA UdpRead ==
    ASSUME UdpInv, NEW c \in UdpConns, ReadMultiBuffer(c)
    PROVE  UdpInv'
<1>1. /\ tnconn' \in [UdpConns -> Conn]
      /\ \A d \in UdpConns : /\ tnconn'[d].pc = tnconn[d].pc /\ tnconn'[d].src = tnconn[d].src
                             /\ tnconn'[d].open = tnconn[d].open
  <2>1. tnconn[c] \in Conn /\ tnconn[c].queued - 1 \in 0..UdpQueue
    BY TunInboundAssumption DEF UdpInv, ReadMultiBuffer, Conn
  <2> QED
    BY <2>1 DEF UdpInv, ReadMultiBuffer, Conn
<1> QED
  BY <1>1 DEF UdpInv, ReadMultiBuffer, EntriesAreServed, SendsAreSafe

\* Whichever session the entry names, removing it and closing its egress keeps
\* the entries of the other sources.
LEMMA UdpFinished ==
    ASSUME UdpInv, NEW c \in UdpConns, NEW next \in {"closed", "ended"}, dispatch(c), finished(c, next),
           UNCHANGED tninput
    PROVE  UdpInv'
<1> DEFINE s == tnconn[c].src
           found == tnmap[s]
<1>1. s \in Sources /\ found \in UdpConns \cup {0}
  BY DEF UdpInv, dispatch
<1>2. found # 0 => tnconn[found].open
  BY <1>1 DEF UdpInv, EntriesAreServed
<1>3. tnmap' = [tnmap EXCEPT ![s] = 0]
  BY DEF finished
<1>4. ~tnpanic'
  BY <1>2 DEF UdpInv, finished, SendsAreSafe
<1>5. /\ tnconn' \in [UdpConns -> Conn]
      /\ \A d \in UdpConns : tnconn'[d].src = tnconn[d].src
      /\ \A d \in UdpConns \ {c} : tnconn'[d].pc = tnconn[d].pc
      /\ \A d \in UdpConns \ {found} : tnconn'[d].open = tnconn[d].open
      /\ tnconn'[c].pc = next
  <2>1. CASE found = 0
    BY <2>1 DEF UdpInv, finished, Conn
  <2>2. CASE found # 0
    <3> DEFINE moved == [tnconn EXCEPT ![c].pc = next]
    <3>1. tnconn' = [moved EXCEPT ![found].open = FALSE] /\ found \in UdpConns
      BY <2>2, <1>1 DEF finished
    <3>2. /\ moved \in [UdpConns -> Conn] /\ moved[c].pc = next
          /\ \A d \in UdpConns : moved[d].src = tnconn[d].src /\ moved[d].open = tnconn[d].open
          /\ \A d \in UdpConns \ {c} : moved[d].pc = tnconn[d].pc
      BY DEF UdpInv, Conn
    <3> HIDE DEF moved
    <3> DEFINE shut == [moved[found] EXCEPT !.open = FALSE]
    <3>3. shut \in Conn /\ shut.src = moved[found].src /\ shut.pc = moved[found].pc
      <4>1. moved[found] \in Conn
        BY <3>1, <3>2
      <4> QED
        BY <4>1 DEF Conn
    <3>4. tnconn' = [moved EXCEPT ![found] = shut]
      BY <3>1
    <3> HIDE DEF shut
    <3>5. /\ tnconn' \in [UdpConns -> Conn]
          /\ \A d \in UdpConns : tnconn'[d].src = moved[d].src /\ tnconn'[d].pc = moved[d].pc
          /\ \A d \in UdpConns \ {found} : tnconn'[d].open = moved[d].open
      BY <3>1, <3>2, <3>3, <3>4
    <3> QED
      BY <3>2, <3>5
  <2> QED
    BY <2>1, <2>2
<1>6. ASSUME NEW t \in Sources \ {s}, tnmap[t] # 0
      PROVE  tnmap[t] \in UdpConns /\ tnmap[t] # c /\ tnmap[t] # found
  BY <1>1, <1>6 DEF UdpInv, EntriesAreServed
<1>7. EntriesAreServed'
  BY <1>1, <1>3, <1>5, <1>6 DEF UdpInv, EntriesAreServed
<1>8. \A d \in UdpConns : tnconn'[d].pc # "unused" => tnconn'[d].src \in Sources
  BY <1>1, <1>5 DEF UdpInv
<1>9. tnmap' \in [Sources -> UdpConns \cup {0}]
  BY <1>3 DEF UdpInv
<1> QED
  BY <1>4, <1>5, <1>7, <1>8, <1>9 DEF UdpInv, SendsAreSafe

LEMMA UdpNext == UdpInv /\ [TunInboundNext]_tunInboundVars => UdpInv'
<1> SUFFICES ASSUME UdpInv, [TunInboundNext]_tunInboundVars PROVE UdpInv'
  OBVIOUS
<1>1. CASE \E s \in Sources : handlePacket(s)
  BY <1>1, UdpPacket
<1>2. CASE handlePacketLocked
  BY <1>2, UdpLocked
<1>3. CASE \E c \in UdpConns : ReadMultiBuffer(c)
  BY <1>3, UdpRead
<1>4. CASE \E c \in UdpConns : CloseLink(c) \/ run(c)
  <2>1. PICK c \in UdpConns : CloseLink(c) \/ run(c)
    BY <1>4
  <2>2. dispatch(c) /\ UNCHANGED tninput /\ (finished(c, "closed") \/ finished(c, "ended"))
    BY <2>1 DEF CloseLink, run, dispatch
  <2> QED
    BY <2>2, UdpFinished
<1>5. CASE UdpAlone
  BY <1>5, UdpStutter
<1>6. ASSUME NEW s \in Sources, handleUDP(s) PROVE UdpAlone
  BY <1>6 DEF handleUDP, UdpAlone, Returns, Idle
<1>7. CASE touch \/ WriteQuery \/ Tick
  <2>1. touch => UdpAlone
    BY DEF touch, UdpAlone
  <2>2. WriteQuery => UdpAlone
    BY DEF WriteQuery, UdpAlone, Returns, Idle
  <2>3. Tick => UdpAlone
    BY DEF Tick, UdpAlone
  <2> QED
    BY <1>5, <1>7, <2>1, <2>2, <2>3
<1>8. ASSUME NEW c \in DnsConns, Reply(c) \/ readReplies(c) PROVE UdpAlone
  BY <1>8 DEF Reply, readReplies, SetReadDeadline, ReadFails, Leave, CloseSocket, UdpAlone
<1>9. ASSUME NEW r \in Relays, handleTCP(r) \/ Relay(r) PROVE UdpAlone
  BY <1>9 DEF handleTCP, Relay, DialTimeout, RelayDone, RelayReturns, relayUnchanged, UdpAlone
<1>10. CASE Start \/ watch \/ CloseHijack \/ CloseRest
  BY <1>10, <1>5 DEF Start, watch, CloseHijack, CloseRest, deviceOnly, UdpAlone
<1>11. ASSUME NEW p \in Pumps, PumpSeesClosed(p) \/ DeviceFails(p) \/ PumpCloses(p) PROVE UdpAlone
  BY <1>11 DEF PumpSeesClosed, DeviceFails, PumpCloses, fail, deviceOnly, UdpAlone
<1>12. CASE UNCHANGED tunInboundVars
  BY <1>12, <1>5 DEF tunInboundVars, UdpAlone
<1> QED
  BY <1>1, <1>2, <1>3, <1>4, <1>5, <1>6, <1>7, <1>8, <1>9, <1>10, <1>11, <1>12 DEF TunInboundNext
-----------------------------------------------------------------------------
(* The hijack's sockets.                                                    *)

Sock == [pc : {"unused", "arm", "read", "leave", "close", "done"}, src : Sources \cup {0},
         open : BOOLEAN, armed : 0..NoDeadline, age : 0..DnsUDPIdle, owed : BOOLEAN]
Input == [pc : {"idle", "missed", "touch", "write"}, src : Sources \cup {0}, conn : DnsConns \cup {0}]

\* An open socket whose reader has not yet left is the one its flow finds.
SocketsFound ==
    \A c \in DnsConns : tndns[c].open /\ tndns[c].pc # "close" => tnsess[tndns[c].src] = c

DnsTypeInv ==
    /\ tnsess \in [Sources -> DnsConns \cup {0}]
    /\ tndns \in [DnsConns -> Sock]
    /\ tninput \in Input
    /\ tninput.pc \in {"touch", "write"} => tninput.conn \in DnsConns
    /\ \A c \in DnsConns : tndns[c].open \/ tndns[c].pc # "unused" => tndns[c].src \in Sources
DnsInv == DnsTypeInv /\ SocketsFound /\ Cardinality(Entries) <= DnsMaxSessions

\* The clocks stay in range.
LEMMA Clocks ==
    /\ 0 \in 0..NoDeadline /\ 0 \in 0..DnsUDPIdle /\ NoDeadline \in 0..NoDeadline /\ DnsUDPIdle \in 0..DnsUDPIdle
    /\ \A a \in 0..DnsUDPIdle : DnsUDPIdle - a \in 0..NoDeadline
    /\ \A a \in 0..DnsUDPIdle : (IF a < DnsUDPIdle THEN a + 1 ELSE a) \in 0..DnsUDPIdle
    /\ \A a \in 0..NoDeadline : (IF a \in 1..DnsUDPIdle THEN a - 1 ELSE a) \in 0..NoDeadline
BY TunInboundAssumption DEF NoDeadline

LEMMA EntriesFinite == IsFiniteSet(Entries) /\ Cardinality(Entries) \in Nat
BY FS_Subset, FS_CardinalityType, TunInboundAssumption DEF Entries

\* The sockets inject into the entries, by their flow.
LEMMA FoundIsBounded == DnsInv => SocketsBounded
<1> SUFFICES ASSUME DnsInv PROVE SocketsBounded
  OBVIOUS
<1> DEFINE S == {c \in DnsConns : tndns[c].open /\ tndns[c].pc # "close"}
           f == [c \in S |-> tndns[c].src]
<1>1. \A c \in S : tndns[c].src \in Entries /\ tnsess[tndns[c].src] = c
  BY TunInboundAssumption DEF DnsInv, DnsTypeInv, SocketsFound, Entries
<1>2. f \in Injection(S, Entries)
  BY <1>1 DEF Injection, IsInjective
<1>3. Cardinality(S) <= Cardinality(Entries) /\ IsFiniteSet(S)
  BY <1>2, EntriesFinite, FS_Injection
<1>4. Cardinality(S) \in Nat
  BY <1>3, FS_CardinalityType
<1>5. Cardinality(S) <= DnsMaxSessions
  BY <1>3, <1>4, EntriesFinite, TunInboundAssumption DEF DnsInv
<1> QED
  BY <1>5 DEF SocketsBounded

LEMMA DnsInit == TunInboundInit => DnsInv
<1> SUFFICES ASSUME TunInboundInit PROVE DnsInv
  OBVIOUS
<1>1. Entries = {}
  BY DEF TunInboundInit, Entries
<1>2. Cardinality(Entries) <= DnsMaxSessions
  BY <1>1, FS_EmptySet, TunInboundAssumption
<1>3. DnsTypeInv
  BY TunInboundAssumption DEF TunInboundInit, DnsTypeInv, Sock, Input, Idle, NoDeadline
<1>4. SocketsFound
  BY DEF TunInboundInit, SocketsFound
<1> QED
  BY <1>2, <1>3, <1>4 DEF DnsInv

\* The table loses entries, or none changes; the type is known.
LEMMA EntriesShrink ==
    ASSUME DnsInv, DnsTypeInv', SocketsFound', \A s \in Sources : tnsess'[s] # 0 => tnsess[s] # 0
    PROVE  DnsInv'
<1>1. Entries' \subseteq Entries
  BY DEF Entries
<1>2. Cardinality(Entries') <= Cardinality(Entries) /\ Cardinality(Entries') \in Nat
  BY <1>1, EntriesFinite, FS_Subset, FS_CardinalityType
<1> QED
  BY <1>2, EntriesFinite, TunInboundAssumption DEF DnsInv

\* A step that keeps the table and, of every socket, flow and openness, and
\* takes no reader back from its closing.
LEMMA DnsKeeps ==
    ASSUME DnsInv, tnsess' = tnsess, tndns' \in [DnsConns -> Sock], tninput' \in Input,
           tninput'.pc \in {"touch", "write"} => tninput'.conn \in DnsConns,
           \A c \in DnsConns :
              /\ tndns'[c].src = tndns[c].src
              /\ tndns'[c].open => tndns[c].open
              /\ tndns'[c].pc # "unused" => tndns[c].pc # "unused"
              /\ tndns'[c].pc # "close" => tndns[c].pc # "close" \/ ~tndns'[c].open
    PROVE  DnsInv'
<1>1. DnsTypeInv'
  BY DEF DnsInv, DnsTypeInv
<1>2. SocketsFound'
  BY DEF DnsInv, SocketsFound
<1> QED
  BY <1>1, <1>2, EntriesShrink

LEMMA DnsStutter ==
    ASSUME DnsInv, UNCHANGED dnsVars, tninput' \in Input,
           tninput'.pc \in {"touch", "write"} => tninput'.conn \in DnsConns
    PROVE  DnsInv'
<1>1. tnsess' = tnsess /\ tndns' = tndns
  BY DEF dnsVars
<1> QED
  BY <1>1, DnsKeeps DEF DnsInv, DnsTypeInv

\* A query on a known flow, one that is dropped, and one that opens a socket.
LEMMA DnsQuery ==
    ASSUME DnsInv, NEW s \in Sources, handleUDP(s)
    PROVE  DnsInv'
<1>1. CASE /\ tnsess[s] # 0 /\ tndns' = [tndns EXCEPT ![tnsess[s]].age = 0]
           /\ tninput' = [pc |-> "write", src |-> s, conn |-> tnsess[s]] /\ UNCHANGED tnsess
  <2>1. tnsess[s] \in DnsConns /\ tninput' \in Input
    BY <1>1 DEF DnsInv, DnsTypeInv, Input
  <2>2. tndns' \in [DnsConns -> Sock]
    BY <1>1, <2>1, TunInboundAssumption DEF DnsInv, DnsTypeInv, Sock
  <2>3. \A c \in DnsConns : /\ tndns'[c].src = tndns[c].src /\ tndns'[c].open = tndns[c].open
                            /\ tndns'[c].pc = tndns[c].pc
    BY <1>1 DEF DnsInv, DnsTypeInv, Sock
  <2> QED
    BY <1>1, <2>1, <2>2, <2>3, DnsKeeps
<1>2. CASE UNCHANGED dnsVars /\ Returns
  BY <1>2, DnsStutter DEF Returns, Idle, Input
<1>3. CASE /\ tnsess[s] = 0 /\ Cardinality(Entries) < DnsMaxSessions
           /\ \E c \in DnsConns :
                /\ tndns[c].pc = "unused" /\ \A d \in DnsConns : d < c => tndns[d].pc # "unused"
                /\ tndns' = [tndns EXCEPT ![c] =
                        [pc |-> "arm", src |-> s, open |-> TRUE, armed |-> NoDeadline, age |-> DnsUDPIdle, owed |-> FALSE]]
                /\ tnsess' = [tnsess EXCEPT ![s] = c]
                /\ tninput' = [pc |-> "touch", src |-> s, conn |-> c]
  <2>1. PICK c \in DnsConns :
                /\ tndns[c].pc = "unused"
                /\ tndns' = [tndns EXCEPT ![c] =
                        [pc |-> "arm", src |-> s, open |-> TRUE, armed |-> NoDeadline, age |-> DnsUDPIdle, owed |-> FALSE]]
                /\ tnsess' = [tnsess EXCEPT ![s] = c]
                /\ tninput' = [pc |-> "touch", src |-> s, conn |-> c]
    BY <1>3
  <2>2. tndns' \in [DnsConns -> Sock]
    BY <2>1, TunInboundAssumption DEF DnsInv, DnsTypeInv, Sock, NoDeadline
  <2>3. tnsess' \in [Sources -> DnsConns \cup {0}] /\ tninput' \in Input /\ tninput'.conn \in DnsConns
    BY <2>1 DEF DnsInv, DnsTypeInv, Input
  <2>4. /\ tndns'[c].src = s /\ tnsess'[s] = c
        /\ \A d \in DnsConns \ {c} : tndns'[d] = tndns[d]
        /\ \A t \in Sources \ {s} : tnsess'[t] = tnsess[t]
    BY <2>1 DEF DnsInv, DnsTypeInv
  <2>5. DnsTypeInv'
    BY <2>2, <2>3, <2>4 DEF DnsInv, DnsTypeInv
  <2>6. SocketsFound'
    <3>1. ASSUME NEW d \in DnsConns \ {c}, tndns[d].open, tndns[d].pc # "close"
          PROVE  tndns[d].src \in Sources \ {s} /\ tnsess[tndns[d].src] = d
      <4>1. tndns[d].src \in Sources /\ tnsess[tndns[d].src] = d
        BY <3>1 DEF DnsInv, DnsTypeInv, SocketsFound
      <4> QED
        BY <1>3, <4>1, TunInboundAssumption
    <3> QED
      BY <2>4, <3>1 DEF SocketsFound
  <2>7. Entries' = Entries \cup {s}
    BY <2>4, TunInboundAssumption DEF Entries
  <2>8. Cardinality(Entries') <= DnsMaxSessions
    <3>1. s \notin Entries
      BY <1>3 DEF Entries
    <3>2. Cardinality(Entries \cup {s}) = Cardinality(Entries) + 1
      BY <3>1, EntriesFinite, FS_AddElement
    <3> QED
      BY <1>3, <2>7, <3>2, EntriesFinite, TunInboundAssumption
  <2> QED
    BY <2>5, <2>6, <2>8 DEF DnsInv
<1> QED
  BY <1>1, <1>2, <1>3 DEF handleUDP

LEMMA DnsTouch == DnsInv /\ touch => DnsInv'
<1> SUFFICES ASSUME DnsInv, touch PROVE DnsInv'
  OBVIOUS
<1>1. tninput' \in Input /\ tninput'.conn \in DnsConns /\ tninput.conn \in DnsConns
  BY DEF DnsInv, DnsTypeInv, touch, Input
<1>2. /\ tndns' \in [DnsConns -> Sock]
      /\ \A c \in DnsConns : /\ tndns'[c].src = tndns[c].src /\ tndns'[c].open = tndns[c].open
                             /\ tndns'[c].pc = tndns[c].pc
  BY <1>1, TunInboundAssumption DEF DnsInv, DnsTypeInv, touch, Sock
<1> QED
  BY <1>1, <1>2, DnsKeeps DEF touch

LEMMA DnsWrite == DnsInv /\ WriteQuery => DnsInv'
<1> SUFFICES ASSUME DnsInv, WriteQuery PROVE DnsInv'
  OBVIOUS
<1> DEFINE d == tninput.conn
           owed == tndns[d].owed \/ (tndns[d].open /\ Reads(d))
<1>1. d \in DnsConns /\ tninput' \in Input /\ tninput'.pc = "idle"
  BY DEF DnsInv, DnsTypeInv, WriteQuery, Returns, Idle, Input
<1>2. owed \in BOOLEAN
  BY <1>1, Zenon DEF DnsInv, DnsTypeInv, Sock, Reads
<1>3. tndns' = [tndns EXCEPT ![d].owed = owed]
  BY <1>1 DEF WriteQuery, DnsInv, DnsTypeInv
<1> HIDE DEF owed
<1>4. /\ tndns' \in [DnsConns -> Sock]
      /\ \A c \in DnsConns : /\ tndns'[c].src = tndns[c].src /\ tndns'[c].open = tndns[c].open
                             /\ tndns'[c].pc = tndns[c].pc
  BY <1>1, <1>2, <1>3 DEF DnsInv, DnsTypeInv, Sock
<1> QED
  BY <1>1, <1>4, DnsKeeps DEF WriteQuery

LEMMA DnsTick == DnsInv /\ Tick => DnsInv'
<1> SUFFICES ASSUME DnsInv, Tick PROVE DnsInv'
  OBVIOUS
<1>1. ASSUME NEW c \in DnsConns
      PROVE  /\ tndns'[c] \in Sock /\ tndns'[c].src = tndns[c].src /\ tndns'[c].open = tndns[c].open
             /\ tndns'[c].pc = tndns[c].pc
  <2>1. tndns[c] \in Sock
    BY DEF DnsInv, DnsTypeInv
  <2> DEFINE v == Later(tndns[c])
             armed == IF tndns[c].armed \in 1..DnsUDPIdle THEN tndns[c].armed - 1 ELSE tndns[c].armed
             age == IF tndns[c].age < DnsUDPIdle THEN tndns[c].age + 1 ELSE tndns[c].age
  <2>2. armed \in 0..NoDeadline /\ age \in 0..DnsUDPIdle
    BY <2>1, Clocks DEF Sock
  <2>3. v = [tndns[c] EXCEPT !.armed = armed, !.age = age]
    BY <2>1 DEF Later, Sock
  <2> HIDE DEF v, armed, age
  <2>4. v \in Sock /\ v.src = tndns[c].src /\ v.open = tndns[c].open /\ v.pc = tndns[c].pc
    BY <2>1, <2>2, <2>3 DEF Sock
  <2>5. tndns'[c] = v \/ tndns'[c] = tndns[c]
    BY DEF Tick, v
  <2> QED
    BY <2>1, <2>4, <2>5
<1>2. tndns' \in [DnsConns -> Sock]
  BY <1>1 DEF Tick
<1> QED
  BY <1>1, <1>2, DnsKeeps DEF Tick, DnsInv, DnsTypeInv

\* The reader's steps but the removal of its entry.
LEMMA DnsReader ==
    ASSUME DnsInv, NEW c \in DnsConns, Reply(c) \/ SetReadDeadline(c) \/ ReadFails(c) \/ CloseSocket(c)
    PROVE  DnsInv'
<1>0. tninput' = tninput /\ tnsess' = tnsess
  BY DEF Reply, SetReadDeadline, ReadFails, CloseSocket
<1>1. tndns[c] \in Sock /\ tndns[c].age \in 0..DnsUDPIdle
  BY DEF DnsInv, DnsTypeInv, Sock
<1>4. /\ Left(tndns[c]) \in Sock /\ Left(tndns[c]).src = tndns[c].src /\ Left(tndns[c]).pc = "leave"
      /\ Left(tndns[c]).open = tndns[c].open
  BY <1>1, Clocks DEF Sock, Left
<1>2. PICK v \in Sock :
        /\ tndns' = [tndns EXCEPT ![c] = v] /\ v.src = tndns[c].src
        /\ v.pc # "unused" /\ tndns[c].pc # "unused"
        /\ v.open => tndns[c].open
        /\ tndns[c].pc # "close" \/ ~v.open
  <2>1. CASE Reply(c)
    <3>1. [tndns[c] EXCEPT !.pc = "arm", !.owed = FALSE] \in Sock
      BY <1>1 DEF Sock
    <3>2. CASE tndns' = [tndns EXCEPT ![c].pc = "arm", ![c].owed = FALSE]
      <4> DEFINE v == [tndns[c] EXCEPT !.pc = "arm", !.owed = FALSE]
      <4>1. tndns' = [tndns EXCEPT ![c] = v]
        BY <3>2 DEF DnsInv, DnsTypeInv
      <4>2. v.src = tndns[c].src /\ v.pc = "arm" /\ v.open = tndns[c].open
        BY <1>1 DEF Sock
      <4> QED
        BY <2>1, <3>1, <4>1, <4>2 DEF Reply
    <3>3. CASE tndns' = [tndns EXCEPT ![c] = Left(@)]
      BY <1>4, <2>1, <3>3 DEF Reply
    <3> QED
      BY <2>1, <3>2, <3>3 DEF Reply
  <2>2. CASE SetReadDeadline(c)
    <3> DEFINE left == DnsUDPIdle - tndns[c].age
               v == [tndns[c] EXCEPT !.pc = "read", !.armed = left]
    <3>1. left \in 0..NoDeadline
      BY <1>1, Clocks
    <3>2. tndns' = [tndns EXCEPT ![c] = v]
      BY <2>2 DEF SetReadDeadline, DnsInv, DnsTypeInv
    <3> HIDE DEF left
    <3>3. v \in Sock /\ v.src = tndns[c].src /\ v.pc = "read" /\ v.open = tndns[c].open
      BY <1>1, <3>1 DEF Sock
    <3> QED
      BY <2>2, <3>2, <3>3 DEF SetReadDeadline
  <2>3. CASE ReadFails(c)
    BY <1>4, <2>3 DEF ReadFails
  <2>4. CASE CloseSocket(c)
    <3> DEFINE v == [tndns[c] EXCEPT !.pc = "done", !.open = FALSE]
    <3>1. v \in Sock /\ v.src = tndns[c].src /\ v.pc = "done" /\ v.open = FALSE
      BY <1>1 DEF Sock
    <3>2. tndns' = [tndns EXCEPT ![c] = v]
      BY <2>4 DEF CloseSocket, DnsInv, DnsTypeInv
    <3> QED
      BY <2>4, <3>1, <3>2 DEF CloseSocket
  <2> QED
    BY <2>1, <2>2, <2>3, <2>4
<1>3. /\ tndns' \in [DnsConns -> Sock] /\ tndns'[c] = v
      /\ \A d \in DnsConns \ {c} : tndns'[d] = tndns[d]
  BY <1>2 DEF DnsInv, DnsTypeInv
<1> QED
  BY <1>0, <1>2, <1>3, DnsKeeps DEF DnsInv, DnsTypeInv

\* The deferred removal takes the reader's own entry or none.
LEMMA DnsLeave ==
    ASSUME DnsInv, NEW c \in DnsConns, Leave(c)
    PROVE  DnsInv'
<1> DEFINE s == tndns[c].src
<1>1. s \in Sources
  BY DEF DnsInv, DnsTypeInv, Leave
<1>2. /\ tndns' \in [DnsConns -> Sock]
      /\ tndns'[c].src = s /\ tndns'[c].pc = "close"
      /\ \A d \in DnsConns \ {c} : tndns'[d] = tndns[d]
  BY DEF DnsInv, DnsTypeInv, Leave, Sock
<1>3. /\ tnsess' \in [Sources -> DnsConns \cup {0}]
      /\ \A t \in Sources : tnsess'[t] = tnsess[t] \/ (tnsess[t] = c /\ tnsess'[t] = 0)
  BY <1>1 DEF DnsInv, DnsTypeInv, Leave
<1>4. DnsTypeInv'
  BY <1>1, <1>2, <1>3 DEF DnsInv, DnsTypeInv, Leave
<1>5. SocketsFound'
  BY <1>1, <1>2, <1>3 DEF DnsInv, DnsTypeInv, SocketsFound
<1> QED
  BY <1>3, <1>4, <1>5, EntriesShrink

\* close() empties the table and closes what was in it.
LEMMA DnsClose == DnsInv /\ CloseHijack => DnsInv'
<1> SUFFICES ASSUME DnsInv, CloseHijack PROVE DnsInv'
  OBVIOUS
<1>1. ASSUME NEW c \in DnsConns
      PROVE  /\ tndns'[c] \in Sock /\ tndns'[c].src = tndns[c].src /\ tndns'[c].pc = tndns[c].pc
             /\ tndns'[c].open => tndns[c].open /\ \A s \in Sources : tnsess[s] # c
  <2> DEFINE v == [tndns[c] EXCEPT !.open = FALSE]
  <2>1. tndns[c] \in Sock
    BY DEF DnsInv, DnsTypeInv
  <2>2. v \in Sock /\ v.src = tndns[c].src /\ v.pc = tndns[c].pc /\ v.open = FALSE
    BY <2>1 DEF Sock
  <2>3. tndns'[c] = IF \E s \in Sources : tnsess[s] = c THEN v ELSE tndns[c]
    BY DEF CloseHijack
  <2> HIDE DEF v
  <2> QED
    BY <2>1, <2>2, <2>3
<1>2. tndns' \in [DnsConns -> Sock] /\ tnsess' \in [Sources -> DnsConns \cup {0}] /\ tninput' = tninput
  BY <1>1 DEF CloseHijack, deviceOnly
<1>3. DnsTypeInv'
  BY <1>1, <1>2 DEF DnsInv, DnsTypeInv
<1>4. SocketsFound'
  BY <1>1 DEF DnsInv, DnsTypeInv, SocketsFound
<1> QED
  BY <1>3, <1>4, EntriesShrink DEF CloseHijack

\* The actions that neither open, touch nor close a socket.
Elsewhere ==
    /\ UNCHANGED dnsVars
    /\ \/ tninput' \in {tninput, Idle}
       \/ \E s \in Sources : tninput' = [pc |-> "missed", src |-> s, conn |-> 0]

LEMMA DnsElsewhere == DnsInv /\ Elsewhere => DnsInv'
<1> SUFFICES ASSUME DnsInv, Elsewhere PROVE DnsInv'
  OBVIOUS
<1>1. tninput' \in Input /\ (tninput'.pc \in {"touch", "write"} => tninput'.conn \in DnsConns)
  BY DEF DnsInv, DnsTypeInv, Elsewhere, Idle, Input
<1> QED
  BY <1>1, DnsStutter DEF Elsewhere

LEMMA DnsNext == DnsInv /\ [TunInboundNext]_tunInboundVars => DnsInv'
<1> SUFFICES ASSUME DnsInv, [TunInboundNext]_tunInboundVars PROVE DnsInv'
  OBVIOUS
<1>1. CASE \E s \in Sources : handleUDP(s)
  BY <1>1, DnsQuery
<1>2. CASE touch \/ WriteQuery \/ Tick \/ CloseHijack
  BY <1>2, DnsTouch, DnsWrite, DnsTick, DnsClose
<1>3. CASE \E c \in DnsConns : Reply(c) \/ readReplies(c)
  BY <1>3, DnsReader, DnsLeave DEF readReplies
<1>4. ASSUME NEW s \in Sources, handlePacket(s) PROVE Elsewhere
  BY <1>4 DEF handlePacket, Elsewhere, Returns
<1>5. handlePacketLocked => Elsewhere
  BY DEF handlePacketLocked, Elsewhere, Returns
<1>6. ASSUME NEW c \in UdpConns, ReadMultiBuffer(c) \/ CloseLink(c) \/ run(c) PROVE Elsewhere
  BY <1>6 DEF ReadMultiBuffer, CloseLink, run, Elsewhere, dnsVars
<1>7. ASSUME NEW r \in Relays, handleTCP(r) \/ Relay(r) PROVE Elsewhere
  BY <1>7 DEF handleTCP, Relay, DialTimeout, RelayDone, RelayReturns, relayUnchanged, Elsewhere
<1>8. Start \/ watch \/ CloseRest => Elsewhere
  BY DEF Start, watch, CloseRest, deviceOnly, Elsewhere
<1>9. ASSUME NEW p \in Pumps, PumpSeesClosed(p) \/ DeviceFails(p) \/ PumpCloses(p) PROVE Elsewhere
  BY <1>9 DEF PumpSeesClosed, DeviceFails, PumpCloses, fail, deviceOnly, Elsewhere
<1>10. UNCHANGED tunInboundVars => Elsewhere
  BY DEF tunInboundVars, Elsewhere
<1> QED
  BY <1>1, <1>2, <1>3, <1>4, <1>5, <1>6, <1>7, <1>8, <1>9, <1>10, DnsElsewhere DEF TunInboundNext
-----------------------------------------------------------------------------
(* The pumps, the stack and watch.                                          *)

\* A fatal error is on record from before the stack is closed for it, and
\* watch looks only at a closed stack.
DeviceInv ==
    /\ tnstack \in [by : {"none", "fatal", "clean"}, err : BOOLEAN]
    /\ tnpump \in [Pumps -> {"off", "run", "fatal", "clean", "ended"}]
    /\ \A i \in Pumps : tnpump[i] = "fatal" => tnstack.err
    /\ tnstack.by = "fatal" => tnstack.err
    /\ tnwatch.pc \in {"read", "done"} => tnstack.by # "none"
    /\ tnwatch \in [pc : {"off", "wait", "read", "done"}, err : BOOLEAN]
    /\ FailureIsReported

LEMMA DeviceInit == TunInboundInit => DeviceInv
BY SMTT(30) DEF TunInboundInit, DeviceInv, Pumps, FailureIsReported

LEMMA DeviceStutter == DeviceInv /\ UNCHANGED <<tnstack, tnpump, tnwatch>> => DeviceInv'
BY DEF DeviceInv, FailureIsReported

LEMMA DeviceFail ==
    ASSUME DeviceInv, NEW i \in Pumps, NEW fatal \in BOOLEAN, fail(i, fatal)
    PROVE  DeviceInv'
<1> DEFINE err == tnstack.err \/ fatal
<1>1. err \in BOOLEAN
  BY Zenon DEF DeviceInv
<1>2. tnstack' = [tnstack EXCEPT !.err = err]
  BY DEF fail
<1>3. (tnstack.err => err) /\ (fatal => err)
  OBVIOUS
<1> HIDE DEF err
<1>4. tnstack' \in [by : {"none", "fatal", "clean"}, err : BOOLEAN] /\ tnstack'.by = tnstack.by /\ tnstack'.err = err
  BY <1>1, <1>2 DEF DeviceInv
<1>5. tnpump' = [tnpump EXCEPT ![i] = IF fatal THEN "fatal" ELSE "clean"] /\ tnwatch' = tnwatch
  BY DEF fail
<1>6. tnpump' \in [Pumps -> {"off", "run", "fatal", "clean", "ended"}]
  BY <1>5 DEF DeviceInv
<1>7. \A j \in Pumps : tnpump'[j] = "fatal" => tnstack'.err
  BY <1>3, <1>4, <1>5 DEF DeviceInv
<1> QED
  BY <1>3, <1>4, <1>5, <1>6, <1>7 DEF DeviceInv, FailureIsReported

LEMMA DeviceCloses ==
    ASSUME DeviceInv, NEW by \in {"fatal", "clean"}, CloseStack(by), by = "fatal" => tnstack.err,
           tnpump' \in [Pumps -> {"off", "run", "fatal", "clean", "ended"}],
           \A i \in Pumps : tnpump'[i] = "fatal" => tnpump[i] = "fatal",
           UNCHANGED tnwatch
    PROVE  DeviceInv'
<1>1. /\ tnstack' \in [by : {"none", "fatal", "clean"}, err : BOOLEAN]
      /\ tnstack'.err = tnstack.err
      /\ tnstack'.by = IF tnstack.by = "none" THEN by ELSE tnstack.by
  BY DEF DeviceInv, CloseStack
<1> QED
  BY <1>1 DEF DeviceInv, FailureIsReported

LEMMA DeviceWatch == DeviceInv /\ watch => DeviceInv'
BY DEF DeviceInv, watch, FailureIsReported

LEMMA DeviceNext == DeviceInv /\ [TunInboundNext]_tunInboundVars => DeviceInv'
<1> SUFFICES ASSUME DeviceInv, [TunInboundNext]_tunInboundVars PROVE DeviceInv'
  OBVIOUS
<1> DEFINE Same == UNCHANGED <<tnstack, tnpump, tnwatch>>
<1>1. CASE Start
  <2>1. PICK up \in BOOLEAN :
            /\ tnpump' = IF up THEN [i \in Pumps |-> "run"] ELSE tnpump
            /\ tnwatch' = IF up THEN [tnwatch EXCEPT !.pc = "wait"] ELSE tnwatch
            /\ tnstack' = tnstack
    BY <1>1 DEF Start, StackStart
  <2> QED
    BY <2>1 DEF DeviceInv, FailureIsReported
<1>2. CASE watch
  BY <1>2, DeviceWatch
<1>3. CASE CloseRest
  <2>1. UNCHANGED <<tnpump, tnwatch>> /\ (CloseStack("clean") \/ UNCHANGED tnstack)
    BY <1>3 DEF CloseRest
  <2> QED
    BY <2>1, DeviceCloses, DeviceStutter DEF DeviceInv
<1>4. ASSUME NEW i \in Pumps, PumpSeesClosed(i) \/ DeviceFails(i) PROVE DeviceInv'
  BY <1>4, DeviceFail DEF PumpSeesClosed, DeviceFails
<1>5. ASSUME NEW i \in Pumps, PumpCloses(i) PROVE DeviceInv'
  <2>1. /\ tnpump[i] \in {"fatal", "clean"} /\ CloseStack(tnpump[i]) /\ UNCHANGED tnwatch
        /\ tnpump' = [tnpump EXCEPT ![i] = "ended"]
    BY <1>5 DEF PumpCloses
  <2>2. tnpump' \in [Pumps -> {"off", "run", "fatal", "clean", "ended"}]
    BY <2>1 DEF DeviceInv
  <2>3. \A j \in Pumps : tnpump'[j] = "fatal" => tnpump[j] = "fatal"
    BY <2>1 DEF DeviceInv
  <2>4. tnpump[i] = "fatal" => tnstack.err
    BY DEF DeviceInv
  <2> QED
    BY <2>1, <2>2, <2>3, <2>4, DeviceCloses
<1>6. ASSUME NEW s \in Sources, handlePacket(s) \/ handleUDP(s) PROVE Same
  BY <1>6 DEF handlePacket, handleUDP, deviceVars
<1>7. handlePacketLocked \/ touch \/ WriteQuery \/ Tick \/ CloseHijack => Same
  BY DEF handlePacketLocked, touch, WriteQuery, Tick, CloseHijack, deviceVars
<1>8. ASSUME NEW c \in UdpConns, ReadMultiBuffer(c) \/ CloseLink(c) \/ run(c) PROVE Same
  BY <1>8 DEF ReadMultiBuffer, CloseLink, run, deviceVars
<1>9. ASSUME NEW c \in DnsConns, Reply(c) \/ readReplies(c) PROVE Same
  BY <1>9 DEF Reply, readReplies, SetReadDeadline, ReadFails, Leave, CloseSocket, deviceVars
<1>10. ASSUME NEW r \in Relays, handleTCP(r) \/ Relay(r) PROVE Same
  BY <1>10 DEF handleTCP, Relay, DialTimeout, RelayDone, RelayReturns, relayUnchanged, deviceVars
<1>11. UNCHANGED tunInboundVars => Same
  BY DEF tunInboundVars, deviceVars
<1>12. Same => DeviceInv'
  BY DeviceStutter
<1> QED
  BY <1>1, <1>2, <1>3, <1>4, <1>5, <1>6, <1>7, <1>8, <1>9, <1>10, <1>11, <1>12 DEF TunInboundNext
-----------------------------------------------------------------------------
(* The streams' counter, and what is left of the types.                     *)

Live == {r \in Relays : tnrelay[r] \in {"dial", "both", "one", "return"}}
LimitsInv ==
    /\ tnrelay \in [Relays -> {"unused", "dial", "both", "one", "return", "done"}]
    /\ RelaysCounted
    /\ tncount \in 0..MaxDatagrams
    /\ tndev \in {"none", "open", "closed"}
    /\ tnhandler \in {"down", "up", "failed", "hijackClosed", "stackClosed", "closed"}

LEMMA LiveFinite == IsFiniteSet(Live) /\ Cardinality(Live) \in Nat
BY FS_Subset, FS_CardinalityType, TunInboundAssumption DEF Live

LEMMA LimitsInit == TunInboundInit => LimitsInv
<1> SUFFICES ASSUME TunInboundInit PROVE LimitsInv
  OBVIOUS
<1>1. Live = {}
  BY DEF TunInboundInit, Live
<1>2. RelaysCounted
  <2>1. Cardinality(Live) = 0 /\ tnlive = 0 /\ 0 <= DnsMaxSessions
    BY <1>1, FS_EmptySet, TunInboundAssumption, SMTT(30) DEF TunInboundInit
  <2> QED
    BY <2>1 DEF RelaysCounted, Live
<1> QED
  BY <1>2, TunInboundAssumption, SMTT(30) DEF TunInboundInit, LimitsInv

\* A stream that goes on to the place to: its slot is taken, kept or given back.
LEMMA RelayStep ==
    ASSUME LimitsInv, NEW r \in Relays, NEW to \in {"dial", "both", "one", "return", "done"},
           tnrelay' = [tnrelay EXCEPT ![r] = to], UNCHANGED <<tncount, tndev, tnhandler>>,
           tnlive' = IF r \in Live THEN IF to = "done" THEN tnlive - 1 ELSE tnlive
                     ELSE IF to = "done" THEN tnlive ELSE tnlive + 1,
           tnlive' <= DnsMaxSessions
    PROVE  LimitsInv'
<1>1. tnrelay' \in [Relays -> {"unused", "dial", "both", "one", "return", "done"}]
  BY DEF LimitsInv
<1>2. Live' = IF to = "done" THEN Live \ {r} ELSE Live \cup {r}
  BY DEF Live, LimitsInv
<1>3. Cardinality(Live \ {r}) = IF r \in Live THEN Cardinality(Live) - 1 ELSE Cardinality(Live)
  BY LiveFinite, FS_RemoveElement
<1>4. Cardinality(Live \cup {r}) = IF r \in Live THEN Cardinality(Live) ELSE Cardinality(Live) + 1
  BY LiveFinite, FS_AddElement
<1>5. tnlive = Cardinality(Live)
  BY DEF LimitsInv, RelaysCounted, Live
<1>6. tnlive' = Cardinality(Live')
  BY <1>2, <1>3, <1>4, <1>5
<1>7. RelaysCounted'
  BY <1>6 DEF RelaysCounted, Live
<1> QED
  BY <1>1, <1>7 DEF LimitsInv

LEMMA LimitsRelay ==
    ASSUME LimitsInv, NEW r \in Relays, handleTCP(r) \/ Relay(r)
    PROVE  LimitsInv'
<1>0. UNCHANGED <<tncount, tndev, tnhandler>>
  BY DEF handleTCP, Relay, DialTimeout, RelayDone, RelayReturns, relayUnchanged, deviceVars
<1>1. tnlive \in Nat /\ tnlive <= DnsMaxSessions
  BY LiveFinite DEF LimitsInv, RelaysCounted, Live
<1>2. CASE handleTCP(r)
  <2>1. r \notin Live
    BY <1>2 DEF handleTCP, Live
  <2>2. CASE tnlive >= DnsMaxSessions
    BY <1>0, <1>1, <1>2, <2>1, <2>2, RelayStep DEF handleTCP
  <2>3. CASE ~(tnlive >= DnsMaxSessions)
    <3>1. tnlive + 1 <= DnsMaxSessions
      BY <1>1, <2>3, TunInboundAssumption
    <3> QED
      BY <1>0, <1>2, <2>1, <2>3, <3>1, RelayStep DEF handleTCP
  <2> QED
    BY <2>2, <2>3
<1>3. CASE DialTimeout(r)
  <2>1. r \in Live
    BY <1>3 DEF DialTimeout, Live
  <2>2. PICK next \in {"return", "both"} : tnrelay' = [tnrelay EXCEPT ![r] = next]
    BY <1>3 DEF DialTimeout
  <2>3. tnlive' = tnlive
    BY <1>3 DEF DialTimeout
  <2> QED
    BY <1>0, <1>1, <2>1, <2>2, <2>3, RelayStep
<1>4. CASE RelayDone(r)
  <2> DEFINE next == IF tnrelay[r] = "both" THEN "one" ELSE "return"
  <2>1. r \in Live /\ tnlive' = tnlive /\ tnrelay' = [tnrelay EXCEPT ![r] = next] /\ next \in {"one", "return"}
    BY <1>4 DEF RelayDone, Live
  <2> HIDE DEF next
  <2> QED
    BY <1>0, <1>1, <2>1, RelayStep
<1>5. CASE RelayReturns(r)
  <2>1. r \in Live /\ tnlive' = tnlive - 1 /\ tnrelay' = [tnrelay EXCEPT ![r] = "done"]
    BY <1>5 DEF RelayReturns, Live
  <2>2. tnlive - 1 <= DnsMaxSessions
    BY <1>1, TunInboundAssumption
  <2> QED
    BY <1>0, <2>1, <2>2, RelayStep
<1> QED
  BY <1>2, <1>3, <1>4, <1>5 DEF Relay

LEMMA LimitsNext == LimitsInv /\ [TunInboundNext]_tunInboundVars => LimitsInv'
<1> SUFFICES ASSUME LimitsInv, [TunInboundNext]_tunInboundVars PROVE LimitsInv'
  OBVIOUS
<1> DEFINE Devices == /\ tndev' \in {"none", "open", "closed"}
                      /\ tnhandler' \in {"down", "up", "failed", "hijackClosed", "stackClosed", "closed"}
           Same == UNCHANGED relayVars /\ tncount' \in 0..MaxDatagrams /\ Devices
<1>0. tncount \in 0..MaxDatagrams /\ tndev \in {"none", "open", "closed"}
      /\ tnhandler \in {"down", "up", "failed", "hijackClosed", "stackClosed", "closed"}
  BY DEF LimitsInv
<1>1. Start \/ watch \/ CloseHijack \/ CloseRest => Same
  BY <1>0 DEF Start, watch, CloseHijack, CloseRest, deviceOnly, relayVars, openDevice
<1>2. ASSUME NEW i \in Pumps, PumpSeesClosed(i) \/ DeviceFails(i) \/ PumpCloses(i) PROVE Same
  BY <1>0, <1>2 DEF PumpSeesClosed, DeviceFails, PumpCloses, fail, deviceOnly, relayVars
<1>3. ASSUME NEW s \in Sources, handlePacket(s) \/ handleUDP(s) PROVE Same
  <2>1. tncount' = tncount + 1 /\ tncount < MaxDatagrams /\ UNCHANGED <<relayVars, deviceVars>>
    BY <1>3 DEF handlePacket, handleUDP, Delivers
  <2> QED
    BY <1>0, <2>1, TunInboundAssumption DEF deviceVars
<1>4. handlePacketLocked \/ touch \/ WriteQuery \/ Tick => Same
  BY <1>0 DEF handlePacketLocked, touch, WriteQuery, Tick, deviceVars
<1>5. ASSUME NEW c \in UdpConns, ReadMultiBuffer(c) \/ CloseLink(c) \/ run(c) PROVE Same
  BY <1>0, <1>5 DEF ReadMultiBuffer, CloseLink, run, deviceVars
<1>6. ASSUME NEW c \in DnsConns, Reply(c) \/ readReplies(c) PROVE Same
  BY <1>0, <1>6 DEF Reply, readReplies, SetReadDeadline, ReadFails, Leave, CloseSocket, deviceVars
<1>7. UNCHANGED tunInboundVars => Same
  BY <1>0 DEF tunInboundVars, deviceVars
<1>8. Same => LimitsInv'
  BY DEF LimitsInv, RelaysCounted, relayVars
<1> QED
  BY <1>1, <1>2, <1>3, <1>4, <1>5, <1>6, <1>7, <1>8, LimitsRelay DEF TunInboundNext

PanicType == tnpanic \in BOOLEAN

LEMMA PanicNext == PanicType /\ [TunInboundNext]_tunInboundVars => PanicType'
<1> SUFFICES ASSUME tnpanic \in BOOLEAN, [TunInboundNext]_tunInboundVars PROVE tnpanic' \in BOOLEAN
  BY DEF PanicType
<1> DEFINE Same == tnpanic' = tnpanic
<1>1. ASSUME NEW c, enqueue(c) PROVE tnpanic' \in BOOLEAN
  BY <1>1, Zenon DEF enqueue
<1>2. ASSUME NEW c, NEW next, finished(c, next) PROVE tnpanic' \in BOOLEAN
  BY <1>2, Zenon DEF finished
<1>3. ASSUME NEW s \in Sources, handlePacket(s) \/ handleUDP(s) PROVE tnpanic' \in BOOLEAN
  BY <1>1, <1>3 DEF handlePacket, handleUDP, udpVars
<1>4. ASSUME handlePacketLocked PROVE tnpanic' \in BOOLEAN
  BY <1>1, <1>4 DEF handlePacketLocked
<1>5. ASSUME NEW c \in UdpConns, ReadMultiBuffer(c) \/ CloseLink(c) \/ run(c) PROVE tnpanic' \in BOOLEAN
  BY <1>2, <1>5 DEF ReadMultiBuffer, CloseLink, run
<1>6. touch \/ WriteQuery \/ Tick \/ Start \/ watch \/ CloseHijack \/ CloseRest => Same
  BY DEF touch, WriteQuery, Tick, Start, watch, CloseHijack, CloseRest, deviceOnly, udpVars
<1>7. ASSUME NEW c \in DnsConns, Reply(c) \/ readReplies(c) PROVE Same
  BY <1>7 DEF Reply, readReplies, SetReadDeadline, ReadFails, Leave, CloseSocket, udpVars
<1>8. ASSUME NEW r \in Relays, handleTCP(r) \/ Relay(r) PROVE Same
  BY <1>8 DEF handleTCP, Relay, DialTimeout, RelayDone, RelayReturns, relayUnchanged, udpVars
<1>9. ASSUME NEW i \in Pumps, PumpSeesClosed(i) \/ DeviceFails(i) \/ PumpCloses(i) PROVE Same
  BY <1>9 DEF PumpSeesClosed, DeviceFails, PumpCloses, fail, deviceOnly, udpVars
<1>10. UNCHANGED tunInboundVars => Same
  BY DEF tunInboundVars, udpVars
<1> QED
  BY <1>3, <1>4, <1>5, <1>6, <1>7, <1>8, <1>9, <1>10 DEF TunInboundNext
-----------------------------------------------------------------------------
(* The theorems.                                                            *)

\* The inbound is safe for any number of sockets, sessions, streams and
\* datagrams.  However sessions of one source follow and close each other, a
\* session found in the table is served and nothing is sent on a closed egress
\* (forward_udp.go); however queries, deadlines and Close interleave, the hijack
\* has no more than dnsMaxSessions sockets open, those about to be closed aside,
\* and tcpLive is the number of streams being relayed (dns_hijack.go).
THEOREM InboundIsSafe == TunInboundSpec => []InboundSafe
<1>1. UdpInv /\ DnsInv /\ DeviceInv /\ LimitsInv /\ PanicType => InboundSafe
  <2> SUFFICES ASSUME UdpInv, DnsInv, DeviceInv, LimitsInv, tnpanic \in BOOLEAN PROVE InboundSafe
    BY DEF PanicType
  <2>1. /\ tnmap \in [Sources -> UdpConns \cup {0}]
        /\ tnconn \in [UdpConns -> [pc : {"unused", "dispatch", "closed", "ended"}, src : Sources \cup {0},
                                    queued : 0..UdpQueue, open : BOOLEAN]]
    BY DEF UdpInv, Conn
  <2>2. /\ tnsess \in [Sources -> DnsConns \cup {0}] /\ tndns \in [DnsConns -> Sock] /\ tninput \in Input
    BY DEF DnsInv, DnsTypeInv
  <2>3. tnlive \in 0..DnsMaxSessions
    BY LiveFinite, TunInboundAssumption DEF LimitsInv, RelaysCounted, Live
  <2>4. TunInboundTypeOK
    BY <2>1, <2>2, <2>3 DEF TunInboundTypeOK, Sock, Input, DeviceInv, LimitsInv
  <2> QED
    BY <2>4, FoundIsBounded DEF InboundSafe, UdpInv, LimitsInv
<1>2. TunInboundInit => PanicType
  BY DEF TunInboundInit, PanicType
<1> QED
  BY <1>1, <1>2, UdpInit, UdpNext, DnsInit, DnsNext, DeviceInit, DeviceNext, LimitsInit, LimitsNext, PanicNext, PTL DEF TunInboundSpec

\* Whichever pump or Close comes first, a stack that a fatal error took down is
\* reported as failed.
THEOREM FailureReported == TunInboundSpec => []FailureIsReported
<1>1. DeviceInv => FailureIsReported
  BY DEF DeviceInv
<1> QED
  BY <1>1, DeviceInit, DeviceNext, PTL DEF TunInboundSpec
=============================================================================
