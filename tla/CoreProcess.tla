----------------------------- MODULE CoreProcess -----------------------------
(***************************************************************************)
(* One core process after another, below the manager's lock: the template  *)
(* whose API producers are already running, the steps of NewProcess with   *)
(* their deferred clean-up, the waiter goroutine, Close, and the ports the *)
(* core needs, which an earlier core, an orphan of a killed service or a   *)
(* foreign program may hold.                                               *)
(*                                                                         *)
(* Sources: kernel/v2ray/process.go, template_validate.go, template_api.go,*)
(* api.go and the calls of processManager.go.                              *)
(***************************************************************************)
EXTENDS Integers, FiniteSets

CONSTANTS
    MaxStarts,      \* bound: processes started over all runs of the service
    MaxDeaths       \* bound: the service is killed this often

ASSUME ProcessAssumption == MaxStarts \in Nat /\ MaxDeaths \in Nat

Starts == 1..MaxStarts

\* Who holds the inbound ports: nobody, a core of this service (its number),
\* a core whose service died, or another program.
Free == 0
Orphan == -1
Foreign == -2

VARIABLES
    cpos,       \* "windows" or "unix"
    cpfixed,    \* the API port is configured rather than picked free
    cpproc,     \* the processes
    cpowner,    \* the manager's process, 0 when there is none
    cpports,    \* the holder of the inbound ports
    cprefused,  \* whom the last refused port check met
    cpdeaths

processVars == <<cpos, cpfixed, cpproc, cpowner, cpports, cprefused, cpdeaths>>

NoProcess == [at |-> "none", core |-> "none", api |-> FALSE, stop |-> FALSE,
              cancel |-> FALSE, term |-> FALSE, unexpected |-> FALSE,
              waiter |-> "none", producers |-> FALSE, died |-> FALSE,
              shown |-> FALSE, reports |-> 0]

ProcessInit ==
    /\ cpos \in {"unix", "windows"}
    /\ cpfixed \in BOOLEAN
    /\ cpproc = [p \in Starts |-> NoProcess]
    /\ cpowner = 0
    /\ cpports \in {Free, Foreign}
    /\ cprefused = Free
    /\ cpdeaths = 0

Is(p, at) == cpproc[p].at = at
Alive(p) == cpproc[p].core \in {"loading", "serving"}
Rest == UNCHANGED <<cpos, cpfixed, cpowner, cpports, cprefused, cpdeaths>>

\* The manager's lock is held from the template to the return of NewProcess.
Steps == {"template", "config", "ports", "prestart", "spawn", "poststart", "waiting"}
Locked == \E p \in Starts : cpproc[p].at \in Steps

-----------------------------------------------------------------------------
(* NewProcess.                                                             *)

\* Mutant: the core is not told to end.
Close_KeepsCore(q) == [q EXCEPT !.stop = TRUE, !.producers = FALSE]

\* Process.Close: the core is killed through its context and the template's
\* producers end.  A second call does nothing.
Close(q) ==
    IF q.cancel THEN q
    ELSE [q EXCEPT !.stop = TRUE, !.cancel = TRUE, !.producers = FALSE]

\* Mutant: the producers outlive the start that failed.
Rollback_KeepsProducers(q) == [q EXCEPT !.at = "refused", !.cancel = TRUE]

\* The deferred functions of NewProcess when they see an error: the template
\* is closed, the context cancelled and stage 1 rolled back.
Rollback(q) == [q EXCEPT !.at = "refused", !.producers = FALSE, !.cancel = TRUE]

\* The template comes with its API producers; the manager closes its current
\* process first and does not wait for that core to be gone.
SetAPI(p) ==
    /\ ~Locked
    /\ Is(p, "none")
    /\ \A q \in 1..(p - 1) : ~Is(q, "none")
    /\ cpproc' = [q \in Starts |->
            IF q = p THEN [NoProcess EXCEPT !.at = "template", !.producers = TRUE]
            ELSE IF q = cpowner THEN [Close(cpproc[q]) EXCEPT !.at = "stopped"]
            ELSE cpproc[q]]
    /\ cpowner' = 0
    /\ UNCHANGED <<cpos, cpfixed, cpports, cprefused, cpdeaths>>

\* A step that goes well leads to the next; one that fails runs the deferred
\* functions.
Step(p, from, to) ==
    /\ Is(p, from)
    /\ \/ cpproc' = [cpproc EXCEPT ![p].at = to]
       \/ cpproc' = [cpproc EXCEPT ![p] = Rollback(@)]
    /\ Rest

WriteV2rayConfig(p) == Step(p, "template", "config")

\* Mutant: an orphan is not looked for.
killOrphanCore_Never == FALSE

\* killOrphanCore: only on a Unix, where init adopts the core.
killOrphanCore == cpos = "unix"

\* PortOccupied: a core of this service is passed over, an orphan killed,
\* anyone else refused.
CheckInboundPortsOccupied(p) ==
    /\ Is(p, "config")
    /\ IF cpports = Foreign \/ (cpports = Orphan /\ ~killOrphanCore)
       THEN /\ cpproc' = [cpproc EXCEPT ![p] = Rollback(@)]
            /\ cprefused' = cpports
            /\ UNCHANGED cpports
       ELSE /\ cpproc' = [cpproc EXCEPT ![p].at = "ports"]
            /\ cpports' = IF cpports = Orphan THEN Free ELSE cpports
            /\ UNCHANGED cprefused
    /\ UNCHANGED <<cpos, cpfixed, cpowner, cpdeaths>>

Prestart(p) == Step(p, "ports", "prestart")

StartCoreProcess(p) ==
    /\ Is(p, "prestart")
    /\ \/ cpproc' = [cpproc EXCEPT ![p].at = "spawn", ![p].core = "loading"]
       \/ cpproc' = [cpproc EXCEPT ![p] = Rollback(@)]
    /\ Rest

\* poststart, then the waiter goroutine; when poststart fails nothing waits
\* for the core that the rollback kills.
Poststart(p) ==
    /\ Is(p, "spawn")
    /\ \/ cpproc' = [cpproc EXCEPT ![p].at = "waiting", ![p].waiter = "waits"]
       \/ cpproc' = [cpproc EXCEPT ![p] = Rollback(@)]
    /\ Rest

\* The dial meets a listening API port: the core's own, or with a configured
\* port that of any core of this service still there.
DialSucceeds(p) ==
    /\ Is(p, "waiting")
    /\ \E q \in Starts : cpproc[q].api /\ (q = p \/ cpfixed)
    /\ cpproc' = [cpproc EXCEPT ![p].at = "up"]
    /\ cpowner' = p
    /\ UNCHANGED <<cpos, cpfixed, cpports, cprefused, cpdeaths>>

\* The core exited before its port opened.  The loop's err is a variable of
\* its own, so the deferred functions see none.
ExitSeen(p) ==
    /\ Is(p, "waiting")
    /\ cpproc[p].unexpected
    /\ cpproc' = [cpproc EXCEPT ![p].at = "lost"]
    /\ Rest

\* The start-up timeout: SIGTERM, and again no deferred clean-up.
TimesOut(p) ==
    /\ Is(p, "waiting")
    /\ ~cpproc[p].api
    /\ cpproc' = [cpproc EXCEPT ![p].at = "lost", ![p].term = TRUE]
    /\ Rest

-----------------------------------------------------------------------------
(* The core, its waiter and the manager's calls.                           *)

\* The core binds its ports, or exits because somebody holds them.
CoreBinds(p) ==
    /\ cpproc[p].core = "loading"
    /\ IF cpports = Free
       THEN /\ cpproc' = [cpproc EXCEPT ![p].core = "serving", ![p].api = TRUE,
                                        ![p].shown = TRUE]
            /\ cpports' = p
       ELSE /\ cpproc' = [cpproc EXCEPT ![p].core = "failed", ![p].died = ~cpproc[p].stop]
            /\ UNCHANGED cpports
    /\ UNCHANGED <<cpos, cpfixed, cpowner, cprefused, cpdeaths>>

\* The core ends: of itself, well or badly, or by a signal it was sent.
CoreExits(p, how) ==
    /\ Alive(p)
    /\ cpproc' = [cpproc EXCEPT ![p].core = how, ![p].api = FALSE,
                                ![p].died = ~cpproc[p].stop]
    /\ cpports' = IF cpports = p THEN Free ELSE cpports
    /\ UNCHANGED <<cpos, cpfixed, cpowner, cprefused, cpdeaths>>

KilledByService(p) == cpproc[p].cancel /\ CoreExits(p, "failed")
TermByService(p) == cpproc[p].term /\ CoreExits(p, "finished")

\* Mutant: an expected stop is reported as a death.
WaitReturns_IgnoresStop(p) ==
    /\ cpproc[p].waiter = "waits"
    /\ cpproc[p].core \in {"failed", "finished"}
    /\ cpproc' = [cpproc EXCEPT
            ![p].waiter = "reports",
            ![p].unexpected = (cpproc[p].core = "failed")]
    /\ Rest

\* The waiter's Wait returns; unless Close came first it notes the exit for
\* the start loop and goes on to report it.
WaitReturns(p) ==
    /\ cpproc[p].waiter = "waits"
    /\ cpproc[p].core \in {"failed", "finished"}
    /\ cpproc' = [cpproc EXCEPT
            ![p].waiter = IF cpproc[p].stop THEN "done" ELSE "reports",
            ![p].unexpected = (cpproc[p].core = "failed" /\ ~cpproc[p].stop)]
    /\ Rest

\* handleUnexpectedStop, under the manager's lock: a process the manager no
\* longer has is left alone, its own is closed.
waiterReports(p) ==
    /\ ~Locked
    /\ cpproc[p].waiter = "reports"
    /\ cpproc' = [cpproc EXCEPT ![p] =
            LET q == [cpproc[p] EXCEPT !.waiter = "done", !.reports = @ + 1]
            IN  IF cpowner = p THEN [Close(q) EXCEPT !.at = "stopped"] ELSE q]
    /\ cpowner' = IF cpowner = p THEN 0 ELSE cpowner
    /\ UNCHANGED <<cpos, cpfixed, cpports, cprefused, cpdeaths>>

\* The manager's stop closes the process it has.
CloseOwned ==
    /\ ~Locked
    /\ cpowner # 0
    /\ cpproc' = [cpproc EXCEPT ![cpowner] = [Close(@) EXCEPT !.at = "stopped"]]
    /\ cpowner' = 0
    /\ UNCHANGED <<cpos, cpfixed, cpports, cprefused, cpdeaths>>

\* The service is killed: its goroutines are gone and its core is adopted by
\* init; one that was still loading may come to hold the ports.
ServiceKilled ==
    /\ cpdeaths < MaxDeaths
    /\ cpdeaths' = cpdeaths + 1
    /\ cpproc' = [p \in Starts |->
            IF Is(p, "none") THEN cpproc[p] ELSE [NoProcess EXCEPT !.at = "gone"]]
    /\ cpowner' = 0
    /\ cpports' \in IF cpports > 0 THEN {Orphan}
                    ELSE IF cpports = Free /\ \E p \in Starts : Alive(p) THEN {Free, Orphan}
                    ELSE {cpports}
    /\ UNCHANGED <<cpos, cpfixed, cprefused>>

\* The other program gives the ports back.
ForeignLeaves ==
    /\ cpports = Foreign
    /\ cpports' = Free
    /\ UNCHANGED <<cpos, cpfixed, cpproc, cpowner, cprefused, cpdeaths>>

NewProcess(p) ==
    \/ WriteV2rayConfig(p)
    \/ CheckInboundPortsOccupied(p)
    \/ Prestart(p)
    \/ StartCoreProcess(p)
    \/ Poststart(p)
    \/ DialSucceeds(p)
    \/ ExitSeen(p)
    \/ TimesOut(p)

Signalled(p) == KilledByService(p) \/ TermByService(p)
WaiterStep(p) == WaitReturns(p) \/ waiterReports(p)

ProcessNext ==
    \/ \E p \in Starts :
        \/ SetAPI(p)
        \/ NewProcess(p)
        \/ CoreBinds(p)
        \/ Signalled(p)
        \/ WaiterStep(p)
        \/ \E how \in {"failed", "finished"} : CoreExits(p, how)
    \/ CloseOwned
    \/ ServiceKilled
    \/ ForeignLeaves

ProcessSpec == ProcessInit /\ [][ProcessNext]_processVars

-----------------------------------------------------------------------------

\* Every variable keeps its type.
ProcessTypeOK ==
    /\ cpowner \in 0..MaxStarts
    /\ cpports \in Foreign..MaxStarts
    /\ \A p \in Starts :
        /\ cpproc[p].at \in Steps \cup {"none", "refused", "lost", "up", "stopped", "gone"}
        /\ cpproc[p].core \in {"none", "loading", "serving", "failed", "finished"}
        /\ cpproc[p].waiter \in {"none", "waits", "reports", "done"}
        /\ cpproc[p].reports \in 0..1

\* A start refused by an error before the wait for the API port leaves
\* nothing behind: its producers have ended and the core it had spawned, if
\* any, is being killed (the deferred functions of NewProcess).
RefusedLeavesNothing ==
    \A p \in Starts : Is(p, "refused") =>
        ~cpproc[p].producers /\ (Alive(p) => cpproc[p].cancel)

\* Every failed start ends its producers, as the comment in NewProcess asks.
FailedStartEndsProducers ==
    \A p \in Starts : cpproc[p].at \in {"refused", "lost"} => ~cpproc[p].producers

\* A core that was asked to stop is never reported as crashed, and no core
\* is reported twice (waiter goroutine of NewProcess).
OnlyRealDeathsReported ==
    \A p \in Starts : cpproc[p].reports > 0 => cpproc[p].died /\ ~Alive(p)

\* The core left behind by a killed service never keeps a later start from
\* its ports on a Unix; only another program does (PortOccupied).
OrphanNeverRefuses == cpos = "unix" => cprefused # Orphan

\* With a picked API port, a start that succeeded has seen its own core
\* listen (the wait loop of NewProcess).
UpMeansServed == \A p \in Starts : Is(p, "up") /\ ~cpfixed => cpproc[p].shown

\* The producers run for the manager's process and a start in progress only,
\* save those a lost start left.
ProducersFollowOwner ==
    \A p \in Starts :
        cpproc[p].producers => cpproc[p].at \in Steps \cup {"lost", "up"}

\* A core that is stopped, refused or lost is gone in the end, so that its
\* ports are free for a later start (Close, rollback, SIGTERM): it is never
\* left again, so a moment without such a core comes after its end.
LeftCoresEnd ==
    []<>(\A p \in Starts : cpproc[p].at \in {"refused", "lost", "stopped"} => ~Alive(p))

\* A core that dies under the manager is noticed: the manager gives the
\* process up (handleUnexpectedStop), since no dead core comes alive again.
DeathIsNoticed == []<>(cpowner # 0 => Alive(cpowner))

\* What the manager may rely on: a process that is up has shown its own core, a
\* death it hears of is real and told once, and the producers of a process end
\* with it (NewProcess, its waiter, Close).
ProcessSafe == ProcessTypeOK /\ UpMeansServed /\ OnlyRealDeathsReported /\ ProducersFollowOwner

\* Every core comes to an end that is noticed: the one left behind dies, and the
\* manager gives up the one that died under it.
CoresEnd == LeftCoresEnd /\ DeathIsNoticed
=============================================================================
