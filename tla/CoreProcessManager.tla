------------------------- MODULE CoreProcessManager -------------------------
(***************************************************************************)
(* The process-wide CoreProcessManager: it starts and stops the            *)
(* v2raya_core child and installs and removes the host's interception      *)
(* (netfilter rules, tun device, system proxy) around it.                  *)
(*                                                                         *)
(* Threads.  Thread 0 is the one call of start() in flight (startMu admits *)
(* one); thread g > 0 is the connectivity monitor of generation g.  Stop,  *)
(* handleUnexpectedStop, CheckAndStopTransparentProxy and the error        *)
(* cleanup of start keep m.mu to their end and take hostMu inside it, so   *)
(* each is one action enabled when both locks are free.  mutateHost drops  *)
(* m.mu as soon as it holds hostMu, so it is two actions.                  *)
(*                                                                         *)
(* A process is named by the generation that created it.  0 is nil.        *)
(***************************************************************************)
EXTENDS Integers, FiniteSets

CONSTANTS
    Settings,          \* the settings a template may be built from
    NoSetting,         \* a nil *Setting, HostState or "no interception"
    TransparentClose,  \* the settings whose Transparent is "close"
    TransparentType,   \* setting -> "netfilter" (tproxy, redirect), "tun" or "system_proxy"
    Lite,              \* the lite build flag: no netfilter interception
    TransparentHook,   \* a transparent hook script is configured
    CoreHook,          \* a core hook script is configured
    Preserve,          \* which entries are used: FALSE Start, TRUE StartPreservingInterception
    Callers,           \* who calls besides start: "stop", "shutdown", "latency_test"
    StoreFails,        \* a write of the configuration database may fail
    MaxGeneration      \* bound on the number of starts

Generations == 1..MaxGeneration
Threads == 0..MaxGeneration
Starter == 0
NoThread == -1
Kinds == {"netfilter", "tun", "system_proxy"}

ASSUME ConstantsAssumption ==
    /\ MaxGeneration \in Nat
    /\ NoSetting \notin Settings
    /\ TransparentClose \subseteq Settings
    /\ TransparentType \in [Settings -> Kinds]
    /\ Lite \in BOOLEAN
    /\ TransparentHook \in BOOLEAN
    /\ CoreHook \in BOOLEAN
    /\ Preserve \subseteq BOOLEAN
    /\ StoreFails \in BOOLEAN

VARIABLES
    p,                \* m.p
    generation,       \* m.generation
    setting,          \* p.template.Setting of every generation
    core,             \* the child of every generation
    mu,               \* m.mu is held across steps (by start's phase 2 only)
    testing, networkPaused, transparentOn, retaining, retainedSetting,
    shuttingDown,
    hostMu,           \* the thread inside mutateHost, or NoThread
    rules,            \* the setting whose interception is on the host
    marker, running, lastExit,                  \* persistent
    pc,               \* where each thread is
    callGen, callSetting, callRetained,         \* start's argument and locals
    seenPaused, seenDead                        \* what each monitor saw

manager == <<p, generation, setting, core, mu>>
flags   == <<testing, networkPaused, retaining, retainedSetting, shuttingDown>>
host    == <<hostMu, transparentOn, rules>>
store   == <<marker, running, lastExit>>
call    == <<callGen, callSetting, callRetained>>
seen    == <<seenPaused, seenDead>>
threads == <<pc, call, seen>>
vars    == <<manager, flags, host, store, threads>>

SetupPCs   == {"delete", "deleting", "prehook", "write", "writing", "posthook", "installed"}
StarterPCs == {"idle", "locked", "recover", "spawn", "hook", "commit", "failed", "returning"} \cup SetupPCs
MonitorPCs == {"off", "wait", "probe", "pause", "pausing", "pauseset"} \cup SetupPCs
HoldingPCs == {"deleting", "writing", "pausing"}

ManagerType ==
    /\ p \in 0..MaxGeneration
    /\ generation \in 0..MaxGeneration
    /\ setting \in [Generations -> Settings \cup {NoSetting}]
    /\ core \in [Generations -> {"absent", "alive", "exited", "closed"}]

FlagsType ==
    /\ mu \in BOOLEAN
    /\ testing \in BOOLEAN
    /\ networkPaused \in BOOLEAN
    /\ retaining \in BOOLEAN
    /\ shuttingDown \in BOOLEAN
    /\ transparentOn \in BOOLEAN
    /\ running \in BOOLEAN
    /\ callRetained \in BOOLEAN

HostType ==
    /\ hostMu \in Threads \cup {NoThread}
    /\ retainedSetting \in Settings \cup {NoSetting}
    /\ rules \in Settings \cup {NoSetting}
    /\ marker \in Settings \cup {NoSetting}
    /\ lastExit \in {"stopped", "running", "crashed"}

ThreadsType ==
    /\ pc \in [Threads -> StarterPCs \cup MonitorPCs]
    /\ callGen \in 0..MaxGeneration
    /\ callSetting \in Settings \cup {NoSetting}
    /\ seenPaused \in [Generations -> BOOLEAN]
    /\ seenDead \in [Generations -> BOOLEAN]

\* Every variable keeps its type.
TypeOK == ManagerType /\ FlagsType /\ HostType /\ ThreadsType

-----------------------------------------------------------------------------
(* Pure helpers.                                                           *)

IsTransparentOn(s) ==
    /\ s \notin TransparentClose
    /\ ~(Lite /\ TransparentType[s] = "netfilter")

\* The part of canRetainInterception that looks at one setting and the hooks.
Retainable(s) ==
    /\ IsTransparentOn(s)
    /\ ~TransparentHook
    /\ ~CoreHook
    /\ TransparentType[s] = "netfilter"

\* Mutant: the settings are not compared.
canRetainInterception_AnySetting(before, after) == before # NoSetting /\ Retainable(after)

canRetainInterception(before, after) == before = after /\ Retainable(after)

\* deleteTransparentProxyRulesKeepSystemProxy
KeepSystemProxy(r) ==
    IF r # NoSetting /\ TransparentType[r] = "system_proxy" THEN r ELSE NoSetting

\* What RecoverHostState(m) leaves of r: netfilter rules are always swept,
\* tun and system proxy state only when the marker is of that kind.
Recovered(r, m) ==
    IF r = NoSetting THEN NoSetting
    ELSE IF TransparentType[r] = "netfilter" THEN (IF Lite THEN r ELSE NoSetting)
    ELSE IF TransparentType[r] = TransparentType[m] THEN NoSetting ELSE r

GenOf(t) == IF t = Starter THEN callGen ELSE t

\* ownsProcessLocked.  Only start() sets m.p, and it sets m.generation with it.
Owns(t) == p # 0 /\ p = GenOf(t) /\ generation = GenOf(t)

\* Where a thread goes when setupTransparentProxy returns an error.
SetupError(t) ==
    IF t = Starter THEN "failed" ELSE IF Owns(t) THEN "wait" ELSE "off"

Goto(t, l) == pc' = [pc EXCEPT ![t] = l]

\* checkAndStopTransparentProxy(s)
StopTransparent(s) ==
    IF transparentOn /\ s # NoSetting
    THEN /\ transparentOn' = FALSE
         /\ rules' = IF s \in TransparentClose THEN rules ELSE NoSetting
    ELSE UNCHANGED <<transparentOn, rules>>

\* Process.Close on the current process: a child that has already exited keeps
\* its waiter, which is past its expectedStop test.
Closed(g) == [core EXCEPT ![g] = IF @ = "alive" THEN "closed" ELSE @]

-----------------------------------------------------------------------------
Init ==
    /\ p = 0
    /\ generation = 0
    /\ setting = [g \in Generations |-> NoSetting]
    /\ core = [g \in Generations |-> "absent"]
    /\ mu = FALSE
    /\ testing = FALSE
    /\ networkPaused = FALSE
    /\ retaining = FALSE
    /\ retainedSetting = NoSetting
    /\ shuttingDown = FALSE
    /\ hostMu = NoThread
    /\ transparentOn = FALSE
    /\ rules = NoSetting
    /\ marker = NoSetting
    /\ running = FALSE
    /\ lastExit = "stopped"
    /\ pc = [t \in Threads |-> IF t = Starter THEN "idle" ELSE "off"]
    /\ callGen = 0
    /\ callSetting = NoSetting
    /\ callRetained = FALSE
    /\ seenPaused = [g \in Generations |-> FALSE]
    /\ seenDead = [g \in Generations |-> FALSE]

BothLocksFree == ~mu /\ hostMu = NoThread

\* A database write takes effect or, when it may fail, leaves the old value.
Written(new, old) == IF StoreFails THEN {new, old} ELSE {new}

\* configure.SetRunning(false), whose error is dropped.
ClearRunning == running' = FALSE \/ (StoreFails /\ UNCHANGED running)

\* Mutant: a paused proxy is taken to have nothing to tear down.
StopProcess_SkipPaused(saveRunning, retain) ==
    /\ networkPaused' = FALSE
    /\ IF retain \/ networkPaused THEN UNCHANGED <<transparentOn, rules>>
                                  ELSE StopTransparent(setting[p])
    /\ IF saveRunning THEN ClearRunning ELSE UNCHANGED running
    /\ p' = 0

\* stop(saveRunning), called with m.mu held and m.p set, apart from the child:
\* beforeStop leaves the interception alone while it is being retained.
StopProcess(saveRunning, retain) ==
    /\ networkPaused' = FALSE
    /\ IF retain THEN UNCHANGED <<transparentOn, rules>>
                 ELSE StopTransparent(setting[p])
    /\ IF saveRunning THEN ClearRunning ELSE UNCHANGED running
    /\ p' = 0

-----------------------------------------------------------------------------
(* start(), phase 2.                                                       *)

\* m.mu is taken and the decision to retain the interception is made from the
\* flags as they are now, before hostMu is waited for.
StartLock(s, preserve) ==
    LET previous == IF p # 0 THEN setting[p] ELSE retainedSetting
        retained == /\ preserve
                    /\ ~networkPaused
                    /\ transparentOn
                    /\ canRetainInterception(previous, s)
    IN  /\ pc[Starter] = "idle"
        /\ ~mu
        /\ generation < MaxGeneration
        /\ mu' = TRUE
        /\ retainedSetting' = IF retained THEN previous ELSE retainedSetting
        /\ retaining' = retained
        /\ callGen' = generation + 1
        /\ callSetting' = s
        /\ callRetained' = retained
        /\ Goto(Starter, "locked")
        /\ UNCHANGED <<p, generation, setting, core, testing, networkPaused,
                       shuttingDown, host, store, seen>>

\* stop(true) on the old process, if there is one.
StartStopOld ==
    /\ pc[Starter] = "locked"
    /\ hostMu = NoThread
    /\ IF p # 0 THEN StopProcess(TRUE, retaining) /\ core' = Closed(p)
                ELSE UNCHANGED <<p, core, networkPaused, transparentOn, rules, running>>
    /\ Goto(Starter, "recover")
    /\ UNCHANGED <<generation, setting, mu, testing, retaining, retainedSetting,
                   shuttingDown, hostMu, marker, lastExit, call, seen>>

\* The marker of a start that never committed is acted on.  A recovery that
\* fails is logged and the marker cleared all the same.
StartRecover ==
    /\ pc[Starter] = "recover"
    /\ hostMu = NoThread
    /\ IF callRetained \/ marker = NoSetting
       THEN UNCHANGED <<rules, marker>>
       ELSE /\ rules' \in {Recovered(rules, marker), rules}
            /\ marker' \in Written(NoSetting, marker)
    /\ generation' = callGen
    /\ Goto(Starter, "spawn")
    /\ UNCHANGED <<p, setting, core, mu, flags, hostMu, transparentOn,
                   running, lastExit, call, seen>>

\* Mutant: no marker is written.
SpawnOK_NoMarker ==
    /\ pc[Starter] = "spawn"
    /\ p' = callGen
    /\ setting' = [setting EXCEPT ![callGen] = callSetting]
    /\ core' = [core EXCEPT ![callGen] = "alive"]
    /\ mu' = FALSE
    /\ Goto(Starter, IF ~callRetained /\ IsTransparentOn(callSetting)
                     THEN "delete" ELSE "installed")
    /\ UNCHANGED <<generation, flags, host, store, call, seen>>

\* newProcess succeeded: m.p is set and the marker written before m.mu is
\* released.  Without the marker the start does not go on.
SpawnOK ==
    /\ pc[Starter] = "spawn"
    /\ p' = callGen
    /\ setting' = [setting EXCEPT ![callGen] = callSetting]
    /\ core' = [core EXCEPT ![callGen] = "alive"]
    /\ mu' = FALSE
    /\ \/ /\ marker' = callSetting
          /\ Goto(Starter, IF ~callRetained /\ IsTransparentOn(callSetting)
                           THEN "delete" ELSE "installed")
       \/ /\ StoreFails
          /\ UNCHANGED marker
          /\ Goto(Starter, "failed")
    /\ UNCHANGED <<generation, flags, host, running, lastExit, call, seen>>

\* newProcess failed (config, port, pre-start hook, exec, early exit, timeout).
\* Retained rules would lead to a dead core and are removed.
SpawnFail ==
    /\ pc[Starter] = "spawn"
    /\ hostMu = NoThread
    /\ mu' = FALSE
    /\ IF callRetained /\ retainedSetting # NoSetting
       THEN StopTransparent(retainedSetting) /\ retainedSetting' = NoSetting
       ELSE UNCHANGED <<transparentOn, rules, retainedSetting>>
    /\ Goto(Starter, "returning")
    /\ UNCHANGED <<p, generation, setting, core, testing, networkPaused,
                   retaining, shuttingDown, hostMu, store, call, seen>>

-----------------------------------------------------------------------------
(* setupTransparentProxy(), run by start's phase 3 and by a monitor that   *)
(* resumes.  Every call of mutateHost tests ownership before it takes      *)
(* hostMu and after it has released it; ownership once lost is never       *)
(* regained, so the second test is left to the first test of the next      *)
(* section.                                                                *)

\* Mutant: ownership is not tested.
mutateHost_AnyProcess(t, from, to) ==
    /\ pc[t] = from
    /\ BothLocksFree
    /\ hostMu' = t
    /\ Goto(t, to)
    /\ UNCHANGED <<manager, flags, transparentOn, rules, store, call, seen>>

\* mutateHost up to the point where hostMu is held and m.mu released.
mutateHost(t, from, to) ==
    /\ pc[t] = from
    /\ ~mu
    /\ Owns(t)
    /\ hostMu = NoThread
    /\ hostMu' = t
    /\ Goto(t, to)
    /\ UNCHANGED <<manager, flags, transparentOn, rules, store, call, seen>>

\* mutateHost refused: the process exited or was replaced.
SetupLost(t) ==
    /\ pc[t] \in {"delete", "prehook", "write", "posthook"}
    /\ ~mu
    /\ ~Owns(t)
    /\ Goto(t, SetupError(t))
    /\ UNCHANGED <<manager, flags, host, store, call, seen>>

SetupDelete(t) ==
    /\ pc[t] = "deleting"
    /\ rules' = NoSetting
    /\ hostMu' = NoThread
    /\ Goto(t, "prehook")
    /\ UNCHANGED <<manager, flags, transparentOn, store, call, seen>>

\* A transparent hook runs under hostMu and touches nothing modelled, so its
\* three steps are one.  Without a hook only the ownership test remains.
SetupHook(t, from, to) ==
    /\ pc[t] = from
    /\ BothLocksFree
    /\ Owns(t)
    /\ \/ Goto(t, to)
       \/ TransparentHook /\ Goto(t, SetupError(t))
    /\ UNCHANGED <<manager, flags, host, store, call, seen>>

\* writeTransparentProxyRules deletes everything again when it fails; the flag
\* is set first because a partial ruleset must be torn down too.
SetupWrite(t) ==
    /\ pc[t] = "writing"
    /\ transparentOn' = TRUE
    /\ hostMu' = NoThread
    /\ \/ rules' = setting[GenOf(t)] /\ Goto(t, "posthook")
       \/ rules' = NoSetting /\ Goto(t, SetupError(t))
    /\ UNCHANGED <<manager, flags, store, call, seen>>

setupTransparentProxy(t) ==
    \/ mutateHost(t, "delete", "deleting")
    \/ SetupDelete(t)
    \/ SetupHook(t, "prehook", "write")
    \/ mutateHost(t, "write", "writing")
    \/ SetupWrite(t)
    \/ SetupHook(t, "posthook", "installed")
    \/ SetupLost(t)

-----------------------------------------------------------------------------
(* start(), phase 3 after the setup.                                       *)

\* startConnectivityMonitor and the ownership test behind it.
StartMonitor ==
    /\ pc[Starter] = "installed"
    /\ ~mu
    /\ pc' = IF ~Owns(Starter) THEN [pc EXCEPT ![Starter] = "failed"]
             ELSE IF /\ IsTransparentOn(callSetting)
                     /\ TransparentType[callSetting] # "system_proxy"
                     /\ ~testing
             THEN [pc EXCEPT ![Starter] = "hook", ![callGen] = "wait"]
             ELSE [pc EXCEPT ![Starter] = "hook"]
    /\ UNCHANGED <<manager, flags, host, store, call, seen>>

\* The core post-start hook runs without a lock.
StartHook ==
    /\ pc[Starter] = "hook"
    /\ \/ Goto(Starter, "commit")
       \/ CoreHook /\ Goto(Starter, "failed")
    /\ UNCHANGED <<manager, flags, host, store, call, seen>>

\* The commit: running, last exit and marker are written in this order and the
\* first write that fails sends start into its error path.
StartCommit ==
    /\ pc[Starter] = "commit"
    /\ ~mu
    /\ \/ /\ Owns(Starter)
          /\ running' = TRUE
          /\ lastExit' = "running"
          /\ marker' = NoSetting
          /\ retainedSetting' = NoSetting
          /\ Goto(Starter, "returning")
       \/ /\ Owns(Starter) /\ StoreFails
          /\ \/ UNCHANGED <<running, lastExit>>
             \/ running' = TRUE /\ UNCHANGED lastExit
             \/ running' = TRUE /\ lastExit' = "running"
          /\ UNCHANGED <<marker, retainedSetting>>
          /\ Goto(Starter, "failed")
       \/ /\ ~Owns(Starter)
          /\ UNCHANGED <<store, retainedSetting>>
          /\ Goto(Starter, "failed")
    /\ UNCHANGED <<manager, testing, networkPaused, retaining, shuttingDown,
                   host, call, seen>>

\* Mutant: the failed process is closed without its teardown.
FailedOwner_NoTeardown ==
    /\ Owns(Starter)
    /\ networkPaused' = FALSE
    /\ core' = Closed(p)
    /\ ClearRunning
    /\ p' = 0
    /\ marker' \in Written(NoSetting, marker)
    /\ UNCHANGED <<transparentOn, rules>>

\* The deferred error cleanup of a start that still owns its process: stop()
\* leaves retained rules to the teardown that follows it.
FailedOwner ==
    /\ Owns(Starter)
    /\ networkPaused' = FALSE
    /\ StopTransparent(IF callRetained /\ retaining THEN retainedSetting ELSE setting[p])
    /\ core' = Closed(p)
    /\ ClearRunning
    /\ p' = 0
    /\ marker' \in Written(NoSetting, marker)

\* The cleanup of one that lost it: the marker is recovered from, and cleared
\* only when that worked; or else the retained rules are removed.
FailedLost ==
    /\ ~Owns(Starter)
    /\ \/ /\ callRetained
          /\ StopTransparent(retainedSetting)
          /\ UNCHANGED marker
       \/ /\ ~callRetained
          /\ generation = callGen /\ p = 0 /\ marker # NoSetting
          /\ rules' = Recovered(rules, marker)
          /\ marker' \in Written(NoSetting, marker)
          /\ UNCHANGED transparentOn
       \/ ~callRetained /\ UNCHANGED <<transparentOn, rules, marker>>
    /\ UNCHANGED <<networkPaused, core, running, p>>

StartFailed ==
    /\ pc[Starter] = "failed"
    /\ BothLocksFree
    /\ FailedOwner \/ FailedLost
    /\ retainedSetting' = IF callRetained THEN NoSetting ELSE retainedSetting
    /\ Goto(Starter, "returning")
    /\ UNCHANGED <<generation, setting, mu, testing, retaining, shuttingDown,
                   hostMu, lastExit, call, seen>>

\* The deferred retainingInterception.Store(false) and startMu.Unlock, which
\* run after m.mu has been released.
StartReturn ==
    /\ pc[Starter] = "returning"
    /\ retaining' = FALSE
    /\ Goto(Starter, "idle")
    /\ UNCHANGED <<manager, testing, networkPaused, retainedSetting,
                   shuttingDown, host, store, call, seen>>

-----------------------------------------------------------------------------
(* The other entry points and the waiter of a core process.                *)

\* Mutant: a user's stop is not written down.
Stop_KeepRunning(saveRunning) ==
    /\ BothLocksFree
    /\ p # 0
    /\ retaining' = FALSE
    /\ retainedSetting' = NoSetting
    /\ StopProcess(FALSE, FALSE)
    /\ core' = Closed(p)
    /\ lastExit' = IF saveRunning THEN "stopped" ELSE "running"
    /\ UNCHANGED <<generation, setting, mu, testing, shuttingDown, hostMu,
                   marker, threads>>

Stop(saveRunning) ==
    /\ BothLocksFree
    /\ retaining' = FALSE
    /\ retainedSetting' = NoSetting
    /\ IF p = 0
       THEN /\ StopTransparent(retainedSetting)
            /\ UNCHANGED <<networkPaused, core, running, lastExit, p>>
       ELSE /\ StopProcess(saveRunning, FALSE)
            /\ core' = Closed(p)
            /\ lastExit' \in Written(IF saveRunning THEN "stopped" ELSE "running", lastExit)
    /\ UNCHANGED <<generation, setting, mu, testing, shuttingDown, hostMu,
                   marker, threads>>

CheckAndStopTransparentProxy ==
    /\ BothLocksFree
    /\ StopTransparent(IF p # 0 THEN setting[p] ELSE NoSetting)
    /\ UNCHANGED <<manager, flags, hostMu, store, threads>>

\* Mutants: the waiter does not ask whether its process is the current one, or
\* it keeps away from a reload that retains interception.
handleUnexpectedStop_AnyProcess(g) ==
    /\ core[g] = "exited"
    /\ BothLocksFree
    /\ p # 0
    /\ StopProcess(TRUE, retaining)
    /\ lastExit' = "crashed"
    /\ core' = [core EXCEPT ![g] = "closed"]
    /\ UNCHANGED <<generation, setting, mu, testing, retaining, retainedSetting,
                   shuttingDown, hostMu, marker, threads>>
handleUnexpectedStop_NotInReload(g) ==
    /\ core[g] = "exited"
    /\ BothLocksFree
    /\ IF p = g /\ ~retaining
       THEN StopProcess(~shuttingDown, retaining) /\ lastExit' = "crashed"
       ELSE UNCHANGED <<networkPaused, transparentOn, rules, running, lastExit, p>>
    /\ core' = [core EXCEPT ![g] = "closed"]
    /\ UNCHANGED <<generation, setting, mu, testing, retaining, retainedSetting,
                   shuttingDown, hostMu, marker, threads>>

\* The waiter of a process that was not closed first.
handleUnexpectedStop(g) ==
    /\ core[g] = "exited"
    /\ BothLocksFree
    /\ IF p = g
       THEN /\ StopProcess(~shuttingDown, retaining)
            /\ lastExit' \in IF shuttingDown THEN {lastExit} ELSE Written("crashed", lastExit)
       ELSE UNCHANGED <<networkPaused, transparentOn, rules, running, lastExit, p>>
    /\ core' = [core EXCEPT ![g] = "closed"]
    /\ UNCHANGED <<generation, setting, mu, testing, retaining, retainedSetting,
                   shuttingDown, hostMu, marker, threads>>

SetLatencyTesting(b) ==
    /\ ~mu
    /\ testing' = b
    /\ UNCHANGED <<manager, networkPaused, retaining, retainedSetting,
                   shuttingDown, host, store, threads>>

MarkShuttingDown ==
    /\ shuttingDown' = TRUE
    /\ UNCHANGED <<manager, testing, networkPaused, retaining, retainedSetting,
                   host, store, threads>>

\* The environment: a core process exits on its own.
CoreExit(g) ==
    /\ core[g] = "alive"
    /\ core' = [core EXCEPT ![g] = "exited"]
    /\ UNCHANGED <<p, generation, setting, mu, flags, host, store, threads>>

-----------------------------------------------------------------------------
(* The connectivity monitor of generation g.  Closing connectivityStop     *)
(* only wakes it early; the ownership test at its next check ends it.      *)

\* syncConnectivityState, first section: networkPaused is read and m.mu let go.
MonitorCheck(g) ==
    /\ pc[g] = "wait"
    /\ ~mu
    /\ IF Owns(g) /\ ~testing
       THEN Goto(g, "probe") /\ seenPaused' = [seenPaused EXCEPT ![g] = networkPaused]
       ELSE Goto(g, "off") /\ UNCHANGED seenPaused
    /\ UNCHANGED <<manager, flags, host, store, call, seenDead>>

\* The probe of the API port, which a dead core cannot answer, and of the tun
\* device, followed by the ownership test.
MonitorProbe(g, healthy, dead) ==
    /\ pc[g] = "probe"
    /\ ~mu
    /\ healthy => core[g] = "alive" /\ ~dead
    /\ dead => Owns(g) /\ TransparentType[setting[g]] = "tun"
    /\ \/ ~Owns(g) /\ Goto(g, "off") /\ UNCHANGED seenDead
       \/ Owns(g) /\ healthy # seenPaused[g] /\ Goto(g, "wait") /\ UNCHANGED seenDead
       \/ Owns(g) /\ healthy /\ seenPaused[g] /\ Goto(g, "delete") /\ UNCHANGED seenDead
       \/ /\ Owns(g) /\ ~healthy /\ ~seenPaused[g]
          /\ Goto(g, "pause") /\ seenDead' = [seenDead EXCEPT ![g] = dead]
    /\ UNCHANGED <<manager, flags, host, store, call, seenPaused>>

MonitorLost(g) ==
    /\ pc[g] = "pause"
    /\ ~mu
    /\ ~Owns(g)
    /\ Goto(g, "off")
    /\ UNCHANGED <<manager, flags, host, store, call, seen>>

MonitorDelete(g) ==
    /\ pc[g] = "pausing"
    /\ rules' = KeepSystemProxy(rules)
    /\ hostMu' = NoThread
    /\ Goto(g, "pauseset")
    /\ UNCHANGED <<manager, flags, transparentOn, store, call, seen>>

\* networkPaused is set only now.  A tun device that is gone ends the monitor.
MonitorPaused(g) ==
    /\ pc[g] = "pauseset"
    /\ ~mu
    /\ IF Owns(g) /\ ~testing
       THEN networkPaused' = TRUE /\ Goto(g, IF seenDead[g] THEN "off" ELSE "wait")
       ELSE Goto(g, "off") /\ UNCHANGED networkPaused
    /\ UNCHANGED <<manager, testing, retaining, retainedSetting, shuttingDown,
                   host, store, call, seen>>

MonitorResumed(g) ==
    /\ pc[g] = "installed"
    /\ ~mu
    /\ IF Owns(g) /\ ~testing
       THEN networkPaused' = FALSE /\ Goto(g, "wait")
       ELSE Goto(g, "off") /\ UNCHANGED networkPaused
    /\ UNCHANGED <<manager, testing, retaining, retainedSetting, shuttingDown,
                   host, store, call, seen>>

Monitor(g) ==
    \/ MonitorCheck(g)
    \/ \E healthy, dead \in BOOLEAN : MonitorProbe(g, healthy, dead)
    \/ mutateHost(g, "pause", "pausing")
    \/ MonitorLost(g)
    \/ MonitorDelete(g)
    \/ MonitorPaused(g)
    \/ setupTransparentProxy(g)
    \/ MonitorResumed(g)

-----------------------------------------------------------------------------
\* What start() does once it holds m.mu.
StartStep ==
    \/ StartStopOld
    \/ StartRecover
    \/ SpawnOK
    \/ SpawnFail
    \/ setupTransparentProxy(Starter)
    \/ StartMonitor
    \/ StartHook
    \/ StartCommit
    \/ StartFailed
    \/ StartReturn

Next ==
    \/ \E s \in Settings, preserve \in Preserve : StartLock(s, preserve)
    \/ StartStep
    \/ \E g \in Generations : handleUnexpectedStop(g) \/ CoreExit(g) \/ Monitor(g)
    \/ "stop" \in Callers /\ Stop(TRUE)
    \/ "shutdown" \in Callers /\ (MarkShuttingDown \/ CheckAndStopTransparentProxy \/ Stop(FALSE))
    \/ "latency_test" \in Callers /\ \E b \in BOOLEAN : SetLatencyTesting(b)

Spec == Init /\ [][Next]_vars

\* Every goroutine runs on.  A thread that waits for both locks holds m.mu
\* while it waits for hostMu, and Go's mutexes serve a waiter in turn, hence
\* strong fairness for the steps that take locks.
FairSpec ==
    /\ Spec
    /\ SF_vars(StartStep)
    /\ SF_vars(\E g \in Generations : handleUnexpectedStop(g))
    /\ WF_vars(\E g \in Generations : Monitor(g))

-----------------------------------------------------------------------------
(* Properties.                                                             *)

\* mutateHost (processManager.go:380) changes the host only for the process
\* that is current at that moment, one thread at a time: a start or a monitor
\* of a replaced generation never touches the host of its successor, although
\* m.mu is not held while the host is changed.
HostMutationByOwner ==
    \A t \in Threads :
        /\ pc[t] \in HoldingPCs <=> hostMu = t
        /\ hostMu = t => Owns(t)

\* No start retains interception: nothing asks for it, or no setting allows it.
NoRetention == TRUE \in Preserve => \A s \in Settings : ~Retainable(s)

\* Without retention the interception on the host is always that of the current
\* process, and flagged for teardown: whatever order starts, stops, crashes,
\* failed setups and the monitor come in, stop() (processManager.go:279) and
\* the error cleanup of start() leave no rule without a core behind it.
InterceptionFollowsCore ==
    rules # NoSetting => p # 0 /\ rules = setting[p] /\ transparentOn

\* Without retention the manager implements HostInterception: replacing a core
\* is a release and an adoption, never a hand-over with rules in place.
Interception ==
    INSTANCE HostInterception
    WITH owner <- IF p = 0 THEN NoSetting ELSE setting[p], installed <- rules
ImplementsHostInterception == Interception!Spec

\* Retained or not, once no start is in flight a host without a core process is
\* a host without interception ("Startup failure removes retained rules to
\* avoid trapping the router behind a dead core").
NoOrphanedInterception ==
    p = 0 /\ pc[Starter] = "idle" => rules = NoSetting

\* Once no start is in flight, a core that should intercept does, unless its
\* monitor has paused it or is about to say so: a reload retains interception
\* "only when the network is not paused" (automatic-group-release-notes.md:32).
CommittedCoreIntercepts ==
    pc[Starter] = "idle" /\ p # 0 /\ IsTransparentOn(setting[p]) /\ rules = NoSetting
        => networkPaused \/ pc[p] = "pauseset"

\* Retention is a matter of one call of start(): its two pieces of state never
\* outlive it, whichever way it returns (processManager.go:456-552).
RetentionEndsWithStart ==
    pc[Starter] = "idle" => ~retaining /\ retainedSetting = NoSetting

\* A start that skips the setup because it retains interception
\* (processManager.go:395) never runs under rules written for another setting.
RetainedRulesFit ==
    callRetained /\ pc[Starter] # "idle" => rules \in {NoSetting, callSetting}

\* handleUnexpectedStop (processManager.go:316) records a crash only for the
\* current process, only when its child is dead, and never during shutdown: a
\* late waiter of a replaced process does not take its successor down.
CrashIsRealAct ==
    /\ lastExit' = "crashed" /\ lastExit # "crashed"
          => p # 0 /\ core[p] = "exited" /\ ~shuttingDown
    /\ p # 0 /\ p' = 0 /\ core[p] = "alive" => core'[p] = "closed"
CrashIsReal == [][CrashIsRealAct]_vars

\* A child that exits is noticed and its process is given up, also when the
\* exit falls into a start, a reload or a pause: again and again there is no
\* dead current process, and a dead child stays dead, so it was given up.
DeadCoreReaped == []<>(p # 0 => core[p] \notin {"exited", "closed"})

\* Every call of start() returns and releases startMu: its waits for m.mu and
\* hostMu against Stop, the waiters and the monitors form no cycle.
StartReturns == []<>(pc[Starter] = "idle")

\* What a retaining reload may leave behind: neither piece of its state outlives
\* it, and the rules it kept are those of the setting it starts.
RetentionIsSafe == RetentionEndsWithStart /\ RetainedRulesFit

\* The manager never hangs: starts return and dead cores are given up.
ManagerGoesOn == StartReturns /\ DeadCoreReaped
=============================================================================
