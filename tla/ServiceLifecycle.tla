-------------------------- MODULE ServiceLifecycle --------------------------
(***************************************************************************)
(* The v2rayA service around its process manager: what it does to the host *)
(* when it boots, when it is asked to quit and when it is killed.  The     *)
(* database (marker, running, lastExit) and the host (rules) outlive the   *)
(* service; everything else of CoreProcessManager starts afresh.           *)
(*                                                                         *)
(* Two history variables.  wanted: a core has been up, and neither the     *)
(* user, a crash nor a failed reload has ended it since.  residue: rules   *)
(* of an earlier run that have not been removed since.                     *)
(***************************************************************************)
EXTENDS CoreProcessManager

CONSTANT MaxBoots      \* bound on the number of times the service is started

VARIABLES phase, boots, wanted, residue

lifecycle == <<phase, boots, wanted, residue>>
allVars   == <<vars, lifecycle>>

Phases == {"down", "recovered", "cleaned", "starting", "up", "quitting"}

\* Every variable keeps its type.
LifecycleTypeOK ==
    /\ TypeOK
    /\ phase \in Phases
    /\ boots \in 0..MaxBoots
    /\ wanted \in BOOLEAN
    /\ residue \in Settings \cup {NoSetting}

-----------------------------------------------------------------------------
LifecycleInit ==
    Init /\ phase = "down" /\ boots = 0 /\ wanted = FALSE /\ residue = NoSetting

\* The process is gone.  Memory is what Init says; the host keeps its rules.
Ended ==
    /\ p' = 0
    /\ generation' = 0
    /\ setting' = [g \in Generations |-> NoSetting]
    /\ core' = [g \in Generations |-> "absent"]
    /\ mu' = FALSE
    /\ testing' = FALSE
    /\ networkPaused' = FALSE
    /\ retaining' = FALSE
    /\ retainedSetting' = NoSetting
    /\ shuttingDown' = FALSE
    /\ hostMu' = NoThread
    /\ transparentOn' = FALSE
    /\ pc' = [t \in Threads |-> IF t = Starter THEN "idle" ELSE "off"]
    /\ callGen' = 0
    /\ callSetting' = NoSetting
    /\ callRetained' = FALSE
    /\ seenPaused' = [g \in Generations |-> FALSE]
    /\ seenDead' = [g \in Generations |-> FALSE]
    /\ phase' = "down"

\* An interrupted start is torn down.  A stored system proxy snapshot counts as
\* the marker of one.  The marker stays when the teardown fails.
recoverPendingHostState ==
    LET snapshot == rules # NoSetting /\ TransparentType[rules] = "system_proxy"
        state    == IF marker # NoSetting THEN marker
                    ELSE IF snapshot THEN rules ELSE NoSetting
    IN  /\ phase = "down"
        /\ boots < MaxBoots
        /\ boots' = boots + 1
        /\ phase' = "recovered"
        /\ \/ state # NoSetting /\ rules' = Recovered(rules, state) /\ marker' = NoSetting
           \/ UNCHANGED <<rules, marker>>
        /\ UNCHANGED <<manager, flags, hostMu, transparentOn, running, lastExit, threads, wanted>>

\* The exit status of the last run is read: after a crash nothing is restored.
\* CleanupTunResidual then removes what is left of a tun device.
ReadLastExit ==
    /\ phase = "recovered"
    /\ phase' = "cleaned"
    /\ running' = (running /\ lastExit # "crashed")
    /\ rules' = IF rules # NoSetting /\ TransparentType[rules] = "tun" THEN NoSetting ELSE rules
    /\ UNCHANGED <<manager, flags, hostMu, transparentOn, marker, lastExit, threads, boots, wanted>>

\* UpdateV2RayConfig at boot: the start of CoreProcessManager, or an error while
\* the template is built.
BootStart(s) ==
    /\ phase = "cleaned"
    /\ running
    /\ \/ StartLock(s, FALSE) /\ phase' = "starting" /\ UNCHANGED <<boots, wanted>>
       \/ phase' = "up" /\ UNCHANGED <<vars, boots, wanted>>

BootWithoutCore ==
    /\ phase = "cleaned"
    /\ ~running
    /\ phase' = "up"
    /\ UNCHANGED <<vars, boots, wanted>>

\* The router and the signal handler run once the boot's start has returned.
BootDone ==
    /\ phase = "starting"
    /\ pc[Starter] = "idle"
    /\ phase' = "up"
    /\ UNCHANGED <<vars, boots, wanted>>

\* A signal, or (unmarked) an error of the router: cleanup's first call.
Quit ==
    /\ phase = "up"
    /\ phase' = "quitting"
    /\ BothLocksFree
    /\ shuttingDown' \in {TRUE, shuttingDown}
    /\ StopTransparent(IF p # 0 THEN setting[p] ELSE NoSetting)
    /\ UNCHANGED <<manager, testing, networkPaused, retaining, retainedSetting,
                   hostMu, store, threads, boots, wanted>>

\* Mutant: the exit does not wait for Stop.
Exit_NoStop ==
    /\ phase = "quitting"
    /\ Ended
    /\ UNCHANGED <<rules, store, boots, wanted>>

\* cleanup's second call, Stop(false), and the end of the process.  What Stop
\* does to memory is gone with it; its writes and its teardown are not.
Exit ==
    /\ phase = "quitting"
    /\ BothLocksFree
    /\ LET s == IF p # 0 THEN setting[p] ELSE retainedSetting
       IN  rules' = IF transparentOn /\ s # NoSetting /\ s \notin TransparentClose
                    THEN NoSetting ELSE rules
    /\ lastExit' = IF p # 0 THEN "running" ELSE lastExit
    /\ Ended
    /\ UNCHANGED <<marker, running, boots, wanted>>

\* kill -9, a power failure: between two steps, between the writes of a commit,
\* or inside a stop after its teardown.
Kill ==
    /\ phase # "down"
    /\ \/ UNCHANGED <<rules, running, lastExit, wanted>>
       \/ /\ pc[Starter] = "commit" /\ Owns(Starter)
          /\ running' = TRUE
          /\ lastExit' \in {lastExit, "running"}
          /\ wanted' = TRUE
          /\ UNCHANGED rules
       \/ /\ p # 0 /\ BothLocksFree
          /\ rules' = IF transparentOn /\ setting[p] \notin TransparentClose THEN NoSetting ELSE rules
          /\ running' \in {running, FALSE}
          /\ UNCHANGED <<lastExit, wanted>>
    /\ Ended
    /\ UNCHANGED <<marker, boots>>

\* Everything the manager does while the service is up, seen by wanted.
Serve ==
    /\ phase \in {"starting", "up", "quitting"}
    /\ UNCHANGED <<phase, boots>>
    /\ \/ /\ phase # "starting"
          /\ \E s \in Settings, preserve \in Preserve : StartLock(s, preserve)
          /\ UNCHANGED wanted
       \/ /\ StartStep
          /\ wanted' = IF pc[Starter] = "commit" /\ pc'[Starter] = "returning" THEN TRUE
                       ELSE IF pc'[Starter] = "returning" THEN wanted /\ running ELSE wanted
       \/ /\ phase # "starting" /\ Stop(TRUE)
          /\ wanted' = (wanted /\ p = 0)
       \/ \E g \in Generations :
             \/ handleUnexpectedStop(g) /\ wanted' = (wanted /\ (p # g \/ shuttingDown))
             \/ (CoreExit(g) \/ Monitor(g)) /\ UNCHANGED wanted

Tracked ==
    residue' = IF rules' = NoSetting THEN NoSetting
               ELSE IF phase' = "down" THEN rules' ELSE residue

LifecycleNext ==
    \/ recoverPendingHostState /\ Tracked
    \/ ReadLastExit /\ Tracked
    \/ (\E s \in Settings : BootStart(s)) /\ Tracked
    \/ BootWithoutCore /\ Tracked
    \/ BootDone /\ Tracked
    \/ Quit /\ Tracked
    \/ Exit /\ Tracked
    \/ Kill /\ Tracked
    \/ Serve /\ Tracked

LifecycleSpec == LifecycleInit /\ [][LifecycleNext]_allVars
-----------------------------------------------------------------------------
(* Properties.                                                             *)

\* A boot restores only a core that was up and wanted: a user's stop
\* (processManager.go:269), a crash (processManager.go:328) and a failed start
\* outlast any later kill or restart of the service.
OnlyWantedIsRestoredAct ==
    phase = "cleaned" /\ phase' = "starting" => wanted
OnlyWantedIsRestored == [][OnlyWantedIsRestoredAct]_allVars

\* Whenever the service is killed, the next boot finds what it needs to clean
\* the host up: the running flag, which makes it start a core whose setup begins
\* by deleting the old rules, or the marker of the same kind of interception
\* (processManager.go:492-500, 540-546).  The commit's order of writes, and
\* stop's teardown before its write, matter here.
KillIsRecoverable ==
    rules # NoSetting /\ residue = NoSetting =>
        \/ running /\ lastExit # "crashed"
        \/ marker # NoSetting /\ TransparentType[marker] = TransparentType[rules]

\* A service that quits in order leaves no interception behind, whatever start
\* or monitor was in flight when it did.
QuitLeavesNoRulesAct == Exit /\ residue = NoSetting => rules' = NoSetting
QuitLeavesNoRules == [][QuitLeavesNoRulesAct]_allVars

\* A core that was up when the service quits is started by the next boot
\* (processManager.go:271), whatever boots, kills, crashes and stops came before.
\* A reload in flight has cleared the running flag, and is excepted.
RunningIsRestoredAct == Exit /\ wanted /\ p # 0 /\ pc[Starter] = "idle" => running' /\ lastExit' # "crashed"
RunningIsRestored == [][RunningIsRestoredAct]_allVars

\* "Repair what a crashed or killed previous run left in the operating system
\* before anything else, whether or not the core is started" (pre_run.go:92).
\* A recovery that failed, and left its marker for the next boot, is excepted.
BootRepairsHost ==
    phase = "up" /\ p = 0 /\ pc[Starter] = "idle" /\ marker = NoSetting => rules = NoSetting

\* A boot starts the core that was up when the service ended in order, and no
\* other: the running flag neither survives a stop nor is lost by a quit.
RestoresWhatRan == OnlyWantedIsRestored /\ RunningIsRestored
=============================================================================
