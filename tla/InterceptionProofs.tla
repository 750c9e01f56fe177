------------------------- MODULE InterceptionProofs -------------------------
(* Without retention, the interception on the host always belongs to the   *)
(* current core process, and the manager implements HostInterception.      *)
(* With retention, what a reload retains ends with it and fits it.  Over   *)
(* boots, kills and orderly exits, what the next boot finds in the         *)
(* database and on the host accounts for what the last run left.           *)
EXTENDS ServiceLifecycle, CoreProcessManagerProofs

USE DEF Generations, Threads, Starter, NoThread,
        manager, flags, host, store, call, seen, threads

RetainInv == ~retaining /\ retainedSetting = NoSetting /\ ~callRetained

\* The settings the threads act for: the process's own, and, where rules may
\* still be written, one that is not closed.
SettingInv ==
    /\ p # 0 => setting[p] \in Settings
    /\ pc[Starter] # "idle" => callSetting \in Settings
    /\ pc[Starter] \in SetupPCs => setting[callGen] = callSetting
    /\ pc[Starter] \in SetupPCs \ {"installed"} => callSetting \notin TransparentClose
    /\ \A g \in Generations :
          pc[g] # "off" => setting[g] \in Settings /\ setting[g] \notin TransparentClose

RulesInv ==
    rules # NoSetting =>
        p # 0 /\ rules = setting[p] /\ rules \notin TransparentClose /\ transparentOn

\* What holds whatever an earlier run of the service left on the host.
BInv == IInv /\ RetainInv /\ SettingInv

NInv == BInv /\ RulesInv

\* What a step may do to the current process and the rules.
HostStep ==
    \/ /\ p' = p
       /\ p # 0 => setting'[p] = setting[p]
       /\ rules' = rules \/ rules' = NoSetting \/ (p # 0 /\ rules' = setting[p])
    \/ p' = 0 /\ rules' = NoSetting
    \/ p = 0 /\ p' # 0 /\ rules = NoSetting /\ rules' = NoSetting

RulesKept == RulesInv => RulesInv' /\ HostStep

LEMMA InitNInv == Init => NInv
  <1> SUFFICES ASSUME Init PROVE NInv
    OBVIOUS
  <1>1. IInv
    BY InitIInv
  <1>2. RetainInv
    BY DEF Init, RetainInv
  <1>3. SettingInv /\ RulesInv
    BY ConstantsAssumption DEF Init, SettingInv, RulesInv, SetupPCs
  <1> QED BY <1>1, <1>2, <1>3 DEF NInv, BInv

LEMMA StarterGoes == IInv => \A l : Goto(Starter, l) => pc'[Starter] = l
  BY ConstantsAssumption DEF IInv, TypeOK, ThreadsType, Goto

LEMMA OthersStay == IInv => \A l : \A t \in Threads : Goto(t, l) => \A u \in Threads \ {t} : pc'[u] = pc[u]
  BY DEF IInv, TypeOK, ThreadsType, Goto

LEMMA MonitorStarts ==
  ASSUME IInv, StartMonitor
  PROVE  pc[Starter] = "installed" /\ pc'[Starter] \in {"failed", "hook"}
  <1>1. pc[Starter] = "installed" /\ callGen # Starter
    BY DEF IInv, GenInv, StartMonitor
  <1>2. Starter \in DOMAIN pc
    BY ConstantsAssumption DEF IInv, TypeOK, ThreadsType
  <1> QED BY <1>1, <1>2 DEF StartMonitor

LEMMA Spawned ==
  ASSUME IInv, SpawnOK
  PROVE  /\ p = 0 /\ callGen \in Generations /\ pc[callGen] = "off" /\ pc[Starter] = "spawn"
         /\ p' = callGen /\ setting'[p'] = callSetting
         /\ UNCHANGED <<retaining, retainedSetting, callSetting, callRetained, rules>>
  <1>1. pc[Starter] = "spawn" /\ p' = callGen /\ setting' = [setting EXCEPT ![callGen] = callSetting]
    BY DEF SpawnOK
  <1>2. p = 0 /\ callGen = generation /\ generation > 0
    BY <1>1 DEF IInv, GenInv
  <1>3. callGen \in Generations
    BY <1>2, ConstantsAssumption DEF IInv, TypeOK, ManagerType
  <1>4. pc[callGen] = "off"
    BY <1>1, <1>2, <1>3 DEF IInv, MonitorInv
  <1>5. setting'[p'] = callSetting
    BY <1>1, <1>3 DEF IInv, TypeOK, ManagerType
  <1>6. UNCHANGED <<retaining, retainedSetting, callSetting, callRetained, rules>>
    BY DEF SpawnOK
  <1> QED BY <1>1, <1>2, <1>3, <1>4, <1>5, <1>6

\* A step that moves no thread and keeps or gives up the process.
LEMMA SettingKept ==
  ASSUME SettingInv, p' = p \/ p' = 0, UNCHANGED <<setting, pc, callGen, callSetting>>
  PROVE  SettingInv'
  BY DEF SettingInv

\* A step of start() to a place outside the setup.
LEMMA SettingStarter ==
  ASSUME BInv, NEW l, l \notin SetupPCs, l # "idle" => pc[Starter] # "idle", Goto(Starter, l),
         p' = p \/ p' = 0, UNCHANGED <<setting, callGen, callSetting>>
  PROVE  SettingInv'
  <1>1. pc'[Starter] = l
    BY StarterGoes DEF BInv
  <1>2. Starter \in Threads /\ Generations \subseteq Threads \ {Starter}
    BY ConstantsAssumption
  <1>3. \A g \in Generations : pc'[g] = pc[g]
    BY <1>2, OthersStay DEF BInv
  <1> QED BY <1>1, <1>3 DEF BInv, SettingInv

\* What checkAndStopTransparentProxy removes is all there is.
LEMMA TeardownEmpties ==
  ASSUME SettingInv, RulesInv, p # 0, StopTransparent(setting[p])
  PROVE  rules' = NoSetting
  BY ConstantsAssumption DEF SettingInv, RulesInv, StopTransparent

\* The process goes with its rules, or both stay.
LEMMA RulesGone ==
  ASSUME RulesInv => p' = 0 /\ rules' = NoSetting
  PROVE  RulesKept
  BY DEF RulesKept, RulesInv, HostStep

LEMMA RulesStay ==
  ASSUME UNCHANGED <<p, setting, rules, transparentOn>>
  PROVE  RulesKept
  BY DEF RulesKept, RulesInv, HostStep

LEMMA RulesStartLock ==
  ASSUME BInv, NoRetention, NEW s \in Settings, NEW preserve \in Preserve \cup {FALSE}, StartLock(s, preserve)
  PROVE  BInv' /\ RulesKept
  <1> USE ConstantsAssumption DEF BInv, IInv, TypeOK, StartLock
  <1>1. IInv'
    BY InvStartLock
  <1>2. RetainInv'
    BY DEF RetainInv, NoRetention, canRetainInterception, FlagsType
  <1>3. SettingInv'
    BY SMTT(60) DEF ManagerType, ThreadsType, HostType, GenInv, MonitorInv, RetainInv, SettingInv, SetupPCs,
               IsTransparentOn, Owns, GenOf, Goto
  <1>4. RulesKept
    BY SMTT(60) DEF ManagerType, ThreadsType, HostType, GenInv, HostMutationByOwner, HoldingPCs, RetainInv,
               SettingInv, RulesInv, RulesKept, HostStep, SetupPCs, Owns, GenOf, Goto
  <1> QED BY <1>1, <1>2, <1>3, <1>4 DEF BInv

LEMMA RulesStartStopOld ==
  ASSUME BInv, StartStopOld
  PROVE  BInv' /\ RulesKept
  <1> USE ConstantsAssumption DEF BInv, IInv, TypeOK, StartStopOld, StopProcess, StopTransparent, Closed
  <1>1. IInv'
    BY InvStartStopOld
  <1>2. RetainInv'
    BY DEF RetainInv
  <1>3. SettingInv'
    BY SMTT(60) DEF ManagerType, ThreadsType, HostType, GenInv, MonitorInv, RetainInv, SettingInv, SetupPCs,
               IsTransparentOn, Owns, GenOf, Goto
  <1>4. RulesKept
    BY SMTT(60) DEF ManagerType, ThreadsType, HostType, GenInv, HostMutationByOwner, HoldingPCs, RetainInv,
               SettingInv, RulesInv, RulesKept, HostStep, SetupPCs, Owns, GenOf, Goto
  <1> QED BY <1>1, <1>2, <1>3, <1>4 DEF BInv

LEMMA RulesStartRecover ==
  ASSUME BInv, StartRecover
  PROVE  BInv' /\ RulesKept
  <1> USE ConstantsAssumption DEF BInv, IInv, TypeOK, StartRecover, Recovered
  <1>1. IInv'
    BY InvStartRecover
  <1>2. RetainInv'
    BY DEF RetainInv
  <1>3. SettingInv'
    BY SMTT(60) DEF ManagerType, ThreadsType, HostType, GenInv, MonitorInv, RetainInv, SettingInv, SetupPCs,
               IsTransparentOn, Owns, GenOf, Goto
  <1>4. RulesKept
    BY SMTT(60) DEF ManagerType, ThreadsType, HostType, GenInv, HostMutationByOwner, HoldingPCs, RetainInv,
               SettingInv, RulesInv, RulesKept, HostStep, SetupPCs, Owns, GenOf, Goto
  <1> QED BY <1>1, <1>2, <1>3, <1>4 DEF BInv

LEMMA RulesSpawnOK ==
  ASSUME BInv, SpawnOK
  PROVE  BInv' /\ RulesKept
  <1> USE ConstantsAssumption DEF BInv, IInv, TypeOK, SpawnOK, Goto
  <1>1. IInv'
    BY InvSpawnOK
  <1>2. RetainInv'
    BY DEF RetainInv
  <1>3. SettingInv'
    BY SMTT(60) DEF ManagerType, ThreadsType, HostType, GenInv, MonitorInv, RetainInv, SettingInv, SetupPCs,
               IsTransparentOn, Owns, GenOf, Goto
  <1>4. RulesKept
    BY SMTT(60) DEF ManagerType, ThreadsType, HostType, GenInv, HostMutationByOwner, HoldingPCs, RetainInv,
               SettingInv, RulesInv, RulesKept, HostStep, SetupPCs, Owns, GenOf, Goto
  <1> QED BY <1>1, <1>2, <1>3, <1>4 DEF BInv

LEMMA RulesSpawnFail ==
  ASSUME BInv, SpawnFail
  PROVE  BInv' /\ RulesKept
  <1> USE ConstantsAssumption DEF BInv, IInv, TypeOK, SpawnFail, StopTransparent
  <1>1. IInv'
    BY InvSpawnFail
  <1>2. RetainInv'
    BY DEF RetainInv
  <1>3. SettingInv'
    BY SMTT(60) DEF ManagerType, ThreadsType, HostType, GenInv, MonitorInv, RetainInv, SettingInv, SetupPCs,
               IsTransparentOn, Owns, GenOf, Goto
  <1>4. RulesKept
    BY SMTT(60) DEF ManagerType, ThreadsType, HostType, GenInv, HostMutationByOwner, HoldingPCs, RetainInv,
               SettingInv, RulesInv, RulesKept, HostStep, SetupPCs, Owns, GenOf, Goto
  <1> QED BY <1>1, <1>2, <1>3, <1>4 DEF BInv

LEMMA RulesMutateHost ==
  ASSUME BInv, NEW t \in Threads, NEW from \in {"delete", "write", "pause"},
         NEW to \in HoldingPCs, from = "pause" <=> to = "pausing",
         mutateHost(t, from, to)
  PROVE  BInv' /\ RulesKept
  <1> USE ConstantsAssumption DEF BInv, IInv, TypeOK, mutateHost, HoldingPCs
  <1>1. IInv'
    BY InvMutateHost
  <1>2. RetainInv'
    BY DEF RetainInv
  <1>3. SettingInv'
    BY SMTT(60) DEF ManagerType, ThreadsType, HostType, GenInv, MonitorInv, RetainInv, SettingInv, SetupPCs,
               IsTransparentOn, Owns, GenOf, Goto
  <1>4. RulesKept
    BY SMTT(60) DEF ManagerType, ThreadsType, HostType, GenInv, HostMutationByOwner, HoldingPCs, RetainInv,
               SettingInv, RulesInv, RulesKept, HostStep, SetupPCs, Owns, GenOf, Goto
  <1> QED BY <1>1, <1>2, <1>3, <1>4 DEF BInv

LEMMA RulesSetupLost ==
  ASSUME BInv, NEW t \in Threads, SetupLost(t)
  PROVE  BInv' /\ RulesKept
  <1> USE ConstantsAssumption DEF BInv, IInv, TypeOK, SetupLost, SetupError
  <1>1. IInv'
    BY InvSetupLost
  <1>2. RetainInv'
    BY DEF RetainInv
  <1>3. SettingInv'
    BY SMTT(60) DEF ManagerType, ThreadsType, HostType, GenInv, MonitorInv, RetainInv, SettingInv, SetupPCs,
               IsTransparentOn, Owns, GenOf, Goto
  <1>4. RulesKept
    BY SMTT(60) DEF ManagerType, ThreadsType, HostType, GenInv, HostMutationByOwner, HoldingPCs, RetainInv,
               SettingInv, RulesInv, RulesKept, HostStep, SetupPCs, Owns, GenOf, Goto
  <1> QED BY <1>1, <1>2, <1>3, <1>4 DEF BInv

LEMMA RulesSetupDelete ==
  ASSUME BInv, NEW t \in Threads, SetupDelete(t)
  PROVE  BInv' /\ RulesKept
  <1> USE ConstantsAssumption DEF BInv, IInv, TypeOK, SetupDelete
  <1>1. IInv'
    BY InvSetupDelete
  <1>2. RetainInv'
    BY DEF RetainInv
  <1>3. SettingInv'
    BY SMTT(60) DEF ManagerType, ThreadsType, HostType, GenInv, MonitorInv, RetainInv, SettingInv, SetupPCs,
               IsTransparentOn, Owns, GenOf, Goto
  <1>4. RulesKept
    BY SMTT(60) DEF ManagerType, ThreadsType, HostType, GenInv, HostMutationByOwner, HoldingPCs, RetainInv,
               SettingInv, RulesInv, RulesKept, HostStep, SetupPCs, Owns, GenOf, Goto
  <1> QED BY <1>1, <1>2, <1>3, <1>4 DEF BInv

LEMMA RulesSetupHook ==
  ASSUME BInv, NEW t \in Threads, NEW from \in {"prehook", "posthook"},
         NEW to \in {"write", "installed"}, SetupHook(t, from, to)
  PROVE  BInv' /\ RulesKept
  <1> USE ConstantsAssumption DEF BInv, IInv, TypeOK, SetupHook, SetupError
  <1>1. IInv'
    BY InvSetupHook
  <1>2. RetainInv'
    BY DEF RetainInv
  <1>3. SettingInv'
    BY SMTT(60) DEF ManagerType, ThreadsType, HostType, GenInv, MonitorInv, RetainInv, SettingInv, SetupPCs,
               IsTransparentOn, Owns, GenOf, Goto
  <1>4. RulesKept
    BY SMTT(120) DEF ManagerType, ThreadsType, HostType, GenInv, HostMutationByOwner, HoldingPCs, RetainInv,
               SettingInv, RulesInv, RulesKept, HostStep, SetupPCs, Owns, GenOf, Goto
  <1> QED BY <1>1, <1>2, <1>3, <1>4 DEF BInv

LEMMA RulesSetupWrite ==
  ASSUME BInv, NEW t \in Threads, SetupWrite(t)
  PROVE  BInv' /\ RulesKept
  <1> USE ConstantsAssumption DEF BInv, IInv, TypeOK, SetupWrite, SetupError
  <1>1. IInv'
    BY InvSetupWrite
  <1>2. RetainInv'
    BY DEF RetainInv
  <1>3. SettingInv'
    BY SMTT(60) DEF ManagerType, ThreadsType, HostType, GenInv, MonitorInv, RetainInv, SettingInv, SetupPCs,
               IsTransparentOn, Owns, GenOf, Goto
  <1>4. RulesKept
    BY SMTT(60) DEF ManagerType, ThreadsType, HostType, GenInv, HostMutationByOwner, HoldingPCs, RetainInv,
               SettingInv, RulesInv, RulesKept, HostStep, SetupPCs, Owns, GenOf, Goto
  <1> QED BY <1>1, <1>2, <1>3, <1>4 DEF BInv

LEMMA RulesStartMonitor ==
  ASSUME BInv, StartMonitor
  PROVE  BInv' /\ RulesKept
  <1> USE ConstantsAssumption DEF BInv, IInv, TypeOK, StartMonitor
  <1>1. IInv'
    BY InvStartMonitor
  <1>2. RetainInv'
    BY DEF RetainInv
  <1>3. SettingInv'
    BY SMTT(120) DEF ManagerType, ThreadsType, HostType, GenInv, MonitorInv, RetainInv, SettingInv, SetupPCs,
               IsTransparentOn, Owns, GenOf, Goto
  <1>4. RulesKept
    BY SMTT(120) DEF ManagerType, ThreadsType, HostType, GenInv, HostMutationByOwner, HoldingPCs, RetainInv,
               SettingInv, RulesInv, RulesKept, HostStep, SetupPCs, Owns, GenOf, Goto
  <1> QED BY <1>1, <1>2, <1>3, <1>4 DEF BInv

LEMMA RulesStartHook ==
  ASSUME BInv, StartHook
  PROVE  BInv' /\ RulesKept
  <1> USE DEF BInv
  <1>1. IInv'
    BY InvStartHook
  <1>2. RetainInv'
    BY DEF RetainInv, StartHook
  <1>3. PICK l \in {"commit", "failed"} : pc[Starter] = "hook" /\ Goto(Starter, l)
    BY DEF StartHook
  <1>4. UNCHANGED <<p, setting, rules, transparentOn, callGen, callSetting>>
    BY DEF StartHook
  <1>5. SettingInv'
    BY <1>3, <1>4, SettingStarter DEF SetupPCs
  <1> QED BY <1>1, <1>2, <1>4, <1>5, RulesStay

LEMMA RulesStartCommit ==
  ASSUME BInv, StartCommit
  PROVE  BInv' /\ RulesKept
  <1> USE DEF BInv
  <1>1. IInv'
    BY InvStartCommit
  <1>2. RetainInv'
    BY DEF RetainInv, StartCommit
  <1>3. PICK l \in {"returning", "failed"} : pc[Starter] = "commit" /\ Goto(Starter, l)
    BY DEF StartCommit
  <1>4. UNCHANGED <<p, setting, rules, transparentOn, callGen, callSetting>>
    BY DEF StartCommit
  <1>5. SettingInv'
    BY <1>3, <1>4, SettingStarter DEF SetupPCs
  <1> QED BY <1>1, <1>2, <1>4, <1>5, RulesStay

LEMMA RulesStartFailed ==
  ASSUME BInv, StartFailed
  PROVE  BInv' /\ RulesKept
  <1> USE ConstantsAssumption DEF BInv
  <1>1. IInv'
    BY InvStartFailed
  <1>2. ~callRetained /\ RetainInv'
    BY DEF RetainInv, StartFailed
  <1>3. SettingInv'
    <2>1. p' = p \/ p' = 0
      BY DEF StartFailed, FailedOwner, FailedLost
    <2>2. pc[Starter] # "idle" /\ Goto(Starter, "returning") /\ UNCHANGED <<setting, callGen, callSetting>>
      BY DEF StartFailed
    <2> QED BY <2>1, <2>2, SettingStarter DEF SetupPCs
  <1>4. CASE FailedOwner
    <2>1. p # 0 /\ p' = 0 /\ StopTransparent(setting[p])
      BY <1>2, <1>4 DEF FailedOwner, Owns
    <2> QED BY <1>1, <1>2, <1>3, <2>1, TeardownEmpties, RulesGone
  <1>5. CASE FailedLost
    <2>1. p' = p /\ setting' = setting
      BY <1>5 DEF FailedLost, StartFailed
    <2>2. CASE p = 0
      <3>1. RulesInv => rules = NoSetting
        BY <2>2 DEF RulesInv
      <3>2. RulesInv => rules' = NoSetting
        BY <1>2, <1>5, <3>1 DEF FailedLost, Recovered
      <3> QED BY <1>1, <1>2, <1>3, <2>1, <2>2, <3>2, RulesGone
    <2>3. CASE p # 0
      <3>1. UNCHANGED <<rules, transparentOn>>
        BY <1>2, <1>5, <2>3 DEF FailedLost
      <3> QED BY <1>1, <1>2, <1>3, <2>1, <3>1, RulesStay
    <2> QED BY <2>2, <2>3
  <1> QED BY <1>4, <1>5 DEF StartFailed

LEMMA RulesStartReturn ==
  ASSUME BInv, StartReturn
  PROVE  BInv' /\ RulesKept
  <1> USE DEF BInv
  <1>1. IInv'
    BY InvStartReturn
  <1>2. RetainInv'
    BY DEF RetainInv, StartReturn
  <1>3. Goto(Starter, "idle") /\ UNCHANGED <<p, setting, rules, transparentOn, callGen, callSetting>>
    BY DEF StartReturn
  <1>4. SettingInv'
    BY <1>3, SettingStarter DEF SetupPCs
  <1> QED BY <1>1, <1>2, <1>3, <1>4, RulesStay

LEMMA RulesStop ==
  ASSUME BInv, NEW saveRunning \in BOOLEAN, Stop(saveRunning)
  PROVE  BInv' /\ RulesKept
  <1> USE DEF BInv
  <1>1. IInv'
    BY InvStop
  <1>2. RetainInv'
    BY DEF RetainInv, Stop
  <1>3. p' = 0
    BY DEF Stop, StopProcess
  <1>4. SettingInv'
    BY <1>3, SettingKept DEF Stop
  <1>5. CASE p = 0
    <2>1. RulesInv => rules = NoSetting
      BY <1>5 DEF RulesInv
    <2>2. RulesInv => rules' = NoSetting
      BY <1>5, <2>1 DEF Stop, StopTransparent
    <2> QED BY <1>1, <1>2, <1>3, <1>4, <2>2, RulesGone
  <1>6. CASE p # 0
    <2>1. StopTransparent(setting[p])
      BY <1>6 DEF Stop, StopProcess
    <2> QED BY <1>1, <1>2, <1>3, <1>4, <1>6, <2>1, TeardownEmpties, RulesGone
  <1> QED BY <1>5, <1>6

LEMMA RulesCheckAndStop ==
  ASSUME BInv, CheckAndStopTransparentProxy
  PROVE  BInv' /\ RulesKept
  <1> USE DEF BInv
  <1>1. IInv'
    BY InvCheckAndStop
  <1>2. /\ UNCHANGED <<retaining, retainedSetting, callRetained>>
        /\ UNCHANGED <<p, setting, pc, callGen, callSetting>>
    BY DEF CheckAndStopTransparentProxy
  <1>3. RetainInv' /\ SettingInv'
    BY <1>2, SettingKept DEF RetainInv
  <1>4. CASE p = 0
    <2>1. UNCHANGED <<rules, transparentOn>>
      BY <1>4 DEF CheckAndStopTransparentProxy, StopTransparent
    <2> QED BY <1>1, <1>2, <1>3, <2>1, RulesStay
  <1>5. CASE p # 0
    <2>1. RulesInv => rules' = NoSetting
      BY <1>5, TeardownEmpties DEF CheckAndStopTransparentProxy
    <2>2. RulesKept
      BY <1>2, <2>1 DEF RulesKept, RulesInv, HostStep
    <2> QED BY <1>1, <1>3, <2>2
  <1> QED BY <1>4, <1>5

LEMMA RulesUnexpectedStop ==
  ASSUME BInv, NEW g \in Generations, handleUnexpectedStop(g)
  PROVE  BInv' /\ RulesKept
  <1> USE DEF BInv
  <1>1. IInv'
    BY InvUnexpectedStop
  <1>2. RetainInv'
    BY DEF RetainInv, handleUnexpectedStop
  <1>3. p' = p \/ p' = 0
    BY DEF handleUnexpectedStop, StopProcess
  <1>4. SettingInv'
    BY <1>3, SettingKept DEF handleUnexpectedStop
  <1>5. CASE p = g
    <2>1. p # 0 /\ p' = 0 /\ StopTransparent(setting[p])
      BY <1>5 DEF RetainInv, handleUnexpectedStop, StopProcess
    <2> QED BY <1>1, <1>2, <1>4, <2>1, TeardownEmpties, RulesGone
  <1>6. CASE p # g
    <2>1. UNCHANGED <<p, setting, rules, transparentOn>>
      BY <1>6 DEF handleUnexpectedStop
    <2> QED BY <1>1, <1>2, <1>4, <2>1, RulesStay
  <1> QED BY <1>5, <1>6

LEMMA RulesSetLatencyTesting ==
  ASSUME BInv, NEW b \in BOOLEAN, SetLatencyTesting(b)
  PROVE  BInv' /\ RulesKept
  <1> USE DEF BInv
  <1>1. IInv'
    BY InvSetLatencyTesting
  <1>2. /\ UNCHANGED <<retaining, retainedSetting, callRetained>>
        /\ UNCHANGED <<p, setting, pc, callGen, callSetting, rules, transparentOn>>
    BY DEF SetLatencyTesting
  <1>3. RetainInv'
    BY <1>2 DEF RetainInv
  <1> QED BY <1>1, <1>2, <1>3, SettingKept, RulesStay

LEMMA RulesMarkShuttingDown ==
  ASSUME BInv, MarkShuttingDown
  PROVE  BInv' /\ RulesKept
  <1> USE DEF BInv
  <1>1. IInv'
    BY InvMarkShuttingDown
  <1>2. /\ UNCHANGED <<retaining, retainedSetting, callRetained>>
        /\ UNCHANGED <<p, setting, pc, callGen, callSetting, rules, transparentOn>>
    BY DEF MarkShuttingDown
  <1>3. RetainInv'
    BY <1>2 DEF RetainInv
  <1> QED BY <1>1, <1>2, <1>3, SettingKept, RulesStay

LEMMA RulesCoreExit ==
  ASSUME BInv, NEW g \in Generations, CoreExit(g)
  PROVE  BInv' /\ RulesKept
  <1> USE DEF BInv
  <1>1. IInv'
    BY InvCoreExit
  <1>2. /\ UNCHANGED <<retaining, retainedSetting, callRetained>>
        /\ UNCHANGED <<p, setting, pc, callGen, callSetting, rules, transparentOn>>
    BY DEF CoreExit
  <1>3. RetainInv'
    BY <1>2 DEF RetainInv
  <1> QED BY <1>1, <1>2, <1>3, SettingKept, RulesStay

\* A monitor's move that leaves the rules or removes them all.
LEMMA RulesMonitorMoves ==
  ASSUME BInv, IInv', NEW g \in Generations, NEW l, Goto(g, l), pc[g] # "off",
         rules' = rules \/ rules' = NoSetting,
         UNCHANGED <<p, setting, retaining, retainedSetting, transparentOn, callGen, callSetting, callRetained>>
  PROVE  BInv' /\ RulesKept
  <1>1. RetainInv' /\ RulesKept
    BY DEF BInv, RetainInv, RulesInv, RulesKept, HostStep
  <1>2. SettingInv'
    <2>1. \A u \in Threads \ {g} : pc'[u] = pc[u]
      BY OthersStay DEF BInv
    <2>2. Starter \in Threads \ {g} /\ Generations \subseteq Threads
      BY ConstantsAssumption
    <2> QED BY <2>1, <2>2 DEF BInv, SettingInv
  <1> QED BY <1>1, <1>2 DEF BInv

LEMMA RulesMonitorCheck ==
  ASSUME BInv, NEW g \in Generations, MonitorCheck(g)
  PROVE  BInv' /\ RulesKept
  <1>1. IInv'
    BY InvMonitorCheck DEF BInv
  <1>2. PICK l \in {"probe", "off"} : Goto(g, l)
    BY DEF MonitorCheck
  <1>3. /\ pc[g] = "wait" /\ (rules' = rules \/ rules' = NoSetting)
        /\ UNCHANGED <<p, setting, retaining, retainedSetting, transparentOn, callGen, callSetting, callRetained>>
    BY DEF MonitorCheck
  <1> QED BY <1>1, <1>2, <1>3, RulesMonitorMoves

LEMMA RulesMonitorProbe ==
  ASSUME BInv, NEW g \in Generations, NEW healthy \in BOOLEAN, NEW dead \in BOOLEAN,
         MonitorProbe(g, healthy, dead)
  PROVE  BInv' /\ RulesKept
  <1>1. IInv'
    BY InvMonitorProbe DEF BInv
  <1>2. PICK l \in {"off", "wait", "delete", "pause"} : Goto(g, l)
    BY DEF MonitorProbe
  <1>3. /\ pc[g] = "probe" /\ (rules' = rules \/ rules' = NoSetting)
        /\ UNCHANGED <<p, setting, retaining, retainedSetting, transparentOn, callGen, callSetting, callRetained>>
    BY DEF MonitorProbe
  <1> QED BY <1>1, <1>2, <1>3, RulesMonitorMoves

LEMMA RulesMonitorLost ==
  ASSUME BInv, NEW g \in Generations, MonitorLost(g)
  PROVE  BInv' /\ RulesKept
  <1>1. IInv'
    BY InvMonitorLost DEF BInv
  <1>2. PICK l \in {"off"} : Goto(g, l)
    BY DEF MonitorLost
  <1>3. /\ pc[g] = "pause" /\ (rules' = rules \/ rules' = NoSetting)
        /\ UNCHANGED <<p, setting, retaining, retainedSetting, transparentOn, callGen, callSetting, callRetained>>
    BY DEF MonitorLost
  <1> QED BY <1>1, <1>2, <1>3, RulesMonitorMoves

LEMMA RulesMonitorDelete ==
  ASSUME BInv, NEW g \in Generations, MonitorDelete(g)
  PROVE  BInv' /\ RulesKept
  <1>1. IInv'
    BY InvMonitorDelete DEF BInv
  <1>2. PICK l \in {"pauseset"} : Goto(g, l)
    BY DEF MonitorDelete
  <1>3. /\ pc[g] = "pausing" /\ (rules' = rules \/ rules' = NoSetting)
        /\ UNCHANGED <<p, setting, retaining, retainedSetting, transparentOn, callGen, callSetting, callRetained>>
    BY DEF MonitorDelete, KeepSystemProxy
  <1> QED BY <1>1, <1>2, <1>3, RulesMonitorMoves

LEMMA RulesMonitorPaused ==
  ASSUME BInv, NEW g \in Generations, MonitorPaused(g)
  PROVE  BInv' /\ RulesKept
  <1>1. IInv'
    BY InvMonitorPaused DEF BInv
  <1>2. PICK l \in {"off", "wait"} : Goto(g, l)
    BY DEF MonitorPaused
  <1>3. /\ pc[g] = "pauseset" /\ (rules' = rules \/ rules' = NoSetting)
        /\ UNCHANGED <<p, setting, retaining, retainedSetting, transparentOn, callGen, callSetting, callRetained>>
    BY DEF MonitorPaused
  <1> QED BY <1>1, <1>2, <1>3, RulesMonitorMoves

LEMMA RulesMonitorResumed ==
  ASSUME BInv, NEW g \in Generations, MonitorResumed(g)
  PROVE  BInv' /\ RulesKept
  <1>1. IInv'
    BY InvMonitorResumed DEF BInv
  <1>2. PICK l \in {"off", "wait"} : Goto(g, l)
    BY DEF MonitorResumed
  <1>3. /\ pc[g] = "installed" /\ (rules' = rules \/ rules' = NoSetting)
        /\ UNCHANGED <<p, setting, retaining, retainedSetting, transparentOn, callGen, callSetting, callRetained>>
    BY DEF MonitorResumed
  <1> QED BY <1>1, <1>2, <1>3, RulesMonitorMoves

LEMMA RulesSetup ==
  ASSUME BInv, NEW t \in Threads, setupTransparentProxy(t)
  PROVE  BInv' /\ RulesKept
  <1>1. CASE mutateHost(t, "delete", "deleting")
    BY <1>1, RulesMutateHost DEF HoldingPCs
  <1>2. CASE SetupDelete(t)
    BY <1>2, RulesSetupDelete
  <1>3. CASE SetupHook(t, "prehook", "write")
    BY <1>3, RulesSetupHook
  <1>4. CASE mutateHost(t, "write", "writing")
    BY <1>4, RulesMutateHost DEF HoldingPCs
  <1>5. CASE SetupWrite(t)
    BY <1>5, RulesSetupWrite
  <1>6. CASE SetupHook(t, "posthook", "installed")
    BY <1>6, RulesSetupHook
  <1>7. CASE SetupLost(t)
    BY <1>7, RulesSetupLost
  <1> QED BY <1>1, <1>2, <1>3, <1>4, <1>5, <1>6, <1>7 DEF setupTransparentProxy

LEMMA RulesMonitor ==
  ASSUME BInv, NEW g \in Generations, Monitor(g)
  PROVE  BInv' /\ RulesKept
  <1>1. CASE MonitorCheck(g)
    BY <1>1, RulesMonitorCheck
  <1>2. CASE \E healthy, dead \in BOOLEAN : MonitorProbe(g, healthy, dead)
    BY <1>2, RulesMonitorProbe
  <1>3. CASE mutateHost(g, "pause", "pausing")
    BY <1>3, RulesMutateHost, ConstantsAssumption DEF HoldingPCs
  <1>4. CASE MonitorLost(g) \/ MonitorDelete(g) \/ MonitorPaused(g) \/ MonitorResumed(g)
    BY <1>4, RulesMonitorLost, RulesMonitorDelete, RulesMonitorPaused, RulesMonitorResumed
  <1>5. CASE setupTransparentProxy(g)
    BY <1>5, RulesSetup, ConstantsAssumption
  <1> QED BY <1>1, <1>2, <1>3, <1>4, <1>5 DEF Monitor

\* Every step preserves the invariant and is a HostStep.
LEMMA RulesStep ==
  ASSUME NoRetention, BInv, ManagerStep
  PROVE  BInv' /\ RulesKept
  <1>1. CASE \E s \in Settings, preserve \in Preserve \cup {FALSE} : StartLock(s, preserve)
    BY <1>1, RulesStartLock
  <1>2. CASE StartStep
    <2>1. CASE StartStopOld \/ StartRecover \/ SpawnOK \/ SpawnFail
      BY <2>1, RulesStartStopOld, RulesStartRecover, RulesSpawnOK, RulesSpawnFail
    <2>2. CASE setupTransparentProxy(Starter)
      BY <2>2, RulesSetup, ConstantsAssumption
    <2>3. CASE StartMonitor \/ StartHook \/ StartCommit \/ StartFailed \/ StartReturn
      BY <2>3, RulesStartMonitor, RulesStartHook, RulesStartCommit, RulesStartFailed, RulesStartReturn
    <2> QED BY <1>2, <2>1, <2>2, <2>3 DEF StartStep
  <1>3. ASSUME NEW g \in Generations,
               handleUnexpectedStop(g) \/ CoreExit(g) \/ Monitor(g)
        PROVE  BInv' /\ RulesKept
    BY <1>3, RulesUnexpectedStop, RulesCoreExit, RulesMonitor
  <1>4. CASE Stop(TRUE) \/ Stop(FALSE)
    BY <1>4, RulesStop
  <1>5. CASE MarkShuttingDown \/ CheckAndStopTransparentProxy
    BY <1>5, RulesMarkShuttingDown, RulesCheckAndStop
  <1>6. CASE \E b \in BOOLEAN : SetLatencyTesting(b)
    BY <1>6, RulesSetLatencyTesting
  <1>7. CASE UNCHANGED vars
    <2>1. IInv'
      BY <1>7, InvStep DEF BInv, ManagerStep
    <2>2. RetainInv' /\ SettingInv' /\ RulesKept
      BY <1>7 DEF vars, BInv, RetainInv, SettingInv, RulesInv, RulesKept, HostStep
    <2> QED BY <2>1, <2>2 DEF BInv
  <1> QED BY <1>1, <1>2, <1>3, <1>4, <1>5, <1>6, <1>7 DEF ManagerStep

LEMMA RulesNext ==
  ASSUME NoRetention, NInv, [Next]_vars
  PROVE  NInv' /\ HostStep
  BY RulesStep, StepOfManager DEF NInv, RulesKept

\* Without retention, whatever the interleaving of starts, stops, crashes,
\* failed setups, hooks and monitors, rules on the host are those of the
\* current core process and are flagged for teardown.
THEOREM InterceptionFollows ==
  ASSUME NoRetention
  PROVE  Spec => []InterceptionFollowsCore
  <1>1. NInv /\ [Next]_vars => NInv'
    BY RulesNext
  <1>2. NInv => InterceptionFollowsCore
    BY DEF NInv, RulesInv, InterceptionFollowsCore
  <1> QED BY InitNInv, <1>1, <1>2, PTL DEF Spec

\* Without retention the manager implements HostInterception: every step is a
\* step of the abstract machine or leaves it alone.
THEOREM Refinement ==
  ASSUME NoRetention
  PROVE  Spec => ImplementsHostInterception
  <1> DEFINE own == IF p = 0 THEN NoSetting ELSE setting[p]
  <1>1. Init => Interception!Init
    BY DEF Init, Interception!Init
  <1>2. ASSUME NInv, [Next]_vars
        PROVE  [Interception!Next]_<<own, rules>>
    <2>1. NInv' /\ HostStep
      BY <1>2, RulesNext
    <2>2. p \in Nat /\ p' \in Nat
      BY <1>2, <2>1, ConstantsAssumption DEF NInv, BInv, IInv, TypeOK, ManagerType
    <2>3. CASE p' = p /\ (p # 0 => setting'[p] = setting[p])
               /\ (rules' = rules \/ rules' = NoSetting \/ (p # 0 /\ rules' = setting[p]))
      BY <1>2, <2>1, <2>3, ConstantsAssumption
      DEF NInv, BInv, SettingInv, Interception!Next, Interception!Install, Interception!Remove
    <2>4. CASE p' = 0 /\ rules' = NoSetting
      BY <2>4 DEF Interception!Next, Interception!Release
    <2>5. CASE p = 0 /\ p' # 0 /\ rules = NoSetting /\ rules' = NoSetting
      BY <2>1, <2>5 DEF NInv, BInv, SettingInv, Interception!Next, Interception!Adopt
    <2> QED BY <2>1, <2>3, <2>4, <2>5 DEF HostStep
  <1>3. NInv /\ [Next]_vars => NInv'
    BY RulesNext
  <1> QED BY InitNInv, <1>1, <1>2, <1>3, PTL
          DEF Spec, ImplementsHostInterception, Interception!Spec

-----------------------------------------------------------------------------
(* Retention.                                                              *)

\* The two pieces of state a retaining start leaves for the others are set
\* only while it runs.
CallInv ==
    /\ pc[Starter] = "idle" => ~retaining
    /\ retainedSetting # NoSetting =>
          callRetained /\ pc[Starter] \notin {"idle", "returning"}

\* A retaining start follows a process of its own setting and the rules on the
\* host are that setting's.  They were when it decided, because rules on the
\* host of a process that could be retained from are those of its setting,
\* from the moment its start has deleted what it found.
FitInv ==
    /\ callRetained /\ pc[Starter] # "idle" =>
          /\ p # 0 => setting[p] = callSetting
          /\ rules \in {NoSetting, callSetting}
    /\ p # 0 /\ Retainable(setting[p])
          /\ pc[Starter] \notin {"delete", "deleting", "failed"} =>
          rules \in {NoSetting, setting[p]}

RetInv == IInv /\ CallInv /\ FitInv

LEMMA InitRetInv == Init => RetInv
  BY InitIInv DEF Init, RetInv, CallInv, FitInv

\* A step that leaves start() where it is may give up the process, remove the
\* rules, write those of the process, and end the retention.
LEMMA RetOther ==
  ASSUME RetInv, IInv',
         UNCHANGED <<setting, callSetting, callRetained>>,
         pc'[Starter] = pc[Starter],
         p' = p \/ p' = 0,
         rules' = rules \/ rules' = NoSetting \/ (p # 0 /\ rules' = setting[p]),
         retaining' = retaining \/ ~retaining',
         retainedSetting' = retainedSetting \/ retainedSetting' = NoSetting
  PROVE  RetInv'
  <1>1. CallInv'
    BY DEF RetInv, CallInv
  <1>2. FitInv'
    BY DEF RetInv, FitInv, Retainable, IsTransparentOn
  <1> QED BY <1>1, <1>2 DEF RetInv

LEMMA Stopped ==
  ASSUME NEW s, StopTransparent(s)
  PROVE  rules' = rules \/ rules' = NoSetting
  BY DEF StopTransparent

\* Who is inside the host works for the current process.
LEMMA Holder ==
  ASSUME IInv, NEW t \in Threads, pc[t] \in HoldingPCs
  PROVE  p # 0 /\ p = GenOf(t)
  BY DEF IInv, HostMutationByOwner, Owns

LEMMA RetMonitor ==
  ASSUME RetInv, NEW g \in Generations, Monitor(g)
  PROVE  RetInv'
  <1> USE ConstantsAssumption
  <1>1. IInv'
    BY InvMonitor DEF RetInv
  <1>2. g # Starter /\ g \in Threads
    OBVIOUS
  <1>3. UNCHANGED <<p, setting, callSetting, callRetained, retaining, retainedSetting>>
    BY DEF Monitor, MonitorCheck, MonitorProbe, MonitorLost, MonitorDelete, MonitorPaused, MonitorResumed,
           setupTransparentProxy, mutateHost, SetupDelete, SetupHook, SetupWrite, SetupLost
  <1>4. pc'[Starter] = pc[Starter]
    <2>1. \A l : Goto(g, l) => pc'[Starter] = pc[Starter]
      BY <1>2 DEF RetInv, IInv, TypeOK, ThreadsType, Goto
    <2>2. \E l : Goto(g, l)
      BY Zenon DEF Monitor, MonitorCheck, MonitorProbe, MonitorLost, MonitorDelete, MonitorPaused, MonitorResumed,
           setupTransparentProxy, mutateHost, SetupDelete, SetupHook, SetupWrite, SetupLost
    <2> QED BY <2>1, <2>2
  <1>5. rules' = rules \/ rules' = NoSetting \/ (p # 0 /\ rules' = setting[p])
    <2>1. CASE SetupWrite(g)
      BY <1>2, <2>1, Holder DEF RetInv, SetupWrite, HoldingPCs, GenOf
    <2>2. CASE MonitorDelete(g)
      BY <2>2 DEF MonitorDelete, KeepSystemProxy
    <2>3. CASE ~SetupWrite(g) /\ ~MonitorDelete(g)
      BY <2>3 DEF Monitor, MonitorCheck, MonitorProbe, MonitorLost, MonitorPaused, MonitorResumed,
           setupTransparentProxy, mutateHost, SetupDelete, SetupHook, SetupLost
    <2> QED BY <2>1, <2>2, <2>3
  <1> QED BY <1>1, <1>3, <1>4, <1>5, RetOther

LEMMA RetCallers ==
  ASSUME RetInv, IInv',
         \/ Stop(TRUE) \/ Stop(FALSE) \/ CheckAndStopTransparentProxy \/ MarkShuttingDown
         \/ \E b \in BOOLEAN : SetLatencyTesting(b)
         \/ \E g \in Generations : handleUnexpectedStop(g) \/ CoreExit(g)
  PROVE  RetInv'
  <1>1. UNCHANGED <<setting, callSetting, callRetained, pc>> /\ (p' = p \/ p' = 0)
    BY DEF Stop, CheckAndStopTransparentProxy, MarkShuttingDown, SetLatencyTesting,
           handleUnexpectedStop, CoreExit, StopProcess
  <1>2. rules' = rules \/ rules' = NoSetting
    BY Stopped DEF Stop, CheckAndStopTransparentProxy, MarkShuttingDown, SetLatencyTesting,
           handleUnexpectedStop, CoreExit, StopProcess
  <1>3. /\ retaining' = retaining \/ ~retaining'
        /\ retainedSetting' = retainedSetting \/ retainedSetting' = NoSetting
    BY Zenon DEF Stop, CheckAndStopTransparentProxy, MarkShuttingDown, SetLatencyTesting,
           handleUnexpectedStop, CoreExit
  <1> QED BY <1>1, <1>2, <1>3, RetOther

LEMMA RetStartLock ==
  ASSUME RetInv, IInv', NEW s \in Settings, NEW preserve \in Preserve, StartLock(s, preserve)
  PROVE  RetInv'
  <1> USE ConstantsAssumption
  <1>1. /\ pc[Starter] = "idle" /\ pc'[Starter] = "locked"
        /\ UNCHANGED <<p, setting, rules>> /\ callSetting' = s
    BY StarterGoes DEF RetInv, StartLock
  <1>2. CASE ~callRetained'
    <2>1. retainedSetting' = NoSetting
      BY <1>1, <1>2, Zenon DEF RetInv, CallInv, StartLock
    <2> QED BY <1>1, <1>2, <2>1 DEF RetInv, CallInv, FitInv, Retainable, IsTransparentOn
  <1>3. CASE callRetained'
    <2>1. s = (IF p # 0 THEN setting[p] ELSE retainedSetting) /\ Retainable(s)
      BY <1>3, Zenon DEF StartLock, canRetainInterception
    <2>2. retainedSetting = NoSetting
      BY <1>1, Zenon DEF RetInv, CallInv
    <2>3. p # 0 /\ setting[p] = s
      BY <2>1, <2>2
    <2>4. rules \in {NoSetting, s}
      BY <1>1, <2>1, <2>3 DEF RetInv, FitInv
    <2> QED BY <1>1, <1>3, <2>1, <2>3, <2>4 DEF RetInv, CallInv, FitInv, Retainable, IsTransparentOn
  <1> QED BY <1>2, <1>3

LEMMA RetBegin ==
  ASSUME RetInv, IInv', StartStopOld \/ StartRecover \/ SpawnOK \/ SpawnFail
  PROVE  RetInv'
  <1> USE ConstantsAssumption
  <1>1. CASE StartStopOld
    <2>1. /\ pc[Starter] = "locked" /\ pc'[Starter] = "recover" /\ p' = 0
          /\ UNCHANGED <<retaining, retainedSetting, callSetting, callRetained>>
      BY <1>1, StarterGoes DEF RetInv, StartStopOld, StopProcess
    <2>2. rules' = rules \/ rules' = NoSetting
      BY <1>1, Stopped DEF StartStopOld, StopProcess
    <2> QED BY <2>1, <2>2 DEF RetInv, CallInv, FitInv
  <1>2. CASE StartRecover
    <2>1. /\ pc[Starter] = "recover" /\ pc'[Starter] = "spawn" /\ p = 0 /\ p' = 0
          /\ UNCHANGED <<retaining, retainedSetting, callSetting, callRetained>>
          /\ callRetained => rules' = rules
      BY <1>2, StarterGoes DEF RetInv, IInv, GenInv, StartRecover
    <2> QED BY <2>1 DEF RetInv, CallInv, FitInv
  <1>3. CASE SpawnOK
    <2>1. /\ pc[Starter] = "spawn" /\ p' = callGen /\ setting'[p'] = callSetting
          /\ UNCHANGED <<retaining, retainedSetting, callSetting, callRetained, rules>>
      BY <1>3, Spawned DEF RetInv
    <2>2. \/ pc'[Starter] \in {"delete", "failed"}
          \/ pc'[Starter] = "installed" /\ (callRetained \/ ~IsTransparentOn(callSetting))
      BY <1>3, StarterGoes DEF RetInv, SpawnOK
    <2> QED BY <2>1, <2>2 DEF RetInv, CallInv, FitInv, Retainable, IsTransparentOn
  <1>4. CASE SpawnFail
    <2>1. /\ pc[Starter] = "spawn" /\ pc'[Starter] = "returning" /\ p = 0 /\ p' = 0
          /\ UNCHANGED <<retaining, callSetting, callRetained>>
      BY <1>4, StarterGoes DEF RetInv, IInv, GenInv, SpawnFail
    <2>2. (rules' = rules \/ rules' = NoSetting) /\ retainedSetting' = NoSetting
      BY <1>4, Stopped DEF RetInv, CallInv, SpawnFail
    <2> QED BY <2>1, <2>2 DEF RetInv, CallInv, FitInv
  <1> QED BY <1>1, <1>2, <1>3, <1>4

\* start() goes on within its phase 3, or returns, for the process it has.
LEMMA RetMoves ==
  ASSUME RetInv, IInv',
         UNCHANGED <<p, setting, callSetting, callRetained, retaining>>,
         pc[Starter] # "idle", pc'[Starter] # "idle",
         pc[Starter] \notin {"delete", "deleting", "failed"} \/ pc'[Starter] \in {"deleting", "failed"}
            \/ rules' = NoSetting,
         rules' = rules \/ rules' = NoSetting \/ (p # 0 /\ rules' = setting[p]),
         retainedSetting' = NoSetting \/ (retainedSetting' = retainedSetting /\ pc'[Starter] # "returning")
  PROVE  RetInv'
  <1>1. CallInv'
    BY DEF RetInv, CallInv
  <1>2. FitInv'
    BY DEF RetInv, FitInv, Retainable, IsTransparentOn
  <1> QED BY <1>1, <1>2 DEF RetInv

LEMMA RetSetup ==
  ASSUME RetInv, IInv', setupTransparentProxy(Starter)
  PROVE  RetInv'
  <1> USE ConstantsAssumption
  <1>1. UNCHANGED <<p, setting, callSetting, callRetained, retaining, retainedSetting>>
    BY DEF setupTransparentProxy, mutateHost, SetupDelete, SetupHook, SetupWrite, SetupLost
  <1>2. /\ pc[Starter] # "idle" /\ pc'[Starter] \notin {"idle", "returning"}
        /\ \/ pc[Starter] \notin {"delete", "deleting", "failed"}
           \/ pc'[Starter] \in {"deleting", "failed"}
           \/ rules' = NoSetting
    BY StarterGoes DEF RetInv, SetupError,
           setupTransparentProxy, mutateHost, SetupDelete, SetupHook, SetupWrite, SetupLost
  <1>3. rules' = rules \/ rules' = NoSetting \/ (p # 0 /\ rules' = setting[p])
    <2>1. CASE SetupWrite(Starter)
      BY <2>1, Holder, SMTT(30) DEF RetInv, SetupWrite, HoldingPCs
    <2>2. CASE ~SetupWrite(Starter)
      BY <2>2 DEF setupTransparentProxy, mutateHost, SetupDelete, SetupHook, SetupLost
    <2> QED BY <2>1, <2>2
  <1> QED BY <1>1, <1>2, <1>3, RetMoves

LEMMA RetFinish ==
  ASSUME RetInv, IInv', StartMonitor \/ StartHook \/ StartCommit \/ StartFailed \/ StartReturn
  PROVE  RetInv'
  <1> USE ConstantsAssumption
  <1>1. CASE StartMonitor \/ StartHook
    <2>1. UNCHANGED <<p, setting, callSetting, callRetained, retaining, retainedSetting, rules>>
      BY <1>1 DEF StartMonitor, StartHook
    <2>2. pc[Starter] \in {"installed", "hook"} /\ pc'[Starter] \in {"hook", "commit", "failed"}
      BY <1>1, StarterGoes, MonitorStarts DEF RetInv, StartHook
    <2> QED BY <2>1, <2>2, RetMoves
  <1>2. CASE StartCommit
    <2>1. UNCHANGED <<p, setting, callSetting, callRetained, retaining, rules>>
      BY <1>2 DEF StartCommit
    <2>2. /\ pc[Starter] = "commit" /\ pc'[Starter] \in {"returning", "failed"}
          /\ retainedSetting' = NoSetting \/ (retainedSetting' = retainedSetting /\ pc'[Starter] # "returning")
      BY <1>2, StarterGoes DEF RetInv, StartCommit
    <2> QED BY <2>1, <2>2, RetMoves
  <1>3. CASE StartFailed
    <2>1. /\ pc[Starter] = "failed" /\ pc'[Starter] = "returning"
          /\ UNCHANGED <<setting, callSetting, callRetained, retaining>>
      BY <1>3, StarterGoes DEF RetInv, StartFailed
    <2>2. p' = 0
      BY <1>3, <2>1 DEF RetInv, IInv, GenInv, StartFailed, FailedOwner, FailedLost, Owns, GenOf
    <2>3. callRetained => rules' = rules \/ rules' = NoSetting
      BY <1>3, Stopped DEF StartFailed, FailedOwner, FailedLost
    <2>4. retainedSetting' = NoSetting
      BY <1>3 DEF RetInv, CallInv, StartFailed
    <2> QED BY <2>1, <2>2, <2>3, <2>4 DEF RetInv, CallInv, FitInv
  <1>4. CASE StartReturn
    <2>1. /\ pc[Starter] = "returning" /\ pc'[Starter] = "idle" /\ ~retaining'
          /\ UNCHANGED <<p, setting, rules, callSetting, callRetained, retainedSetting>>
      BY <1>4, StarterGoes DEF RetInv, StartReturn
    <2> QED BY <2>1 DEF RetInv, CallInv, FitInv, Retainable, IsTransparentOn
  <1> QED BY <1>1, <1>2, <1>3, <1>4

LEMMA RetNext == RetInv /\ [Next]_vars => RetInv'
  <1> SUFFICES ASSUME RetInv, [Next]_vars PROVE RetInv'
    OBVIOUS
  <1>1. IInv'
    BY InvNext DEF RetInv
  <1>2. CASE \E s \in Settings, preserve \in Preserve : StartLock(s, preserve)
    BY <1>1, <1>2, RetStartLock
  <1>3. CASE StartStep
    BY <1>1, <1>3, RetBegin, RetSetup, RetFinish DEF StartStep
  <1>4. CASE \E g \in Generations : Monitor(g)
    BY <1>4, RetMonitor
  <1>5. CASE \/ Stop(TRUE) \/ Stop(FALSE) \/ CheckAndStopTransparentProxy \/ MarkShuttingDown
             \/ \E b \in BOOLEAN : SetLatencyTesting(b)
             \/ \E g \in Generations : handleUnexpectedStop(g) \/ CoreExit(g)
    BY <1>1, <1>5, RetCallers
  <1>6. CASE UNCHANGED vars
    BY <1>1, <1>6, RetOther DEF vars
  <1> QED BY <1>2, <1>3, <1>4, <1>5, <1>6 DEF Next

\* With or without retention, with hooks, failing writes and any number of
\* starts: what a retaining reload sets aside never outlives its call of
\* start(), and the rules it keeps in place of a setup are those of the setting
\* it starts, although monitors and stops work on the host beside it
\* (processManager.go:429-552).
THEOREM Retention == Spec => []RetentionIsSafe
  <1>1. RetInv => RetentionIsSafe
    BY DEF RetInv, CallInv, FitInv, RetentionIsSafe, RetentionEndsWithStart, RetainedRulesFit
  <1> QED BY InitRetInv, RetNext, <1>1, PTL DEF Spec

-----------------------------------------------------------------------------
(* The service over any number of boots, kills and orderly exits: what the *)
(* next boot finds in the database and on the host.                        *)

\* Before the boot starts a core there is none.
DownInv == phase \in {"down", "recovered", "cleaned"} => p = 0

\* Rules that are no residue of an earlier run are those of the current core.
ResidueInv == residue = NoSetting => RulesInv

\* The database knows of the current core: as running, by the marker, or it was
\* refused its marker and has installed nothing.
MarkInv ==
    p # 0 =>
        \/ running /\ lastExit # "crashed"
        \/ marker = setting[p]
        \/ /\ pc[Starter] = "failed"
           /\ pc[p] = "off"
           /\ rules # NoSetting => residue # NoSetting

\* A core that was committed is stored as running until it is given up.
RunInv == p # 0 /\ pc[Starter] \in {"idle", "locked", "returning"} => running

LifeInv == BInv /\ DownInv /\ ResidueInv /\ MarkInv /\ RunInv

\* Only a core that was up and wanted is stored as running.
WantInv == running => wanted

-----------------------------------------------------------------------------
(* Steps of the manager.                                                   *)

\* A step that keeps or gives up the process, keeps what the database has of
\* one it keeps, and brings start() to none of the places RunInv is about.
LEMMA MarkQuiet ==
  ASSUME MarkInv, RunInv, Tracked, phase' # "down",
         p' = p \/ p' = 0,
         p' # 0 => UNCHANGED <<running, lastExit, marker>> /\ setting'[p] = setting[p],
         p' # 0 /\ pc[Starter] = "failed" /\ pc[p] = "off" =>
             pc'[Starter] = "failed" /\ pc'[p] = "off" /\ (rules' = rules \/ rules' = NoSetting),
         p' # 0 /\ pc'[Starter] \in {"idle", "locked", "returning"} =>
             pc[Starter] \in {"idle", "locked", "returning"}
  PROVE  MarkInv' /\ RunInv'
  <1>1. RunInv'
    BY DEF RunInv
  <1>2. MarkInv'
    BY DEF MarkInv, Tracked
  <1> QED BY <1>1, <1>2

LEMMA MarkSpawned ==
  ASSUME LifeInv, SpawnOK, Tracked, phase' # "down"
  PROVE  MarkInv' /\ RunInv'
  <1> USE ConstantsAssumption
  <1>1. p = 0 /\ callGen \in Generations /\ pc[callGen] = "off" /\ pc[Starter] = "spawn"
    BY Spawned DEF LifeInv, BInv
  <1>2. p' = callGen /\ setting'[p'] = callSetting /\ rules' = rules
    BY Spawned DEF LifeInv, BInv
  <1>3. rules # NoSetting => residue # NoSetting
    BY <1>1 DEF LifeInv, ResidueInv, RulesInv
  <1>4. \A l : Goto(Starter, l) => pc'[Starter] = l /\ pc'[callGen] = pc[callGen]
    BY <1>1 DEF LifeInv, BInv, IInv, TypeOK, ThreadsType, Goto
  <1>5. \/ marker' = callSetting /\ pc'[Starter] \in {"delete", "installed"}
        \/ pc'[Starter] = "failed" /\ pc'[callGen] = "off"
    BY <1>1, <1>4 DEF SpawnOK
  <1> QED BY <1>2, <1>3, <1>5 DEF MarkInv, RunInv, Tracked

LEMMA MarkCommitted ==
  ASSUME LifeInv, StartCommit
  PROVE  MarkInv' /\ RunInv'
  <1>1. /\ pc[Starter] = "commit" /\ p' = p /\ setting' = setting
        /\ \/ running' /\ lastExit' = "running" /\ pc'[Starter] = "returning"
           \/ /\ pc'[Starter] = "failed" /\ marker' = marker
              /\ running' = running \/ running'
              /\ lastExit' = lastExit \/ lastExit' = "running"
    BY StarterGoes DEF LifeInv, BInv, StartCommit
  <1> QED BY <1>1 DEF LifeInv, MarkInv, RunInv

LEMMA MarkStarter ==
  ASSUME LifeInv, StartStep, Tracked, phase' # "down"
  PROVE  MarkInv' /\ RunInv'
  <1> USE ConstantsAssumption
  <1>1. CASE SpawnOK \/ StartCommit
    BY <1>1, MarkSpawned, MarkCommitted
  <1>2. CASE StartStopOld \/ StartRecover \/ SpawnFail \/ StartFailed
    <2>1. p' = 0
      BY <1>2 DEF LifeInv, BInv, IInv, GenInv, StartStopOld, StopProcess, StartRecover, SpawnFail,
         StartFailed, FailedOwner, FailedLost, Owns, GenOf
    <2> QED BY <2>1 DEF MarkInv, RunInv
  <1>3. CASE setupTransparentProxy(Starter)
    <2>1. UNCHANGED <<p, setting, running, lastExit, marker>>
      BY <1>3 DEF setupTransparentProxy, mutateHost, SetupDelete, SetupHook, SetupWrite, SetupLost
    <2>2. pc[Starter] # "failed" /\ pc'[Starter] \notin {"idle", "locked", "returning"}
      BY <1>3, StarterGoes DEF LifeInv, BInv, SetupError,
         setupTransparentProxy, mutateHost, SetupDelete, SetupHook, SetupWrite, SetupLost
    <2> QED BY <2>1, <2>2, MarkQuiet DEF LifeInv
  <1>4. CASE StartMonitor \/ StartHook \/ StartReturn
    <2>1. UNCHANGED <<p, setting, running, lastExit, marker>>
      BY <1>4 DEF StartMonitor, StartHook, StartReturn
    <2>2. /\ pc[Starter] \in {"installed", "hook", "returning"}
          /\ pc'[Starter] \in {"idle", "locked", "returning"} => pc[Starter] = "returning"
      BY <1>4, StarterGoes, MonitorStarts DEF LifeInv, BInv, StartHook, StartReturn
    <2> QED BY <2>1, <2>2, MarkQuiet DEF LifeInv
  <1> QED BY <1>1, <1>2, <1>3, <1>4 DEF StartStep

LEMMA MarkMonitor ==
  ASSUME LifeInv, NEW g \in Generations, Monitor(g), Tracked, phase' # "down"
  PROVE  MarkInv' /\ RunInv'
  <1> USE ConstantsAssumption
  <1>1. UNCHANGED <<p, setting, running, lastExit, marker>>
    BY DEF Monitor, MonitorCheck, MonitorProbe, MonitorLost, MonitorDelete, MonitorPaused, MonitorResumed,
           setupTransparentProxy, mutateHost, SetupDelete, SetupHook, SetupWrite, SetupLost
  <1>2. pc[g] # "off" /\ \E l : Goto(g, l)
    BY Zenon DEF Monitor, MonitorCheck, MonitorProbe, MonitorLost, MonitorDelete, MonitorPaused, MonitorResumed,
           setupTransparentProxy, mutateHost, SetupDelete, SetupHook, SetupWrite, SetupLost
  <1>3. pc'[Starter] = pc[Starter] /\ (p # 0 /\ p # g => pc'[p] = pc[p])
    BY <1>2 DEF LifeInv, BInv, IInv, TypeOK, ThreadsType, ManagerType, Goto
  <1>4. p # g => rules' = rules \/ rules' = NoSetting
    <2>1. CASE SetupWrite(g)
      BY <2>1, Holder, SMTT(30) DEF LifeInv, BInv, SetupWrite, HoldingPCs, GenOf
    <2>2. CASE MonitorDelete(g)
      BY <2>2 DEF MonitorDelete, KeepSystemProxy
    <2>3. CASE ~SetupWrite(g) /\ ~MonitorDelete(g)
      BY <2>3 DEF Monitor, MonitorCheck, MonitorProbe, MonitorLost, MonitorPaused, MonitorResumed,
           setupTransparentProxy, mutateHost, SetupDelete, SetupHook, SetupLost
    <2> QED BY <2>1, <2>2, <2>3
  <1> QED BY <1>1, <1>2, <1>3, <1>4, MarkQuiet DEF LifeInv

LEMMA ResidueKept ==
  ASSUME ResidueInv, Tracked, phase' = "down" \/ (RulesInv => RulesInv')
  PROVE  ResidueInv'
  BY DEF ResidueInv, Tracked, RulesInv

LEMMA LifeServe ==
  ASSUME NoRetention, LifeInv, Serve, Tracked
  PROVE  LifeInv'
  <1> USE ConstantsAssumption
  <1>1. ManagerStep /\ phase' \in {"starting", "up", "quitting"}
    BY DEF Serve, ManagerStep
  <1>2. BInv' /\ RulesKept
    BY <1>1, RulesStep DEF LifeInv
  <1>3. ResidueInv'
    BY <1>2, ResidueKept DEF LifeInv, RulesKept
  <1>4. MarkInv' /\ RunInv'
    <2>1. CASE StartStep
      BY <1>1, <2>1, MarkStarter
    <2>2. CASE \E g \in Generations : Monitor(g)
      BY <1>1, <2>2, MarkMonitor
    <2>3. CASE \E s \in Settings, preserve \in Preserve : StartLock(s, preserve)
      <3>1. UNCHANGED <<p, setting, running, lastExit, marker>> /\ pc[Starter] = "idle"
        BY <2>3 DEF StartLock
      <3> QED BY <1>1, <3>1, MarkQuiet DEF LifeInv
    <2>4. CASE Stop(TRUE)
      BY <2>4 DEF Stop, StopProcess, MarkInv, RunInv
    <2>5. CASE \E g \in Generations : handleUnexpectedStop(g) \/ CoreExit(g)
      <3>1. UNCHANGED <<pc, setting, marker>>
            /\ (p' = 0 \/ UNCHANGED <<p, running, lastExit, rules>>)
        BY <2>5 DEF handleUnexpectedStop, CoreExit, StopProcess
      <3> QED BY <1>1, <3>1, MarkQuiet DEF LifeInv
    <2> QED BY <2>1, <2>2, <2>3, <2>4, <2>5 DEF Serve
  <1> QED BY <1>1, <1>2, <1>3, <1>4 DEF LifeInv, DownInv

-----------------------------------------------------------------------------
(* The end of the process, and the steps of a boot.                        *)

LEMMA LifeEnded ==
  ASSUME LifeInv, Ended, Tracked,
         rules' \in Settings \cup {NoSetting}, marker' \in Settings \cup {NoSetting},
         running' \in BOOLEAN, lastExit' \in {"stopped", "running", "crashed"}
  PROVE  LifeInv'
  <1> USE ConstantsAssumption DEF Ended
  <1>1. TypeOK'
    <2>1. ManagerType'
      BY SMTT(30) DEF ManagerType
    <2>2. FlagsType'
      BY Zenon DEF FlagsType
    <2>3. HostType'
      BY DEF HostType
    <2>4. "idle" \in StarterPCs /\ "off" \in MonitorPCs
      BY DEF StarterPCs, MonitorPCs
    <2>5. pc' \in [Threads -> StarterPCs \cup MonitorPCs]
      BY <2>4
    <2>6. ThreadsType'
      <3>1. callGen' \in 0..MaxGeneration /\ callSetting' \in Settings \cup {NoSetting}
        OBVIOUS
      <3>2. seenPaused' \in [Generations -> BOOLEAN] /\ seenDead' \in [Generations -> BOOLEAN]
        OBVIOUS
      <3> HIDE DEF Ended
      <3> QED BY <2>5, <3>1, <3>2 DEF ThreadsType
    <2> QED BY <2>1, <2>2, <2>3, <2>6 DEF TypeOK
  <1>2. /\ pc'[Starter] = "idle" /\ (\A g \in Generations : pc'[g] = "off")
        /\ (\A t \in Threads : pc'[t] \notin HoldingPCs)
    BY DEF HoldingPCs
  <1>3. LockInv' /\ GenInv' /\ MonitorInv'
    BY <1>2 DEF LockInv, GenInv, MonitorInv
  <1>4. HostMutationByOwner'
    BY <1>2 DEF HostMutationByOwner
  <1>5. RetainInv'
    BY Zenon DEF RetainInv
  <1>6. SettingInv'
    BY <1>2 DEF SettingInv, SetupPCs
  <1>7. ResidueInv'
    BY ResidueKept DEF LifeInv
  <1> QED BY <1>1, <1>3, <1>4, <1>5, <1>6, <1>7 DEF LifeInv, BInv, IInv, DownInv, MarkInv, RunInv

LEMMA LifeEnds ==
  ASSUME LifeInv, Exit \/ Kill, Tracked
  PROVE  LifeInv'
  <1>1. /\ rules \in Settings \cup {NoSetting} /\ marker \in Settings \cup {NoSetting}
        /\ lastExit \in {"stopped", "running", "crashed"}
    BY DEF LifeInv, BInv, IInv, TypeOK, HostType
  <1>2. running \in BOOLEAN
    BY DEF LifeInv, BInv, IInv, TypeOK, FlagsType
  <1>3. rules' \in Settings \cup {NoSetting} /\ marker' \in Settings \cup {NoSetting}
    BY <1>1 DEF Exit, Kill
  <1>4. lastExit' \in {"stopped", "running", "crashed"}
    BY <1>1 DEF Exit, Kill
  <1>5. running' \in BOOLEAN
    BY <1>2, Zenon DEF Exit, Kill
  <1>6. Ended
    BY DEF Exit, Kill
  <1> QED BY <1>3, <1>4, <1>5, <1>6, LifeEnded

LEMMA RecoveredChoice ==
  ASSUME NEW r, NEW m
  PROVE  Recovered(r, m) = r \/ Recovered(r, m) = NoSetting
  BY DEF Recovered

\* A step of a boot that leaves the manager alone.
LEMMA LifeBoot ==
  ASSUME LifeInv, Tracked, phase' \in {"recovered", "cleaned"}, p = 0,
         UNCHANGED <<manager, flags, hostMu, transparentOn, threads>>,
         rules' = rules \/ rules' = NoSetting,
         marker' \in Settings \cup {NoSetting}, lastExit' = lastExit, running' \in BOOLEAN
  PROVE  LifeInv'
  <1> USE ConstantsAssumption
  <1>1. TypeOK'
    <2>1. ManagerType'
      BY DEF LifeInv, BInv, IInv, TypeOK, ManagerType
    <2>2. FlagsType'
      BY Zenon DEF LifeInv, BInv, IInv, TypeOK, FlagsType
    <2>3. HostType'
      BY DEF LifeInv, BInv, IInv, TypeOK, HostType
    <2>4. ThreadsType'
      BY DEF LifeInv, BInv, IInv, TypeOK, ThreadsType
    <2> QED BY <2>1, <2>2, <2>3, <2>4 DEF TypeOK
  <1>2. IInv'
    BY <1>1, InvThreadsStay DEF LifeInv, BInv
  <1>3. RetainInv' /\ SettingInv'
    BY DEF LifeInv, BInv, RetainInv, SettingInv
  <1>4. ResidueInv'
    BY ResidueKept DEF LifeInv, RulesInv
  <1> QED BY <1>2, <1>3, <1>4 DEF LifeInv, BInv, DownInv, MarkInv, RunInv

LEMMA LifeBoots ==
  ASSUME LifeInv, recoverPendingHostState \/ ReadLastExit, Tracked
  PROVE  LifeInv'
  <1>1. p = 0
    BY DEF LifeInv, DownInv, recoverPendingHostState, ReadLastExit
  <1>2. rules' = rules \/ rules' = NoSetting
    BY RecoveredChoice DEF recoverPendingHostState, ReadLastExit
  <1>3. marker' \in Settings \cup {NoSetting}
    BY DEF LifeInv, BInv, IInv, TypeOK, HostType, recoverPendingHostState, ReadLastExit
  <1>4. running' \in BOOLEAN
    BY Zenon DEF LifeInv, BInv, IInv, TypeOK, FlagsType, recoverPendingHostState, ReadLastExit
  <1>5. UNCHANGED <<manager, flags, hostMu, transparentOn, threads, lastExit>>
        /\ phase' \in {"recovered", "cleaned"}
    BY DEF recoverPendingHostState, ReadLastExit
  <1> QED BY <1>1, <1>2, <1>3, <1>4, <1>5, LifeBoot

LEMMA LifeBooted ==
  ASSUME NoRetention, LifeInv, Tracked,
         (\E s \in Settings : BootStart(s)) \/ BootWithoutCore \/ BootDone
  PROVE  LifeInv'
  <1> USE ConstantsAssumption
  <1>1. ManagerStep /\ phase' \in {"starting", "up"}
    BY DEF BootStart, BootWithoutCore, BootDone, ManagerStep
  <1>2. BInv' /\ RulesKept
    BY <1>1, RulesStep DEF LifeInv
  <1>3. ResidueInv'
    BY <1>2, ResidueKept DEF LifeInv, RulesKept
  <1>4. /\ UNCHANGED <<p, setting, running, lastExit, marker, rules>>
        /\ UNCHANGED pc \/ pc[Starter] = "idle"
    BY DEF BootStart, BootWithoutCore, BootDone, StartLock, vars
  <1>5. MarkInv' /\ RunInv'
    BY <1>1, <1>4, MarkQuiet DEF LifeInv
  <1> QED BY <1>1, <1>2, <1>3, <1>5 DEF LifeInv, DownInv

LEMMA LifeQuit ==
  ASSUME LifeInv, Quit, Tracked
  PROVE  LifeInv'
  <1> USE ConstantsAssumption DEF Quit
  <1>1. rules' = rules \/ rules' = NoSetting
    BY Stopped
  <1>2. transparentOn' \in BOOLEAN /\ shuttingDown' \in BOOLEAN
    BY Zenon DEF LifeInv, BInv, IInv, TypeOK, FlagsType, StopTransparent
  <1>3. TypeOK'
    <2>1. ManagerType'
      BY DEF LifeInv, BInv, IInv, TypeOK, ManagerType
    <2>2. FlagsType'
      BY <1>2, Zenon DEF LifeInv, BInv, IInv, TypeOK, FlagsType
    <2>3. HostType'
      BY <1>1 DEF LifeInv, BInv, IInv, TypeOK, HostType
    <2>4. ThreadsType'
      BY DEF LifeInv, BInv, IInv, TypeOK, ThreadsType
    <2> QED BY <2>1, <2>2, <2>3, <2>4 DEF TypeOK
  <1>4. IInv'
    BY <1>3, InvThreadsStay DEF LifeInv, BInv
  <1>5. RetainInv' /\ SettingInv'
    BY DEF LifeInv, BInv, RetainInv, SettingInv
  <1>6. RulesInv => RulesInv'
    BY DEF LifeInv, BInv, RulesInv, StopTransparent
  <1>7. ResidueInv'
    BY <1>6, ResidueKept DEF LifeInv
  <1>8. MarkInv' /\ RunInv'
    BY <1>1, MarkQuiet DEF LifeInv
  <1> QED BY <1>4, <1>5, <1>7, <1>8 DEF LifeInv, BInv, DownInv

LEMMA LifeInit == LifecycleInit => LifeInv
  BY InitNInv DEF LifecycleInit, LifeInv, NInv, DownInv, ResidueInv, MarkInv, RunInv, Init

LEMMA LifeNext ==
  ASSUME NoRetention, LifeInv, [LifecycleNext]_allVars
  PROVE  LifeInv'
  <1>1. CASE LifecycleNext
    BY <1>1, LifeServe, LifeEnds, LifeBoots, LifeBooted, LifeQuit DEF LifecycleNext
  <1>2. CASE UNCHANGED allVars
    <2>1. BInv' /\ RulesKept
      BY <1>2, RulesStep DEF LifeInv, allVars, ManagerStep
    <2> QED BY <1>2, <2>1
        DEF LifeInv, allVars, vars, lifecycle, RulesInv, DownInv, ResidueInv, MarkInv, RunInv
  <1> QED BY <1>1, <1>2

\* Whenever the service is killed, over any number of boots and with database
\* writes that may fail, the next boot finds what it needs to clean the host
\* up: the running flag or a marker of the same kind.
THEOREM KillRecovers ==
  ASSUME NoRetention
  PROVE  LifecycleSpec => []KillIsRecoverable
  <1>1. LifeInv => KillIsRecoverable
    BY DEF LifeInv, ResidueInv, RulesInv, MarkInv, KillIsRecoverable
  <1>2. LifeInv /\ [LifecycleNext]_allVars => LifeInv'
    BY LifeNext
  <1> QED BY LifeInit, <1>1, <1>2, PTL DEF LifecycleSpec

\* An orderly exit leaves no interception behind, whatever start or monitor was
\* in flight when the service was asked to quit (pre_run.go:62).
THEOREM QuitIsClean ==
  ASSUME NoRetention
  PROVE  LifecycleSpec => QuitLeavesNoRules
  <1>1. LifeInv => [QuitLeavesNoRulesAct]_allVars
    BY DEF LifeInv, BInv, ResidueInv, RulesInv, QuitLeavesNoRulesAct, Exit
  <1>2. LifeInv /\ [LifecycleNext]_allVars => LifeInv'
    BY LifeNext
  <1> QED BY LifeInit, <1>1, <1>2, PTL DEF LifecycleSpec, QuitLeavesNoRules

-----------------------------------------------------------------------------
(* What a boot restores, when database writes do not fail.                 *)

LEMMA WantServe ==
  ASSUME ~StoreFails, LifeInv, WantInv, Serve
  PROVE  WantInv'
  <1> USE DEF WantInv
  <1>1. CASE StartStep /\ wanted' = IF pc[Starter] = "commit" /\ pc'[Starter] = "returning" THEN TRUE
                       ELSE IF pc'[Starter] = "returning" THEN wanted /\ running ELSE wanted
    <2>1. CASE StartCommit
      <3>1. \/ pc[Starter] = "commit" /\ pc'[Starter] = "returning"
            \/ running' = running /\ pc'[Starter] = "failed"
        BY <2>1, StarterGoes DEF LifeInv, BInv, StartCommit
      <3> QED BY <1>1, <3>1
    <2>2. CASE StartStopOld \/ StartRecover \/ SpawnOK \/ SpawnFail \/ StartFailed
      <3>1. running' = running \/ ~running'
        BY <2>2, Zenon DEF StartStopOld, StartRecover, SpawnOK, SpawnFail, StartFailed, FailedOwner, FailedLost,
           StopProcess, ClearRunning
      <3> QED BY <1>1, <3>1
    <2>3. CASE setupTransparentProxy(Starter) \/ StartMonitor \/ StartHook \/ StartReturn
      <3>1. running' = running
        BY <2>3 DEF setupTransparentProxy, mutateHost, SetupDelete, SetupHook, SetupWrite, SetupLost,
           StartMonitor, StartHook, StartReturn
      <3> QED BY <1>1, <3>1
    <2> QED BY <1>1, <2>1, <2>2, <2>3 DEF StartStep
  <1>2. CASE (\E s \in Settings, preserve \in Preserve : StartLock(s, preserve)) /\ UNCHANGED wanted
    <2>1. ASSUME NEW s \in Settings, NEW preserve \in Preserve, StartLock(s, preserve) PROVE running' = running
      BY <2>1 DEF StartLock
    <2> QED BY <1>2, <2>1
  <1>3. CASE Stop(TRUE) /\ wanted' = (wanted /\ p = 0)
    BY <1>3, Zenon DEF Stop, StopProcess, ClearRunning
  <1>4. ASSUME NEW g \in Generations, handleUnexpectedStop(g), wanted' = (wanted /\ (p # g \/ shuttingDown))
        PROVE  WantInv'
    BY <1>4, Zenon DEF handleUnexpectedStop, StopProcess, ClearRunning
  <1>5. CASE (\E g \in Generations : CoreExit(g) \/ Monitor(g)) /\ UNCHANGED wanted
    <2>1. ASSUME NEW g \in Generations, CoreExit(g) PROVE running' = running
      BY <2>1 DEF CoreExit
    <2>2. ASSUME NEW g \in Generations, setupTransparentProxy(g) \/ mutateHost(g, "pause", "pausing")
          PROVE  running' = running
      BY <2>2 DEF setupTransparentProxy, mutateHost, SetupDelete, SetupHook, SetupWrite, SetupLost
    <2>3. ASSUME NEW g \in Generations,
                 \/ MonitorCheck(g) \/ MonitorLost(g) \/ MonitorDelete(g) \/ MonitorPaused(g) \/ MonitorResumed(g)
                 \/ \E healthy, dead \in BOOLEAN : MonitorProbe(g, healthy, dead)
          PROVE  running' = running
      BY <2>3 DEF MonitorCheck, MonitorProbe, MonitorLost, MonitorDelete, MonitorPaused, MonitorResumed
    <2> QED BY <1>5, <2>1, <2>2, <2>3 DEF Monitor
  <1> QED BY <1>1, <1>2, <1>3, <1>4, <1>5 DEF Serve

LEMMA WantNext ==
  ASSUME ~StoreFails, LifeInv, WantInv, [LifecycleNext]_allVars
  PROVE  WantInv'
  <1> USE DEF WantInv
  <1>1. CASE Serve
    BY <1>1, WantServe
  <1>2. CASE recoverPendingHostState \/ ReadLastExit \/ Quit \/ Exit \/ Kill
    BY <1>2, Zenon DEF recoverPendingHostState, ReadLastExit, Quit, Exit, Kill
  <1>3. CASE (\E s \in Settings : BootStart(s)) \/ BootWithoutCore \/ BootDone
    BY <1>3 DEF BootStart, BootWithoutCore, BootDone, StartLock, vars
  <1>4. CASE UNCHANGED allVars
    BY <1>4 DEF allVars, vars, lifecycle
  <1> QED BY <1>1, <1>2, <1>3, <1>4 DEF LifecycleNext

\* A boot starts a core only if one had been up and was wanted, and does start
\* the one that was up when the service quit outside a reload: the running flag
\* neither survives a stop, a crash or a failed start nor is lost by a quit or
\* a kill (processManager.go:269-277, 328, 540).
THEOREM RestoresRan ==
  ASSUME NoRetention, ~StoreFails
  PROVE  LifecycleSpec => RestoresWhatRan
  <1>1. LifecycleInit => LifeInv /\ WantInv
    BY LifeInit DEF LifecycleInit, Init, WantInv
  <1>2. LifeInv /\ WantInv /\ [LifecycleNext]_allVars => LifeInv' /\ WantInv'
    BY LifeNext, WantNext
  <1>3. ASSUME LifeInv, WantInv, [LifecycleNext]_allVars
        PROVE  OnlyWantedIsRestoredAct /\ RunningIsRestoredAct
    <2>1. OnlyWantedIsRestoredAct
      BY <1>3 DEF OnlyWantedIsRestoredAct, WantInv, LifecycleNext, allVars, lifecycle, recoverPendingHostState,
         ReadLastExit, BootStart, BootWithoutCore, BootDone, Quit, Exit, Kill, Ended, Serve
    <2>2. RunningIsRestoredAct
      BY <1>3 DEF RunningIsRestoredAct, LifeInv, RunInv, Exit
    <2> QED BY <2>1, <2>2
  <1>4. LifeInv /\ WantInv /\ [LifecycleNext]_allVars
          => [OnlyWantedIsRestoredAct]_allVars /\ [RunningIsRestoredAct]_allVars
    BY <1>3
  <1> QED BY <1>1, <1>2, <1>4, PTL
          DEF LifecycleSpec, RestoresWhatRan, OnlyWantedIsRestored, RunningIsRestored
=============================================================================
