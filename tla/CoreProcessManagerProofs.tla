---------------------- MODULE CoreProcessManagerProofs ----------------------
(* Machine-checked proofs about CoreProcessManager, for every value of its *)
(* constants.                                                              *)
EXTENDS CoreProcessManager, TLAPS

USE DEF Generations, Threads, Starter, NoThread,
        manager, flags, host, store, call, seen, threads

\* start() is the only step that keeps m.mu, and only in its phase 2.
LockInv == mu <=> pc[Starter] \in {"locked", "recover", "spawn"}

\* m.p is nil or of the latest generation, and start() knows its own number.
GenInv ==
    /\ p \in {0, generation}
    /\ pc[Starter] \in {"recover", "spawn"} => p = 0
    /\ pc[Starter] \in {"locked", "recover"} => callGen = generation + 1
    /\ pc[Starter] \notin {"idle", "locked", "recover"} =>
          callGen = generation /\ generation > 0

\* A generation has no monitor before its start has come to startConnectivityMonitor.
MonitorInv ==
    \A g \in Generations : pc[g] # "off" =>
        /\ g <= generation
        /\ g = generation => pc[Starter] \notin {"spawn"} \cup SetupPCs

IInv == TypeOK /\ LockInv /\ GenInv /\ MonitorInv /\ HostMutationByOwner

LEMMA TypeInit == Init => TypeOK
  <1> SUFFICES ASSUME Init PROVE TypeOK
    OBVIOUS
  <1>1. ManagerType
    BY ConstantsAssumption DEF Init, ManagerType
  <1>2. FlagsType
    BY DEF Init, FlagsType
  <1>3. HostType
    BY ConstantsAssumption DEF Init, HostType
  <1>4. ThreadsType
    BY ConstantsAssumption DEF Init, ThreadsType, StarterPCs, MonitorPCs, SetupPCs
  <1> QED BY <1>1, <1>2, <1>3, <1>4 DEF TypeOK

LEMMA InitIInv == Init => IInv
  <1> SUFFICES ASSUME Init PROVE IInv
    OBVIOUS
  <1>1. TypeOK
    BY TypeInit
  <1>2. LockInv /\ GenInv /\ MonitorInv /\ HostMutationByOwner
    BY ConstantsAssumption DEF Init, LockInv, GenInv, MonitorInv, HostMutationByOwner, HoldingPCs
  <1> QED BY <1>1, <1>2 DEF IInv

LEMMA WrittenChoice == \A new, old, x : x \in Written(new, old) => x = new \/ x = old
  BY DEF Written

LEMMA TypeStartLock ==
  ASSUME TypeOK, NEW s \in Settings, NEW preserve \in BOOLEAN, StartLock(s, preserve)
  PROVE  TypeOK'
  <1> USE ConstantsAssumption DEF TypeOK, StartLock
  <1>1. ManagerType'
    BY SMTT(60) DEF ManagerType, ThreadsType
  <1>2. FlagsType'
    BY Zenon DEF FlagsType
  <1>3. HostType'
    BY SMTT(60) DEF HostType, ManagerType, ThreadsType
  <1>4. ThreadsType'
    BY SMTT(60) DEF ThreadsType, ManagerType, FlagsType, StarterPCs, MonitorPCs, SetupPCs, Goto
  <1> QED BY <1>1, <1>2, <1>3, <1>4 DEF TypeOK

LEMMA TypeStartStopOld ==
  ASSUME TypeOK, StartStopOld
  PROVE  TypeOK'
  <1> USE ConstantsAssumption DEF TypeOK, StartStopOld, StopProcess, StopTransparent, Closed
  <1>1. ManagerType'
    BY SMTT(60) DEF ManagerType, ThreadsType
  <1>2. FlagsType'
    BY Zenon DEF FlagsType, ClearRunning
  <1>3. HostType'
    BY SMT, WrittenChoice DEF HostType, ManagerType, ThreadsType
  <1>4. ThreadsType'
    BY SMTT(60) DEF ThreadsType, ManagerType, FlagsType, StarterPCs, MonitorPCs, SetupPCs, Goto
  <1> QED BY <1>1, <1>2, <1>3, <1>4 DEF TypeOK

LEMMA TypeStartRecover ==
  ASSUME TypeOK, StartRecover
  PROVE  TypeOK'
  <1> USE ConstantsAssumption DEF TypeOK, StartRecover, Recovered
  <1>1. ManagerType'
    BY SMTT(60) DEF ManagerType, ThreadsType
  <1>2. FlagsType'
    BY Zenon DEF FlagsType, ClearRunning
  <1>3. HostType'
    BY SMT, WrittenChoice DEF HostType, ManagerType, ThreadsType
  <1>4. ThreadsType'
    BY SMTT(60) DEF ThreadsType, ManagerType, FlagsType, StarterPCs, MonitorPCs, SetupPCs, Goto
  <1> QED BY <1>1, <1>2, <1>3, <1>4 DEF TypeOK

LEMMA TypeSpawnOK ==
  ASSUME TypeOK, SpawnOK
  PROVE  TypeOK'
  <1> USE ConstantsAssumption DEF TypeOK, SpawnOK, Goto
  <1>1. ManagerType'
    <2>1. p' \in 0..MaxGeneration /\ generation' \in 0..MaxGeneration
      BY DEF ManagerType, ThreadsType
    <2>2. setting' \in [Generations -> Settings \cup {NoSetting}]
      BY DEF ManagerType, ThreadsType
    <2>3. core' \in [Generations -> {"absent", "alive", "exited", "closed"}]
      BY DEF ManagerType, ThreadsType
    <2> QED BY <2>1, <2>2, <2>3 DEF ManagerType
  <1>2. FlagsType'
    BY Zenon DEF FlagsType
  <1>3. HostType'
    BY SMTT(60) DEF HostType, ManagerType, ThreadsType
  <1>4. ThreadsType'
    BY SMTT(60) DEF ThreadsType, ManagerType, FlagsType, StarterPCs, MonitorPCs, SetupPCs, Goto
  <1> QED BY <1>1, <1>2, <1>3, <1>4 DEF TypeOK

LEMMA TypeSpawnFail ==
  ASSUME TypeOK, SpawnFail
  PROVE  TypeOK'
  <1> USE ConstantsAssumption DEF TypeOK, SpawnFail, StopTransparent
  <1>1. ManagerType'
    BY SMTT(60) DEF ManagerType, ThreadsType
  <1>2. FlagsType'
    BY Zenon DEF FlagsType
  <1>3. HostType'
    BY SMTT(60) DEF HostType, ManagerType, ThreadsType
  <1>4. ThreadsType'
    BY SMTT(60) DEF ThreadsType, ManagerType, FlagsType, StarterPCs, MonitorPCs, SetupPCs, Goto
  <1> QED BY <1>1, <1>2, <1>3, <1>4 DEF TypeOK

LEMMA TypeMutateHost ==
  ASSUME TypeOK, NEW t \in Threads, NEW from \in {"delete", "write", "pause"},
         NEW to \in HoldingPCs, from = "pause" <=> to = "pausing",
         mutateHost(t, from, to)
  PROVE  TypeOK'
  <1> USE ConstantsAssumption DEF TypeOK, mutateHost, HoldingPCs
  <1>1. ManagerType'
    BY SMTT(60) DEF ManagerType, ThreadsType
  <1>2. FlagsType'
    BY Zenon DEF FlagsType
  <1>3. HostType'
    BY SMTT(60) DEF HostType, ManagerType, ThreadsType
  <1>4. ThreadsType'
    BY SMTT(60) DEF ThreadsType, ManagerType, FlagsType, StarterPCs, MonitorPCs, SetupPCs, Goto
  <1> QED BY <1>1, <1>2, <1>3, <1>4 DEF TypeOK

LEMMA TypeSetupLost ==
  ASSUME TypeOK, NEW t \in Threads, SetupLost(t)
  PROVE  TypeOK'
  <1> USE ConstantsAssumption DEF TypeOK, SetupLost, SetupError
  <1>1. ManagerType'
    BY SMTT(60) DEF ManagerType, ThreadsType
  <1>2. FlagsType'
    BY Zenon DEF FlagsType
  <1>3. HostType'
    BY SMTT(60) DEF HostType, ManagerType, ThreadsType
  <1>4. ThreadsType'
    BY SMTT(60) DEF ThreadsType, ManagerType, FlagsType, StarterPCs, MonitorPCs, SetupPCs, Goto
  <1> QED BY <1>1, <1>2, <1>3, <1>4 DEF TypeOK

LEMMA TypeSetupDelete ==
  ASSUME TypeOK, NEW t \in Threads, SetupDelete(t)
  PROVE  TypeOK'
  <1> USE ConstantsAssumption DEF TypeOK, SetupDelete
  <1>1. ManagerType'
    BY SMTT(60) DEF ManagerType, ThreadsType
  <1>2. FlagsType'
    BY Zenon DEF FlagsType
  <1>3. HostType'
    BY SMTT(60) DEF HostType, ManagerType, ThreadsType
  <1>4. ThreadsType'
    BY SMTT(60) DEF ThreadsType, ManagerType, FlagsType, StarterPCs, MonitorPCs, SetupPCs, Goto
  <1> QED BY <1>1, <1>2, <1>3, <1>4 DEF TypeOK

LEMMA TypeSetupHook ==
  ASSUME TypeOK, NEW t \in Threads, NEW from \in {"prehook", "posthook"},
         NEW to \in {"write", "installed"}, SetupHook(t, from, to)
  PROVE  TypeOK'
  <1> USE ConstantsAssumption DEF TypeOK, SetupHook, SetupError
  <1>1. ManagerType'
    BY SMTT(60) DEF ManagerType, ThreadsType
  <1>2. FlagsType'
    BY Zenon DEF FlagsType
  <1>3. HostType'
    BY SMTT(60) DEF HostType, ManagerType, ThreadsType
  <1>4. ThreadsType'
    BY SMTT(60) DEF ThreadsType, ManagerType, FlagsType, StarterPCs, MonitorPCs, SetupPCs, Goto
  <1> QED BY <1>1, <1>2, <1>3, <1>4 DEF TypeOK

LEMMA TypeSetupWrite ==
  ASSUME TypeOK, NEW t \in Threads, SetupWrite(t), GenOf(t) \in Generations
  PROVE  TypeOK'
  <1> USE ConstantsAssumption DEF TypeOK, SetupWrite, SetupError
  <1>1. ManagerType'
    BY SMTT(60) DEF ManagerType, ThreadsType
  <1>2. FlagsType'
    BY Zenon DEF FlagsType
  <1>3. HostType'
    BY SMTT(60) DEF HostType, ManagerType, ThreadsType
  <1>4. ThreadsType'
    BY SMTT(60) DEF ThreadsType, ManagerType, FlagsType, StarterPCs, MonitorPCs, SetupPCs, Goto
  <1> QED BY <1>1, <1>2, <1>3, <1>4 DEF TypeOK

LEMMA TypeStartMonitor ==
  ASSUME TypeOK, StartMonitor
  PROVE  TypeOK'
  <1> USE ConstantsAssumption DEF TypeOK, StartMonitor
  <1>1. ManagerType'
    BY SMTT(60) DEF ManagerType, ThreadsType
  <1>2. FlagsType'
    BY Zenon DEF FlagsType
  <1>3. HostType'
    BY SMTT(60) DEF HostType, ManagerType, ThreadsType
  <1>4. ThreadsType'
    BY SMTT(60) DEF ThreadsType, ManagerType, FlagsType, StarterPCs, MonitorPCs, SetupPCs, Goto
  <1> QED BY <1>1, <1>2, <1>3, <1>4 DEF TypeOK

LEMMA TypeStartHook ==
  ASSUME TypeOK, StartHook
  PROVE  TypeOK'
  <1> USE ConstantsAssumption DEF TypeOK, StartHook
  <1>1. ManagerType'
    BY SMTT(60) DEF ManagerType, ThreadsType
  <1>2. FlagsType'
    BY Zenon DEF FlagsType
  <1>3. HostType'
    BY SMTT(60) DEF HostType, ManagerType, ThreadsType
  <1>4. ThreadsType'
    BY SMTT(60) DEF ThreadsType, ManagerType, FlagsType, StarterPCs, MonitorPCs, SetupPCs, Goto
  <1> QED BY <1>1, <1>2, <1>3, <1>4 DEF TypeOK

LEMMA TypeStartCommit ==
  ASSUME TypeOK, StartCommit
  PROVE  TypeOK'
  <1> USE ConstantsAssumption DEF TypeOK, StartCommit
  <1>1. ManagerType'
    BY SMTT(60) DEF ManagerType, ThreadsType
  <1>2. FlagsType'
    BY Zenon DEF FlagsType
  <1>3. HostType'
    BY SMTT(60) DEF HostType, ManagerType, ThreadsType
  <1>4. ThreadsType'
    BY SMTT(60) DEF ThreadsType, ManagerType, FlagsType, StarterPCs, MonitorPCs, SetupPCs, Goto
  <1> QED BY <1>1, <1>2, <1>3, <1>4 DEF TypeOK

LEMMA TypeStartFailed ==
  ASSUME TypeOK, StartFailed
  PROVE  TypeOK'
  <1> USE ConstantsAssumption DEF TypeOK, StartFailed, FailedOwner, FailedLost, StopTransparent, Recovered, Closed, Owns
  <1>1. ManagerType'
    BY SMTT(60) DEF ManagerType, ThreadsType
  <1>2. FlagsType'
    BY Zenon DEF FlagsType, ClearRunning
  <1>3. HostType'
    BY SMT, WrittenChoice DEF HostType, ManagerType, ThreadsType
  <1>4. ThreadsType'
    BY SMTT(60) DEF ThreadsType, ManagerType, FlagsType, StarterPCs, MonitorPCs, SetupPCs, Goto
  <1> QED BY <1>1, <1>2, <1>3, <1>4 DEF TypeOK

LEMMA TypeStartReturn ==
  ASSUME TypeOK, StartReturn
  PROVE  TypeOK'
  <1> USE ConstantsAssumption DEF TypeOK, StartReturn
  <1>1. ManagerType'
    BY SMTT(60) DEF ManagerType, ThreadsType
  <1>2. FlagsType'
    BY Zenon DEF FlagsType
  <1>3. HostType'
    BY SMTT(60) DEF HostType, ManagerType, ThreadsType
  <1>4. ThreadsType'
    BY SMTT(60) DEF ThreadsType, ManagerType, FlagsType, StarterPCs, MonitorPCs, SetupPCs, Goto
  <1> QED BY <1>1, <1>2, <1>3, <1>4 DEF TypeOK

LEMMA TypeStop ==
  ASSUME TypeOK, NEW saveRunning \in BOOLEAN, Stop(saveRunning)
  PROVE  TypeOK'
  <1> USE ConstantsAssumption DEF TypeOK, Stop, StopProcess, StopTransparent, Closed
  <1>1. ManagerType'
    BY SMTT(60) DEF ManagerType, ThreadsType
  <1>2. FlagsType'
    BY Zenon DEF FlagsType, ClearRunning
  <1>3. HostType'
    BY SMT, WrittenChoice DEF HostType, ManagerType, ThreadsType
  <1>4. ThreadsType'
    BY SMTT(60) DEF ThreadsType, ManagerType, FlagsType, StarterPCs, MonitorPCs, SetupPCs, Goto
  <1> QED BY <1>1, <1>2, <1>3, <1>4 DEF TypeOK

LEMMA TypeCheckAndStop ==
  ASSUME TypeOK, CheckAndStopTransparentProxy
  PROVE  TypeOK'
  <1> USE ConstantsAssumption DEF TypeOK, CheckAndStopTransparentProxy, StopTransparent
  <1>1. ManagerType'
    BY SMTT(60) DEF ManagerType, ThreadsType
  <1>2. FlagsType'
    BY Zenon DEF FlagsType
  <1>3. HostType'
    BY SMTT(60) DEF HostType, ManagerType, ThreadsType
  <1>4. ThreadsType'
    BY SMTT(60) DEF ThreadsType, ManagerType, FlagsType, StarterPCs, MonitorPCs, SetupPCs, Goto
  <1> QED BY <1>1, <1>2, <1>3, <1>4 DEF TypeOK

LEMMA TypeUnexpectedStop ==
  ASSUME TypeOK, NEW g \in Generations, handleUnexpectedStop(g)
  PROVE  TypeOK'
  <1> USE ConstantsAssumption DEF TypeOK, handleUnexpectedStop, StopProcess, StopTransparent
  <1>1. ManagerType'
    BY SMTT(60) DEF ManagerType, ThreadsType
  <1>2. FlagsType'
    BY Zenon DEF FlagsType, ClearRunning
  <1>3. HostType'
    BY SMT, WrittenChoice DEF HostType, ManagerType, ThreadsType
  <1>4. ThreadsType'
    BY SMTT(60) DEF ThreadsType, ManagerType, FlagsType, StarterPCs, MonitorPCs, SetupPCs, Goto
  <1> QED BY <1>1, <1>2, <1>3, <1>4 DEF TypeOK

LEMMA TypeSetLatencyTesting ==
  ASSUME TypeOK, NEW b \in BOOLEAN, SetLatencyTesting(b)
  PROVE  TypeOK'
  <1> USE ConstantsAssumption DEF TypeOK, SetLatencyTesting
  <1>1. ManagerType'
    BY SMTT(60) DEF ManagerType, ThreadsType
  <1>2. FlagsType'
    BY Zenon DEF FlagsType
  <1>3. HostType'
    BY SMTT(60) DEF HostType, ManagerType, ThreadsType
  <1>4. ThreadsType'
    BY SMTT(60) DEF ThreadsType, ManagerType, FlagsType, StarterPCs, MonitorPCs, SetupPCs, Goto
  <1> QED BY <1>1, <1>2, <1>3, <1>4 DEF TypeOK

LEMMA TypeMarkShuttingDown ==
  ASSUME TypeOK, MarkShuttingDown
  PROVE  TypeOK'
  <1> USE ConstantsAssumption DEF TypeOK, MarkShuttingDown
  <1>1. ManagerType'
    BY SMTT(60) DEF ManagerType, ThreadsType
  <1>2. FlagsType'
    BY Zenon DEF FlagsType
  <1>3. HostType'
    BY SMTT(60) DEF HostType, ManagerType, ThreadsType
  <1>4. ThreadsType'
    BY SMTT(60) DEF ThreadsType, ManagerType, FlagsType, StarterPCs, MonitorPCs, SetupPCs, Goto
  <1> QED BY <1>1, <1>2, <1>3, <1>4 DEF TypeOK

LEMMA TypeCoreExit ==
  ASSUME TypeOK, NEW g \in Generations, CoreExit(g)
  PROVE  TypeOK'
  <1> USE ConstantsAssumption DEF TypeOK, CoreExit
  <1>1. ManagerType'
    BY SMTT(60) DEF ManagerType, ThreadsType
  <1>2. FlagsType'
    BY Zenon DEF FlagsType
  <1>3. HostType'
    BY SMTT(60) DEF HostType, ManagerType, ThreadsType
  <1>4. ThreadsType'
    BY SMTT(60) DEF ThreadsType, ManagerType, FlagsType, StarterPCs, MonitorPCs, SetupPCs, Goto
  <1> QED BY <1>1, <1>2, <1>3, <1>4 DEF TypeOK

LEMMA TypeMonitorCheck ==
  ASSUME TypeOK, NEW g \in Generations, MonitorCheck(g)
  PROVE  TypeOK'
  <1> USE ConstantsAssumption DEF TypeOK, MonitorCheck
  <1>1. ManagerType'
    BY SMTT(60) DEF ManagerType, ThreadsType
  <1>2. FlagsType'
    BY Zenon DEF FlagsType
  <1>3. HostType'
    BY SMTT(60) DEF HostType, ManagerType, ThreadsType
  <1>4. ThreadsType'
    BY SMTT(60) DEF ThreadsType, ManagerType, FlagsType, StarterPCs, MonitorPCs, SetupPCs, Goto
  <1> QED BY <1>1, <1>2, <1>3, <1>4 DEF TypeOK

LEMMA TypeMonitorProbe ==
  ASSUME TypeOK, NEW g \in Generations, NEW healthy \in BOOLEAN, NEW dead \in BOOLEAN,
         MonitorProbe(g, healthy, dead)
  PROVE  TypeOK'
  <1> USE ConstantsAssumption DEF TypeOK, MonitorProbe
  <1>1. ManagerType'
    BY SMTT(60) DEF ManagerType, ThreadsType
  <1>2. FlagsType'
    BY Zenon DEF FlagsType
  <1>3. HostType'
    BY SMTT(60) DEF HostType, ManagerType, ThreadsType
  <1>4. ThreadsType'
    BY SMTT(60) DEF ThreadsType, ManagerType, FlagsType, StarterPCs, MonitorPCs, SetupPCs, Goto
  <1> QED BY <1>1, <1>2, <1>3, <1>4 DEF TypeOK

LEMMA TypeMonitorLost ==
  ASSUME TypeOK, NEW g \in Generations, MonitorLost(g)
  PROVE  TypeOK'
  <1> USE ConstantsAssumption DEF TypeOK, MonitorLost
  <1>1. ManagerType'
    BY SMTT(60) DEF ManagerType, ThreadsType
  <1>2. FlagsType'
    BY Zenon DEF FlagsType
  <1>3. HostType'
    BY SMTT(60) DEF HostType, ManagerType, ThreadsType
  <1>4. ThreadsType'
    BY SMTT(60) DEF ThreadsType, ManagerType, FlagsType, StarterPCs, MonitorPCs, SetupPCs, Goto
  <1> QED BY <1>1, <1>2, <1>3, <1>4 DEF TypeOK

LEMMA TypeMonitorDelete ==
  ASSUME TypeOK, NEW g \in Generations, MonitorDelete(g)
  PROVE  TypeOK'
  <1> USE ConstantsAssumption DEF TypeOK, MonitorDelete, KeepSystemProxy
  <1>1. ManagerType'
    BY SMTT(60) DEF ManagerType, ThreadsType
  <1>2. FlagsType'
    BY Zenon DEF FlagsType
  <1>3. HostType'
    BY SMTT(60) DEF HostType, ManagerType, ThreadsType
  <1>4. ThreadsType'
    BY SMTT(60) DEF ThreadsType, ManagerType, FlagsType, StarterPCs, MonitorPCs, SetupPCs, Goto
  <1> QED BY <1>1, <1>2, <1>3, <1>4 DEF TypeOK

LEMMA TypeMonitorPaused ==
  ASSUME TypeOK, NEW g \in Generations, MonitorPaused(g)
  PROVE  TypeOK'
  <1> USE ConstantsAssumption DEF TypeOK, MonitorPaused
  <1>1. ManagerType'
    BY SMTT(60) DEF ManagerType, ThreadsType
  <1>2. FlagsType'
    BY Zenon DEF FlagsType
  <1>3. HostType'
    BY SMTT(60) DEF HostType, ManagerType, ThreadsType
  <1>4. ThreadsType'
    BY SMTT(60) DEF ThreadsType, ManagerType, FlagsType, StarterPCs, MonitorPCs, SetupPCs, Goto
  <1> QED BY <1>1, <1>2, <1>3, <1>4 DEF TypeOK

LEMMA TypeMonitorResumed ==
  ASSUME TypeOK, NEW g \in Generations, MonitorResumed(g)
  PROVE  TypeOK'
  <1> USE ConstantsAssumption DEF TypeOK, MonitorResumed
  <1>1. ManagerType'
    BY SMTT(60) DEF ManagerType, ThreadsType
  <1>2. FlagsType'
    BY Zenon DEF FlagsType
  <1>3. HostType'
    BY SMTT(60) DEF HostType, ManagerType, ThreadsType
  <1>4. ThreadsType'
    BY SMTT(60) DEF ThreadsType, ManagerType, FlagsType, StarterPCs, MonitorPCs, SetupPCs, Goto
  <1> QED BY <1>1, <1>2, <1>3, <1>4 DEF TypeOK

LEMMA InvStartLock ==
  ASSUME IInv, NEW s \in Settings, NEW preserve \in BOOLEAN, StartLock(s, preserve)
  PROVE  IInv'
  <1> USE ConstantsAssumption DEF IInv, StartLock
  <1>1. TypeOK'
    BY TypeStartLock
  <1>2. LockInv'
    BY DEF TypeOK, ThreadsType, LockInv, Goto
  <1>3. GenInv'
    BY SMTT(60) DEF TypeOK, ManagerType, ThreadsType, LockInv, GenInv, Goto, Owns
  <1>4. MonitorInv'
    BY SMTT(60) DEF TypeOK, ManagerType, ThreadsType, LockInv, GenInv, MonitorInv, SetupPCs, Goto, Owns
  <1>5. HostMutationByOwner'
    BY SMTT(60) DEF TypeOK, ManagerType, ThreadsType, LockInv, GenInv, MonitorInv, HostMutationByOwner,
               HoldingPCs, SetupPCs, Goto, Owns, GenOf, BothLocksFree
  <1> QED BY <1>1, <1>2, <1>3, <1>4, <1>5 DEF IInv

LEMMA InvStartStopOld ==
  ASSUME IInv, StartStopOld
  PROVE  IInv'
  <1> USE ConstantsAssumption DEF IInv, StartStopOld, StopProcess, StopTransparent, Closed
  <1>1. TypeOK'
    BY TypeStartStopOld
  <1>2. LockInv'
    BY DEF TypeOK, ThreadsType, LockInv, Goto
  <1>3. GenInv'
    BY SMTT(60) DEF TypeOK, ManagerType, ThreadsType, LockInv, GenInv, Goto, Owns
  <1>4. MonitorInv'
    BY SMTT(60) DEF TypeOK, ManagerType, ThreadsType, LockInv, GenInv, MonitorInv, SetupPCs, Goto, Owns
  <1>5. HostMutationByOwner'
    BY SMTT(60) DEF TypeOK, ManagerType, ThreadsType, LockInv, GenInv, MonitorInv, HostMutationByOwner,
               HoldingPCs, SetupPCs, Goto, Owns, GenOf, BothLocksFree
  <1> QED BY <1>1, <1>2, <1>3, <1>4, <1>5 DEF IInv

LEMMA InvStartRecover ==
  ASSUME IInv, StartRecover
  PROVE  IInv'
  <1> USE ConstantsAssumption DEF IInv, StartRecover
  <1>1. TypeOK'
    BY TypeStartRecover
  <1>2. LockInv'
    BY DEF TypeOK, ThreadsType, LockInv, Goto
  <1>3. GenInv'
    BY SMTT(60) DEF TypeOK, ManagerType, ThreadsType, LockInv, GenInv, Goto, Owns
  <1>4. MonitorInv'
    BY SMTT(60) DEF TypeOK, ManagerType, ThreadsType, LockInv, GenInv, MonitorInv, SetupPCs, Goto, Owns
  <1>5. HostMutationByOwner'
    BY SMTT(60) DEF TypeOK, ManagerType, ThreadsType, LockInv, GenInv, MonitorInv, HostMutationByOwner,
               HoldingPCs, SetupPCs, Goto, Owns, GenOf, BothLocksFree
  <1> QED BY <1>1, <1>2, <1>3, <1>4, <1>5 DEF IInv

LEMMA InvSpawnOK ==
  ASSUME IInv, SpawnOK
  PROVE  IInv'
  <1> USE ConstantsAssumption DEF IInv, SpawnOK, Goto
  <1>1. TypeOK'
    BY TypeSpawnOK
  <1>2. LockInv'
    BY DEF TypeOK, ThreadsType, LockInv, Goto
  <1>3. GenInv'
    BY SMTT(60) DEF TypeOK, ManagerType, ThreadsType, LockInv, GenInv, Goto, Owns
  <1>4. MonitorInv'
    BY SMTT(60) DEF TypeOK, ManagerType, ThreadsType, LockInv, GenInv, MonitorInv, SetupPCs, Goto, Owns
  <1>5. HostMutationByOwner'
    BY SMTT(60) DEF TypeOK, ManagerType, ThreadsType, LockInv, GenInv, MonitorInv, HostMutationByOwner,
               HoldingPCs, SetupPCs, Goto, Owns, GenOf, BothLocksFree
  <1> QED BY <1>1, <1>2, <1>3, <1>4, <1>5 DEF IInv

LEMMA InvSpawnFail ==
  ASSUME IInv, SpawnFail
  PROVE  IInv'
  <1> USE ConstantsAssumption DEF IInv, SpawnFail, StopTransparent
  <1>1. TypeOK'
    BY TypeSpawnFail
  <1>2. LockInv'
    BY DEF TypeOK, ThreadsType, LockInv, Goto
  <1>3. GenInv'
    BY SMTT(60) DEF TypeOK, ManagerType, ThreadsType, LockInv, GenInv, Goto, Owns
  <1>4. MonitorInv'
    BY SMTT(60) DEF TypeOK, ManagerType, ThreadsType, LockInv, GenInv, MonitorInv, SetupPCs, Goto, Owns
  <1>5. HostMutationByOwner'
    BY SMTT(60) DEF TypeOK, ManagerType, ThreadsType, LockInv, GenInv, MonitorInv, HostMutationByOwner,
               HoldingPCs, SetupPCs, Goto, Owns, GenOf, BothLocksFree
  <1> QED BY <1>1, <1>2, <1>3, <1>4, <1>5 DEF IInv

LEMMA InvMutateHost ==
  ASSUME IInv, NEW t \in Threads, NEW from \in {"delete", "write", "pause"},
         NEW to \in HoldingPCs, from = "pause" <=> to = "pausing",
         mutateHost(t, from, to)
  PROVE  IInv'
  <1> USE ConstantsAssumption DEF IInv, mutateHost, HoldingPCs
  <1>1. TypeOK'
    BY TypeMutateHost
  <1>2. LockInv'
    BY DEF TypeOK, ThreadsType, LockInv, Goto
  <1>3. GenInv'
    BY SMTT(60) DEF TypeOK, ManagerType, ThreadsType, LockInv, GenInv, Goto, Owns
  <1>4. MonitorInv'
    BY SMTT(60) DEF TypeOK, ManagerType, ThreadsType, LockInv, GenInv, MonitorInv, SetupPCs, Goto, Owns
  <1>5. HostMutationByOwner'
    BY SMTT(60) DEF TypeOK, ManagerType, ThreadsType, LockInv, GenInv, MonitorInv, HostMutationByOwner,
               HoldingPCs, SetupPCs, Goto, Owns, GenOf, BothLocksFree
  <1> QED BY <1>1, <1>2, <1>3, <1>4, <1>5 DEF IInv

LEMMA InvSetupLost ==
  ASSUME IInv, NEW t \in Threads, SetupLost(t)
  PROVE  IInv'
  <1> USE ConstantsAssumption DEF IInv, SetupLost, SetupError
  <1>1. TypeOK'
    BY TypeSetupLost
  <1>2. LockInv'
    BY DEF TypeOK, ThreadsType, LockInv, Goto
  <1>3. GenInv'
    BY SMTT(60) DEF TypeOK, ManagerType, ThreadsType, LockInv, GenInv, Goto, Owns
  <1>4. MonitorInv'
    BY SMTT(60) DEF TypeOK, ManagerType, ThreadsType, LockInv, GenInv, MonitorInv, SetupPCs, Goto, Owns
  <1>5. HostMutationByOwner'
    BY SMTT(60) DEF TypeOK, ManagerType, ThreadsType, LockInv, GenInv, MonitorInv, HostMutationByOwner,
               HoldingPCs, SetupPCs, Goto, Owns, GenOf, BothLocksFree
  <1> QED BY <1>1, <1>2, <1>3, <1>4, <1>5 DEF IInv

LEMMA InvSetupDelete ==
  ASSUME IInv, NEW t \in Threads, SetupDelete(t)
  PROVE  IInv'
  <1> USE ConstantsAssumption DEF IInv, SetupDelete
  <1>1. TypeOK'
    BY TypeSetupDelete
  <1>2. LockInv'
    BY DEF TypeOK, ThreadsType, LockInv, Goto
  <1>3. GenInv'
    BY SMTT(60) DEF TypeOK, ManagerType, ThreadsType, LockInv, GenInv, Goto, Owns
  <1>4. MonitorInv'
    BY SMTT(60) DEF TypeOK, ManagerType, ThreadsType, LockInv, GenInv, MonitorInv, SetupPCs, Goto, Owns
  <1>5. HostMutationByOwner'
    BY SMTT(120) DEF TypeOK, ManagerType, ThreadsType, LockInv, GenInv, MonitorInv, HostMutationByOwner,
               HoldingPCs, SetupPCs, Goto, Owns, GenOf, BothLocksFree
  <1> QED BY <1>1, <1>2, <1>3, <1>4, <1>5 DEF IInv

LEMMA InvSetupHook ==
  ASSUME IInv, NEW t \in Threads, NEW from \in {"prehook", "posthook"},
         NEW to \in {"write", "installed"}, SetupHook(t, from, to)
  PROVE  IInv'
  <1> USE ConstantsAssumption DEF IInv, SetupHook, SetupError
  <1>1. TypeOK'
    BY TypeSetupHook
  <1>2. LockInv'
    BY DEF TypeOK, ThreadsType, LockInv, Goto, SetupPCs
  <1>3. GenInv'
    BY SMTT(60) DEF TypeOK, ManagerType, ThreadsType, LockInv, GenInv, Goto, Owns, SetupPCs
  <1>4. MonitorInv'
    BY SMTT(60) DEF TypeOK, ManagerType, ThreadsType, LockInv, GenInv, MonitorInv, SetupPCs, Goto, Owns
  <1>5. HostMutationByOwner'
    BY SMTT(120) DEF TypeOK, ManagerType, ThreadsType, LockInv, GenInv, MonitorInv, HostMutationByOwner,
               HoldingPCs, SetupPCs, Goto, Owns, GenOf, BothLocksFree
  <1> QED BY <1>1, <1>2, <1>3, <1>4, <1>5 DEF IInv

LEMMA InvSetupWrite ==
  ASSUME IInv, NEW t \in Threads, SetupWrite(t)
  PROVE  IInv'
  <1> USE ConstantsAssumption DEF IInv, SetupWrite, SetupError
  <1>0. GenOf(t) \in Generations
    BY SMTT(60) DEF HostMutationByOwner, HoldingPCs, TypeOK, ManagerType, Owns
  <1>1. TypeOK'
    BY TypeSetupWrite, <1>0
  <1>2. LockInv'
    BY SMTT(30) DEF TypeOK, ThreadsType, LockInv, Goto, Owns, GenOf
  <1>3. GenInv'
    BY SMTT(60) DEF TypeOK, ManagerType, ThreadsType, LockInv, GenInv, Goto, Owns
  <1>4. MonitorInv'
    BY SMTT(120) DEF TypeOK, ManagerType, ThreadsType, LockInv, GenInv, MonitorInv, SetupPCs, Goto, Owns
  <1>5. HostMutationByOwner'
    BY SMTT(60) DEF TypeOK, ManagerType, ThreadsType, LockInv, GenInv, MonitorInv, HostMutationByOwner,
               HoldingPCs, SetupPCs, Goto, Owns, GenOf, BothLocksFree
  <1> QED BY <1>1, <1>2, <1>3, <1>4, <1>5 DEF IInv

LEMMA Moved ==
  ASSUME TypeOK, NEW t \in Threads, NEW l, Goto(t, l)
  PROVE  pc'[t] = l /\ \A u \in Threads : u # t => pc'[u] = pc[u]
  BY DEF TypeOK, ThreadsType, Goto

\* start() between the end of its setup and its return moves outside the host.
LEMMA InvStarterMoves ==
  ASSUME IInv, TypeOK', NEW l \in {"hook", "commit", "failed", "returning", "idle"},
         Goto(Starter, l), pc[Starter] \in {"installed", "hook", "commit", "returning"}, UNCHANGED <<p, generation, mu, hostMu, callGen>>
  PROVE  IInv'
  <1>1. Starter \in Threads /\ \A g \in Generations : g \in Threads /\ g # Starter
    BY ConstantsAssumption
  <1>2. pc'[Starter] = l /\ \A g \in Generations : pc'[g] = pc[g]
    BY <1>1, Moved DEF IInv
  <1>3. LockInv'
    BY <1>2 DEF IInv, LockInv
  <1>4. GenInv'
    BY <1>2 DEF IInv, GenInv
  <1>5. MonitorInv'
    BY <1>2 DEF IInv, MonitorInv, SetupPCs
  <1>6. \A t \in Threads : pc'[t] \in HoldingPCs <=> pc[t] \in HoldingPCs
    <2>1. l \notin HoldingPCs /\ pc[Starter] \notin HoldingPCs
      BY DEF HoldingPCs
    <2>2. \A t \in Threads : t = Starter \/ pc'[t] = pc[t]
      BY <1>1, Moved DEF IInv
    <2> QED BY <1>2, <2>1, <2>2
  <1>7. HostMutationByOwner'
    BY <1>6 DEF IInv, HostMutationByOwner, Owns, GenOf
  <1> QED BY <1>3, <1>4, <1>5, <1>7 DEF IInv

LEMMA InvStartMonitor ==
  ASSUME IInv, StartMonitor
  PROVE  IInv'
  <1>1. TypeOK'
    BY TypeStartMonitor DEF IInv
  <1>2. pc[Starter] = "installed" /\ UNCHANGED <<p, generation, mu, hostMu, callGen>>
    BY DEF StartMonitor
  <1>3. CASE \E l \in {"hook", "failed"} : Goto(Starter, l)
    BY <1>1, <1>2, <1>3, InvStarterMoves
  <1>4. CASE pc' = [pc EXCEPT ![Starter] = "hook", ![callGen] = "wait"]
    <2>1. callGen = generation /\ callGen \in Threads /\ callGen # Starter /\ Starter \in Threads
      BY <1>2, ConstantsAssumption DEF IInv, GenInv, TypeOK, ThreadsType
    <2>2. /\ pc'[Starter] = "hook" /\ pc'[callGen] = "wait"
          /\ \A t \in Threads : t \notin {Starter, callGen} => pc'[t] = pc[t]
      BY <1>4, <2>1 DEF IInv, TypeOK, ThreadsType
    <2>3. LockInv' /\ GenInv'
      BY <1>2, <2>2 DEF IInv, LockInv, GenInv
    <2>4. MonitorInv'
      <3> SUFFICES ASSUME NEW g \in Generations, pc'[g] # "off" PROVE g <= generation
        BY <1>2, <2>2 DEF MonitorInv, SetupPCs
      <3>1. g \in Threads /\ g # Starter /\ g \in Int /\ generation \in Int
        BY ConstantsAssumption DEF IInv, TypeOK, ManagerType
      <3>2. g = callGen \/ pc'[g] = pc[g]
        BY <2>2, <3>1
      <3> QED BY <2>1, <3>1, <3>2 DEF IInv, MonitorInv
    <2>5. pc[callGen] \notin HoldingPCs
      <3>1. callGen \in Generations
        BY <2>1, ConstantsAssumption
      <3>2. pc[callGen] = "off"
        BY <1>2, <2>1, <3>1 DEF IInv, MonitorInv, SetupPCs
      <3> QED BY <3>2 DEF HoldingPCs
    <2>6. \A t \in Threads : pc'[t] \in HoldingPCs <=> pc[t] \in HoldingPCs
      BY <1>2, <2>2, <2>5 DEF HoldingPCs
    <2>7. HostMutationByOwner'
      BY <1>2, <2>6 DEF IInv, HostMutationByOwner, Owns, GenOf
    <2> QED BY <1>1, <2>3, <2>4, <2>7 DEF IInv
  <1> QED BY <1>3, <1>4 DEF StartMonitor, Goto

LEMMA InvStartHook ==
  ASSUME IInv, StartHook
  PROVE  IInv'
  <1>1. TypeOK'
    BY TypeStartHook DEF IInv
  <1>2. PICK l \in {"commit", "failed"} : pc[Starter] = "hook" /\ Goto(Starter, l)
    BY DEF StartHook
  <1>3. UNCHANGED <<p, generation, mu, hostMu, callGen>>
    BY DEF StartHook
  <1> QED BY <1>1, <1>2, <1>3, InvStarterMoves

LEMMA InvStartCommit ==
  ASSUME IInv, StartCommit
  PROVE  IInv'
  <1>1. TypeOK'
    BY TypeStartCommit DEF IInv
  <1>2. PICK l \in {"returning", "failed"} : pc[Starter] = "commit" /\ Goto(Starter, l)
    BY DEF StartCommit
  <1>3. UNCHANGED <<p, generation, mu, hostMu, callGen>>
    BY DEF StartCommit
  <1> QED BY <1>1, <1>2, <1>3, InvStarterMoves

LEMMA InvStartFailed ==
  ASSUME IInv, StartFailed
  PROVE  IInv'
  <1>1. TypeOK'
    BY TypeStartFailed DEF IInv
  <1>2. /\ pc[Starter] = "failed" /\ BothLocksFree /\ p' \in {0, p}
        /\ pc' = [pc EXCEPT ![Starter] = "returning"]
        /\ UNCHANGED <<generation, mu, hostMu, callGen>>
    <2>1. CASE FailedOwner
      BY <2>1 DEF StartFailed, FailedOwner, Goto
    <2>2. CASE FailedLost
      BY <2>2 DEF StartFailed, FailedLost, Goto
    <2> QED BY <2>1, <2>2 DEF StartFailed
  <1>3. LockInv'
    BY <1>2 DEF IInv, TypeOK, ThreadsType, LockInv
  <1>4. GenInv'
    BY <1>2, SMTT(60) DEF IInv, TypeOK, ManagerType, ThreadsType, GenInv
  <1>5. MonitorInv'
    BY <1>2, ConstantsAssumption, SMTT(60) DEF IInv, TypeOK, ManagerType, ThreadsType, MonitorInv, SetupPCs
  <1>6. HostMutationByOwner'
    BY <1>2, ConstantsAssumption, SMTT(60)
       DEF IInv, TypeOK, ManagerType, ThreadsType, GenInv, HostMutationByOwner, HoldingPCs, SetupPCs,
           Owns, GenOf, BothLocksFree
  <1> QED BY <1>1, <1>3, <1>4, <1>5, <1>6 DEF IInv

LEMMA InvStartReturn ==
  ASSUME IInv, StartReturn
  PROVE  IInv'
  <1>1. TypeOK'
    BY TypeStartReturn DEF IInv
  <1>2. pc[Starter] = "returning" /\ Goto(Starter, "idle") /\ UNCHANGED <<p, generation, mu, hostMu, callGen>>
    BY DEF StartReturn
  <1> QED BY <1>1, <1>2, InvStarterMoves

\* A step that leaves every thread where it is may clear m.p while both locks
\* are free.
LEMMA InvThreadsStay ==
  ASSUME IInv, TypeOK', UNCHANGED <<generation, mu, hostMu, pc, callGen>>,
         p' = p \/ (BothLocksFree /\ p' = 0)
  PROVE  IInv'
  <1> USE ConstantsAssumption
  <1>1. LockInv' /\ MonitorInv'
    BY DEF IInv, LockInv, MonitorInv
  <1>2. GenInv'
    BY SMTT(60) DEF IInv, LockInv, GenInv, BothLocksFree
  <1>3. HostMutationByOwner'
    BY SMTT(60) DEF IInv, HostMutationByOwner, BothLocksFree, Owns, GenOf
  <1> QED BY <1>1, <1>2, <1>3 DEF IInv

LEMMA InvStop ==
  ASSUME IInv, NEW saveRunning \in BOOLEAN, Stop(saveRunning)
  PROVE  IInv'
  <1>1. TypeOK'
    BY TypeStop DEF IInv
  <1>2. UNCHANGED <<generation, mu, hostMu, pc, callGen>> /\ (p' = p \/ (BothLocksFree /\ p' = 0))
    BY DEF Stop, StopProcess
  <1> QED BY <1>1, <1>2, InvThreadsStay

LEMMA InvCheckAndStop ==
  ASSUME IInv, CheckAndStopTransparentProxy
  PROVE  IInv'
  <1>1. TypeOK'
    BY TypeCheckAndStop DEF IInv
  <1>2. UNCHANGED <<generation, mu, hostMu, pc, callGen>> /\ (p' = p \/ (BothLocksFree /\ p' = 0))
    BY DEF CheckAndStopTransparentProxy
  <1> QED BY <1>1, <1>2, InvThreadsStay

LEMMA InvUnexpectedStop ==
  ASSUME IInv, NEW g \in Generations, handleUnexpectedStop(g)
  PROVE  IInv'
  <1>1. TypeOK'
    BY TypeUnexpectedStop DEF IInv
  <1>2. UNCHANGED <<generation, mu, hostMu, pc, callGen>> /\ (p' = p \/ (BothLocksFree /\ p' = 0))
    BY DEF handleUnexpectedStop, StopProcess
  <1> QED BY <1>1, <1>2, InvThreadsStay

LEMMA InvSetLatencyTesting ==
  ASSUME IInv, NEW b \in BOOLEAN, SetLatencyTesting(b)
  PROVE  IInv'
  <1>1. TypeOK'
    BY TypeSetLatencyTesting DEF IInv
  <1>2. UNCHANGED <<p, generation, mu, hostMu, pc, callGen>>
    BY DEF SetLatencyTesting
  <1> QED BY <1>1, <1>2, InvThreadsStay

LEMMA InvMarkShuttingDown ==
  ASSUME IInv, MarkShuttingDown
  PROVE  IInv'
  <1>1. TypeOK'
    BY TypeMarkShuttingDown DEF IInv
  <1>2. UNCHANGED <<p, generation, mu, hostMu, pc, callGen>>
    BY DEF MarkShuttingDown
  <1> QED BY <1>1, <1>2, InvThreadsStay

LEMMA InvCoreExit ==
  ASSUME IInv, NEW g \in Generations, CoreExit(g)
  PROVE  IInv'
  <1>1. TypeOK'
    BY TypeCoreExit DEF IInv
  <1>2. UNCHANGED <<p, generation, mu, hostMu, pc, callGen>>
    BY DEF CoreExit
  <1> QED BY <1>1, <1>2, InvThreadsStay

\* A monitor that moves between two steps outside the host changes nothing the
\* invariant is about.
LEMMA InvMonitorMoves ==
  ASSUME IInv, TypeOK', NEW g \in Generations, NEW l, Goto(g, l), l \notin HoldingPCs,
         pc[g] \notin HoldingPCs \cup {"off"}, UNCHANGED <<p, generation, mu, hostMu, callGen>>
  PROVE  IInv'
  <1>0. g \in Threads /\ Starter \in Threads /\ Starter # g /\ Generations \subseteq Threads
    BY ConstantsAssumption
  <1>1. pc'[g] = l /\ pc'[Starter] = pc[Starter] /\ \A u \in Threads : u # g => pc'[u] = pc[u]
    BY <1>0, Moved DEF IInv
  <1>2. LockInv' /\ GenInv'
    BY <1>1 DEF IInv, LockInv, GenInv
  <1>3. MonitorInv'
    BY <1>0, <1>1 DEF IInv, MonitorInv
  <1>4. \A t \in Threads : pc'[t] \in HoldingPCs <=> pc[t] \in HoldingPCs
    BY <1>1
  <1>5. HostMutationByOwner'
    BY <1>4 DEF IInv, HostMutationByOwner, Owns, GenOf
  <1> QED BY <1>2, <1>3, <1>5 DEF IInv

LEMMA InvMonitorCheck ==
  ASSUME IInv, NEW g \in Generations, MonitorCheck(g)
  PROVE  IInv'
  <1>1. TypeOK'
    BY TypeMonitorCheck DEF IInv
  <1>2. PICK l \in {"probe", "off"} : Goto(g, l)
    BY DEF MonitorCheck
  <1>3. pc[g] = "wait" /\ UNCHANGED <<p, generation, mu, hostMu, callGen>>
    BY DEF MonitorCheck
  <1> QED BY <1>1, <1>2, <1>3, InvMonitorMoves DEF HoldingPCs

LEMMA InvMonitorProbe ==
  ASSUME IInv, NEW g \in Generations, NEW healthy \in BOOLEAN, NEW dead \in BOOLEAN,
         MonitorProbe(g, healthy, dead)
  PROVE  IInv'
  <1>1. TypeOK'
    BY TypeMonitorProbe DEF IInv
  <1>2. PICK l \in {"off", "wait", "delete", "pause"} : Goto(g, l)
    BY DEF MonitorProbe
  <1>3. pc[g] = "probe" /\ UNCHANGED <<p, generation, mu, hostMu, callGen>>
    BY DEF MonitorProbe
  <1> QED BY <1>1, <1>2, <1>3, InvMonitorMoves DEF HoldingPCs

LEMMA InvMonitorLost ==
  ASSUME IInv, NEW g \in Generations, MonitorLost(g)
  PROVE  IInv'
  <1>1. TypeOK'
    BY TypeMonitorLost DEF IInv
  <1>2. PICK l \in {"off"} : Goto(g, l)
    BY DEF MonitorLost
  <1>3. pc[g] = "pause" /\ UNCHANGED <<p, generation, mu, hostMu, callGen>>
    BY DEF MonitorLost
  <1> QED BY <1>1, <1>2, <1>3, InvMonitorMoves DEF HoldingPCs

LEMMA InvMonitorDelete ==
  ASSUME IInv, NEW g \in Generations, MonitorDelete(g)
  PROVE  IInv'
  <1> USE ConstantsAssumption
  <1>1. TypeOK'
    BY TypeMonitorDelete DEF IInv
  <1>2. /\ pc[g] = "pausing" /\ Goto(g, "pauseset") /\ hostMu' = NoThread
        /\ UNCHANGED <<p, generation, mu, callGen>>
    BY DEF MonitorDelete
  <1>3. LockInv' /\ GenInv'
    BY <1>2, SMTT(60) DEF IInv, TypeOK, ThreadsType, LockInv, GenInv, Goto
  <1>4. MonitorInv'
    BY <1>2, SMTT(60) DEF IInv, TypeOK, ThreadsType, MonitorInv, Goto
  <1>5. HostMutationByOwner'
    BY <1>2, SMTT(60) DEF IInv, TypeOK, ThreadsType, HostMutationByOwner, HoldingPCs, Goto
  <1> QED BY <1>1, <1>3, <1>4, <1>5 DEF IInv

LEMMA InvMonitorPaused ==
  ASSUME IInv, NEW g \in Generations, MonitorPaused(g)
  PROVE  IInv'
  <1>1. TypeOK'
    BY TypeMonitorPaused DEF IInv
  <1>2. PICK l \in {"off", "wait"} : Goto(g, l)
    BY DEF MonitorPaused
  <1>3. pc[g] = "pauseset" /\ UNCHANGED <<p, generation, mu, hostMu, callGen>>
    BY DEF MonitorPaused
  <1> QED BY <1>1, <1>2, <1>3, InvMonitorMoves DEF HoldingPCs

LEMMA InvMonitorResumed ==
  ASSUME IInv, NEW g \in Generations, MonitorResumed(g)
  PROVE  IInv'
  <1>1. TypeOK'
    BY TypeMonitorResumed DEF IInv
  <1>2. PICK l \in {"off", "wait"} : Goto(g, l)
    BY DEF MonitorResumed
  <1>3. pc[g] = "installed" /\ UNCHANGED <<p, generation, mu, hostMu, callGen>>
    BY DEF MonitorResumed
  <1> QED BY <1>1, <1>2, <1>3, InvMonitorMoves DEF HoldingPCs

LEMMA InvSetup ==
  ASSUME IInv, NEW t \in Threads, setupTransparentProxy(t)
  PROVE  IInv'
  <1>1. CASE mutateHost(t, "delete", "deleting")
    BY <1>1, InvMutateHost DEF HoldingPCs
  <1>2. CASE SetupDelete(t)
    BY <1>2, InvSetupDelete
  <1>3. CASE SetupHook(t, "prehook", "write")
    BY <1>3, InvSetupHook
  <1>4. CASE mutateHost(t, "write", "writing")
    BY <1>4, InvMutateHost DEF HoldingPCs
  <1>5. CASE SetupWrite(t)
    BY <1>5, InvSetupWrite
  <1>6. CASE SetupHook(t, "posthook", "installed")
    BY <1>6, InvSetupHook
  <1>7. CASE SetupLost(t)
    BY <1>7, InvSetupLost
  <1> QED BY <1>1, <1>2, <1>3, <1>4, <1>5, <1>6, <1>7 DEF setupTransparentProxy

LEMMA InvMonitor ==
  ASSUME IInv, NEW g \in Generations, Monitor(g)
  PROVE  IInv'
  <1>1. CASE MonitorCheck(g)
    BY <1>1, InvMonitorCheck
  <1>2. CASE \E healthy, dead \in BOOLEAN : MonitorProbe(g, healthy, dead)
    BY <1>2, InvMonitorProbe
  <1>3. CASE mutateHost(g, "pause", "pausing")
    BY <1>3, InvMutateHost, ConstantsAssumption DEF HoldingPCs
  <1>4. CASE MonitorLost(g)
    BY <1>4, InvMonitorLost
  <1>5. CASE MonitorDelete(g)
    BY <1>5, InvMonitorDelete
  <1>6. CASE MonitorPaused(g)
    BY <1>6, InvMonitorPaused
  <1>7. CASE setupTransparentProxy(g)
    BY <1>7, InvSetup, ConstantsAssumption
  <1>8. CASE MonitorResumed(g)
    BY <1>8, InvMonitorResumed
  <1> QED BY <1>1, <1>2, <1>3, <1>4, <1>5, <1>6, <1>7, <1>8 DEF Monitor

LEMMA InvStartStep ==
  ASSUME IInv, StartStep
  PROVE  IInv'
  <1>1. CASE StartStopOld \/ StartRecover \/ SpawnOK \/ SpawnFail
    BY <1>1, InvStartStopOld, InvStartRecover, InvSpawnOK, InvSpawnFail
  <1>2. CASE setupTransparentProxy(Starter)
    BY <1>2, InvSetup, ConstantsAssumption
  <1>3. CASE StartMonitor \/ StartHook \/ StartCommit
    BY <1>3, InvStartMonitor, InvStartHook, InvStartCommit
  <1>4. CASE StartFailed \/ StartReturn
    BY <1>4, InvStartFailed, InvStartReturn
  <1> QED BY <1>1, <1>2, <1>3, <1>4 DEF StartStep

\* What the manager may do, whoever the callers are, or leave undone.
ManagerStep ==
    \/ \E s \in Settings, preserve \in Preserve \cup {FALSE} : StartLock(s, preserve)
    \/ StartStep
    \/ \E g \in Generations : handleUnexpectedStop(g) \/ CoreExit(g) \/ Monitor(g)
    \/ Stop(TRUE) \/ Stop(FALSE)
    \/ MarkShuttingDown \/ CheckAndStopTransparentProxy
    \/ \E b \in BOOLEAN : SetLatencyTesting(b)
    \/ UNCHANGED vars

\* Every such step preserves the inductive invariant.
LEMMA InvStep == IInv /\ ManagerStep => IInv'
  <1> SUFFICES ASSUME IInv, ManagerStep PROVE IInv'
    OBVIOUS
  <1> USE ConstantsAssumption
  <1>1. CASE \E s \in Settings, preserve \in Preserve \cup {FALSE} : StartLock(s, preserve)
    BY <1>1, InvStartLock
  <1>2. CASE StartStep
    BY <1>2, InvStartStep
  <1>3. ASSUME NEW g \in Generations,
               handleUnexpectedStop(g) \/ CoreExit(g) \/ Monitor(g)
        PROVE  IInv'
    BY <1>3, InvUnexpectedStop, InvCoreExit, InvMonitor
  <1>4. CASE Stop(TRUE) \/ Stop(FALSE)
    BY <1>4, InvStop
  <1>5. CASE MarkShuttingDown \/ CheckAndStopTransparentProxy
    BY <1>5, InvMarkShuttingDown, InvCheckAndStop
  <1>6. CASE \E b \in BOOLEAN : SetLatencyTesting(b)
    BY <1>6, InvSetLatencyTesting
  <1>7. CASE UNCHANGED vars
    <2> USE <1>7 DEF vars
    <2>1. TypeOK'
      <3>1. ManagerType'
        BY DEF IInv, TypeOK, ManagerType
      <3>2. FlagsType'
        BY Zenon DEF IInv, TypeOK, FlagsType
      <3>3. HostType'
        BY DEF IInv, TypeOK, HostType
      <3>4. ThreadsType'
        BY DEF IInv, TypeOK, ThreadsType
      <3> QED BY <3>1, <3>2, <3>3, <3>4 DEF TypeOK
    <2>2. LockInv' /\ GenInv' /\ MonitorInv'
      BY DEF IInv, LockInv, GenInv, MonitorInv
    <2>3. HostMutationByOwner'
      BY DEF IInv, HostMutationByOwner, Owns, GenOf
    <2> QED BY <2>1, <2>2, <2>3 DEF IInv
  <1> QED BY <1>1, <1>2, <1>3, <1>4, <1>5, <1>6, <1>7 DEF ManagerStep

LEMMA StepOfManager == [Next]_vars => ManagerStep
  BY DEF Next, ManagerStep

LEMMA InvNext == IInv /\ [Next]_vars => IInv'
  BY InvStep, StepOfManager

\* Every reachable state satisfies the inductive invariant.
THEOREM Invariance == Spec => []IInv
  BY InitIInv, InvNext, PTL DEF Spec

\* Type correctness of the manager's state.
THEOREM TypeCorrect == Spec => []TypeOK
  BY Invariance, PTL DEF IInv

\* For any number of starts, settings and callers, only the current process's
\* threads change the host, one at a time: mutateHost's ownership test under
\* m.mu, taken over by hostMu, is enough (processManager.go:380-391).
THEOREM HostMutation == Spec => []HostMutationByOwner
  BY Invariance, PTL DEF IInv

\* A step of a thread moves neither the exit status nor the current process.
LEMMA QuietThreads ==
  ASSUME IInv,
         \/ \E t \in Threads : setupTransparentProxy(t)
         \/ \E g \in Generations : Monitor(g) \/ CoreExit(g)
         \/ StartMonitor \/ StartHook \/ StartReturn \/ StartRecover \/ SpawnFail
         \/ CheckAndStopTransparentProxy \/ MarkShuttingDown
         \/ \E s \in Settings, preserve \in Preserve : StartLock(s, preserve)
         \/ \E b \in BOOLEAN : SetLatencyTesting(b)
  PROVE  UNCHANGED <<lastExit, p>>
  <1>1. \A t \in Threads : setupTransparentProxy(t) => UNCHANGED <<lastExit, p>>
    BY DEF setupTransparentProxy, mutateHost, SetupDelete, SetupHook, SetupWrite, SetupLost
  <1>2. \A g \in Generations : CoreExit(g) => UNCHANGED <<lastExit, p>>
    BY DEF CoreExit
  <1>3. ASSUME NEW g \in Generations, Monitor(g)
        PROVE  UNCHANGED <<lastExit, p>>
    <2>1. CASE setupTransparentProxy(g)
      BY <1>1, <2>1, ConstantsAssumption
    <2>2. CASE mutateHost(g, "pause", "pausing")
      BY <2>2 DEF mutateHost
    <2>3. CASE MonitorCheck(g) \/ \E healthy, dead \in BOOLEAN : MonitorProbe(g, healthy, dead)
      BY <2>3 DEF MonitorCheck, MonitorProbe
    <2>4. CASE MonitorLost(g) \/ MonitorDelete(g) \/ MonitorPaused(g) \/ MonitorResumed(g)
      BY <2>4 DEF MonitorLost, MonitorDelete, MonitorPaused, MonitorResumed
    <2> QED BY <1>3, <2>1, <2>2, <2>3, <2>4 DEF Monitor
  <1>4. StartMonitor \/ StartHook \/ StartReturn \/ StartRecover \/ SpawnFail => UNCHANGED <<lastExit, p>>
    BY DEF StartMonitor, StartHook, StartReturn, StartRecover, SpawnFail
  <1>5. CheckAndStopTransparentProxy \/ MarkShuttingDown => UNCHANGED <<lastExit, p>>
    BY DEF CheckAndStopTransparentProxy, MarkShuttingDown
  <1>6. ASSUME \/ \E s \in Settings, preserve \in Preserve : StartLock(s, preserve)
               \/ \E b \in BOOLEAN : SetLatencyTesting(b)
        PROVE  UNCHANGED <<lastExit, p>>
    BY <1>6 DEF StartLock, SetLatencyTesting
  <1> QED BY <1>1, <1>2, <1>3, <1>4, <1>5, <1>6

\* A process that is given up is closed.
LEMMA ClosedCore ==
  ASSUME IInv, p # 0, core' = Closed(p), core[p] = "alive"
  PROVE  core'[p] = "closed"
  BY ConstantsAssumption DEF IInv, TypeOK, ManagerType, Closed

LEMMA CrashNext ==
  ASSUME IInv, [Next]_vars
  PROVE  CrashIsRealAct
  <1>1. CASE UNCHANGED <<lastExit, p>>
    BY <1>1, ConstantsAssumption DEF CrashIsRealAct, IInv, TypeOK, ManagerType
  <1>2. CASE SpawnOK
    BY <1>2, ConstantsAssumption DEF CrashIsRealAct, SpawnOK, IInv, GenInv
  <1>3. CASE StartStopOld
    BY <1>3, ClosedCore DEF CrashIsRealAct, StartStopOld, StopProcess
  <1>4. CASE StartCommit
    BY <1>4 DEF CrashIsRealAct, StartCommit
  <1>5. CASE StartFailed
    BY <1>5, ClosedCore DEF CrashIsRealAct, StartFailed, FailedOwner, FailedLost, Owns
  <1>6. CASE Stop(TRUE) \/ Stop(FALSE)
    BY <1>6, ClosedCore, WrittenChoice DEF CrashIsRealAct, Stop
  <1>7. ASSUME NEW g \in Generations, handleUnexpectedStop(g)
        PROVE  CrashIsRealAct
    <2>1. core[g] = "exited" /\ g # 0
      BY <1>7, ConstantsAssumption DEF handleUnexpectedStop
    <2>2. CASE p = g
      BY <1>7, <2>1, <2>2 DEF CrashIsRealAct, handleUnexpectedStop
    <2>3. CASE p # g
      BY <1>7, <2>3, <1>1 DEF handleUnexpectedStop
    <2> QED BY <2>2, <2>3
  <1>8. CASE UNCHANGED vars
    BY <1>8, <1>1 DEF vars
  <1>9. Starter \in Threads
    BY ConstantsAssumption
  <1> QED BY <1>1, <1>2, <1>3, <1>4, <1>5, <1>6, <1>7, <1>8, <1>9, QuietThreads DEF Next, StartStep

\* A crash is recorded only for the current process, when its child is dead and
\* the service is not shutting down, and a process that is given up alive is
\* closed: a late waiter takes nothing down (processManager.go:316).
THEOREM CrashReal == Spec => CrashIsReal
  <1>1. IInv /\ [Next]_vars => [CrashIsRealAct]_vars
    BY CrashNext
  <1> QED BY Invariance, <1>1, PTL DEF Spec, CrashIsReal

=============================================================================
