----------------------------- MODULE HostProofs -----------------------------
(* What the service changes on the host and gives back: resolv.conf and its *)
(* backup, the system proxy and its snapshot, and the rules and routes of   *)
(* the tun device, whose safety rests on the order of the commands.         *)
EXTENDS ResolvHijack, SystemProxy, TunDevice, TLAPS

-----------------------------------------------------------------------------
(* resolv.conf.  Main holds hijackerMu; it touches the file only when there *)
(* is no ticking goroutine.                                                 *)

ResolvTypes ==
    /\ ResolvTypeOK
    /\ rorig \in Contents /\ rkills \in Nat
    /\ rpending \in BOOLEAN /\ rfault \in BOOLEAN /\ rstale \in BOOLEAN

\* The goroutine ticks only while main is between operations or waits for it,
\* and there is none without a hijacker.
TickInv ==
    /\ rtick # "none" => rmain \in {"idle", "resetting", "removing"}
    /\ rhijacker = "nil" => rtick = "none"

\* A restore has a backup, and what it has put back is not ours.
RestoreInv ==
    /\ rmain \in {"restore", "put", "drop"} => rbackup # "none"
    /\ rmain = "drop" => rfile # "hijack"
    /\ rmain = "down" => rkills > 0
    /\ rkills = 0 /\ rhijacker = "nil" /\ rmain = "idle" => rfile # "hijack"

\* Without a fault and without a stale backup, a backup is the original, and
\* while there is none the original is in place and nobody has begun to hijack.
OriginalInv ==
    ~rfault /\ ~rstale =>
        /\ rbackup # "none" => rbackup = rorig
        /\ rbackup # "none" /\ rmain = "drop" => rfile = rbackup
        /\ rbackup = "none" => /\ rfile = rorig /\ rhijacker = "nil"
                               /\ rmain \in {"down", "idle", "resetting", "backup"}

ResolvInv == ResolvTypes /\ TickInv /\ RestoreInv /\ OriginalInv

LEMMA ResolvInvInit == ResolvInit => ResolvInv
  <1> SUFFICES ASSUME ResolvInit PROVE ResolvInv
    OBVIOUS
  <1> USE DEF ResolvInit
  <1>1. rfile # "hijack"
    BY ResolvAssumption
  <1>2. ResolvTypes
    BY DEF ResolvTypes, ResolvTypeOK
  <1>3. TickInv /\ RestoreInv /\ OriginalInv
    BY <1>1 DEF TickInv, RestoreInv, OriginalInv
  <1> QED BY <1>2, <1>3 DEF ResolvInv

\* HijackResolv, by whoever runs it.
LEMMA ResolvHijacks ==
  ASSUME ResolvInv, NEW w \in Workers,
         backupResolv(w) \/ BackupFails(w) \/ Unlink(w) \/ Truncate(w) \/ Write(w)
  PROVE  ResolvInv'
  <1> USE ResolvAssumption DEF Workers, WorkerAt, Goes, Ghosts, ResolvInv
  <1>1. CASE backupResolv(w)
    BY <1>1 DEF backupResolv, ResolvTypes, ResolvTypeOK, TickInv, RestoreInv, OriginalInv
  <1>2. CASE BackupFails(w)
    BY <1>2 DEF BackupFails, ResolvTypes, ResolvTypeOK, TickInv, RestoreInv, OriginalInv
  <1>3. CASE Unlink(w)
    BY <1>3 DEF Unlink, ResolvTypes, ResolvTypeOK, TickInv, RestoreInv, OriginalInv
  <1>4. CASE Truncate(w)
    BY <1>4 DEF Truncate, ResolvTypes, ResolvTypeOK, TickInv, RestoreInv, OriginalInv
  <1>5. CASE Write(w)
    BY <1>5 DEF Write, ResolvTypes, ResolvTypeOK, TickInv, RestoreInv, OriginalInv
  <1> QED BY <1>1, <1>2, <1>3, <1>4, <1>5

LEMMA ResolvStarts ==
  ASSUME ResolvInv, Spawn \/ TickFires \/ GoroutineEnds \/ resetResolvHijacker \/ ResetCloses
  PROVE  ResolvInv'
  <1> USE ResolvAssumption DEF Ghosts, ResolvInv, Step, Close
  <1>1. CASE Spawn
    BY <1>1 DEF Spawn, ResolvTypes, ResolvTypeOK, TickInv, RestoreInv, OriginalInv
  <1>2. CASE TickFires
    BY <1>2 DEF TickFires, ResolvTypes, ResolvTypeOK, TickInv, RestoreInv, OriginalInv
  <1>3. CASE GoroutineEnds
    BY <1>3 DEF GoroutineEnds, ResolvTypes, ResolvTypeOK, TickInv, RestoreInv, OriginalInv
  <1>4. CASE resetResolvHijacker
    BY <1>4 DEF resetResolvHijacker, ResolvTypes, ResolvTypeOK, TickInv, RestoreInv, OriginalInv
  <1>5. CASE ResetCloses
    BY <1>5 DEF ResetCloses, ResolvTypes, ResolvTypeOK, TickInv, RestoreInv, OriginalInv
  <1> QED BY <1>1, <1>2, <1>3, <1>4, <1>5

LEMMA ResolvRestores ==
  ASSUME ResolvInv,
         removeResolvHijacker \/ RemoveCloses \/ RestoreClears \/ RestorePuts \/ RestoreDrops \/ NoBackup \/ Public
  PROVE  ResolvInv'
  <1> USE ResolvAssumption DEF Ghosts, ResolvInv, Step, Close
  <1>1. CASE removeResolvHijacker
    BY <1>1 DEF removeResolvHijacker, ResolvTypes, ResolvTypeOK, TickInv, RestoreInv, OriginalInv
  <1>2. CASE RemoveCloses
    BY <1>2 DEF RemoveCloses, ResolvTypes, ResolvTypeOK, TickInv, RestoreInv, OriginalInv
  <1>3. CASE RestoreClears
    BY <1>3 DEF RestoreClears, ResolvTypes, ResolvTypeOK, TickInv, RestoreInv, OriginalInv
  <1>4. CASE RestorePuts
    BY <1>4 DEF RestorePuts, ResolvTypes, ResolvTypeOK, TickInv, RestoreInv, OriginalInv
  <1>5. CASE RestoreDrops
    <2>1. rstale' \in BOOLEAN
      BY <1>5, Zenon DEF RestoreDrops
    <2> QED BY <1>5, <2>1 DEF RestoreDrops, ResolvTypes, ResolvTypeOK, TickInv, RestoreInv, OriginalInv
  <1>6. CASE NoBackup
    BY <1>6 DEF NoBackup, ResolvTypes, ResolvTypeOK, TickInv, RestoreInv, OriginalInv
  <1>7. CASE Public
    BY <1>7 DEF Public, ResolvTypes, ResolvTypeOK, TickInv, RestoreInv, OriginalInv
  <1> QED BY <1>1, <1>2, <1>3, <1>4, <1>5, <1>6, <1>7

LEMMA ResolvAround ==
  ASSUME ResolvInv, Commit \/ ResolvKilled \/ Restart \/ \E c \in Contents : Others(c)
  PROVE  ResolvInv'
  <1> USE ResolvAssumption DEF Ghosts, ResolvInv, Step
  <1>1. CASE Commit
    <2>1. ResolvTypes'
      BY <1>1 DEF Commit, ResolvTypes, ResolvTypeOK
    <2>2. TickInv' /\ RestoreInv'
      BY <1>1 DEF Commit, ResolvTypes, ResolvTypeOK, TickInv, RestoreInv
    <2>3. OriginalInv'
      BY <1>1 DEF Commit, ResolvTypes, ResolvTypeOK, OriginalInv, TickInv, RestoreInv
    <2> QED BY <2>1, <2>2, <2>3
  <1>2. CASE ResolvKilled
    <2>1. ResolvTypes'
      BY <1>2 DEF ResolvKilled, ResolvTypes, ResolvTypeOK
    <2>2. TickInv' /\ RestoreInv'
      BY <1>2 DEF ResolvKilled, ResolvTypes, ResolvTypeOK, TickInv, RestoreInv
    <2>3. OriginalInv'
      BY <1>2 DEF ResolvKilled, ResolvTypes, ResolvTypeOK, OriginalInv, TickInv, RestoreInv
    <2> QED BY <2>1, <2>2, <2>3
  <1>3. CASE Restart
    <2>1. ResolvTypes'
      BY <1>3 DEF Restart, ResolvTypes, ResolvTypeOK
    <2>2. TickInv' /\ RestoreInv'
      BY <1>3 DEF Restart, ResolvTypes, ResolvTypeOK, TickInv, RestoreInv
    <2>3. OriginalInv'
      BY <1>3 DEF Restart, ResolvTypes, ResolvTypeOK, OriginalInv, TickInv, RestoreInv
    <2> QED BY <2>1, <2>2, <2>3
  <1>4. ASSUME NEW c \in Contents, Others(c) PROVE ResolvInv'
    <2>1. rstale' \in BOOLEAN
      BY <1>4, Zenon DEF Others
    <2>2. ResolvTypes'
      BY <1>4, <2>1 DEF Others, ResolvTypes, ResolvTypeOK
    <2>3. TickInv' /\ RestoreInv'
      BY <1>4 DEF Others, ResolvTypes, TickInv, RestoreInv
    <2>4. OriginalInv'
      <3>1. CASE rbackup = "none"
        BY <1>4, <3>1 DEF Others, OriginalInv
      <3>2. CASE rbackup # "none" /\ Nobody
        BY <1>4, <3>2 DEF Others, OriginalInv
      <3>3. CASE rbackup # "none" /\ ~Nobody
        BY <1>4, <3>3 DEF Others, Nobody, OriginalInv
      <3> QED BY <3>1, <3>2, <3>3
    <2> QED BY <2>2, <2>3, <2>4
  <1> QED BY <1>1, <1>2, <1>3, <1>4

LEMMA ResolvInvNext == ResolvInv /\ [ResolvNext]_resolvVars => ResolvInv'
  <1> SUFFICES ASSUME ResolvInv, [ResolvNext]_resolvVars PROVE ResolvInv'
    OBVIOUS
  <1>1. CASE UNCHANGED resolvVars
    BY <1>1 DEF resolvVars, ResolvInv, ResolvTypes, ResolvTypeOK, TickInv, RestoreInv, OriginalInv
  <1>2. CASE ResolvNext
    BY <1>2, ResolvHijacks, ResolvStarts, ResolvRestores, ResolvAround DEF ResolvNext, ResolvService
  <1> QED BY <1>1, <1>2

\* The user's resolv.conf survives the hijacker: the ticking goroutine and the
\* reset never write it together, the original is in the file or the backup
\* whenever the service is killed, and a stop leaves nothing hijacked.
THEOREM ResolverKept == ResolvSpec => []ResolverIsKept
  <1>1. ResolvInv => ResolverIsKept
    BY DEF ResolvInv, ResolvTypes, TickInv, RestoreInv, OriginalInv, ResolverIsKept, OneWriter,
           OriginalKept, NothingHijackedAfterStop
  <1> QED BY <1>1, ResolvInvInit, ResolvInvNext, PTL DEF ResolvSpec

-----------------------------------------------------------------------------
(* The system proxy.  The snapshot in memory is the stored one or none.    *)

Settings == UserChoices \union {"ours"}
IsSnapshot(f) == DOMAIN f \subseteq Targets /\ f \in [DOMAIN f -> Settings]

ProxyTypes ==
    /\ pxthere \subseteq Targets /\ pxtodo \subseteq Targets /\ pxodd \subseteq Targets
    /\ pxsys \in [Targets -> Settings] /\ pxuser \in [Targets -> UserChoices]
    /\ pxdb # NoSnapshot => IsSnapshot(pxdb)
    /\ pxmem \in {NoSnapshot, pxdb}
    /\ pxbad \in BOOLEAN

PhaseInv ==
    /\ pxphase \in {"down", "idle", "restoring", "capture", "setting", "on"}
    /\ pxafter \in {"idle", "capture"}
    /\ pxphase \in {"setting", "on"} => pxmem # NoSnapshot
    /\ pxphase = "restoring" => pxdb # NoSnapshot
    /\ pxphase \notin {"setting", "restoring"} => pxtodo = {}

\* A target that nothing odd happened to has its user's choice or, while a
\* snapshot holds that choice, our proxy.
GivenBackInv ==
    \A t \in Targets \ pxodd :
        /\ pxdb = NoSnapshot => pxsys[t] = pxuser[t]
        /\ pxdb # NoSnapshot =>
              /\ t \in DOMAIN pxdb => pxdb[t] = pxuser[t] /\ pxsys[t] \in {"ours", pxuser[t]}
              /\ t \notin DOMAIN pxdb => pxsys[t] = pxuser[t]
              /\ pxphase = "restoring" /\ ~pxbad /\ t \notin pxtodo => pxsys[t] = pxuser[t]

\* Windows: no snapshot holds our proxy, and without one no profile has it.
WindowsInv ==
    pxos = "windows" =>
        /\ pxdb = NoSnapshot => \A t \in Targets : pxsys[t] # "ours"
        /\ pxdb # NoSnapshot => \A t \in DOMAIN pxdb : pxdb[t] # "ours"
        /\ pxphase = "restoring" /\ ~pxbad => \A t \in Targets \ pxtodo : pxsys[t] # "ours"

ProxyInv == ProxyTypes /\ PhaseInv /\ GivenBackInv /\ WindowsInv

LEMMA ProxyInvInit == ProxyInit => ProxyInv
  <1> SUFFICES ASSUME ProxyInit PROVE ProxyInv
    OBVIOUS
  <1> USE ProxyAssumption DEF ProxyInit
  <1>1. ProxyTypes
    BY DEF ProxyTypes, Settings
  <1>2. PhaseInv
    BY DEF PhaseInv
  <1>3. GivenBackInv /\ WindowsInv
    BY DEF GivenBackInv, WindowsInv
  <1> QED BY <1>1, <1>2, <1>3 DEF ProxyInv

LEMMA SavedIsStored ==
  ASSUME ProxyInv
  PROVE  Saved = pxdb
  BY DEF ProxyInv, ProxyTypes, Saved

LEMMA ProxyBegins ==
  ASSUME ProxyInv, NEW after \in {"idle", "capture"}, pxphase # "restoring", BeginRestore(after)
  PROVE  ProxyInv'
  <1>1. UNCHANGED <<pxos, pxthere, pxuser, pxsys, pxdb, pxmem, pxodd>>
    BY DEF BeginRestore, World
  <1>2. CASE pxdb = NoSnapshot
    <2>1. pxphase' = after /\ pxtodo' = {} /\ UNCHANGED <<pxbad, pxafter>>
      BY <1>2 DEF BeginRestore
    <2>2. ProxyTypes' /\ PhaseInv'
      BY <1>1, <2>1 DEF ProxyInv, ProxyTypes, PhaseInv, IsSnapshot
    <2>3. GivenBackInv' /\ WindowsInv'
      BY <1>1, <1>2, <2>1 DEF ProxyInv, GivenBackInv, WindowsInv
    <2> QED BY <2>2, <2>3 DEF ProxyInv
  <1>3. CASE pxdb # NoSnapshot
    <2>1. /\ pxphase' = "restoring" /\ pxbad' = FALSE /\ pxafter' = after
          /\ pxtodo' = IF pxos = "windows" THEN Targets ELSE DOMAIN pxdb
      BY <1>3, SavedIsStored DEF BeginRestore, Known
    <2>2. ProxyTypes'
      BY <1>1, <1>3, <2>1 DEF ProxyInv, ProxyTypes, IsSnapshot
    <2>3. PhaseInv'
      BY <1>1, <1>3, <2>1 DEF ProxyInv, PhaseInv
    <2>4. GivenBackInv'
      BY <1>1, <1>3, <2>1 DEF ProxyInv, GivenBackInv
    <2>5. WindowsInv'
      BY <1>1, <1>3, <2>1 DEF ProxyInv, WindowsInv
    <2> QED BY <2>2, <2>3, <2>4, <2>5 DEF ProxyInv
  <1> QED BY <1>2, <1>3

LEMMA ProxyRestores ==
  ASSUME ProxyInv, NEW t \in Targets, Restore(t)
  PROVE  ProxyInv'
  <1>1. /\ pxphase = "restoring" /\ pxtodo' = pxtodo \ {t} /\ pxdb # NoSnapshot
        /\ pxsys' = [pxsys EXCEPT ![t] = IF t \in DOMAIN pxdb THEN pxdb[t] ELSE "off"]
        /\ pxodd' = IF t \in DOMAIN pxdb THEN pxodd ELSE pxodd \union {t}
        /\ UNCHANGED <<pxos, pxthere, pxuser, pxdb, pxmem, pxphase, pxafter, pxbad>>
    BY SavedIsStored DEF Restore, World, ProxyInv, PhaseInv
  <1>2. (IF t \in DOMAIN pxdb THEN pxdb[t] ELSE "off") \in Settings
    BY <1>1, ProxyAssumption DEF ProxyInv, ProxyTypes, IsSnapshot, Settings
  <1>3. ProxyTypes'
    BY <1>1, <1>2 DEF ProxyInv, ProxyTypes, IsSnapshot
  <1>4. PhaseInv'
    BY <1>1 DEF ProxyInv, PhaseInv
  <1>5. GivenBackInv'
    BY <1>1 DEF ProxyInv, ProxyTypes, GivenBackInv
  <1>6. WindowsInv'
    BY <1>1 DEF ProxyInv, ProxyTypes, WindowsInv
  <1> QED BY <1>3, <1>4, <1>5, <1>6 DEF ProxyInv

LEMMA ProxyRestoreFails ==
  ASSUME ProxyInv, NEW t \in Targets, RestoreFails(t)
  PROVE  ProxyInv'
  <1>1. /\ pxphase = "restoring" /\ pxbad' = TRUE /\ pxtodo' \subseteq pxtodo
        /\ UNCHANGED <<pxos, pxthere, pxuser, pxsys, pxdb, pxmem, pxphase, pxafter, pxodd>>
    BY DEF RestoreFails, World
  <1>2. ProxyTypes' /\ PhaseInv'
    BY <1>1 DEF ProxyInv, ProxyTypes, PhaseInv, IsSnapshot
  <1>3. GivenBackInv' /\ WindowsInv'
    BY <1>1 DEF ProxyInv, GivenBackInv, WindowsInv
  <1> QED BY <1>2, <1>3 DEF ProxyInv

LEMMA ProxyRestoreDone ==
  ASSUME ProxyInv, RestoreDone
  PROVE  ProxyInv'
  <1>1. /\ pxphase = "restoring" /\ pxtodo = {} /\ pxphase' = pxafter
        /\ UNCHANGED <<pxos, pxthere, pxuser, pxsys, pxtodo, pxafter, pxbad, pxodd>>
        /\ pxdb # NoSnapshot
    BY DEF RestoreDone, World, ProxyInv, PhaseInv
  <1>2. CASE pxbad
    <2>1. UNCHANGED <<pxdb, pxmem>>
      BY <1>2 DEF RestoreDone
    <2>2. ProxyTypes' /\ PhaseInv'
      BY <1>1, <2>1 DEF ProxyInv, ProxyTypes, PhaseInv, IsSnapshot
    <2>3. GivenBackInv' /\ WindowsInv'
      BY <1>1, <1>2, <2>1 DEF ProxyInv, PhaseInv, GivenBackInv, WindowsInv
    <2> QED BY <2>2, <2>3 DEF ProxyInv
  <1>3. CASE ~pxbad
    <2>1. pxdb' = NoSnapshot /\ pxmem' = NoSnapshot
      BY <1>3 DEF RestoreDone
    <2>2. ProxyTypes' /\ PhaseInv'
      BY <1>1, <2>1 DEF ProxyInv, ProxyTypes, PhaseInv
    <2>3. GivenBackInv'
      BY <1>1, <1>3, <2>1 DEF ProxyInv, GivenBackInv
    <2>4. WindowsInv'
      BY <1>1, <1>3, <2>1 DEF ProxyInv, WindowsInv
    <2> QED BY <2>2, <2>3, <2>4 DEF ProxyInv
  <1> QED BY <1>2, <1>3

LEMMA ProxyCaptures ==
  ASSUME ProxyInv, Capture
  PROVE  ProxyInv'
  <1>1. /\ pxphase = "capture" /\ pxphase' = "setting"
        /\ pxtodo' = IF pxos = "windows" THEN Targets ELSE pxthere
        /\ UNCHANGED <<pxos, pxthere, pxuser, pxsys, pxafter, pxbad, pxodd>>
    BY DEF Capture, World
  <1>2. CASE pxdb # NoSnapshot
    <2>1. pxdb' = pxdb /\ pxmem' = pxdb
      BY <1>2, SavedIsStored DEF Capture
    <2>2. ProxyTypes' /\ PhaseInv'
      BY <1>1, <1>2, <2>1 DEF ProxyInv, ProxyTypes, PhaseInv, IsSnapshot
    <2>3. GivenBackInv' /\ WindowsInv'
      BY <1>1, <1>2, <2>1 DEF ProxyInv, GivenBackInv, WindowsInv
    <2> QED BY <2>2, <2>3 DEF ProxyInv
  <1>3. CASE pxdb = NoSnapshot
    <2> DEFINE snap == [t \in pxthere |-> pxsys[t]]
    <2>1. pxdb' = snap /\ pxmem' = snap
      BY <1>3, SavedIsStored DEF Capture, saveProxyState
    <2>2. DOMAIN snap = pxthere /\ snap \in [pxthere -> Settings] /\ \A t \in pxthere : snap[t] = pxsys[t]
      BY DEF ProxyInv, ProxyTypes
    <2>3. snap # NoSnapshot
      BY <2>2, ProxyAssumption DEF ProxyInv, ProxyTypes, Settings
    <2> HIDE DEF snap
    <2>4. ProxyTypes'
      BY <1>1, <2>1, <2>2, <2>3 DEF ProxyInv, ProxyTypes, IsSnapshot
    <2>5. PhaseInv'
      BY <1>1, <2>1, <2>3 DEF ProxyInv, PhaseInv
    <2>6. GivenBackInv'
      BY <1>1, <1>3, <2>1, <2>2, <2>3 DEF ProxyInv, GivenBackInv
    <2>7. WindowsInv'
      BY <1>1, <1>3, <2>1, <2>2, <2>3 DEF ProxyInv, ProxyTypes, WindowsInv
    <2> QED BY <2>4, <2>5, <2>6, <2>7 DEF ProxyInv
  <1> QED BY <1>2, <1>3

LEMMA ProxySets ==
  ASSUME ProxyInv, NEW t \in Targets, SetProxy(t)
  PROVE  ProxyInv'
  <1>1. /\ pxphase = "setting" /\ pxtodo' = pxtodo \ {t} /\ pxmem = pxdb /\ pxdb # NoSnapshot
        /\ UNCHANGED <<pxos, pxthere, pxuser, pxdb, pxmem, pxphase, pxafter, pxbad>>
    BY DEF SetProxy, World, ProxyInv, ProxyTypes, PhaseInv
  <1>2. \/ UNCHANGED <<pxsys, pxodd>>
        \/ /\ pxsys' = [pxsys EXCEPT ![t] = "ours"]
           /\ pxodd' = IF t \in DOMAIN pxdb THEN pxodd ELSE pxodd \union {t}
    BY <1>1 DEF SetProxy
  <1>3. ProxyTypes'
    BY <1>1, <1>2 DEF ProxyInv, ProxyTypes, IsSnapshot, Settings
  <1>4. PhaseInv'
    BY <1>1 DEF ProxyInv, PhaseInv
  <1>5. GivenBackInv'
    BY <1>1, <1>2 DEF ProxyInv, ProxyTypes, GivenBackInv
  <1>6. WindowsInv'
    BY <1>1 DEF ProxyInv, WindowsInv
  <1> QED BY <1>3, <1>4, <1>5, <1>6 DEF ProxyInv

LEMMA ProxyMoves ==
  ASSUME ProxyInv, SetupDone \/ BootElsewhere \/ ProxyKilled \/ \E t \in Targets : TargetChanges(t)
  PROVE  ProxyInv'
  <1>1. UNCHANGED <<pxos, pxuser, pxsys, pxdb, pxodd>>
    BY DEF SetupDone, BootElsewhere, ProxyKilled, TargetChanges, World
  <1>2. ProxyTypes'
    <2>1. pxthere' \subseteq Targets
      BY DEF ProxyInv, ProxyTypes, SetupDone, BootElsewhere, ProxyKilled, TargetChanges, World
    <2>2. pxmem' \in {NoSnapshot, pxmem} /\ pxtodo' \in {{}, pxtodo} /\ pxbad' \in {FALSE, pxbad}
      BY DEF SetupDone, BootElsewhere, ProxyKilled, TargetChanges, World
    <2> QED BY <1>1, <2>1, <2>2 DEF ProxyInv, ProxyTypes, IsSnapshot
  <1>3. PhaseInv'
    BY <1>1 DEF ProxyInv, PhaseInv, SetupDone, BootElsewhere, ProxyKilled, TargetChanges, World
  <1>4. pxphase' # "restoring" \/ UNCHANGED <<pxphase, pxbad, pxtodo>>
    BY DEF SetupDone, BootElsewhere, ProxyKilled, TargetChanges, World
  <1>5. GivenBackInv' /\ WindowsInv'
    BY <1>1, <1>4 DEF ProxyInv, GivenBackInv, WindowsInv
  <1> QED BY <1>2, <1>3, <1>5 DEF ProxyInv

LEMMA ProxyChosen ==
  ASSUME ProxyInv, NEW t \in Targets, NEW v \in UserChoices, UserChooses(t, v)
  PROVE  ProxyInv'
  <1>1. /\ pxphase \in {"idle", "down"}
        /\ pxsys' = [pxsys EXCEPT ![t] = v] /\ pxuser' = [pxuser EXCEPT ![t] = v]
        /\ pxodd' = IF pxdb = NoSnapshot THEN pxodd \ {t} ELSE pxodd \union {t}
        /\ UNCHANGED <<pxos, pxthere, pxdb, pxmem, pxphase, pxafter, pxtodo, pxbad>>
    BY DEF UserChooses
  <1>2. ProxyTypes'
    BY <1>1 DEF ProxyInv, ProxyTypes, IsSnapshot, Settings
  <1>3. PhaseInv'
    BY <1>1 DEF ProxyInv, PhaseInv
  <1>4. GivenBackInv'
    BY <1>1 DEF ProxyInv, ProxyTypes, GivenBackInv
  <1>5. WindowsInv'
    BY <1>1, ProxyAssumption DEF ProxyInv, ProxyTypes, WindowsInv
  <1> QED BY <1>2, <1>3, <1>4, <1>5 DEF ProxyInv

LEMMA ProxyInvNext == ProxyInv /\ [ProxyNext]_proxyVars => ProxyInv'
  <1> SUFFICES ASSUME ProxyInv, [ProxyNext]_proxyVars PROVE ProxyInv'
    OBVIOUS
  <1>1. CASE UNCHANGED proxyVars
    BY <1>1 DEF proxyVars, ProxyInv, ProxyTypes, PhaseInv, GivenBackInv, WindowsInv, IsSnapshot
  <1>2. CASE ProxyStart \/ ProxyStop \/ ProxyBoot
    BY <1>2, ProxyBegins DEF ProxyStart, ProxyStop, ProxyBoot
  <1> QED BY <1>1, <1>2, ProxyRestores, ProxyRestoreFails, ProxyRestoreDone, ProxyCaptures, ProxySets,
             ProxyMoves, ProxyChosen DEF ProxyNext

\* Every user's proxy setting survives the system proxy mode, for any desktops,
\* network services or profiles: while ours is in place the stored snapshot has
\* theirs, and with no snapshot left it is back; on Windows ours never stays.
THEOREM ProxyGivenBack == ProxySpec => []ProxyIsGivenBack
  <1>1. ProxyInv => ProxyIsGivenBack
    <2> SUFFICES ASSUME ProxyInv PROVE ProxyIsGivenBack
      OBVIOUS
    <2>1. pxdb \in Snapshots /\ pxmem \in Snapshots
      BY DEF ProxyInv, ProxyTypes, IsSnapshot, Settings, Snapshots
    <2>2. ProxyTypeOK
      BY <2>1 DEF ProxyInv, ProxyTypes, PhaseInv, Settings, ProxyTypeOK
    <2>3. OriginalIsStored
      BY ProxyAssumption DEF ProxyInv, ProxyTypes, GivenBackInv, OriginalIsStored
    <2>4. UserChoiceIsBack
      BY DEF ProxyInv, GivenBackInv, UserChoiceIsBack
    <2>5. WindowsLeavesNoProxy
      BY DEF ProxyInv, WindowsInv, WindowsLeavesNoProxy
    <2> QED BY <2>2, <2>3, <2>4, <2>5 DEF ProxyIsGivenBack
  <1> QED BY <1>1, ProxyInvInit, ProxyInvNext, PTL DEF ProxySpec
-----------------------------------------------------------------------------
(* The routes of the tun device: the commands of a setup run in the order   *)
(* of their ranks and are undone in the opposite one, so that what draws    *)
(* traffic into the device is there only with what keeps the core out.      *)

\* The place of a command among the commands of its family, the same on the
\* three platforms.
Rank(k) ==
    CASE k = "table" -> 1 [] k = "marked" -> 2 [] k = "unreach" -> 3 [] k = "node" -> 4
      [] k = "main" -> 5 [] k = "scoped" -> 5 [] k = "tun" -> 6 [] k = "half" -> 6 [] OTHER -> 0
Earlier(d, e) == d[1] = e[1] => Rank(d[2]) < Rank(e[2])
Holds(s, e) == \E i \in 1..Len(s) : s[i] = e
InOrder(s) == \A i, j \in 1..Len(s) : i < j => Earlier(s[i], s[j])

\* The entries the setup of this platform may install.
OurKinds == IF tnos = "linux" THEN {"table", "marked", "unreach", "node", "main", "tun"} ELSE {"node", "scoped", "half"}
OurEntries == TunFamilies \X OurKinds

TunTypes ==
    /\ tnos \in {"linux", "darwin", "windows"} /\ tnv6 \in BOOLEAN /\ tndefault \in SUBSET Fam
    /\ tnkernel \in [Entries -> {"none", "ours", "user"}] /\ tndns \in [Services -> {"user", "loop"}]
    /\ tnphase \in {"down", "idle", "up", "on", "undo"} /\ tndev \in BOOLEAN
    /\ tnundo \in Seq(OurEntries) /\ tntodo \in Seq(OurEntries)
    /\ tnskipped \in SUBSET Entries /\ tnleft \in SUBSET (Entries \ OnDevice)
    /\ (tnphase # "up" => tntodo = <<>>) /\ (tnphase \in {"down", "idle"} => tnundo = <<>>)

\* A table service -> resolvers, as the memory and the backup file hold it.
Resolvers(m) == DOMAIN m \subseteq Services /\ \A s \in DOMAIN m : m[s] \in {"user", "loop"}
DnsKept == Resolvers(tndnsmem) /\ (tnfile # NoFile => Resolvers(tnfile))

\* Whose the entries are: what is ours is recorded for the undo or was left by
\* a kill, and on Linux nothing left by a kill outlives the cleanup.
Owned ==
    /\ \A e \in Entries : tnkernel[e] = "user" => e[2] \in {"node", "alien"}
    /\ \A e \in Entries : tnkernel[e] = "ours" => e \in OurEntries
    /\ \A e \in Entries : tnkernel[e] = "ours" => e \in tnleft \/ Holds(tnundo, e)
    /\ tnos = "linux" /\ tnphase \in {"up", "on", "undo"} =>
        \A e \in Entries : tnkernel[e] = "ours" => Holds(tnundo, e)
    /\ \A i \in 1..Len(tnundo) : tnkernel[tnundo[i]] # "user"

\* The commands run in the order of their ranks.
Sequenced ==
    /\ InOrder(tntodo) /\ InOrder(tnundo)
    /\ \A i \in 1..Len(tnundo), j \in 1..Len(tntodo) : Earlier(tnundo[i], tntodo[j])

\* During a setup every entry of the plan is still to come, there, skipped, or
\* gone with the device.
Wanted(f, k) == f \in TunFamilies /\ k \in OurKinds /\ (tnos # "linux" /\ k # "half" => f \in tndefault)
                /\ (k = "scoped" => tnos = "darwin")
Planned ==
    tnphase = "up" => \A f \in Fam, k \in Kinds : Wanted(f, k) =>
        \/ Holds(tntodo, <<f, k>>)
        \/ TunAt(f, k) \/ <<f, k>> \in tnskipped \/ <<f, k>> \in OnDevice

\* What draws traffic into the device is there only with what keeps the core
\* and the nodes out of it.
Guarded ==
    \A f \in Fam :
        /\ tnos = "linux" =>
            /\ TunAt(f, "unreach") => TunAt(f, "marked")
            /\ TunAt(f, "tun") /\ TunAt(f, "table") => TunAt(f, "unreach") /\ TunAt(f, "node")
            /\ \A k \in Kinds : <<f, k>> \notin tnskipped
        /\ tnos = "darwin" /\ f \in tndefault /\ TunAt(f, "half") => TunAt(f, "scoped") \/ <<f, "scoped">> \in tnskipped
        /\ tnos # "linux" /\ f \in tndefault /\ TunAt(f, "half") /\ (tnphase # "undo" \/ tnos # "windows") =>
            TunAt(f, "node") \/ <<f, "node">> \in tnskipped

TunInv == TunTypes /\ DnsKept /\ Owned /\ Sequenced /\ Planned /\ Guarded /\ BootClearsRules
-----------------------------------------------------------------------------
\* Nothing recorded and nothing to do.
LEMMA Nothing == Resolvers(<<>>) /\ InOrder(<<>>) /\ (\A x : ~Holds(<<>>, x)) /\ Len(<<>>) = 0
BY DEF Resolvers, InOrder, Holds

\* Ranks are numbers.
LEMMA RankNat == ASSUME NEW k PROVE Rank(k) \in Nat
  BY DEF Rank

\* The first entry of a sequence, and the others.
LEMMA TailFacts ==
    ASSUME NEW S, NEW s \in Seq(S), s # <<>>
    PROVE  /\ Len(s) \in Nat /\ 1 \in 1..Len(s) /\ Head(s) = s[1] /\ s[1] \in S
           /\ Tail(s) \in Seq(S) /\ Len(Tail(s)) = Len(s) - 1
           /\ \A i \in 1..Len(Tail(s)) : Tail(s)[i] = s[i + 1] /\ i + 1 \in 1..Len(s) /\ i + 1 > 1
           /\ \A i \in 1..Len(s) : i = 1 \/ (i - 1 \in 1..Len(Tail(s)) /\ Tail(s)[i - 1] = s[i])
  BY Z3

\* A sequence whose entries are all in another set.
LEMMA SeqOfThose == ASSUME NEW S, NEW T, NEW s \in Seq(S), \A i \in 1..Len(s) : s[i] \in T PROVE s \in Seq(T)
  BY Z3

\* The last entry of a sequence, and the others.
Last(s) == s[Len(s)]
Front(s) == SubSeq(s, 1, Len(s) - 1)
LEMMA FrontFacts ==
    ASSUME NEW S, NEW s \in Seq(S), s # <<>>
    PROVE  /\ Len(s) \in Nat /\ Len(s) \in 1..Len(s) /\ Last(s) = s[Len(s)] /\ s[Len(s)] \in S
           /\ Front(s) \in Seq(S) /\ Len(Front(s)) = Len(s) - 1
           /\ \A i \in 1..Len(Front(s)) : Front(s)[i] = s[i] /\ i \in 1..Len(s) /\ i < Len(s)
           /\ \A i \in 1..Len(s) : i = Len(s) \/ (i \in 1..Len(Front(s)) /\ Front(s)[i] = s[i])
<1>1. Len(s) \in Nat /\ Len(s) \in 1..Len(s) /\ Last(s) = s[Len(s)] /\ s[Len(s)] \in S
  BY Z3 DEF Last
<1>2. Front(s) = SubSeq(s, 1, Len(s) - 1)
  BY DEF Front
<1> DEFINE f == SubSeq(s, 1, Len(s) - 1)
<1>3. f \in Seq(S) /\ Len(f) = Len(s) - 1 /\ \A i \in 1..(Len(s) - 1) : f[i] = s[i]
  <2>1. Len(s) - 1 \in Nat /\ Len(s) - 1 \leq Len(s) /\ \A i \in 1..(Len(s) - 1) : i \in 1..Len(s) /\ s[i] \in S
    BY <1>1
  <2>2. f = [i \in 1..(Len(s) - 1) |-> s[i]]
    BY <2>1, Z3
  <2> HIDE DEF f
  <2> QED BY <2>1, <2>2
<1> HIDE DEF f
<1>4. Front(s) = f
  BY <1>2 DEF f
<1> QED BY <1>1, <1>3, <1>4

\* An entry at the end.
LEMMA PushFacts ==
    ASSUME NEW S, NEW s \in Seq(S), NEW x \in S
    PROVE  /\ Len(s) \in Nat
           /\ Append(s, x) \in Seq(S) /\ Len(Append(s, x)) = Len(s) + 1
           /\ \A i \in 1..Len(s) : Append(s, x)[i] = s[i] /\ i \in 1..Len(Append(s, x))
           /\ Append(s, x)[Len(s) + 1] = x /\ Len(s) + 1 \in 1..Len(Append(s, x))
           /\ \A i \in 1..Len(Append(s, x)) : i = Len(s) + 1 \/ i \in 1..Len(s)
  BY Z3

\* Two sequences one after the other.
LEMMA JoinFacts ==
    ASSUME NEW S, NEW s \in Seq(S), NEW t \in Seq(S)
    PROVE  /\ Len(s) \in Nat /\ Len(t) \in Nat
           /\ s \o t \in Seq(S) /\ Len(s \o t) = Len(s) + Len(t)
           /\ \A i \in 1..Len(s) : (s \o t)[i] = s[i] /\ i \in 1..Len(s \o t)
           /\ \A i \in 1..Len(t) : (s \o t)[Len(s) + i] = t[i] /\ Len(s) + i \in 1..Len(s \o t)
           /\ \A i \in 1..Len(s \o t) : i \in 1..Len(s) \/ (i - Len(s) \in 1..Len(t) /\ (s \o t)[i] = t[i - Len(s)])
  BY Z3

\* Commands in order stay in order when one moves from the plan to the record.
LEMMA AdvanceKeeps ==
    ASSUME NEW S, NEW todo \in Seq(S), NEW undo \in Seq(S), todo # <<>>,
           InOrder(todo), InOrder(undo),
           \A i \in 1..Len(undo), j \in 1..Len(todo) : Earlier(undo[i], todo[j])
    PROVE  /\ InOrder(Tail(todo)) /\ InOrder(Append(undo, Head(todo)))
           /\ \A i \in 1..Len(undo), j \in 1..Len(Tail(todo)) : Earlier(undo[i], Tail(todo)[j])
           /\ \A i \in 1..Len(Append(undo, Head(todo))), j \in 1..Len(Tail(todo)) : Earlier(Append(undo, Head(todo))[i], Tail(todo)[j])
<1>t. /\ Len(todo) \in Nat /\ 1 \in 1..Len(todo) /\ Head(todo) = todo[1] /\ todo[1] \in S
      /\ Tail(todo) \in Seq(S) /\ Len(Tail(todo)) = Len(todo) - 1
      /\ \A i \in 1..Len(Tail(todo)) : Tail(todo)[i] = todo[i + 1] /\ i + 1 \in 1..Len(todo) /\ i + 1 > 1
  BY TailFacts
<1> DEFINE u == Append(undo, Head(todo))
           t == Tail(todo)
<1>u. /\ Len(undo) \in Nat
      /\ u \in Seq(S) /\ Len(u) = Len(undo) + 1
      /\ \A i \in 1..Len(undo) : u[i] = undo[i] /\ i \in 1..Len(u)
      /\ u[Len(undo) + 1] = Head(todo) /\ Len(undo) + 1 \in 1..Len(u)
      /\ \A i \in 1..Len(u) : i = Len(undo) + 1 \/ i \in 1..Len(undo)
  BY <1>t, PushFacts
<1> HIDE DEF u, t
<1>1. InOrder(t)
  <2>1. SUFFICES ASSUME NEW i \in 1..Len(t), NEW j \in 1..Len(t), i < j PROVE Earlier(t[i], t[j])
    BY DEF InOrder
  <2>2. i + 1 \in 1..Len(todo) /\ j + 1 \in 1..Len(todo) /\ i + 1 < j + 1 /\ t[i] = todo[i + 1] /\ t[j] = todo[j + 1]
    BY <1>t, <2>1 DEF t
  <2> QED BY <2>2 DEF InOrder
<1>2. InOrder(u)
  <2>1. SUFFICES ASSUME NEW i \in 1..Len(u), NEW j \in 1..Len(u), i < j PROVE Earlier(u[i], u[j])
    BY DEF InOrder
  <2>2. i \in 1..Len(undo) /\ u[i] = undo[i]
    BY <1>u, <2>1
  <2>3. CASE j \in 1..Len(undo)
    BY <2>1, <2>2, <2>3, <1>u DEF InOrder
  <2>4. CASE j = Len(undo) + 1
    BY <2>2, <2>4, <1>u, <1>t
  <2> QED BY <2>3, <2>4, <1>u
<1>3. \A i \in 1..Len(undo), j \in 1..Len(t) : Earlier(undo[i], t[j])
  BY <1>t DEF t
<1>4. \A i \in 1..Len(u), j \in 1..Len(t) : Earlier(u[i], t[j])
  <2>1. SUFFICES ASSUME NEW i \in 1..Len(u), NEW j \in 1..Len(t) PROVE Earlier(u[i], t[j])
    OBVIOUS
  <2>2. CASE i \in 1..Len(undo)
    BY <2>2, <1>3, <1>u
  <2>3. CASE i = Len(undo) + 1
    BY <2>3, <1>u, <1>t DEF InOrder, t
  <2> QED BY <2>2, <2>3, <1>u
<1> QED BY <1>1, <1>2, <1>3, <1>4 DEF u, t

\* Commands in order, one group after the other.
LEMMA JoinKeepsOrder ==
    ASSUME NEW S, NEW s \in Seq(S), NEW t \in Seq(S), InOrder(s), InOrder(t),
           \A i \in 1..Len(s), j \in 1..Len(t) : Earlier(s[i], t[j])
    PROVE  InOrder(s \o t)
<1> DEFINE u == s \o t
<1>u. /\ Len(s) \in Nat /\ Len(t) \in Nat /\ Len(u) = Len(s) + Len(t)
      /\ \A i \in 1..Len(s) : u[i] = s[i] /\ i \in 1..Len(u)
      /\ \A i \in 1..Len(u) : i \in 1..Len(s) \/ (i - Len(s) \in 1..Len(t) /\ u[i] = t[i - Len(s)])
  BY JoinFacts
<1> HIDE DEF u
<1>1. SUFFICES ASSUME NEW i \in 1..Len(u), NEW j \in 1..Len(u), i < j PROVE Earlier(u[i], u[j])
  BY DEF InOrder, u
<1>2. CASE i \in 1..Len(s) /\ j \in 1..Len(s)
  BY <1>1, <1>2, <1>u DEF InOrder
<1>3. CASE i \in 1..Len(s) /\ j \notin 1..Len(s)
  BY <1>1, <1>3, <1>u
<1>4. CASE i \notin 1..Len(s)
  <2>1. j \notin 1..Len(s) /\ i - Len(s) < j - Len(s)
    BY <1>1, <1>4, <1>u
  <2> QED BY <1>1, <1>4, <2>1, <1>u DEF InOrder
<1> QED BY <1>2, <1>3, <1>4

-----------------------------------------------------------------------------
\* One entry of a kind for each of some families.
LEMMA OfKindFacts ==
    ASSUME NEW k, NEW fams \in SUBSET Fam, NEW S, \A f \in fams : <<f, k>> \in S
    PROVE  /\ OfKind(k, fams) \in Seq(S) /\ InOrder(OfKind(k, fams))
           /\ \A i \in 1..Len(OfKind(k, fams)) : OfKind(k, fams)[i][2] = k
           /\ \A f \in fams : Holds(OfKind(k, fams), <<f, k>>)
<1>1. CASE "4" \in fams /\ "6" \in fams
  <2> DEFINE a == <<<<"4", k>>>>
             b == <<<<"6", k>>>>
             o == a \o b
  <2>1. OfKind(k, fams) = o
    BY <1>1 DEF OfKind
  <2>2. a \in Seq(S) /\ b \in Seq(S) /\ Len(a) = 1 /\ Len(b) = 1 /\ a[1] = <<"4", k>> /\ b[1] = <<"6", k>>
    BY <1>1, Z3
  <2> HIDE DEF a, b
  <2>3. o \in Seq(S) /\ Len(o) = 2 /\ o[1] = a[1] /\ o[2] = b[1]
    BY <2>2, JoinFacts, Z3
  <2> HIDE DEF o
  <2>4. o \in Seq(S) /\ Len(o) = 2 /\ o[1] = <<"4", k>> /\ o[2] = <<"6", k>>
    BY <2>2, <2>3
  <2>5. \A i \in 1..2 : i = 1 \/ i = 2
    OBVIOUS
  <2>6. InOrder(o)
    BY <2>4, <2>5 DEF InOrder, Earlier
  <2>7. \A f \in fams : Holds(o, <<f, k>>)
    BY <2>4 DEF Fam, Holds
  <2> QED BY <2>1, <2>4, <2>5, <2>6, <2>7
<1>2. CASE "4" \in fams /\ "6" \notin fams
  <2>1. OfKind(k, fams) = <<<<"4", k>>>>
    BY <1>2, Z3 DEF OfKind
  <2> QED BY <2>1, <1>2, Z3 DEF InOrder, Earlier, Fam, Holds
<1>3. CASE "4" \notin fams /\ "6" \in fams
  <2>1. OfKind(k, fams) = <<<<"6", k>>>>
    BY <1>3, Z3 DEF OfKind
  <2> QED BY <2>1, <1>3, Z3 DEF InOrder, Earlier, Fam, Holds
<1>4. CASE "4" \notin fams /\ "6" \notin fams
  <2>1. OfKind(k, fams) = <<>>
    BY <1>4, Z3 DEF OfKind
  <2> QED BY <2>1, <1>4, Z3 DEF InOrder, Earlier, Fam, Holds
<1> QED BY <1>1, <1>2, <1>3, <1>4

\* The rules of one family.
LEMMA RuleStepsFacts ==
    ASSUME NEW f, NEW S, \A k \in {"table", "marked", "unreach", "node", "main", "tun"} : <<f, k>> \in S
    PROVE  /\ RuleSteps(f) \in Seq(S) /\ InOrder(RuleSteps(f))
           /\ \A i \in 1..Len(RuleSteps(f)) : RuleSteps(f)[i][1] = f
           /\ \A k \in {"table", "marked", "unreach", "node", "main", "tun"} : Holds(RuleSteps(f), <<f, k>>)
<1> DEFINE r == RuleSteps(f)
<1>1. /\ r \in Seq(S) /\ Len(r) = 6
      /\ r[1] = <<f, "table">> /\ r[2] = <<f, "marked">> /\ r[3] = <<f, "unreach">>
      /\ r[4] = <<f, "node">> /\ r[5] = <<f, "main">> /\ r[6] = <<f, "tun">>
  BY Z3 DEF RuleSteps
<1> HIDE DEF r
<1>2. \A i \in 1..6 : i = 1 \/ i = 2 \/ i = 3 \/ i = 4 \/ i = 5 \/ i = 6
  OBVIOUS
<1>3. \A i \in 1..6 : r[i][1] = f /\ Rank(r[i][2]) = i
  BY <1>1, <1>2 DEF Rank
<1>4. InOrder(r)
  BY <1>1, <1>3 DEF InOrder, Earlier
<1>5. \A k \in {"table", "marked", "unreach", "node", "main", "tun"} : Holds(r, <<f, k>>)
  BY <1>1 DEF Holds
<1> QED BY <1>1, <1>3, <1>4, <1>5 DEF r

\* Two groups that hold entries hold them together.
LEMMA JoinHolds ==
    ASSUME NEW S, NEW s \in Seq(S), NEW t \in Seq(S), NEW e
    PROVE  Holds(s, e) \/ Holds(t, e) => Holds(s \o t, e)
<1> DEFINE u == s \o t
<1>u. /\ \A i \in 1..Len(s) : u[i] = s[i] /\ i \in 1..Len(u)
      /\ \A i \in 1..Len(t) : u[Len(s) + i] = t[i] /\ Len(s) + i \in 1..Len(u)
  BY JoinFacts
<1> HIDE DEF u
<1>1. Holds(s, e) => Holds(u, e)
  BY <1>u DEF Holds
<1>2. Holds(t, e) => Holds(u, e)
  BY <1>u DEF Holds
<1> QED BY <1>1, <1>2 DEF u

\* The plan of tunRoutesUp on Linux.
LEMMA LinuxSteps ==
    ASSUME tnos = "linux", tnv6 \in BOOLEAN
    PROVE  /\ Steps \in Seq(OurEntries) /\ InOrder(Steps)
           /\ \A f \in Fam, k \in Kinds : Wanted(f, k) => Holds(Steps, <<f, k>>)
<1> DEFINE R == {"table", "marked", "unreach", "node", "main", "tun"}
<1>1. OurKinds = R
  BY DEF OurKinds
<1>2. Steps = IF tnv6 THEN RuleSteps("4") \o RuleSteps("6") ELSE RuleSteps("4")
  BY DEF Steps
<1>3. \A f \in TunFamilies, k \in R : <<f, k>> \in OurEntries
  BY <1>1 DEF OurEntries
<1>4. "4" \in TunFamilies /\ (tnv6 => "6" \in TunFamilies)
  BY DEF TunFamilies, Fam
<1>5. /\ RuleSteps("4") \in Seq(OurEntries) /\ InOrder(RuleSteps("4"))
      /\ \A i \in 1..Len(RuleSteps("4")) : RuleSteps("4")[i][1] = "4"
      /\ \A k \in R : Holds(RuleSteps("4"), <<"4", k>>)
  BY <1>3, <1>4, RuleStepsFacts
<1>6. CASE tnv6
  <2> DEFINE a == RuleSteps("4")
             b == RuleSteps("6")
  <2>1. /\ b \in Seq(OurEntries) /\ InOrder(b)
        /\ \A i \in 1..Len(b) : b[i][1] = "6"
        /\ \A k \in R : Holds(b, <<"6", k>>)
    BY <1>6, <1>3, <1>4, RuleStepsFacts
  <2>2. a \in Seq(OurEntries) /\ InOrder(a) /\ (\A i \in 1..Len(a) : a[i][1] = "4") /\ \A k \in R : Holds(a, <<"4", k>>)
    BY <1>5
  <2>s. Steps = a \o b
    BY <1>2, <1>6
  <2> HIDE DEF a, b, R
  <2>3. \A i \in 1..Len(a), j \in 1..Len(b) : Earlier(a[i], b[j])
    BY <2>1, <2>2 DEF Earlier
  <2>4. a \o b \in Seq(OurEntries) /\ InOrder(a \o b)
    BY <2>1, <2>2, <2>3, JoinFacts, JoinKeepsOrder
  <2>5. ASSUME NEW f \in Fam, NEW k \in Kinds, Wanted(f, k) PROVE Holds(a \o b, <<f, k>>)
    <3>1. k \in R /\ (f = "4" \/ f = "6")
      BY <2>5, <1>1 DEF Wanted, Fam
    <3>2. Holds(a, <<f, k>>) \/ Holds(b, <<f, k>>)
      BY <3>1, <2>1, <2>2
    <3> QED BY <3>2, <2>1, <2>2, JoinHolds
  <2> QED BY <2>4, <2>5, <2>s
<1>7. CASE ~tnv6
  <2>1. Steps = RuleSteps("4")
    BY <1>2, <1>7
  <2>2. \A f \in Fam, k \in Kinds : Wanted(f, k) => f = "4" /\ k \in R
    BY <1>1, <1>7 DEF Wanted, TunFamilies
  <2> QED BY <1>5, <2>1, <2>2
<1> QED BY <1>6, <1>7

\* The plan of tunRoutesUp on macOS and Windows.
LEMMA RouteSteps ==
    ASSUME tnos \in {"darwin", "windows"}, tnv6 \in BOOLEAN, tndefault \in SUBSET Fam
    PROVE  /\ Steps \in Seq(OurEntries) /\ InOrder(Steps)
           /\ \A f \in Fam, k \in Kinds : Wanted(f, k) => Holds(Steps, <<f, k>>)
<1> DEFINE D == TunFamilies \intersect tndefault
           n == OfKind("node", D)
           c == OfKind("scoped", D)
           h == OfKind("half", TunFamilies)
           nc == n \o c
<1>1. OurKinds = {"node", "scoped", "half"}
  BY DEF OurKinds
<1>2. TunFamilies \in SUBSET Fam /\ D \in SUBSET TunFamilies
  BY DEF TunFamilies, Fam
<1>3. \A f \in TunFamilies, k \in {"node", "scoped", "half"} : <<f, k>> \in OurEntries
  BY <1>1 DEF OurEntries
<1>n. /\ n \in Seq(OurEntries) /\ InOrder(n) /\ (\A i \in 1..Len(n) : n[i][2] = "node")
      /\ \A f \in D : Holds(n, <<f, "node">>)
  BY <1>2, <1>3, OfKindFacts
<1>c. /\ c \in Seq(OurEntries) /\ InOrder(c) /\ (\A i \in 1..Len(c) : c[i][2] = "scoped")
      /\ \A f \in D : Holds(c, <<f, "scoped">>)
  BY <1>2, <1>3, OfKindFacts
<1>h. /\ h \in Seq(OurEntries) /\ InOrder(h) /\ (\A i \in 1..Len(h) : h[i][2] = "half")
      /\ \A f \in TunFamilies : Holds(h, <<f, "half">>)
  BY <1>2, <1>3, OfKindFacts
<1>s. Steps = IF tnos = "darwin" THEN nc \o h ELSE n \o h
  BY DEF Steps, Routed
<1>w. \A f \in Fam, k \in Kinds : Wanted(f, k) =>
        \/ k = "node" /\ f \in D
        \/ k = "half" /\ f \in TunFamilies
        \/ k = "scoped" /\ f \in D /\ tnos = "darwin"
  BY <1>1 DEF Wanted
<1>r. Rank("node") = 4 /\ Rank("scoped") = 5 /\ Rank("half") = 6
  BY DEF Rank
<1> HIDE DEF n, c, h, D
<1>4. /\ \A i \in 1..Len(n), j \in 1..Len(c) : Earlier(n[i], c[j])
      /\ \A i \in 1..Len(n), j \in 1..Len(h) : Earlier(n[i], h[j])
      /\ \A i \in 1..Len(c), j \in 1..Len(h) : Earlier(c[i], h[j])
  BY <1>n, <1>c, <1>h, <1>r DEF Earlier
<1>5. CASE tnos = "windows"
  <2>1. n \o h \in Seq(OurEntries) /\ InOrder(n \o h)
    BY <1>n, <1>h, <1>4, JoinFacts, JoinKeepsOrder
  <2>2. ASSUME NEW f \in Fam, NEW k \in Kinds, Wanted(f, k) PROVE Holds(n \o h, <<f, k>>)
    <3>1. Holds(n, <<f, k>>) \/ Holds(h, <<f, k>>)
      BY <2>2, <1>5, <1>w, <1>n, <1>h
    <3> QED BY <3>1, <1>n, <1>h, JoinHolds
  <2> QED BY <2>1, <2>2, <1>5, <1>s
<1>6. CASE tnos = "darwin"
  <2>1. nc \in Seq(OurEntries) /\ InOrder(nc)
    BY <1>n, <1>c, <1>4, JoinFacts, JoinKeepsOrder
  <2>2. \A i \in 1..Len(nc), j \in 1..Len(h) : Earlier(nc[i], h[j])
    BY <1>n, <1>c, <1>4, JoinFacts
  <2>3. ASSUME NEW f \in Fam, NEW k \in Kinds, Wanted(f, k) PROVE Holds(nc \o h, <<f, k>>)
    <3>1. \/ Holds(n, <<f, k>>)
          \/ Holds(c, <<f, k>>)
          \/ Holds(h, <<f, k>>)
      BY <2>3, <1>w, <1>n, <1>c, <1>h
    <3>2. \/ Holds(nc, <<f, k>>)
          \/ Holds(h, <<f, k>>)
      BY <3>1, <1>n, <1>c, JoinHolds
    <3> HIDE DEF nc
    <3> QED BY <3>2, <2>1, <1>h, JoinHolds
  <2> HIDE DEF nc
  <2>4. nc \o h \in Seq(OurEntries) /\ InOrder(nc \o h)
    BY <2>1, <2>2, <1>h, JoinFacts, JoinKeepsOrder
  <2> QED BY <2>3, <2>4, <1>6, <1>s
<1> QED BY <1>5, <1>6
-----------------------------------------------------------------------------
\* What is on the device is recorded for the undo.
LEMMA DeviceRecorded ==
    ASSUME TunInv, NEW e \in OnDevice, tnkernel[e] # "none"
    PROVE  tnkernel[e] = "ours" /\ Holds(tnundo, e)
<1>1. e \in Entries /\ e[2] \in {"table", "half"}
  BY DEF OnDevice, Entries, Kinds
<1>2. tnkernel[e] = "ours"
  BY <1>1 DEF TunInv, TunTypes, Owned
<1>3. e \notin tnleft
  BY DEF TunInv, TunTypes
<1> QED BY <1>1, <1>2, <1>3 DEF TunInv, Owned

\* A service that is idle or down has nothing on the device.
LEMMA DeviceEmpty ==
    ASSUME TunInv, tnphase \in {"idle", "down"}
    PROVE  \A e \in OnDevice : tnkernel[e] = "none"
<1>1. tnundo = <<>>
  BY DEF TunInv, TunTypes
<1>2. \A e : ~Holds(tnundo, e)
  BY <1>1 DEF Holds
<1> QED BY <1>2, DeviceRecorded

\* Entries by name.
LEMMA EntryFacts ==
    /\ \A f \in Fam, k \in Kinds : <<f, k>> \in Entries /\ <<f, k>>[1] = f /\ <<f, k>>[2] = k
    /\ \A f \in Fam : <<f, "table">> \in OnDevice /\ <<f, "half">> \in OnDevice
    /\ \A e \in OnDevice : e \in Entries /\ e[2] \in {"table", "half"}
    /\ \A e \in Entries : e[1] \in Fam /\ e[2] \in Kinds /\ e = <<e[1], e[2]>>
    /\ {"table", "marked", "unreach", "alien", "node", "main", "tun", "scoped", "half"} = Kinds
  BY DEF Entries, OnDevice, Kinds, Fam

\* A step that touches neither the kernel nor the plan.
LEMMA StaysKeeps ==
    ASSUME TunInv, UNCHANGED <<tnos, tnv6, tndefault, tnkernel, tnphase, tntodo, tnundo, tnskipped, tnleft>>
    PROVE  Owned' /\ Sequenced' /\ Planned' /\ Guarded' /\ BootClearsRules'
<1>1. OurEntries' = OurEntries /\ TunFamilies' = TunFamilies /\ OurKinds' = OurKinds
  BY DEF OurEntries, TunFamilies, OurKinds
<1>2. Owned'
  BY <1>1 DEF TunInv, Owned
<1>3. Sequenced'
  BY DEF TunInv, Sequenced
<1>4. Planned'
  BY <1>1 DEF TunInv, Planned, Wanted, TunAt
<1>5. Guarded'
  BY DEF TunInv, Guarded, TunAt
<1>6. BootClearsRules'
  BY DEF TunInv, BootClearsRules, Foreign
<1> QED BY <1>2, <1>3, <1>4, <1>5, <1>6

LEMMA TunInitInv == TunInit => TunInv
<1>1. SUFFICES ASSUME TunInit PROVE TunInv
  OBVIOUS
<1>2. TunTypes
  <2>1. tnkernel \in [Entries -> {"none", "ours", "user"}] /\ tndns \in [Services -> {"user", "loop"}]
    BY <1>1 DEF TunInit
  <2>2. tnundo \in Seq(OurEntries) /\ tntodo \in Seq(OurEntries)
    BY <1>1 DEF TunInit
  <2>3. tnskipped \in SUBSET Entries /\ tnleft \in SUBSET (Entries \ OnDevice)
    BY <1>1 DEF TunInit
  <2> QED BY <1>1, <2>1, <2>2, <2>3 DEF TunInit, TunTypes
<1>3. DnsKept
  BY <1>1 DEF TunInit, DnsKept, Resolvers
<1>4. Owned
  BY <1>1 DEF TunInit, Owned
<1>5. Sequenced
  BY <1>1 DEF TunInit, Sequenced, InOrder
<1>6. Planned
  BY <1>1 DEF TunInit, Planned
<1>7. Guarded
  BY <1>1, EntryFacts DEF TunInit, Guarded, TunAt
<1>8. BootClearsRules
  BY <1>1, EntryFacts DEF TunInit, BootClearsRules
<1> QED BY <1>2, <1>3, <1>4, <1>5, <1>6, <1>7, <1>8 DEF TunInv

LEMMA DeviceUpKeeps == ASSUME TunInv, DeviceUp PROVE TunInv'
<1>1. TunTypes'
  <2>1. OurEntries' = OurEntries
    BY DEF DeviceUp, Machine, OurEntries, TunFamilies, OurKinds
  <2> QED BY <2>1 DEF TunInv, DeviceUp, Machine, TunTypes
<1>2. DnsKept'
  BY DEF TunInv, DeviceUp, DnsKept
<1>3. Owned' /\ Sequenced' /\ Planned' /\ Guarded' /\ BootClearsRules'
  BY StaysKeeps DEF DeviceUp, Machine
<1> QED BY <1>1, <1>2, <1>3 DEF TunInv

\* A restored service has the resolvers that were saved or the ones it had.
LEMMA RestoredTypes ==
    ASSUME NEW m, Resolvers(m), tndns \in [Services -> {"user", "loop"}], NEW d \in SomeRestored(m)
    PROVE  d \in [Services -> {"user", "loop"}]
  BY DEF SomeRestored, Resolvers

LEMMA SetDNSKeeps == ASSUME TunInv, NEW s \in Services, SetDNS(s) PROVE TunInv'
<1>1. TunTypes'
  <2>1. OurEntries' = OurEntries
    BY DEF SetDNS, Machine, OurEntries, TunFamilies, OurKinds
  <2>2. tndns' \in [Services -> {"user", "loop"}]
    BY DEF TunInv, TunTypes, SetDNS
  <2> QED BY <2>1, <2>2 DEF TunInv, SetDNS, Machine, TunTypes
<1>2. DnsKept'
  <2>1. Resolvers(tndnsmem')
    BY DEF TunInv, TunTypes, SetDNS, DnsKept, Resolvers
  <2>2. tnfile # NoFile => Resolvers(tnfile)
    BY DEF TunInv, DnsKept
  <2>3. tnfile' = tnfile
    BY DEF SetDNS
  <2> QED BY <2>1, <2>2, <2>3 DEF DnsKept
<1>3. Owned' /\ Sequenced' /\ Planned' /\ Guarded' /\ BootClearsRules'
  BY StaysKeeps DEF SetDNS, Machine
<1> QED BY <1>1, <1>2, <1>3 DEF TunInv

LEMMA UndoDNSKeeps == ASSUME TunInv, UndoDNS PROVE TunInv'
<1>1. TunTypes'
  <2>1. OurEntries' = OurEntries
    BY DEF UndoDNS, Machine, OurEntries, TunFamilies, OurKinds
  <2>2. tndns' \in [Services -> {"user", "loop"}]
    BY RestoredTypes DEF TunInv, TunTypes, DnsKept, UndoDNS
  <2> QED BY <2>1, <2>2 DEF TunInv, UndoDNS, Machine, TunTypes
<1>2. DnsKept'
  BY DEF UndoDNS, DnsKept, Resolvers
<1>3. Owned' /\ Sequenced' /\ Planned' /\ Guarded' /\ BootClearsRules'
  BY StaysKeeps DEF UndoDNS, Machine
<1> QED BY <1>1, <1>2, <1>3 DEF TunInv

\* Without a change of the machine our entries are the same.
LEMMA SameMachine ==
    ASSUME UNCHANGED <<tnos, tnv6, tndefault>>
    PROVE  OurEntries' = OurEntries /\ TunFamilies' = TunFamilies /\ OurKinds' = OurKinds
  BY DEF OurEntries, TunFamilies, OurKinds

LEMMA RoutesUpKeeps == ASSUME TunInv, RoutesUp PROVE TunInv'
<1>0. UNCHANGED <<tnos, tnv6, tndefault, tnkernel, tntodo, tnundo, tnskipped, tnleft, tndns, tndev, tndnsmem>> /\ tnphase = "up" /\ tnphase' = "on" /\ tntodo = <<>>
  BY DEF RoutesUp, Machine
<1>s. OurEntries' = OurEntries /\ TunFamilies' = TunFamilies /\ OurKinds' = OurKinds
  BY <1>0, SameMachine
<1>1. TunTypes'
  BY <1>0, <1>s DEF TunInv, TunTypes
<1>2. DnsKept'
  BY <1>0 DEF TunInv, RoutesUp, DnsKept
<1>3. Owned'
  BY <1>0, <1>s DEF TunInv, Owned
<1>4. Sequenced'
  BY <1>0 DEF TunInv, Sequenced
<1>5. Planned'
  BY <1>0 DEF Planned
<1>6. Guarded'
  BY <1>0 DEF TunInv, Guarded, TunAt
<1>7. BootClearsRules'
  BY <1>0 DEF BootClearsRules
<1> QED BY <1>1, <1>2, <1>3, <1>4, <1>5, <1>6, <1>7 DEF TunInv

LEMMA StopKeeps == ASSUME TunInv, stopTunCore PROVE TunInv'
<1>0. UNCHANGED <<tnos, tnv6, tndefault, tnkernel, tnundo, tnskipped, tnleft, tndns, tndev, tndnsmem, tnfile>> /\ tnphase \in {"up", "on"} /\ tnphase' = "undo" /\ tntodo' = <<>>
  BY DEF stopTunCore, Machine
<1>s. OurEntries' = OurEntries /\ TunFamilies' = TunFamilies /\ OurKinds' = OurKinds
  BY <1>0, SameMachine
<1>1. TunTypes'
  BY <1>0, <1>s DEF TunInv, TunTypes
<1>2. DnsKept'
  BY <1>0 DEF TunInv, DnsKept
<1>3. Owned'
  BY <1>0, <1>s DEF TunInv, Owned
<1>4. Sequenced'
  <2>1. InOrder(tntodo') /\ Len(tntodo') = 0
    BY <1>0, Nothing
  <2>2. InOrder(tnundo')
    BY <1>0 DEF TunInv, Sequenced
  <2> QED BY <2>1, <2>2 DEF Sequenced
<1>5. Planned'
  BY <1>0 DEF Planned
<1>6. Guarded'
  BY <1>0 DEF TunInv, Guarded, TunAt
<1>7. BootClearsRules'
  BY <1>0 DEF BootClearsRules
<1> QED BY <1>1, <1>2, <1>3, <1>4, <1>5, <1>6, <1>7 DEF TunInv

LEMMA UndoDoneKeeps == ASSUME TunInv, UndoDone PROVE TunInv'
<1>0. UNCHANGED <<tnos, tnv6, tndefault, tnkernel, tntodo, tnundo, tnskipped, tnleft, tndns, tndev, tndnsmem, tnfile>> /\ tnphase = "undo" /\ tnphase' = "idle" /\ tnundo = <<>>
  BY DEF UndoDone, Machine
<1>s. OurEntries' = OurEntries /\ TunFamilies' = TunFamilies /\ OurKinds' = OurKinds
  BY <1>0, SameMachine
<1>h. \A e : ~Holds(tnundo, e)
  BY <1>0 DEF Holds
<1>d. ASSUME NEW f \in Fam PROVE ~TunAt(f, "half")
  <2>1. <<f, "half">> \in OnDevice
    BY EntryFacts
  <2> QED BY <1>h, <2>1, DeviceRecorded DEF TunAt
<1>1. TunTypes'
  BY <1>0, <1>s DEF TunInv, TunTypes
<1>2. DnsKept'
  BY <1>0 DEF TunInv, DnsKept
<1>3. Owned'
  BY <1>0, <1>s DEF TunInv, Owned
<1>4. Sequenced'
  BY <1>0 DEF TunInv, Sequenced
<1>5. Planned'
  BY <1>0 DEF Planned
<1>6. Guarded'
  BY <1>0, <1>d DEF TunInv, Guarded, TunAt
<1>7. BootClearsRules'
  <2>1. tnos = "linux" => \A f \in Fam, k \in Kinds : tnkernel[<<f, k>>] # "ours"
    BY <1>0, <1>h, EntryFacts DEF TunInv, Owned
  <2> QED BY <1>0, <2>1 DEF BootClearsRules
<1> QED BY <1>1, <1>2, <1>3, <1>4, <1>5, <1>6, <1>7 DEF TunInv

\* While nothing is recorded for the undo, the entries of ours are what a kill left.
LEMMA IdleOwned ==
    ASSUME OurEntries' = OurEntries, tnundo' = <<>>, tnphase' \in {"down", "idle"},
           \A e \in Entries : tnkernel'[e] = "user" => e[2] \in {"node", "alien"},
           \A e \in Entries : tnkernel'[e] = "ours" => e \in OurEntries,
           \A e \in Entries : tnkernel'[e] = "ours" => e \in tnleft'
    PROVE  Owned'
<1>1. \A e \in Entries : tnkernel'[e] = "ours" => e \in OurEntries'
  OBVIOUS
<1>2. \A e \in Entries : tnkernel'[e] = "ours" => e \in tnleft' \/ Holds(tnundo', e)
  OBVIOUS
<1>3. tnphase' \notin {"up", "on", "undo"}
  OBVIOUS
<1>4. \A i \in 1..Len(tnundo') : tnkernel'[tnundo'[i]] # "user"
  <2>1. 1..Len(tnundo') = {}
    BY Nothing
  <2> QED BY <2>1
<1> QED BY <1>1, <1>2, <1>3, <1>4 DEF Owned

LEMMA UserAddsKeeps == ASSUME TunInv, NEW e \in Entries, UserAdds(e) PROVE TunInv'
<1>0. /\ UNCHANGED <<tnos, tnv6, tndefault, tntodo, tnundo, tnskipped, tnleft, tndns, tndev, tndnsmem, tnfile, tnphase>>
      /\ tnphase = "idle" /\ tnkernel[e] = "none" /\ e[2] \in {"node", "alien"}
      /\ tnkernel' = [tnkernel EXCEPT ![e] = "user"]
  BY DEF UserAdds, Machine
<1>s. OurEntries' = OurEntries /\ TunFamilies' = TunFamilies /\ OurKinds' = OurKinds
  BY <1>0, SameMachine
<1>k. /\ tnkernel' \in [Entries -> {"none", "ours", "user"}] /\ tnkernel'[e] = "user"
      /\ \A d \in Entries : d # e => tnkernel'[d] = tnkernel[d]
  BY <1>0 DEF TunInv, TunTypes
<1>u. tnundo = <<>>
  BY <1>0 DEF TunInv, TunTypes
<1>1. TunTypes'
  BY <1>0, <1>s, <1>k DEF TunInv, TunTypes
<1>2. DnsKept'
  BY <1>0 DEF TunInv, DnsKept
<1>3. Owned'
  <2>1. \A d \in Entries : tnkernel'[d] = "user" => d[2] \in {"node", "alien"}
    BY <1>0, <1>k DEF TunInv, Owned
  <2>2. \A d \in Entries : tnkernel'[d] = "ours" => tnkernel[d] = "ours"
    BY <1>k
  <2>3. \A d \in Entries : ~Holds(tnundo, d)
    BY <1>u, Nothing
  <2>4. \A d \in Entries : tnkernel'[d] = "ours" => d \in OurEntries
    BY <2>2 DEF TunInv, Owned
  <2>5. \A d \in Entries : tnkernel'[d] = "ours" => d \in tnleft'
    BY <1>0, <2>2, <2>3 DEF TunInv, Owned
  <2>6. tnundo' = <<>> /\ tnphase' \in {"down", "idle"}
    BY <1>0, <1>u
  <2> QED BY <1>s, <2>1, <2>4, <2>5, <2>6, IdleOwned
<1>4. Sequenced'
  BY <1>0 DEF TunInv, Sequenced
<1>5. Planned'
  BY <1>0 DEF Planned
<1>6. Guarded'
  <2>1. \A f \in Fam, k \in Kinds : (TunAt(f, k) => TunAt(f, k)') /\ (k \notin {"node", "alien"} => (TunAt(f, k) <=> TunAt(f, k)'))
    <3>1. SUFFICES ASSUME NEW f \in Fam, NEW k \in Kinds
                   PROVE  (TunAt(f, k) => TunAt(f, k)') /\ (k \notin {"node", "alien"} => (TunAt(f, k) <=> TunAt(f, k)'))
      OBVIOUS
    <3>2. <<f, k>> \in Entries /\ <<f, k>>[2] = k
      BY EntryFacts
    <3>3. CASE <<f, k>> = e
      <4>1. k \in {"node", "alien"} /\ tnkernel'[<<f, k>>] = "user"
        BY <1>0, <1>k, <3>2, <3>3
      <4> QED BY <4>1 DEF TunAt
    <3>4. CASE <<f, k>> # e
      <4>1. tnkernel'[<<f, k>>] = tnkernel[<<f, k>>]
        BY <1>k, <3>2, <3>4
      <4> QED BY <4>1 DEF TunAt
    <3> QED BY <3>3, <3>4
  <2>2. "unreach" \in Kinds /\ "marked" \in Kinds /\ "tun" \in Kinds /\ "table" \in Kinds /\ "node" \in Kinds /\ "half" \in Kinds /\ "scoped" \in Kinds
    BY DEF Kinds
  <2> QED BY <1>0, <2>1, <2>2 DEF TunInv, Guarded
<1>7. BootClearsRules'
  <2>1. \A f \in Fam : Foreign(f) => Foreign(f)'
    BY <1>0, <1>k, EntryFacts DEF Foreign
  <2>2. \A f \in Fam, k \in Kinds : tnkernel[<<f, k>>] # "ours" => tnkernel'[<<f, k>>] # "ours"
    BY <1>k, EntryFacts
  <2> QED BY <1>0, <2>1, <2>2 DEF TunInv, BootClearsRules
<1> QED BY <1>1, <1>2, <1>3, <1>4, <1>5, <1>6, <1>7 DEF TunInv

\* What leaves with the device: an entry not on it stays as it was.
LEMMA WipeFacts ==
    ASSUME TunTypes, NEW gone, tnkernel' = Wipe(gone)
    PROVE  /\ tnkernel' \in [Entries -> {"none", "ours", "user"}]
           /\ \A e \in Entries : e \in gone => tnkernel'[e] = "none"
           /\ \A e \in Entries : e \notin gone => tnkernel'[e] = tnkernel[e]
           /\ \A e \in Entries : tnkernel'[e] # "none" => tnkernel'[e] = tnkernel[e]
  BY DEF TunTypes, Wipe

\* Without its device the kernel holds what it held, but for the device's routes.
LEMMA DeviceWiped ==
    ASSUME TunInv, tnkernel' = Wipe(OnDevice), UNCHANGED <<tnos, tnv6, tndefault>>
    PROVE  /\ \A f \in Fam : ~TunAt(f, "table")' /\ ~TunAt(f, "half")'
           /\ \A f \in Fam, k \in Kinds : k \notin {"table", "half"} => (TunAt(f, k)' <=> TunAt(f, k))
<1>1. TunTypes
  BY DEF TunInv
<1>2. ASSUME NEW f \in Fam PROVE ~TunAt(f, "table")' /\ ~TunAt(f, "half")'
  <2>1. <<f, "table">> \in OnDevice /\ <<f, "half">> \in OnDevice /\ <<f, "table">> \in Entries /\ <<f, "half">> \in Entries
    BY EntryFacts
  <2> QED BY <1>1, <2>1, WipeFacts DEF TunAt
<1>3. ASSUME NEW f \in Fam, NEW k \in Kinds, k \notin {"table", "half"} PROVE TunAt(f, k)' <=> TunAt(f, k)
  <2>1. <<f, k>> \in Entries /\ <<f, k>>[2] = k /\ <<f, k>> \notin OnDevice
    BY <1>3, EntryFacts
  <2> QED BY <1>1, <2>1, WipeFacts DEF TunAt
<1> QED BY <1>2, <1>3

LEMMA DeviceGoneKeeps == ASSUME TunInv, DeviceGone PROVE TunInv'
<1>0. /\ UNCHANGED <<tnos, tnv6, tndefault, tntodo, tnundo, tnskipped, tnleft, tndns, tndnsmem, tnfile, tnphase>>
      /\ tnkernel' = Wipe(OnDevice) /\ tndev' = FALSE
  BY DEF DeviceGone, Machine
<1>s. OurEntries' = OurEntries /\ TunFamilies' = TunFamilies /\ OurKinds' = OurKinds
  BY <1>0, SameMachine
<1>k. /\ tnkernel' \in [Entries -> {"none", "ours", "user"}]
      /\ \A e \in Entries : tnkernel'[e] # "none" => tnkernel'[e] = tnkernel[e]
  BY <1>0, WipeFacts DEF TunInv
<1>t. /\ \A f \in Fam : ~TunAt(f, "table")' /\ ~TunAt(f, "half")'
      /\ \A f \in Fam, k \in Kinds : k \notin {"table", "half"} => (TunAt(f, k)' <=> TunAt(f, k))
  BY <1>0, DeviceWiped
<1>n. {"unreach", "marked", "tun", "table", "node", "half", "scoped"} \subseteq Kinds
  BY DEF Kinds
<1>1. TunTypes'
  BY <1>0, <1>s, <1>k DEF TunInv, TunTypes
<1>2. DnsKept'
  BY <1>0 DEF TunInv, DnsKept
<1>3. Owned'
  <2>1. \A e \in Entries : /\ tnkernel'[e] = "user" => tnkernel[e] = "user"
                           /\ tnkernel'[e] = "ours" => tnkernel[e] = "ours"
    BY <1>k
  <2>2. \A i \in 1..Len(tnundo) : tnundo[i] \in Entries
    BY EntryFacts DEF TunInv, TunTypes, OurEntries, TunFamilies, OurKinds, Entries, Fam, Kinds
  <2> QED BY <1>0, <1>s, <2>1, <2>2 DEF TunInv, Owned
<1>4. Sequenced'
  BY <1>0 DEF TunInv, Sequenced
<1>5. Planned'
  <2>1. SUFFICES ASSUME tnphase = "up", NEW f \in Fam, NEW k \in Kinds, Wanted(f, k)
                 PROVE  Holds(tntodo, <<f, k>>) \/ TunAt(f, k)' \/ <<f, k>> \in tnskipped \/ <<f, k>> \in OnDevice
    BY <1>0, <1>s DEF Planned, Wanted
  <2>2. Holds(tntodo, <<f, k>>) \/ TunAt(f, k) \/ <<f, k>> \in tnskipped \/ <<f, k>> \in OnDevice
    BY <2>1 DEF TunInv, Planned
  <2>3. k \in {"table", "half"} => <<f, k>> \in OnDevice
    BY EntryFacts
  <2> QED BY <2>2, <2>3, <1>t
<1>6. Guarded'
  BY <1>0, <1>t, <1>n DEF TunInv, Guarded
<1>7. BootClearsRules'
  <2>1. \A f \in Fam : Foreign(f) => Foreign(f)'
    <3>1. ASSUME NEW f \in Fam PROVE Foreign(f) => Foreign(f)'
      <4>1. <<f, "alien">> \in Entries /\ <<f, "alien">>[2] = "alien" /\ <<f, "alien">> \notin OnDevice
        <5>1. "alien" \in Kinds
          BY DEF Kinds
        <5>2. <<f, "alien">> \in Entries /\ <<f, "alien">>[2] = "alien"
          BY <5>1, EntryFacts
        <5>3. <<f, "alien">> \notin OnDevice
          BY DEF OnDevice
        <5> QED BY <5>2, <5>3
      <4> QED BY <4>1, <1>0, WipeFacts DEF Foreign, TunInv
    <3> QED BY <3>1
  <2>2. \A f \in Fam, k \in Kinds : tnkernel[<<f, k>>] # "ours" => tnkernel'[<<f, k>>] # "ours"
    BY <1>k, EntryFacts
  <2> QED BY <1>0, <2>1, <2>2 DEF TunInv, BootClearsRules
<1> QED BY <1>1, <1>2, <1>3, <1>4, <1>5, <1>6, <1>7 DEF TunInv

LEMMA TunKilledKeeps == ASSUME TunInv, TunKilled PROVE TunInv'
<1>0. /\ UNCHANGED <<tnos, tnv6, tndefault, tnskipped, tndns, tnfile>>
      /\ tnkernel' = Wipe(OnDevice) /\ tndev' = FALSE /\ tnphase' = "down"
      /\ tntodo' = <<>> /\ tnundo' = <<>> /\ tndnsmem' = <<>>
      /\ tnleft' = tnleft \union {e \in Entries \ OnDevice : tnkernel[e] = "ours"}
  BY DEF TunKilled
<1>s. OurEntries' = OurEntries /\ TunFamilies' = TunFamilies /\ OurKinds' = OurKinds
  BY <1>0, SameMachine
<1>k. /\ tnkernel' \in [Entries -> {"none", "ours", "user"}]
      /\ \A e \in Entries : e \in OnDevice => tnkernel'[e] = "none"
      /\ \A e \in Entries : tnkernel'[e] # "none" => tnkernel'[e] = tnkernel[e]
  BY <1>0, WipeFacts DEF TunInv
<1>t. /\ \A f \in Fam : ~TunAt(f, "table")' /\ ~TunAt(f, "half")'
      /\ \A f \in Fam, k \in Kinds : k \notin {"table", "half"} => (TunAt(f, k)' <=> TunAt(f, k))
  BY <1>0, DeviceWiped
<1>n. {"unreach", "marked", "tun", "table", "node", "half", "scoped"} \subseteq Kinds
  BY DEF Kinds
<1>1. TunTypes'
  <2>1. tnleft' \in SUBSET (Entries \ OnDevice)
    BY <1>0 DEF TunInv, TunTypes
  <2>2. tnundo' \in Seq(OurEntries) /\ tntodo' \in Seq(OurEntries)
    BY <1>0
  <2> QED BY <1>0, <1>s, <1>k, <2>1, <2>2 DEF TunInv, TunTypes
<1>2. DnsKept'
  BY <1>0 DEF TunInv, DnsKept, Resolvers
<1>3. Owned'
  <2>1. \A e \in Entries : /\ tnkernel'[e] = "user" => tnkernel[e] = "user"
                           /\ tnkernel'[e] = "ours" => tnkernel[e] = "ours" /\ e \in tnleft'
    BY <1>0, <1>k
  <2>3. \A e \in Entries : tnkernel'[e] = "user" => e[2] \in {"node", "alien"}
    BY <2>1 DEF TunInv, Owned
  <2>4. \A e \in Entries : tnkernel'[e] = "ours" => e \in OurEntries
    BY <2>1 DEF TunInv, Owned
  <2>5. \A e \in Entries : tnkernel'[e] = "ours" => e \in tnleft'
    BY <2>1
  <2>6. tnundo' = <<>> /\ tnphase' \in {"down", "idle"}
    BY <1>0
  <2> QED BY <1>s, <2>3, <2>4, <2>5, <2>6, IdleOwned
<1>4. Sequenced'
  BY <1>0 DEF Sequenced, InOrder
<1>5. Planned'
  BY <1>0 DEF Planned
<1>6. Guarded'
  BY <1>0, <1>t, <1>n DEF TunInv, Guarded
<1>7. BootClearsRules'
  BY <1>0 DEF BootClearsRules
<1> QED BY <1>1, <1>2, <1>3, <1>4, <1>5, <1>6, <1>7 DEF TunInv

\* What a shortened or lengthened sequence holds.
LEMMA TailHolds ==
    ASSUME NEW S, NEW s \in Seq(S), s # <<>>, NEW x
    PROVE  Holds(s, x) => x = Head(s) \/ Holds(Tail(s), x)
  BY TailFacts DEF Holds
LEMMA FrontHolds ==
    ASSUME NEW S, NEW s \in Seq(S), s # <<>>, NEW x
    PROVE  Holds(s, x) => x = Last(s) \/ Holds(Front(s), x)
  BY FrontFacts DEF Holds
LEMMA PushHolds ==
    ASSUME NEW S, NEW s \in Seq(S), NEW x \in S, NEW y
    PROVE  Holds(Append(s, x), x) /\ (Holds(s, y) => Holds(Append(s, x), y))
<1> DEFINE t == Append(s, x)
<1>1. /\ \A i \in 1..Len(s) : t[i] = s[i] /\ i \in 1..Len(t)
      /\ t[Len(s) + 1] = x /\ Len(s) + 1 \in 1..Len(t)
  BY PushFacts
<1> HIDE DEF t
<1>2. Holds(t, x) /\ (Holds(s, y) => Holds(t, y))
  BY <1>1 DEF Holds
<1> QED BY <1>2 DEF t

\* Our entries are entries.
LEMMA OursAreEntries ==
    ASSUME tnos \in {"linux", "darwin", "windows"}, tnv6 \in BOOLEAN, NEW e \in OurEntries
    PROVE  e \in Entries /\ e[1] \in TunFamilies /\ e[1] \in Fam /\ e[2] \in OurKinds /\ e[2] \in Kinds /\ e = <<e[1], e[2]>>
<1>1. TunFamilies \subseteq Fam /\ OurKinds \subseteq Kinds
  BY DEF TunFamilies, OurKinds, Fam, Kinds
<1>2. e[1] \in TunFamilies /\ e[2] \in OurKinds /\ e = <<e[1], e[2]>>
  BY DEF OurEntries
<1> QED BY <1>1, <1>2 DEF Entries

\* The next command of a family is the first of those to come, and none of the
\* recorded ones comes after it.
LEMMA HeadFirst ==
    ASSUME TunInv, tntodo # <<>>, NEW f \in Fam, NEW k \in Kinds, Head(tntodo) = <<f, k>>, NEW m \in Kinds
    PROVE  /\ Rank(m) < Rank(k) => ~Holds(tntodo, <<f, m>>)
           /\ Rank(k) < Rank(m) => ~Holds(tnundo, <<f, m>>)
<1>1. Len(tntodo) \in Nat /\ 1 \in 1..Len(tntodo) /\ tntodo[1] = <<f, k>>
  BY TailFacts DEF TunInv, TunTypes
<1>2. Rank(m) \in Nat /\ Rank(k) \in Nat
  BY RankNat
<1>3. ASSUME Rank(m) < Rank(k), Holds(tntodo, <<f, m>>) PROVE FALSE
  <2>1. PICK i \in 1..Len(tntodo) : tntodo[i] = <<f, m>>
    BY <1>3 DEF Holds
  <2>2. CASE i = 1
    BY <2>1, <2>2, <1>1, <1>2, <1>3
  <2>3. CASE 1 < i
    <3>1. Earlier(<<f, k>>, <<f, m>>)
      BY <2>1, <2>3, <1>1 DEF TunInv, Sequenced, InOrder
    <3>2. Rank(k) < Rank(m)
      BY <3>1 DEF Earlier
    <3> QED BY <3>2, <1>2, <1>3
  <2> QED BY <2>1, <2>2, <2>3, <1>1
<1>4. ASSUME Rank(k) < Rank(m), Holds(tnundo, <<f, m>>) PROVE FALSE
  <2>1. PICK i \in 1..Len(tnundo) : tnundo[i] = <<f, m>>
    BY <1>4 DEF Holds
  <2>2. Earlier(<<f, m>>, <<f, k>>)
    BY <2>1, <1>1 DEF TunInv, Sequenced
  <2>3. Rank(m) < Rank(k)
    BY <2>2 DEF Earlier
  <2> QED BY <2>3, <1>2, <1>4
<1> QED BY <1>3, <1>4

LEMMA AddFailsKeeps == ASSUME TunInv, AddFails PROVE TunInv'
<1>0. /\ UNCHANGED <<tnos, tnv6, tndefault, tnkernel, tnundo, tnleft, tndns, tndev, tndnsmem, tnfile>>
      /\ tnphase = "up" /\ tntodo # <<>>
  BY DEF AddFails, Machine
<1>s. OurEntries' = OurEntries /\ TunFamilies' = TunFamilies /\ OurKinds' = OurKinds
  BY <1>0, SameMachine
<1>d. DnsKept'
  BY <1>0 DEF TunInv, DnsKept
<1>1. CASE Essential(Head(tntodo))
  <2>0. tnphase' = "undo" /\ tntodo' = <<>> /\ tnskipped' = tnskipped
    BY <1>1 DEF AddFails
  <2>1. TunTypes'
    BY <1>0, <1>s, <2>0, SMTT(30) DEF TunInv, TunTypes
  <2>3. Owned'
    BY <1>0, <1>s, <2>0 DEF TunInv, Owned
  <2>4. Sequenced'
    BY <1>0, <2>0 DEF TunInv, Sequenced, InOrder
  <2>5. Planned'
    BY <2>0 DEF Planned
  <2>6. Guarded'
    BY <1>0, <2>0 DEF TunInv, Guarded, TunAt
  <2>7. BootClearsRules'
    BY <2>0 DEF BootClearsRules
  <2> QED BY <1>d, <2>1, <2>3, <2>4, <2>5, <2>6, <2>7 DEF TunInv
<1>2. CASE ~Essential(Head(tntodo))
  <2> DEFINE e == Head(tntodo)
  <2>0. tnphase' = "up" /\ tntodo' = Tail(tntodo) /\ tnskipped' = tnskipped \union {e}
    BY <1>2 DEF AddFails
  <2>t. tntodo \in Seq(OurEntries) /\ tnundo \in Seq(OurEntries)
    BY DEF TunInv, TunTypes
  <2>e. e \in OurEntries /\ Tail(tntodo) \in Seq(OurEntries)
    BY <1>0, <2>t, TailFacts
  <2>w. e \in Entries
    BY <2>e, OursAreEntries DEF TunInv, TunTypes
  <2>l. tnos # "linux"
    BY <1>2 DEF Essential
  <2> HIDE DEF e
  <2>1. TunTypes'
    <3>1. tnskipped' \in SUBSET Entries
      BY <2>0, <2>w DEF TunInv, TunTypes
    <3>2. tntodo' \in Seq(OurEntries)
      BY <2>0, <2>e
    <3> QED BY <1>0, <1>s, <2>0, <3>1, <3>2 DEF TunInv, TunTypes
  <2>3. Owned'
    BY <1>0, <1>s, <2>0 DEF TunInv, Owned
  <2>4. Sequenced'
    <3>1. InOrder(Tail(tntodo)) /\ \A i \in 1..Len(tnundo), j \in 1..Len(Tail(tntodo)) : Earlier(tnundo[i], Tail(tntodo)[j])
      BY <1>0, <2>t, AdvanceKeeps DEF TunInv, Sequenced
    <3> QED BY <1>0, <2>0, <3>1 DEF TunInv, Sequenced
  <2>5. Planned'
    <3>1. SUFFICES ASSUME NEW f \in Fam, NEW k \in Kinds, Wanted(f, k)
                   PROVE  Holds(tntodo', <<f, k>>) \/ TunAt(f, k) \/ <<f, k>> \in tnskipped' \/ <<f, k>> \in OnDevice
      BY <1>0, <1>s DEF Planned, Wanted, TunAt
    <3>2. Holds(tntodo, <<f, k>>) \/ TunAt(f, k) \/ <<f, k>> \in tnskipped \/ <<f, k>> \in OnDevice
      BY <1>0, <3>1 DEF TunInv, Planned
    <3>3. Holds(tntodo, <<f, k>>) => <<f, k>> = e \/ Holds(Tail(tntodo), <<f, k>>)
      BY <1>0, <2>t, TailHolds DEF e
    <3> QED BY <2>0, <3>2, <3>3
  <2>6. Guarded'
    BY <1>0, <2>0, <2>l DEF TunInv, Guarded, TunAt
  <2>7. BootClearsRules'
    BY <2>0 DEF BootClearsRules
  <2> QED BY <1>d, <2>1, <2>3, <2>4, <2>5, <2>6, <2>7 DEF TunInv
<1> QED BY <1>1, <1>2

\* Linux: a rule of ours that is there during setup, run and undo is recorded.
LEMMA RuleRecorded ==
    ASSUME TunInv, tnos = "linux", tnphase \in {"up", "on", "undo"}, NEW f \in Fam, NEW k \in Kinds,
           k \notin {"node", "alien"}, TunAt(f, k)
    PROVE  Holds(tnundo, <<f, k>>)
<1>1. <<f, k>> \in Entries /\ <<f, k>>[2] = k
  BY EntryFacts
<1>2. tnkernel[<<f, k>>] = "ours"
  BY <1>1 DEF TunInv, TunTypes, Owned, TunAt
<1> QED BY <1>1, <1>2 DEF TunInv, Owned

\* Ranks by name.
LEMMA Ranks ==
    /\ Rank("table") = 1 /\ Rank("marked") = 2 /\ Rank("unreach") = 3 /\ Rank("node") = 4
    /\ Rank("main") = 5 /\ Rank("scoped") = 5 /\ Rank("tun") = 6 /\ Rank("half") = 6
    /\ {"unreach", "marked", "tun", "table", "node", "half", "scoped", "main"} \subseteq Kinds
  BY DEF Rank, Kinds

\* A command runs only after the ones that must come before it: what it needs
\* is there or was skipped.
LEMMA NeedsAreThere ==
    ASSUME TunInv, tnphase = "up", tntodo # <<>>, NEW f \in Fam, NEW k \in Kinds, Head(tntodo) = <<f, k>>,
           NEW m \in Kinds, m \notin {"table", "half"}, Rank(m) < Rank(k), Wanted(f, m)
    PROVE  TunAt(f, m) \/ <<f, m>> \in tnskipped
<1>1. ~Holds(tntodo, <<f, m>>)
  BY HeadFirst
<1>2. <<f, m>> \notin OnDevice
  BY EntryFacts
<1> QED BY <1>1, <1>2 DEF TunInv, Planned

LEMMA AddEntryGuarded ==
    ASSUME TunInv, tnphase = "up", tntodo # <<>>, UNCHANGED <<tnos, tnv6, tndefault, tnskipped, tnphase>>,
           tnkernel' = [tnkernel EXCEPT ![Head(tntodo)] = "ours"]
    PROVE  Guarded'
<1> DEFINE g == Head(tntodo)[1]
           h == Head(tntodo)[2]
<1>t. tnos \in {"linux", "darwin", "windows"} /\ tnv6 \in BOOLEAN /\ tndefault \in SUBSET Fam /\ tntodo \in Seq(OurEntries)
      /\ tnkernel \in [Entries -> {"none", "ours", "user"}]
  BY DEF TunInv, TunTypes
<1>e. Head(tntodo) \in OurEntries
  BY <1>t, TailFacts
<1>g. Head(tntodo) = <<g, h>> /\ g \in Fam /\ h \in Kinds /\ g \in TunFamilies /\ h \in OurKinds /\ <<g, h>> \in Entries
  BY <1>t, <1>e, OursAreEntries
<1> HIDE DEF g, h
<1>k. ASSUME NEW f \in Fam, NEW k \in Kinds
      PROVE  (TunAt(f, k) => TunAt(f, k)') /\ (TunAt(f, k)' => TunAt(f, k) \/ (f = g /\ k = h)) /\ (f = g /\ k = h => TunAt(f, k)')
  <2>1. <<f, k>> \in Entries
    BY EntryFacts
  <2>2. tnkernel'[<<g, h>>] = "ours" /\ \A d \in Entries : d # <<g, h>> => tnkernel'[d] = tnkernel[d]
    BY <1>t, <1>g
  <2>3. CASE f = g /\ k = h
    BY <2>2, <2>3 DEF TunAt
  <2>4. CASE ~(f = g /\ k = h)
    <3>1. <<f, k>> # <<g, h>>
      BY <2>4
    <3> QED BY <2>1, <2>2, <2>4, <3>1 DEF TunAt
  <2> QED BY <2>3, <2>4
<1>n. {"unreach", "marked", "tun", "table", "node", "half", "scoped", "main"} \subseteq Kinds
  BY Ranks
<1>l. ASSUME tnos = "linux", NEW f \in Fam
      PROVE  /\ TunAt(f, "unreach")' => TunAt(f, "marked")'
             /\ TunAt(f, "tun")' /\ TunAt(f, "table")' => TunAt(f, "unreach")' /\ TunAt(f, "node")'
             /\ \A k \in Kinds : <<f, k>> \notin tnskipped
  <2>0. /\ TunAt(f, "unreach") => TunAt(f, "marked")
        /\ TunAt(f, "tun") /\ TunAt(f, "table") => TunAt(f, "unreach") /\ TunAt(f, "node")
        /\ \A k \in Kinds : <<f, k>> \notin tnskipped
    BY <1>l DEF TunInv, Guarded
  <2>w. f = g => Wanted(f, "marked") /\ Wanted(f, "unreach") /\ Wanted(f, "node")
    BY <1>l, <1>g DEF Wanted, OurKinds
  <2>1. f = g /\ h = "unreach" => TunAt(f, "marked")
    <3>1. ASSUME f = g, h = "unreach" PROVE TunAt(f, "marked")
      <4>1. Head(tntodo) = <<f, "unreach">> /\ Rank("marked") < Rank("unreach") /\ "marked" \in Kinds /\ "unreach" \in Kinds
        BY <3>1, <1>g, Ranks
      <4>2. TunAt(f, "marked") \/ <<f, "marked">> \in tnskipped
        BY <4>1, <2>w, <3>1, NeedsAreThere
      <4> QED BY <4>1, <4>2, <2>0
    <3> QED BY <3>1
  <2>2. f = g /\ h = "tun" => TunAt(f, "unreach") /\ TunAt(f, "node")
    <3>1. ASSUME f = g, h = "tun" PROVE TunAt(f, "unreach") /\ TunAt(f, "node")
      <4>1. /\ Head(tntodo) = <<f, "tun">> /\ Rank("unreach") < Rank("tun") /\ Rank("node") < Rank("tun")
            /\ "tun" \in Kinds /\ "unreach" \in Kinds /\ "node" \in Kinds
        BY <3>1, <1>g, Ranks
      <4>2. TunAt(f, "unreach") \/ <<f, "unreach">> \in tnskipped
        BY <4>1, <2>w, <3>1, NeedsAreThere
      <4>3. TunAt(f, "node") \/ <<f, "node">> \in tnskipped
        BY <4>1, <2>w, <3>1, NeedsAreThere
      <4> QED BY <4>1, <4>2, <4>3, <2>0
    <3> QED BY <3>1
  <2>3. f = g /\ h = "table" => ~TunAt(f, "tun")
    <3>1. ASSUME f = g, h = "table", TunAt(f, "tun") PROVE FALSE
      <4>1. Head(tntodo) = <<f, "table">> /\ Rank("table") < Rank("tun") /\ "table" \in Kinds /\ "tun" \in Kinds
        BY <3>1, <1>g, Ranks
      <4>2. Holds(tnundo, <<f, "tun">>)
        BY <1>l, <3>1, <4>1, RuleRecorded
      <4> QED BY <4>1, <4>2, HeadFirst
    <3> QED BY <3>1
  <2>4. TunAt(f, "unreach")' => TunAt(f, "marked")'
    BY <2>0, <2>1, <1>k, <1>n
  <2>5. TunAt(f, "tun")' /\ TunAt(f, "table")' => TunAt(f, "unreach")' /\ TunAt(f, "node")'
    <3>1. ASSUME TunAt(f, "tun")', TunAt(f, "table")' PROVE TunAt(f, "unreach") /\ TunAt(f, "node")
      <4>1. TunAt(f, "tun") \/ (f = g /\ h = "tun")
        BY <3>1, <1>k, <1>n
      <4>2. TunAt(f, "table") \/ (f = g /\ h = "table")
        BY <3>1, <1>k, <1>n
      <4> QED BY <4>1, <4>2, <2>0, <2>2, <2>3
    <3> QED BY <3>1, <1>k, <1>n
  <2> QED BY <2>0, <2>4, <2>5
<1>r. ASSUME tnos # "linux", NEW f \in Fam, f \in tndefault, TunAt(f, "half")'
      PROVE  /\ tnos = "darwin" => TunAt(f, "scoped")' \/ <<f, "scoped">> \in tnskipped
             /\ TunAt(f, "node")' \/ <<f, "node">> \in tnskipped
  <2>1. CASE TunAt(f, "half")
    BY <2>1, <1>r, <1>k, <1>n DEF TunInv, Guarded
  <2>2. CASE f = g /\ h = "half"
    <3>1. Wanted(f, "node") /\ (tnos = "darwin" => Wanted(f, "scoped"))
      BY <1>r, <1>g, <2>2 DEF Wanted, OurKinds
    <3>2. TunAt(f, "node") \/ <<f, "node">> \in tnskipped
      BY <3>1, <2>2, <1>g, <1>n, NeedsAreThere, Ranks
    <3>3. tnos = "darwin" => TunAt(f, "scoped") \/ <<f, "scoped">> \in tnskipped
      BY <3>1, <2>2, <1>g, <1>n, NeedsAreThere, Ranks, SMTT(30)
    <3> QED BY <3>2, <3>3, <1>k, <1>n
  <2> QED BY <2>1, <2>2, <1>r, <1>k, <1>n
<1> QED BY <1>l, <1>r DEF Guarded

LEMMA AddEntryKeeps == ASSUME TunInv, AddEntry PROVE TunInv'
<1> DEFINE e == Head(tntodo)
<1>0. /\ UNCHANGED <<tnos, tnv6, tndefault, tnskipped, tnleft, tndns, tndev, tndnsmem, tnfile, tnphase>>
      /\ tnphase = "up" /\ tntodo # <<>> /\ tntodo' = Tail(tntodo)
  BY DEF AddEntry, Machine
<1>c. \/ UNCHANGED <<tnkernel, tnundo>> /\ tnkernel[e] # "none"
      \/ tnkernel' = [tnkernel EXCEPT ![e] = "ours"] /\ tnundo' = Append(tnundo, e)
  BY DEF AddEntry
<1>s. OurEntries' = OurEntries /\ TunFamilies' = TunFamilies /\ OurKinds' = OurKinds
  BY <1>0, SameMachine
<1>t. tntodo \in Seq(OurEntries) /\ tnundo \in Seq(OurEntries) /\ tnkernel \in [Entries -> {"none", "ours", "user"}]
  BY DEF TunInv, TunTypes
<1>e. e \in OurEntries /\ Tail(tntodo) \in Seq(OurEntries)
  BY <1>0, <1>t, TailFacts
<1>w. e \in Entries
  BY <1>e, OursAreEntries DEF TunInv, TunTypes
<1>d. DnsKept'
  BY <1>0 DEF TunInv, DnsKept
<1>b. BootClearsRules'
  BY <1>0 DEF BootClearsRules
<1>o. /\ InOrder(Tail(tntodo)) /\ InOrder(Append(tnundo, e))
      /\ \A i \in 1..Len(tnundo), j \in 1..Len(Tail(tntodo)) : Earlier(tnundo[i], Tail(tntodo)[j])
      /\ \A i \in 1..Len(Append(tnundo, e)), j \in 1..Len(Tail(tntodo)) : Earlier(Append(tnundo, e)[i], Tail(tntodo)[j])
  BY <1>0, <1>t, AdvanceKeeps DEF TunInv, Sequenced
<1>h. \A x : Holds(tntodo, x) => x = e \/ Holds(Tail(tntodo), x)
  BY <1>0, <1>t, TailHolds
<1>1. CASE UNCHANGED <<tnkernel, tnundo>> /\ tnkernel[e] # "none"
  <2>1. TunTypes'
    BY <1>0, <1>s, <1>1, <1>e DEF TunInv, TunTypes
  <2>3. Owned'
    BY <1>0, <1>s, <1>1 DEF TunInv, Owned
  <2>4. Sequenced'
    BY <1>0, <1>1, <1>o DEF TunInv, Sequenced
  <2>5. Planned'
    <3>1. SUFFICES ASSUME NEW f \in Fam, NEW k \in Kinds, Wanted(f, k)
                   PROVE  Holds(tntodo', <<f, k>>) \/ TunAt(f, k) \/ <<f, k>> \in tnskipped \/ <<f, k>> \in OnDevice
      BY <1>0, <1>1, <1>s DEF Planned, Wanted, TunAt
    <3>2. Holds(tntodo, <<f, k>>) \/ TunAt(f, k) \/ <<f, k>> \in tnskipped \/ <<f, k>> \in OnDevice
      BY <1>0, <3>1 DEF TunInv, Planned
    <3>3. <<f, k>> = e => TunAt(f, k)
      BY <1>1 DEF TunAt
    <3> QED BY <1>0, <1>h, <3>2, <3>3
  <2>6. Guarded'
    BY <1>0, <1>1 DEF TunInv, Guarded, TunAt
  <2> QED BY <1>d, <1>b, <2>1, <2>3, <2>4, <2>5, <2>6 DEF TunInv
<1>2. CASE tnkernel' = [tnkernel EXCEPT ![e] = "ours"] /\ tnundo' = Append(tnundo, e)
  <2>k. /\ tnkernel' \in [Entries -> {"none", "ours", "user"}] /\ tnkernel'[e] = "ours"
        /\ \A d \in Entries : d # e => tnkernel'[d] = tnkernel[d]
    BY <1>2, <1>t, <1>w
  <2>u. tnundo' \in Seq(OurEntries) /\ Holds(tnundo', e) /\ \A x : Holds(tnundo, x) => Holds(tnundo', x)
    BY <1>2, <1>t, <1>e, PushFacts, PushHolds
  <2>6. Guarded'
    BY <1>0, <1>2, AddEntryGuarded
  <2>4. Sequenced'
    BY <1>0, <1>2, <1>o DEF TunInv, Sequenced
  <2>v. \A i \in 1..Len(tnundo') : tnundo'[i] = e \/ \E j \in 1..Len(tnundo) : tnundo'[i] = tnundo[j]
    BY <1>2, <1>t, <1>e, PushFacts, SMTT(30)
  <2>x. \A i \in 1..Len(tnundo) : tnundo[i] \in OurEntries
    BY <1>t
  <2>y. \A i \in 1..Len(tnundo) : tnundo[i] \in Entries
    BY <2>x, OursAreEntries DEF TunInv, TunTypes
  <2> HIDE DEF e
  <2>1. TunTypes'
    BY <1>0, <1>s, <1>e, <2>k, <2>u DEF TunInv, TunTypes
  <2>3. Owned'
    <3>1. \A d \in Entries : tnkernel'[d] = "user" => d[2] \in {"node", "alien"}
      BY <2>k DEF TunInv, Owned
    <3>2. \A d \in Entries : tnkernel'[d] = "ours" => d \in OurEntries
      BY <2>k, <1>e DEF TunInv, Owned
    <3>3. \A d \in Entries : tnkernel'[d] = "ours" => d \in tnleft \/ Holds(tnundo', d)
      BY <2>k, <2>u DEF TunInv, Owned
    <3>4. tnos = "linux" => \A d \in Entries : tnkernel'[d] = "ours" => Holds(tnundo', d)
      BY <1>0, <2>k, <2>u DEF TunInv, Owned
    <3>5. \A i \in 1..Len(tnundo') : tnkernel'[tnundo'[i]] # "user"
      <4>1. \A j \in 1..Len(tnundo) : tnkernel[tnundo[j]] # "user"
        BY DEF TunInv, Owned
      <4>2. \A j \in 1..Len(tnundo) : tnkernel'[tnundo[j]] # "user"
        BY <4>1, <2>k, <2>y
      <4>3. ASSUME NEW i \in 1..Len(tnundo') PROVE tnkernel'[tnundo'[i]] # "user"
        <5>1. CASE tnundo'[i] = e
          <6>1. "ours" # "user"
            OBVIOUS
          <6> QED BY <5>1, <6>1, <2>k
        <5>2. CASE \E j \in 1..Len(tnundo) : tnundo'[i] = tnundo[j]
          <6>1. PICK j \in 1..Len(tnundo) : tnundo'[i] = tnundo[j]
            BY <5>2
          <6>2. tnkernel'[tnundo[j]] # "user"
            BY <4>2
          <6> QED BY <6>1, <6>2
        <5> QED BY <4>3, <5>1, <5>2, <2>v
      <4> QED BY <4>3
    <3> QED BY <1>0, <1>s, <3>1, <3>2, <3>3, <3>4, <3>5 DEF Owned
  <2>5. Planned'
    <3>1. SUFFICES ASSUME NEW f \in Fam, NEW k \in Kinds, Wanted(f, k)
                   PROVE  Holds(tntodo', <<f, k>>) \/ TunAt(f, k)' \/ <<f, k>> \in tnskipped \/ <<f, k>> \in OnDevice
      BY <1>0, <1>s DEF Planned, Wanted
    <3>2. Holds(tntodo, <<f, k>>) \/ TunAt(f, k) \/ <<f, k>> \in tnskipped \/ <<f, k>> \in OnDevice
      BY <1>0, <3>1 DEF TunInv, Planned
    <3>3. <<f, k>> \in Entries
      BY EntryFacts
    <3>4. (<<f, k>> = e \/ TunAt(f, k)) => TunAt(f, k)'
      BY <2>k, <3>3 DEF TunAt
    <3> QED BY <1>0, <1>h, <3>2, <3>4
  <2> QED BY <1>d, <1>b, <2>1, <2>3, <2>4, <2>5, <2>6 DEF TunInv
<1> QED BY <1>c, <1>1, <1>2

\* A shorter record is still in order.
LEMMA ShorterInOrder ==
    ASSUME NEW S, NEW s \in Seq(S), s # <<>>, InOrder(s)
    PROVE  InOrder(Front(s)) /\ InOrder(Tail(s))
<1> DEFINE a == Front(s)
           b == Tail(s)
<1>1. \A i \in 1..Len(a) : a[i] = s[i] /\ i \in 1..Len(s)
  BY FrontFacts
<1>2. Len(s) \in Nat /\ Len(b) = Len(s) - 1 /\ \A i \in 1..Len(b) : b[i] = s[i + 1] /\ i + 1 \in 1..Len(s)
  BY TailFacts
<1>l. Len(a) \in Nat
  BY FrontFacts
<1> HIDE DEF a, b
<1>3. InOrder(a)
  BY <1>1, <1>l DEF InOrder
<1>4. InOrder(b)
  <2>1. SUFFICES ASSUME NEW i \in 1..Len(b), NEW j \in 1..Len(b), i < j PROVE Earlier(b[i], b[j])
    BY DEF InOrder
  <2>2. i + 1 \in 1..Len(s) /\ j + 1 \in 1..Len(s) /\ i + 1 < j + 1 /\ b[i] = s[i + 1] /\ b[j] = s[j + 1]
    BY <1>2, <2>1
  <2> QED BY <2>2 DEF InOrder
<1> QED BY <1>3, <1>4 DEF a, b

\* Taking the first or the last entry away.
LEMMA ShorterFacts ==
    ASSUME NEW S, NEW s \in Seq(S), s # <<>>, NEW x, NEW t,
           (x = Head(s) /\ t = Tail(s)) \/ (x = Last(s) /\ t = Front(s))
    PROVE  /\ x \in S /\ t \in Seq(S)
           /\ \A y : Holds(s, y) => y = x \/ Holds(t, y)
           /\ \A i \in 1..Len(t) : \E j \in 1..Len(s) : t[i] = s[j]
<1>1. CASE x = Head(s) /\ t = Tail(s)
  <2>1. x \in S /\ t \in Seq(S)
    BY <1>1, TailFacts
  <2>2. \A y : Holds(s, y) => y = x \/ Holds(t, y)
    BY <1>1, TailHolds
  <2>3. \A i \in 1..Len(t) : t[i] = s[i + 1] /\ i + 1 \in 1..Len(s)
    BY <1>1, TailFacts
  <2> QED BY <2>1, <2>2, <2>3
<1>2. CASE x = Last(s) /\ t = Front(s)
  <2>1. x \in S /\ t \in Seq(S)
    BY <1>2, FrontFacts
  <2>2. \A y : Holds(s, y) => y = x \/ Holds(t, y)
    BY <1>2, FrontHolds
  <2>3. \A i \in 1..Len(t) : t[i] = s[i] /\ i \in 1..Len(s)
    BY <1>2, FrontFacts
  <2> QED BY <2>1, <2>2, <2>3
<1> QED BY <1>1, <1>2

\* The last command of the record is the last of its family.
LEMMA LastIsLast ==
    ASSUME TunInv, tnundo # <<>>, NEW f \in Fam, NEW k \in Kinds, Last(tnundo) = <<f, k>>, NEW m \in Kinds, Rank(k) < Rank(m)
    PROVE  ~Holds(tnundo, <<f, m>>)
<1>1. Len(tnundo) \in Nat /\ Len(tnundo) \in 1..Len(tnundo) /\ tnundo[Len(tnundo)] = <<f, k>>
  BY FrontFacts DEF TunInv, TunTypes
<1>2. Rank(m) \in Nat /\ Rank(k) \in Nat
  BY RankNat
<1>3. SUFFICES ASSUME NEW i \in 1..Len(tnundo), tnundo[i] = <<f, m>> PROVE FALSE
  BY DEF Holds
<1>4. CASE i = Len(tnundo)
  BY <1>1, <1>2, <1>3, <1>4
<1>5. CASE i < Len(tnundo)
  <2>1. Earlier(<<f, m>>, <<f, k>>)
    BY <1>1, <1>3, <1>5 DEF TunInv, Sequenced, InOrder
  <2>2. Rank(m) < Rank(k)
    BY <2>1 DEF Earlier
  <2> QED BY <2>2, <1>2
<1> QED BY <1>1, <1>4, <1>5

LEMMA UndoEntryGuarded ==
    ASSUME TunInv, tnphase = "undo", tnundo # <<>>, UNCHANGED <<tnos, tnv6, tndefault, tnskipped, tnphase>>,
           tnkernel' = [tnkernel EXCEPT ![Undone] = "none"]
    PROVE  Guarded'
<1> DEFINE g == Undone[1]
           h == Undone[2]
<1>t. tnos \in {"linux", "darwin", "windows"} /\ tnv6 \in BOOLEAN /\ tndefault \in SUBSET Fam /\ tnundo \in Seq(OurEntries)
      /\ tnkernel \in [Entries -> {"none", "ours", "user"}]
  BY DEF TunInv, TunTypes
<1>e. Undone \in OurEntries
  BY <1>t, TailFacts, FrontFacts, SMTT(30) DEF Undone
<1>g. Undone = <<g, h>> /\ g \in Fam /\ h \in Kinds /\ <<g, h>> \in Entries
  BY <1>t, <1>e, OursAreEntries
<1>u. tnos # "windows" => Last(tnundo) = <<g, h>>
  BY <1>g DEF Undone, Last
<1> HIDE DEF g, h
<1>k. ASSUME NEW f \in Fam, NEW k \in Kinds
      PROVE  (TunAt(f, k)' => TunAt(f, k)) /\ (TunAt(f, k) => TunAt(f, k)' \/ (f = g /\ k = h))
  <2>1. <<f, k>> \in Entries
    BY EntryFacts
  <2>2. tnkernel'[<<g, h>>] = "none" /\ \A d \in Entries : d # <<g, h>> => tnkernel'[d] = tnkernel[d]
    BY <1>t, <1>g
  <2>3. CASE f = g /\ k = h
    BY <2>2, <2>3 DEF TunAt
  <2>4. CASE ~(f = g /\ k = h)
    <3>1. <<f, k>> # <<g, h>>
      BY <2>4
    <3> QED BY <2>1, <2>2, <2>4, <3>1 DEF TunAt
  <2> QED BY <2>3, <2>4
<1>n. {"unreach", "marked", "tun", "table", "node", "half", "scoped", "main"} \subseteq Kinds
  BY Ranks
<1>z. \A f \in Fam, m \in Kinds : tnos # "windows" /\ f = g /\ Rank(h) < Rank(m) => ~Holds(tnundo, <<f, m>>)
  BY <1>u, <1>g, LastIsLast
<1>l. ASSUME tnos = "linux", NEW f \in Fam
      PROVE  /\ TunAt(f, "unreach")' => TunAt(f, "marked")'
             /\ TunAt(f, "tun")' /\ TunAt(f, "table")' => TunAt(f, "unreach")' /\ TunAt(f, "node")'
             /\ \A k \in Kinds : <<f, k>> \notin tnskipped
  <2>0. /\ TunAt(f, "unreach") => TunAt(f, "marked")
        /\ TunAt(f, "tun") /\ TunAt(f, "table") => TunAt(f, "unreach") /\ TunAt(f, "node")
        /\ \A k \in Kinds : <<f, k>> \notin tnskipped
    BY <1>l DEF TunInv, Guarded
  <2>1. f = g /\ h = "marked" => ~TunAt(f, "unreach")
    <3>1. Rank("marked") < Rank("unreach") /\ "unreach" \in Kinds
      BY Ranks
    <3> QED BY <3>1, <1>l, <1>z, RuleRecorded
  <2>2. f = g /\ h \in {"unreach", "node"} => ~TunAt(f, "tun")
    <3>1. Rank("unreach") < Rank("tun") /\ Rank("node") < Rank("tun") /\ "tun" \in Kinds
      BY Ranks, SMTT(30)
    <3> QED BY <3>1, <1>l, <1>z, RuleRecorded
  <2>4. TunAt(f, "unreach")' => TunAt(f, "marked")'
    BY <2>0, <2>1, <1>k, <1>n
  <2>5. TunAt(f, "tun")' /\ TunAt(f, "table")' => TunAt(f, "unreach")' /\ TunAt(f, "node")'
    BY <2>0, <2>2, <1>k, <1>n
  <2> QED BY <2>0, <2>4, <2>5
<1>r. ASSUME tnos = "darwin", NEW f \in Fam, f \in tndefault, TunAt(f, "half")'
      PROVE  /\ TunAt(f, "scoped")' \/ <<f, "scoped">> \in tnskipped
             /\ TunAt(f, "node")' \/ <<f, "node">> \in tnskipped
  <2>1. TunAt(f, "half")
    BY <1>r, <1>k, <1>n
  <2>2. <<f, "half">> \in OnDevice
    BY EntryFacts
  <2>3. Holds(tnundo, <<f, "half">>)
    BY <2>1, <2>2, DeviceRecorded DEF TunAt
  <2>4. Rank("scoped") < Rank("half") /\ Rank("node") < Rank("half") /\ "half" \in Kinds
    BY Ranks
  <2>5. ~(f = g /\ h \in {"scoped", "node"})
    BY <1>r, <2>3, <2>4, <1>z
  <2> QED BY <1>r, <2>1, <2>5, <1>k, <1>n DEF TunInv, Guarded
<1> QED BY <1>l, <1>r, <1>t DEF Guarded

LEMMA UndoEntryKeeps == ASSUME TunInv, UndoEntry PROVE TunInv'
<1> DEFINE e == Undone
<1>0. /\ UNCHANGED <<tnos, tnv6, tndefault, tnskipped, tnleft, tndns, tndev, tndnsmem, tnfile, tnphase, tntodo>>
      /\ tnphase = "undo" /\ tnundo # <<>> /\ tnkernel' = [tnkernel EXCEPT ![e] = "none"]
  BY DEF UndoEntry, Machine
<1>c. \/ e = Head(tnundo) /\ tnundo' = Tail(tnundo)
      \/ e = Last(tnundo) /\ tnundo' = Front(tnundo)
  BY DEF UndoEntry, Undone, Last, Front
<1>s. OurEntries' = OurEntries /\ TunFamilies' = TunFamilies /\ OurKinds' = OurKinds
  BY <1>0, SameMachine
<1>t. tnundo \in Seq(OurEntries) /\ tnkernel \in [Entries -> {"none", "ours", "user"}] /\ tntodo = <<>>
  BY <1>0 DEF TunInv, TunTypes
<1>z. /\ e \in OurEntries /\ tnundo' \in Seq(OurEntries)
      /\ \A y : Holds(tnundo, y) => y = e \/ Holds(tnundo', y)
      /\ \A i \in 1..Len(tnundo') : \E j \in 1..Len(tnundo) : tnundo'[i] = tnundo[j]
  BY <1>0, <1>c, <1>t, ShorterFacts, SMTT(30)
<1>w. e \in Entries
  BY <1>z, OursAreEntries DEF TunInv, TunTypes
<1>o. InOrder(tnundo')
  BY <1>0, <1>c, <1>t, ShorterInOrder DEF TunInv, Sequenced
<1>x. \A i \in 1..Len(tnundo) : tnundo[i] \in OurEntries
  BY <1>t
<1>y. \A i \in 1..Len(tnundo) : tnundo[i] \in Entries
  BY <1>x, OursAreEntries DEF TunInv, TunTypes
<1>k. /\ tnkernel' \in [Entries -> {"none", "ours", "user"}] /\ tnkernel'[e] = "none"
      /\ \A d \in Entries : d # e => tnkernel'[d] = tnkernel[d]
  BY <1>0, <1>t, <1>w
<1>6. Guarded'
  BY <1>0, UndoEntryGuarded
<1> HIDE DEF e
<1>1. TunTypes'
  BY <1>0, <1>s, <1>z, <1>k DEF TunInv, TunTypes
<1>2. DnsKept'
  BY <1>0 DEF TunInv, DnsKept
<1>3. Owned'
  <2>1. \A d \in Entries : tnkernel'[d] # "none" => d # e /\ tnkernel'[d] = tnkernel[d]
    BY <1>k
  <2>2. \A d \in Entries : tnkernel'[d] = "user" => d[2] \in {"node", "alien"}
    BY <2>1 DEF TunInv, Owned
  <2>3. \A d \in Entries : tnkernel'[d] = "ours" => d \in OurEntries
    BY <2>1 DEF TunInv, Owned
  <2>4. \A d \in Entries : tnkernel'[d] = "ours" => d \in tnleft \/ Holds(tnundo', d)
    BY <2>1, <1>z DEF TunInv, Owned
  <2>5. tnos = "linux" => \A d \in Entries : tnkernel'[d] = "ours" => Holds(tnundo', d)
    BY <1>0, <2>1, <1>z DEF TunInv, Owned
  <2>6. \A i \in 1..Len(tnundo') : tnkernel'[tnundo'[i]] # "user"
    <3>1. \A j \in 1..Len(tnundo) : tnkernel[tnundo[j]] # "user"
      BY DEF TunInv, Owned
    <3>2. \A j \in 1..Len(tnundo) : tnkernel'[tnundo[j]] # "user"
      BY <3>1, <2>1, <1>y
    <3> QED BY <3>2, <1>z
  <2> QED BY <1>0, <1>s, <2>2, <2>3, <2>4, <2>5, <2>6 DEF Owned
<1>4. Sequenced'
  BY <1>0, <1>t, <1>o, SMTT(30) DEF Sequenced, InOrder
<1>5. Planned'
  BY <1>0 DEF Planned
<1>7. BootClearsRules'
  BY <1>0 DEF BootClearsRules
<1> QED BY <1>1, <1>2, <1>3, <1>4, <1>5, <1>6, <1>7 DEF TunInv

\* The cleanup asks each family on its own.
LEMMA ConflictsOf ==
    ASSUME NEW f \in Fam
    PROVE  Conflicts(<<f>>) = {<<f, k>> : k \in Cleared(f)}
  BY SMTT(30) DEF Conflicts

\* On Linux tunCleanupResidual removes our rules of both families: all of them
\* where no foreign rule stands, the two first otherwise.
LEMMA CleanupClears ==
    ASSUME TunInv, tnos = "linux", tunCleanupResidual
    PROVE  /\ tnkernel' \in [Entries -> {"none", "ours", "user"}]
           /\ \A e \in Entries : tnkernel'[e] # "none" => tnkernel'[e] = tnkernel[e]
           /\ \A f \in Fam : ~TunAt(f, "marked")' /\ ~TunAt(f, "unreach")'
           /\ \A f \in Fam : tnkernel'[<<f, "alien">>] = tnkernel[<<f, "alien">>]
           /\ \A f \in Fam : ~Foreign(f) => \A k \in Kinds : tnkernel'[<<f, k>>] # "ours"
           /\ UNCHANGED <<tndns, tnfile>>
<1> DEFINE gone == Conflicts(<<"4">>) \union Conflicts(<<"6">>)
<1>1. tnkernel' = Wipe(gone) /\ UNCHANGED <<tndns, tnfile>>
  BY DEF tunCleanupResidual
<1>2. "4" \in Fam /\ "6" \in Fam /\ \A f \in Fam : f = "4" \/ f = "6"
  BY DEF Fam
<1>3. gone = {<<"4", k>> : k \in Cleared("4")} \union {<<"6", k>> : k \in Cleared("6")}
  BY <1>2, ConflictsOf
<1>4. \A f \in Fam, k \in Kinds : <<f, k>> \in gone <=> k \in Cleared(f)
  BY <1>2, <1>3
<1>5. /\ tnkernel' \in [Entries -> {"none", "ours", "user"}]
      /\ \A e \in Entries : e \in gone => tnkernel'[e] = "none"
      /\ \A e \in Entries : e \notin gone => tnkernel'[e] = tnkernel[e]
      /\ \A e \in Entries : tnkernel'[e] # "none" => tnkernel'[e] = tnkernel[e]
  BY <1>1, WipeFacts DEF TunInv
<1> HIDE DEF gone
<1>6. ASSUME NEW f \in Fam PROVE ~TunAt(f, "marked")' /\ ~TunAt(f, "unreach")'
  <2>1. <<f, "marked">> \in Entries /\ <<f, "unreach">> \in Entries /\ <<f, "marked">> \in gone /\ <<f, "unreach">> \in gone
    BY <1>4, EntryFacts DEF Kinds, Cleared
  <2> QED BY <2>1, <1>5 DEF TunAt
<1>7. ASSUME NEW f \in Fam PROVE tnkernel'[<<f, "alien">>] = tnkernel[<<f, "alien">>]
  <2>1. <<f, "alien">> \in Entries /\ <<f, "alien">> \notin gone
    BY <1>4, EntryFacts DEF Kinds, Cleared
  <2> QED BY <2>1, <1>5
<1>8. ASSUME NEW f \in Fam, ~Foreign(f), NEW k \in Kinds PROVE tnkernel'[<<f, k>>] # "ours"
  <2>1. <<f, k>> \in Entries /\ <<f, k>>[2] = k
    BY EntryFacts
  <2>2. tnkernel[<<f, k>>] = "ours" => k \in OurKinds
    <3>1. tnkernel[<<f, k>>] = "ours" => <<f, k>> \in OurEntries
      BY <2>1 DEF TunInv, Owned
    <3> QED BY <3>1, <2>1 DEF OurEntries
  <2>3. k \in OurKinds => k \in Cleared(f)
    BY <1>8 DEF OurKinds, Cleared
  <2> QED BY <1>4, <1>5, <2>1, <2>2, <2>3
<1> QED BY <1>1, <1>5, <1>6, <1>7, <1>8

\* On the other platforms it leaves the routes alone.
LEMMA CleanupLeaves ==
    ASSUME TunInv, tnos # "linux", tunCleanupResidual
    PROVE  tnkernel' = tnkernel /\ tndns' \in [Services -> {"user", "loop"}] /\ (tnfile' # NoFile => Resolvers(tnfile'))
<1>1. CASE tnos = "darwin" /\ tnfile # NoFile
  <2>1. tndns' \in SomeRestored(tnfile) /\ tnfile' = NoFile /\ tnkernel' = tnkernel
    BY <1>1 DEF tunCleanupResidual
  <2> QED BY <1>1, <2>1, RestoredTypes DEF TunInv, TunTypes, DnsKept
<1>2. CASE ~(tnos = "darwin" /\ tnfile # NoFile)
  BY <1>2 DEF tunCleanupResidual, TunInv, TunTypes, DnsKept
<1> QED BY <1>1, <1>2

\* What the cleanup of an idle or stopped service leaves.
LEMMA CleanupFacts ==
    ASSUME TunInv, tnphase \in {"idle", "down"}, tunCleanupResidual
    PROVE  /\ tnkernel' \in [Entries -> {"none", "ours", "user"}]
           /\ \A e \in Entries : tnkernel'[e] # "none" => tnkernel'[e] = tnkernel[e]
           /\ \A f \in Fam : ~TunAt(f, "table")' /\ ~TunAt(f, "half")'
           /\ tnos = "linux" => \A f \in Fam : ~TunAt(f, "unreach")'
           /\ \A f \in Fam : Foreign(f)' <=> Foreign(f)
           /\ tnos = "linux" => \A f \in Fam : ~Foreign(f) => \A k \in Kinds : tnkernel'[<<f, k>>] # "ours"
           /\ tndns' \in [Services -> {"user", "loop"}] /\ (tnfile' # NoFile => Resolvers(tnfile'))
           /\ \A e \in Entries : tnkernel'[e] = "ours" => e \in tnleft
<1>1. /\ tnkernel' \in [Entries -> {"none", "ours", "user"}]
      /\ \A e \in Entries : tnkernel'[e] # "none" => tnkernel'[e] = tnkernel[e]
      /\ \A f \in Fam : tnkernel'[<<f, "alien">>] = tnkernel[<<f, "alien">>]
      /\ tndns' \in [Services -> {"user", "loop"}] /\ (tnfile' # NoFile => Resolvers(tnfile'))
  <2>1. CASE tnos = "linux"
    BY <2>1, CleanupClears DEF TunInv, TunTypes, DnsKept
  <2>2. CASE tnos # "linux"
    BY <2>2, CleanupLeaves DEF TunInv, TunTypes
  <2> QED BY <2>1, <2>2
<1>2. ASSUME NEW f \in Fam PROVE ~TunAt(f, "table")' /\ ~TunAt(f, "half")'
  <2>1. <<f, "table">> \in OnDevice /\ <<f, "half">> \in OnDevice /\ <<f, "table">> \in Entries /\ <<f, "half">> \in Entries
    BY EntryFacts
  <2>2. tnkernel[<<f, "table">>] = "none" /\ tnkernel[<<f, "half">>] = "none"
    BY <2>1, DeviceEmpty
  <2> QED BY <2>1, <2>2, <1>1 DEF TunAt
<1>3. tnos = "linux" => /\ \A f \in Fam : ~TunAt(f, "unreach")'
                        /\ \A f \in Fam : ~Foreign(f) => \A k \in Kinds : tnkernel'[<<f, k>>] # "ours"
  BY CleanupClears
<1>4. \A f \in Fam : Foreign(f)' <=> Foreign(f)
  BY <1>1 DEF Foreign
<1>5. \A e \in Entries : tnkernel'[e] = "ours" => e \in tnleft
  <2>1. \A e : ~Holds(tnundo, e)
    BY DEF Holds, TunInv, TunTypes
  <2> QED BY <1>1, <2>1 DEF TunInv, Owned
<1> QED BY <1>1, <1>2, <1>3, <1>4, <1>5

LEMMA TunBootKeeps == ASSUME TunInv, TunBoot PROVE TunInv'
<1>0. /\ UNCHANGED <<tnos, tnv6, tndefault, tnskipped, tnleft, tndev, tndnsmem, tntodo, tnundo>>
      /\ tnphase = "down" /\ tnphase' = "idle" /\ tunCleanupResidual
  BY DEF TunBoot, Machine
<1>s. OurEntries' = OurEntries /\ TunFamilies' = TunFamilies /\ OurKinds' = OurKinds
  BY <1>0, SameMachine
<1>k. /\ tnkernel' \in [Entries -> {"none", "ours", "user"}]
      /\ \A e \in Entries : tnkernel'[e] # "none" => tnkernel'[e] = tnkernel[e]
      /\ \A f \in Fam : ~TunAt(f, "table")' /\ ~TunAt(f, "half")'
      /\ tnos = "linux" => \A f \in Fam : ~TunAt(f, "unreach")'
      /\ \A f \in Fam : Foreign(f)' <=> Foreign(f)
      /\ tnos = "linux" => \A f \in Fam : ~Foreign(f) => \A k \in Kinds : tnkernel'[<<f, k>>] # "ours"
      /\ tndns' \in [Services -> {"user", "loop"}] /\ (tnfile' # NoFile => Resolvers(tnfile'))
      /\ \A e \in Entries : tnkernel'[e] = "ours" => e \in tnleft
  BY <1>0, CleanupFacts
<1>u. tnundo = <<>>
  BY <1>0 DEF TunInv, TunTypes
<1>1. TunTypes'
  BY <1>0, <1>s, <1>k DEF TunInv, TunTypes
<1>2. DnsKept'
  BY <1>0, <1>k DEF TunInv, DnsKept
<1>3. Owned'
  <2>1. \A e \in Entries : /\ tnkernel'[e] = "user" => tnkernel[e] = "user"
                           /\ tnkernel'[e] = "ours" => tnkernel[e] = "ours"
    BY <1>k
  <2>3. \A e \in Entries : tnkernel'[e] = "user" => e[2] \in {"node", "alien"}
    BY <2>1 DEF TunInv, Owned
  <2>4. \A e \in Entries : tnkernel'[e] = "ours" => e \in OurEntries
    BY <2>1 DEF TunInv, Owned
  <2>5. \A e \in Entries : tnkernel'[e] = "ours" => e \in tnleft'
    BY <1>0, <1>k
  <2>6. tnundo' = <<>> /\ tnphase' \in {"down", "idle"}
    BY <1>0, <1>u
  <2> QED BY <1>s, <2>3, <2>4, <2>5, <2>6, IdleOwned
<1>4. Sequenced'
  BY <1>0 DEF TunInv, Sequenced
<1>5. Planned'
  BY <1>0 DEF Planned
<1>6. Guarded'
  <2>1. tnos = "linux" => \A f \in Fam, k \in Kinds : <<f, k>> \notin tnskipped
    BY DEF TunInv, Guarded
  <2> QED BY <1>0, <1>k, <2>1 DEF Guarded
<1>7. BootClearsRules'
  BY <1>0, <1>k DEF BootClearsRules
<1> QED BY <1>1, <1>2, <1>3, <1>4, <1>5, <1>6, <1>7 DEF TunInv

LEMMA StartKeeps == ASSUME TunInv, startTunCore PROVE TunInv'
<1>0. /\ UNCHANGED <<tnos, tnv6, tndefault, tnleft, tndev>> /\ tnskipped' = {} /\ tndnsmem' = <<>> /\ tnundo' = <<>>
      /\ tnphase = "idle" /\ tunCleanupResidual
      /\ \/ tnphase' = "idle" /\ tntodo' = tntodo
         \/ tnphase' = "up" /\ tntodo' = Steps /\ (tnos = "linux" => \A f \in TunFamilies : ~Foreign(f))
  BY DEF startTunCore, Machine
<1>s. OurEntries' = OurEntries /\ TunFamilies' = TunFamilies /\ OurKinds' = OurKinds
  BY <1>0, SameMachine
<1>k. /\ tnkernel' \in [Entries -> {"none", "ours", "user"}]
      /\ \A e \in Entries : tnkernel'[e] # "none" => tnkernel'[e] = tnkernel[e]
      /\ \A f \in Fam : ~TunAt(f, "table")' /\ ~TunAt(f, "half")'
      /\ tnos = "linux" => \A f \in Fam : ~TunAt(f, "unreach")'
      /\ \A f \in Fam : Foreign(f)' <=> Foreign(f)
      /\ tnos = "linux" => \A f \in Fam : ~Foreign(f) => \A k \in Kinds : tnkernel'[<<f, k>>] # "ours"
      /\ tndns' \in [Services -> {"user", "loop"}] /\ (tnfile' # NoFile => Resolvers(tnfile'))
      /\ \A e \in Entries : tnkernel'[e] = "ours" => e \in tnleft
  BY <1>0, CleanupFacts
<1>t. tnos \in {"linux", "darwin", "windows"} /\ tnv6 \in BOOLEAN /\ tndefault \in SUBSET Fam
  BY DEF TunInv, TunTypes
<1>p. /\ Steps \in Seq(OurEntries) /\ InOrder(Steps)
      /\ \A f \in Fam, k \in Kinds : Wanted(f, k) => Holds(Steps, <<f, k>>)
  BY <1>t, LinuxSteps, RouteSteps
<1>d. tntodo = <<>>
  BY <1>0 DEF TunInv, TunTypes
<1>1. TunTypes'
  <2>0. <<>> \in Seq(OurEntries)
    OBVIOUS
  <2>1. tntodo' \in Seq(OurEntries) /\ tnundo' \in Seq(OurEntries)
    BY <1>0, <1>d, <1>p, <2>0
  <2>2. tnphase' \in {"down", "idle", "up", "on", "undo"} /\ (tnphase' # "up" => tntodo' = <<>>)
    BY <1>0, <1>d
  <2>3. tnskipped' \in SUBSET Entries
    BY <1>0
  <2> QED BY <1>0, <1>s, <1>k, <2>1, <2>2, <2>3 DEF TunInv, TunTypes
<1>2. DnsKept'
  BY <1>0, <1>k, Nothing DEF DnsKept
<1>3. Owned'
  <2>1. \A e \in Entries : /\ tnkernel'[e] = "user" => tnkernel[e] = "user"
                           /\ tnkernel'[e] = "ours" => tnkernel[e] = "ours"
    BY <1>k
  <2>2. ASSUME tnos = "linux", tnphase' = "up", NEW e \in Entries, tnkernel'[e] = "ours" PROVE FALSE
    <3>1. e \in OurEntries
      BY <2>1, <2>2 DEF TunInv, Owned
    <3>2. e[1] \in TunFamilies /\ e[1] \in Fam /\ e[2] \in Kinds /\ e = <<e[1], e[2]>>
      BY <3>1, <1>t, OursAreEntries
    <3> QED BY <1>0, <1>k, <2>2, <3>2
  <2>3. tnphase' \in {"idle", "up"}
    BY <1>0
  <2>4. \A e \in Entries : tnkernel'[e] = "user" => e[2] \in {"node", "alien"}
    BY <2>1 DEF TunInv, Owned
  <2>5. \A e \in Entries : tnkernel'[e] = "ours" => e \in OurEntries
    BY <2>1 DEF TunInv, Owned
  <2>6. \A i \in 1..Len(tnundo') : tnkernel'[tnundo'[i]] # "user"
    BY <1>0
  <2> QED BY <1>0, <1>s, <1>k, <2>2, <2>3, <2>4, <2>5, <2>6 DEF Owned
<1>4. Sequenced'
  <2>1. InOrder(tntodo') /\ InOrder(tnundo') /\ Len(tnundo') = 0
    BY <1>0, <1>d, <1>p, Nothing
  <2> QED BY <2>1 DEF Sequenced
<1>5. Planned'
  BY <1>0, <1>s, <1>p DEF Planned, Wanted
<1>6. Guarded'
  BY <1>0, <1>k DEF Guarded
<1>7. BootClearsRules'
  BY <1>0, <1>k DEF BootClearsRules
<1> QED BY <1>1, <1>2, <1>3, <1>4, <1>5, <1>6, <1>7 DEF TunInv

LEMMA TunStep == TunInv /\ [TunNext]_tunVars => TunInv'
<1>1. SUFFICES ASSUME TunInv, [TunNext]_tunVars PROVE TunInv'
  OBVIOUS
<1>2. CASE UNCHANGED tunVars
  <2>0. UNCHANGED <<tnos, tnv6, tndefault, tnkernel, tndns, tndev, tnphase, tntodo, tnundo, tndnsmem, tnfile, tnskipped, tnleft>>
    BY <1>2 DEF tunVars
  <2>1. TunTypes'
    BY <2>0, <1>1, SameMachine DEF TunInv, TunTypes
  <2>2. DnsKept'
    BY <2>0, <1>1 DEF TunInv, DnsKept
  <2> QED BY <2>0, <2>1, <2>2, <1>1, StaysKeeps DEF TunInv
<1>3. CASE DeviceUp
  BY <1>1, <1>3, DeviceUpKeeps
<1>4. CASE DeviceGone
  BY <1>1, <1>4, DeviceGoneKeeps
<1>5. CASE startTunCore
  BY <1>1, <1>5, StartKeeps
<1>6. CASE AddEntry
  BY <1>1, <1>6, AddEntryKeeps
<1>7. CASE AddFails
  BY <1>1, <1>7, AddFailsKeeps
<1>8. CASE RoutesUp
  BY <1>1, <1>8, RoutesUpKeeps
<1>9. CASE stopTunCore
  BY <1>1, <1>9, StopKeeps
<1>10. CASE UndoDNS
  BY <1>1, <1>10, UndoDNSKeeps
<1>11. CASE UndoEntry
  BY <1>1, <1>11, UndoEntryKeeps
<1>12. CASE UndoDone
  BY <1>1, <1>12, UndoDoneKeeps
<1>13. CASE TunKilled
  BY <1>1, <1>13, TunKilledKeeps
<1>14. CASE TunBoot
  BY <1>1, <1>14, TunBootKeeps
<1>15. CASE \E s \in Services : SetDNS(s)
  BY <1>1, <1>15, SetDNSKeeps
<1>16. CASE \E e \in Entries : UserAdds(e)
  BY <1>1, <1>16, UserAddsKeeps
<1> QED BY <1>1, <1>2, <1>3, <1>4, <1>5, <1>6, <1>7, <1>8, <1>9, <1>10, <1>11, <1>12, <1>13, <1>14, <1>15, <1>16 DEF TunNext

LEMMA TunInvSafe == TunInv => RoutesAreSafe
<1>1. SUFFICES ASSUME TunInv PROVE RoutesAreSafe
  OBVIOUS
<1>t. TunTypes /\ Guarded /\ Owned /\ BootClearsRules
  BY <1>1 DEF TunInv
<1>2. TunTypeOK
  <2>1. \A i \in 1..Len(tnundo) : tnundo[i] \in Entries
    <3>1. \A i \in 1..Len(tnundo) : tnundo[i] \in OurEntries
      BY <1>t DEF TunTypes
    <3> QED BY <3>1, <1>t, OursAreEntries DEF TunTypes
  <2>2. \A i \in 1..Len(tntodo) : tntodo[i] \in Entries
    <3>1. \A i \in 1..Len(tntodo) : tntodo[i] \in OurEntries
      BY <1>t DEF TunTypes
    <3> QED BY <3>1, <1>t, OursAreEntries DEF TunTypes
  <2>4. tnundo \in Seq(Entries) /\ tntodo \in Seq(Entries)
    BY <2>1, <2>2, <1>t, SeqOfThose DEF TunTypes
  <2> QED BY <1>t, <2>4 DEF TunTypes, TunTypeOK
<1>3. CoreNeverLoops
  <2>1. ASSUME NEW f \in Fam
        PROVE  TunFate(f, "core") # "tun" /\ (f \in tndefault /\ <<f, "scoped">> \notin tnskipped => TunFate(f, "core") = "physical")
    <3>1. CASE tnos = "linux"
      <4>1. /\ TunAt(f, "unreach") => TunAt(f, "marked")
            /\ TunAt(f, "tun") /\ TunAt(f, "table") => TunAt(f, "unreach") /\ TunAt(f, "node")
        BY <3>1, <1>t DEF Guarded
      <4> HIDE DEF TunAt
      <4>2. TunFate(f, "core") =
              IF TunAt(f, "marked") /\ f \in tndefault THEN "physical"
              ELSE IF TunAt(f, "unreach") THEN "unreachable"
              ELSE IF TunAt(f, "tun") /\ TunAt(f, "table") THEN "tun" ELSE Main(f)
        BY <3>1 DEF TunFate, RuleFate, RouteFate
      <4> QED BY <4>1, <4>2 DEF Main
    <3>2. CASE tnos # "linux"
      <4>1. tnos = "darwin" /\ f \in tndefault /\ TunAt(f, "half") => TunAt(f, "scoped") \/ <<f, "scoped">> \in tnskipped
        BY <3>2, <1>t DEF Guarded
      <4>2. TunFate(f, "core") = IF tnos = "darwin" /\ TunAt(f, "half") /\ ~TunAt(f, "scoped") THEN "unreachable" ELSE Main(f)
        BY <3>2 DEF TunFate, RuleFate, RouteFate
      <4> QED BY <4>1, <4>2 DEF Main
    <3> QED BY <3>1, <3>2
  <2> QED BY <2>1 DEF CoreNeverLoops
<1>4. NodesStayOutside
  <2>1. ASSUME NEW f \in tndefault, tnphase # "undo" \/ tnos # "windows"
        PROVE  TunFate(f, "node") = "physical" \/ <<f, "node">> \in tnskipped
    <3>0. f \in Fam
      BY <1>t DEF TunTypes
    <3>1. CASE tnos = "linux"
      <4>1. TunAt(f, "tun") /\ TunAt(f, "table") => TunAt(f, "node")
        BY <3>0, <3>1, <1>t DEF Guarded
      <4>2. TunFate(f, "node") =
              IF TunAt(f, "node") /\ f \in tndefault THEN "physical"
              ELSE IF TunAt(f, "tun") /\ TunAt(f, "table") THEN "tun" ELSE Main(f)
        BY <3>1 DEF TunFate, RuleFate, RouteFate
      <4> QED BY <4>1, <4>2 DEF Main
    <3>2. CASE tnos # "linux"
      <4>1. TunAt(f, "half") => TunAt(f, "node") \/ <<f, "node">> \in tnskipped
        BY <2>1, <3>0, <3>2, <1>t DEF Guarded
      <4>2. TunFate(f, "node") = IF TunAt(f, "node") THEN Main(f) ELSE IF TunAt(f, "half") THEN "tun" ELSE Main(f)
        BY <3>2 DEF TunFate, RuleFate, RouteFate
      <4> QED BY <4>1, <4>2 DEF Main
    <3> QED BY <3>1, <3>2
  <2> QED BY <2>1 DEF NodesStayOutside
<1>5. StopLeavesNoRoutes
  <2>1. tnphase = "idle" => \A e : ~Holds(tnundo, e)
    BY <1>t DEF Holds, TunTypes
  <2> QED BY <1>t, <2>1 DEF Owned, StopLeavesNoRoutes
<1> QED BY <1>t, <1>2, <1>3, <1>4, <1>5 DEF RoutesAreSafe

\* On every platform and for every number of network services, at every step of
\* a setup, an undo, a kill and a boot: the core's packets never enter the
\* device, the nodes are reached outside it, and a stop or a boot leaves
\* nothing of ours (tun_core.go, tun_core_linux.go, tun_core_darwin.go,
\* tun_core_windows.go).
THEOREM TunRoutesAreSafe == TunSpec => []RoutesAreSafe
<1>1. TunInv => RoutesAreSafe
  BY TunInvSafe
<1> QED BY <1>1, TunInitInv, TunStep, PTL DEF TunSpec

\* What a step takes from the user.
Taken == \A e \in Entries : tnkernel[e] = "user" /\ tnkernel'[e] # "user" => tnos # "windows" /\ e[2] = "node"

LEMMA UserStep == ASSUME TunInv, TunNext PROVE Taken
<1>t. TunTypes
  BY DEF TunInv
<1>n. \A e \in Entries : tnkernel[e] = "user" => e[2] \in {"node", "alien"}
  BY DEF TunInv, Owned
<1>d. ASSUME tnkernel' = Wipe(OnDevice) PROVE Taken
  <2>1. \A e \in Entries : tnkernel[e] = "user" => e \notin OnDevice
    BY <1>n, EntryFacts
  <2> QED BY <1>d, <1>t, <2>1, WipeFacts DEF Taken
<1>c. ASSUME tunCleanupResidual PROVE Taken
  <2>1. CASE tnos = "linux"
    <3>1. ASSUME NEW e \in Entries, tnkernel[e] = "user", tnkernel'[e] # "user" PROVE e[2] = "node"
      <4>1. e[2] \in {"node", "alien"} /\ e[1] \in Fam /\ e = <<e[1], e[2]>>
        BY <3>1, <1>n, EntryFacts
      <4>2. e[2] # "alien"
        <5>1. tnkernel'[<<e[1], "alien">>] = tnkernel[<<e[1], "alien">>]
          BY <4>1, <2>1, <1>c, CleanupClears
        <5> QED BY <3>1, <4>1, <5>1
      <4> QED BY <4>1, <4>2
    <3> QED BY <2>1, <3>1 DEF Taken
  <2>2. CASE tnos # "linux"
    BY <2>2, <1>c, CleanupLeaves DEF Taken
  <2> QED BY <2>1, <2>2
<1>s. ASSUME tnkernel' = tnkernel PROVE Taken
  BY <1>s DEF Taken
<1>1. CASE AddEntry
  <2> DEFINE e == Head(tntodo)
  <2>1. \/ tnkernel' = tnkernel
        \/ /\ tnkernel' = [tnkernel EXCEPT ![e] = "ours"]
           /\ ~(tnkernel[e] # "none" /\ tnos = "windows")
    BY <1>1 DEF AddEntry
  <2>o. e \in OurEntries
    <3>1. tntodo \in Seq(OurEntries) /\ tntodo # <<>>
      BY <1>1, <1>t DEF AddEntry, TunTypes
    <3> QED BY <3>1, TailFacts
  <2>2. e \in Entries
    BY <2>o, <1>t, OursAreEntries DEF TunTypes
  <2>3. e[2] # "alien"
    <3>1. e[2] \in OurKinds
      BY <2>o, <1>t, OursAreEntries DEF TunTypes
    <3> QED BY <3>1 DEF OurKinds
  <2> HIDE DEF e
  <2> QED BY <2>1, <2>2, <2>3, <1>n, <1>t, <1>s DEF Taken, TunTypes
<1>2. CASE UndoEntry
  <2> DEFINE e == Undone
  <2>1. tnkernel' = [tnkernel EXCEPT ![e] = "none"] /\ tnundo # <<>>
    BY <1>2 DEF UndoEntry
  <2>2. \E i \in 1..Len(tnundo) : e = tnundo[i]
    BY <2>1, <1>t, TailFacts, FrontFacts DEF Undone, TunTypes
  <2>3. tnkernel[e] # "user"
    BY <2>2 DEF TunInv, Owned
  <2> HIDE DEF e
  <2> QED BY <2>1, <2>3, <1>t DEF Taken, TunTypes
<1>3. CASE \E e \in Entries : UserAdds(e)
  <2>1. PICK e \in Entries : UserAdds(e)
    BY <1>3
  <2> QED BY <2>1, <1>t DEF Taken, TunTypes, UserAdds
<1>4. CASE DeviceGone \/ TunKilled
  BY <1>4, <1>d DEF DeviceGone, TunKilled
<1>5. CASE startTunCore \/ TunBoot
  BY <1>5, <1>c DEF startTunCore, TunBoot
<1>6. CASE DeviceUp \/ AddFails \/ RoutesUp \/ stopTunCore \/ UndoDNS \/ UndoDone
  BY <1>6, <1>s DEF DeviceUp, AddFails, RoutesUp, stopTunCore, UndoDNS, UndoDone
<1>7. CASE \E s \in Services : SetDNS(s)
  BY <1>7, <1>s DEF SetDNS
<1> QED BY <1>1, <1>2, <1>3, <1>4, <1>5, <1>6, <1>7 DEF TunNext

\* A route or rule of the user is never removed or taken over, except a rule or
\* a macOS route to a single node (tunConflicts, tunAddRoute).
THEOREM TunUsersEntriesStay == TunSpec => UsersEntriesStay
<1>1. TunInv /\ [TunNext]_tunVars =>
        [\A e \in Entries : tnkernel[e] = "user" /\ tnkernel'[e] # "user" => tnos # "windows" /\ e[2] = "node"]_tunVars
  BY UserStep DEF Taken
<1> QED BY <1>1, TunInitInv, TunStep, PTL DEF TunSpec, UsersEntriesStay
=============================================================================
