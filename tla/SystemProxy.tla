---------------------------- MODULE SystemProxy ----------------------------
(***************************************************************************)
(* The system proxy mode: systemProxy_other.go (GNOME and KDE),             *)
(* systemProxy_macos.go (one setting per network service) and               *)
(* systemProxy_windows.go (one per user profile) of kernel/iptables, driven *)
(* by writeTransparentProxyRules, deleteTransparentProxyRules and the       *)
(* recovery at boot.  A target is a desktop, a network service or a user    *)
(* profile; its setting is what the user chose, or "ours".  The originals   *)
(* are captured and stored in the database before the first change.         *)
(***************************************************************************)
EXTENDS Integers, FiniteSets

CONSTANTS Targets,      \* desktops, network services or profiles
          UserChoices,      \* what a user may choose, "off" among them
          NoSnapshot,
          MaxKillsP, MaxChangesP    \* kills, and changes of the user or of the targets, at most

ASSUME ProxyAssumption ==
    /\ "ours" \notin UserChoices /\ "off" \in UserChoices
    /\ \A S \in SUBSET Targets : NoSnapshot \notin [S -> UserChoices \union {"ours"}]

VARIABLES
    pxos,       \* "linux", "darwin" or "windows"
    pxthere,    \* the targets that can be read and written now
    pxsys,      \* target -> its setting
    pxdb,       \* the snapshot in the database
    pxmem,      \* the snapshot in memory (savedLinuxProxy, savedMacOSProxy, savedWindowsProxy)
    pxphase,    \* "down", "idle", "restoring", "capture", "setting", "on"
    pxafter,    \* the phase that follows the restore under way
    pxtodo,     \* the targets the setup or the restore has still to write
    pxbad,      \* a write of the restore has failed
    pxuser,     \* target -> what the user last chose, seen from outside
    pxodd,      \* targets chosen anew, or set without being captured, under a pending snapshot
    pxkills, pxchanges

proxyVars == <<pxos, pxthere, pxsys, pxdb, pxmem, pxphase, pxafter, pxtodo, pxbad, pxuser, pxodd, pxkills, pxchanges>>
World == <<pxos, pxthere, pxuser, pxkills, pxchanges>>
-----------------------------------------------------------------------------
\* What GetCleanCommands restores: the captured targets, on Windows every profile
Known(snap) == IF pxos = "windows" THEN Targets ELSE DOMAIN snap
Saved == IF pxmem # NoSnapshot THEN pxmem ELSE pxdb

\* deleteTransparentProxyRules: nothing happens without a stored snapshot
BeginRestore(after) ==
    /\ IF pxdb = NoSnapshot THEN pxphase' = after /\ pxtodo' = {} /\ UNCHANGED <<pxbad, pxafter>>
       ELSE pxphase' = "restoring" /\ pxbad' = FALSE /\ pxtodo' = Known(Saved) /\ pxafter' = after
    /\ UNCHANGED <<World, pxsys, pxdb, pxmem, pxodd>>

Restore(t) ==
    /\ pxphase = "restoring" /\ t \in pxtodo /\ t \in pxthere /\ pxtodo' = pxtodo \ {t}
    /\ pxsys' = [pxsys EXCEPT ![t] = IF t \in DOMAIN Saved THEN Saved[t] ELSE "off"]
    /\ pxodd' = IF t \in DOMAIN Saved THEN pxodd ELSE pxodd \union {t}
    /\ UNCHANGED <<World, pxdb, pxmem, pxphase, pxafter, pxbad>>

\* A write fails: Linux and macOS stop there, Windows goes on with the next profile
RestoreFails(t) ==
    /\ pxphase = "restoring" /\ t \in pxtodo /\ pxbad' = TRUE
    /\ pxtodo' = IF pxos = "windows" THEN pxtodo \ {t} ELSE {}
    /\ UNCHANGED <<World, pxsys, pxdb, pxmem, pxphase, pxafter, pxodd>>

\* The snapshot goes only when everything is restored
RestoreDone ==
    /\ pxphase = "restoring" /\ pxtodo = {} /\ pxphase' = pxafter
    /\ IF pxbad THEN UNCHANGED <<pxdb, pxmem>> ELSE pxdb' = NoSnapshot /\ pxmem' = NoSnapshot
    /\ UNCHANGED <<World, pxsys, pxtodo, pxafter, pxbad, pxodd>>
-----------------------------------------------------------------------------
\* setupTransparentProxy first removes what an earlier run left
ProxyStart == pxphase = "idle" /\ BeginRestore("capture")

\* The settings of the targets that can be read
saveProxyState == [t \in pxthere |-> pxsys[t]]

\* Mutant: a pending snapshot is captured over.
Capture_Anew ==
    /\ pxphase = "capture" /\ (pxos = "darwin" \/ pxthere # {})
    /\ LET snap == saveProxyState
       IN  /\ pxmem' = snap
           /\ pxdb' = snap
    /\ pxphase' = "setting" /\ pxtodo' = IF pxos = "windows" THEN Targets ELSE pxthere
    /\ UNCHANGED <<World, pxsys, pxafter, pxbad, pxodd>>

\* The PreFunc of the setup: a pending snapshot is kept, else one is captured and stored
Capture ==
    /\ pxphase = "capture" /\ (pxos = "darwin" \/ pxthere # {})
    /\ LET snap == IF Saved # NoSnapshot THEN Saved ELSE saveProxyState
       IN  /\ pxmem' = IF pxdb # NoSnapshot THEN pxdb ELSE snap
           /\ pxdb' = IF Saved = NoSnapshot THEN snap ELSE pxdb
    /\ pxphase' = "setting" /\ pxtodo' = IF pxos = "windows" THEN Targets ELSE pxthere
    /\ UNCHANGED <<World, pxsys, pxafter, pxbad, pxodd>>

\* The commands of the setup; a profile that is not loaded is passed over
SetProxy(t) ==
    /\ pxphase = "setting" /\ t \in pxtodo /\ pxtodo' = pxtodo \ {t}
    /\ IF t \in pxthere
       THEN /\ pxsys' = [pxsys EXCEPT ![t] = "ours"]
            /\ pxodd' = IF t \in DOMAIN pxmem THEN pxodd ELSE pxodd \union {t}
       ELSE pxos = "windows" /\ UNCHANGED <<pxsys, pxodd>>
    /\ UNCHANGED <<World, pxdb, pxmem, pxphase, pxafter, pxbad>>

SetupDone ==
    /\ pxphase = "setting" /\ pxtodo = {} /\ pxphase' = "on"
    /\ UNCHANGED <<World, pxsys, pxdb, pxmem, pxafter, pxtodo, pxbad, pxodd>>

\* The capture or a command fails, or the core is stopped
ProxyStop == pxphase \in {"capture", "setting", "on"} /\ BeginRestore("idle")

\* recoverPendingHostState; the marker of a start in another mode hides the snapshot from it
ProxyBoot == pxphase = "down" /\ BeginRestore("idle")
BootElsewhere ==
    /\ pxphase = "down" /\ pxphase' = "idle"
    /\ UNCHANGED <<World, pxsys, pxdb, pxmem, pxafter, pxtodo, pxbad, pxodd>>
-----------------------------------------------------------------------------
ProxyKilled ==
    /\ pxphase # "down" /\ pxkills < MaxKillsP /\ pxkills' = pxkills + 1
    /\ pxphase' = "down" /\ pxmem' = NoSnapshot /\ pxtodo' = {} /\ pxbad' = FALSE
    /\ UNCHANGED <<pxos, pxthere, pxsys, pxdb, pxafter, pxuser, pxodd, pxchanges>>

\* The user chooses a proxy while ours is not in effect
UserChooses(t, v) ==
    /\ pxphase \in {"idle", "down"} /\ pxsys[t] # v /\ t \in pxthere
    /\ pxchanges < MaxChangesP /\ pxchanges' = pxchanges + 1
    /\ pxsys' = [pxsys EXCEPT ![t] = v] /\ pxuser' = [pxuser EXCEPT ![t] = v]
    /\ pxodd' = IF pxdb = NoSnapshot THEN pxodd \ {t} ELSE pxodd \union {t}
    /\ UNCHANGED <<pxos, pxthere, pxdb, pxmem, pxphase, pxafter, pxtodo, pxbad, pxkills>>

\* A network service appears or goes, a profile is loaded or unloaded
TargetChanges(t) ==
    /\ pxchanges < MaxChangesP /\ pxchanges' = pxchanges + 1
    /\ pxthere' = IF t \in pxthere THEN pxthere \ {t} ELSE pxthere \union {t}
    /\ UNCHANGED <<pxos, pxsys, pxdb, pxmem, pxphase, pxafter, pxtodo, pxbad, pxuser, pxodd, pxkills>>

ProxyInit ==
    /\ pxos \in {"linux", "darwin", "windows"} /\ pxthere \in SUBSET Targets
    /\ pxsys \in [Targets -> UserChoices] /\ pxuser = pxsys
    /\ pxdb = NoSnapshot /\ pxmem = NoSnapshot /\ pxphase = "idle" /\ pxafter = "idle" /\ pxtodo = {} /\ pxbad = FALSE
    /\ pxodd = {} /\ pxkills = 0 /\ pxchanges = 0

ProxyNext ==
    \/ ProxyStart \/ Capture \/ SetupDone \/ ProxyStop \/ ProxyBoot \/ BootElsewhere \/ RestoreDone \/ ProxyKilled
    \/ \E t \in Targets : \/ SetProxy(t) \/ Restore(t) \/ RestoreFails(t) \/ TargetChanges(t)
                          \/ \E v \in UserChoices : UserChooses(t, v)
ProxySpec == ProxyInit /\ [][ProxyNext]_proxyVars
-----------------------------------------------------------------------------
(* Properties *)

Snapshots == (UNION {[S -> UserChoices \union {"ours"}] : S \in SUBSET Targets}) \union {NoSnapshot}
\* Every variable holds a value of its kind, and a setup has its snapshot in
\* memory.
ProxyTypeOK ==
    /\ pxthere \subseteq Targets /\ pxtodo \subseteq Targets /\ pxodd \subseteq Targets
    /\ pxsys \in [Targets -> UserChoices \union {"ours"}] /\ pxuser \in [Targets -> UserChoices]
    /\ pxdb \in Snapshots /\ pxmem \in Snapshots /\ pxbad \in BOOLEAN
    /\ pxphase \in {"down", "idle", "restoring", "capture", "setting", "on"} /\ pxafter \in {"idle", "capture"}
    /\ pxphase \in {"setting", "on"} => pxmem # NoSnapshot
    /\ pxphase \notin {"setting", "restoring"} => pxtodo = {}

\* While any target is set to our proxy its original can still be found: the
\* stored snapshot holds it, however the service died.  The exception are
\* targets that appeared while a snapshot was pending: they are set without
\* having been captured.
OriginalIsStored ==
    \A t \in Targets : pxsys[t] = "ours" /\ t \notin pxodd
        => pxdb # NoSnapshot /\ t \in DOMAIN pxdb /\ pxdb[t] = pxuser[t]

\* When no snapshot is pending and nothing is under way, every target has the
\* setting its user chose.
UserChoiceIsBack ==
    pxphase \in {"idle", "down"} /\ pxdb = NoSnapshot => \A t \in Targets \ pxodd : pxsys[t] = pxuser[t]

\* On Windows no profile keeps our proxy after a restore that succeeded, not
\* even one that was never captured: it is disabled.
WindowsLeavesNoProxy ==
    pxos = "windows" /\ pxphase \in {"idle", "down"} /\ pxdb = NoSnapshot => \A t \in Targets : pxsys[t] # "ours"

\* The user's proxy settings survive: stored while ours are in place, back when
\* nothing is pending.
ProxyIsGivenBack == ProxyTypeOK /\ OriginalIsStored /\ UserChoiceIsBack /\ WindowsLeavesNoProxy
=============================================================================
