---------------------------- MODULE ResolvHijack ----------------------------
(***************************************************************************)
(* /etc/resolv.conf while the transparent proxy is on: the hijacker of      *)
(* kernel/v2ray/dnsHijack.go, its ticking goroutine, the backup, and the    *)
(* restore of a stop or of RecoverHostState.  Every file operation is a     *)
(* step; others (a DHCP client, the user) may write the file between them,  *)
(* and the service may be killed.                                           *)
(*                                                                         *)
(* A content is a string: what others write (Contents: among them a         *)
(* symbolic link, no file and an empty file), "hijack" (ours), "public"     *)
(* (the resolver written when there is no backup).  WriteFile truncates     *)
(* before it writes.                                                        *)
(***************************************************************************)
EXTENDS Integers, FiniteSets

CONSTANTS Contents,     \* what others put there; "link", "missing" and "empty" are special
          MaxKillsR,    \* how often the service is killed, at most
          MaxWritesR    \* how often others write the file, at most

ASSUME ResolvAssumption == Contents \intersect {"none", "hijack", "public"} = {}

VARIABLES
    rfile,      \* /etc/resolv.conf
    rbackup,    \* /etc/resolv.conf.v2raya_backup, "none" when there is none
    rmain,      \* where the goroutine that holds hijackerMu is, "down" after a kill
    rhijacker,  \* "nil", "on", or "done" (its channel is closed)
    rtick,      \* the hijacker's goroutine: "none", "idle", or where HijackResolv is
    rpending,   \* the host state marker of a start that has not committed
    rorig,      \* what others last put there, seen from outside
    rfault,     \* writing a backup has failed
    rstale,     \* others wrote the file while an earlier process's backup lay there
    rkills, rwrites

resolvVars == <<rfile, rbackup, rmain, rhijacker, rtick, rpending, rorig, rfault, rstale, rkills, rwrites>>
Ghosts == <<rorig, rstale, rkills, rwrites>>
Workers == {"main", "tick"}
WorkerAt(w) == IF w = "main" THEN rmain ELSE rtick
\* Worker w goes on to p; a tick that has written waits for the next
Goes(w, p) ==
    IF w = "main" THEN rmain' = (IF p = "done" THEN "started" ELSE p) /\ UNCHANGED rtick
    ELSE rtick' = (IF p = "done" THEN "idle" ELSE p) /\ UNCHANGED rmain
-----------------------------------------------------------------------------
(* HijackResolv: backupResolv, the link, the file *)

backupResolv(w) ==
    /\ WorkerAt(w) = "backup" /\ Goes(w, "unlink")
    /\ rbackup' = IF rbackup # "none" \/ rfile \in {"hijack", "public"} THEN rbackup ELSE rfile
    /\ UNCHANGED <<rfile, rhijacker, rpending, rfault, Ghosts>>

BackupFails(w) ==
    /\ WorkerAt(w) = "backup" /\ Goes(w, "unlink")
    /\ rbackup = "none" /\ rfile \notin {"hijack", "public"}
    /\ rfault' = TRUE
    /\ UNCHANGED <<rfile, rbackup, rhijacker, rpending, Ghosts>>

Unlink(w) ==
    /\ WorkerAt(w) = "unlink" /\ Goes(w, "truncate")
    /\ rfile' = IF rfile = "link" THEN "missing" ELSE rfile
    /\ UNCHANGED <<rbackup, rhijacker, rpending, rfault, Ghosts>>

Truncate(w) ==
    /\ WorkerAt(w) = "truncate" /\ Goes(w, "write")
    /\ rfile' = "empty"
    /\ UNCHANGED <<rbackup, rhijacker, rpending, rfault, Ghosts>>

Write(w) ==
    /\ WorkerAt(w) = "write" /\ Goes(w, "done")
    /\ rfile' = "hijack"
    /\ UNCHANGED <<rbackup, rhijacker, rpending, rfault, Ghosts>>

\* NewResolvHijacker after its first HijackResolv: the goroutine
Spawn ==
    /\ rmain = "started" /\ rmain' = "idle" /\ rhijacker' = "on" /\ rtick' = "idle"
    /\ UNCHANGED <<rfile, rbackup, rpending, rfault, Ghosts>>

\* The goroutine: a tick that was due when done closed may still be taken
TickFires ==
    /\ rtick = "idle" /\ rtick' = "backup"
    /\ UNCHANGED <<rfile, rbackup, rmain, rhijacker, rpending, rfault, Ghosts>>
GoroutineEnds ==
    /\ rtick = "idle" /\ rhijacker = "done" /\ rtick' = "none"
    /\ UNCHANGED <<rfile, rbackup, rmain, rhijacker, rpending, rfault, Ghosts>>
-----------------------------------------------------------------------------
(* resetResolvHijacker, removeResolvHijacker, restoreResolv *)

Step(from, to) == rmain = from /\ rmain' = to
Close == rhijacker' = (IF rhijacker = "on" THEN "done" ELSE rhijacker)

resetResolvHijacker ==
    /\ Step("idle", "resetting") /\ Close /\ rpending' = TRUE
    /\ UNCHANGED <<rfile, rbackup, rtick, rfault, Ghosts>>

\* Mutant: the reset does not wait for the goroutine.
ResetCloses_NoWait ==
    /\ Step("resetting", "backup")
    /\ UNCHANGED <<rfile, rbackup, rhijacker, rtick, rpending, rfault, Ghosts>>

ResetCloses ==
    /\ Step("resetting", "backup") /\ rtick = "none"
    /\ UNCHANGED <<rfile, rbackup, rhijacker, rtick, rpending, rfault, Ghosts>>

removeResolvHijacker ==
    /\ Step("idle", "removing") /\ rhijacker = "on" /\ Close
    /\ UNCHANGED <<rfile, rbackup, rtick, rpending, rfault, Ghosts>>

RemoveCloses ==
    /\ Step("removing", IF rbackup = "none" THEN "nobackup" ELSE "restore") /\ rtick = "none"
    /\ UNCHANGED <<rfile, rbackup, rhijacker, rtick, rpending, rfault, Ghosts>>

\* restoreResolv: away with ours, back with theirs, away with the backup
RestoreClears ==
    /\ Step("restore", "put")
    /\ rfile' = IF rbackup \in {"link", "missing"} THEN "missing" ELSE "empty"
    /\ UNCHANGED <<rbackup, rhijacker, rtick, rpending, rfault, Ghosts>>
RestorePuts ==
    /\ Step("put", "drop") /\ rfile' = rbackup
    /\ UNCHANGED <<rbackup, rhijacker, rtick, rpending, rfault, Ghosts>>
RestoreDrops ==
    /\ Step("drop", "idle") /\ rbackup' = "none" /\ rhijacker' = "nil"
    /\ rstale' = (rstale /\ rfile # rorig)
    /\ UNCHANGED <<rfile, rtick, rpending, rfault, rorig, rkills, rwrites>>

\* removeResolvHijacker without a backup
NoBackup ==
    /\ Step("nobackup", "public") /\ rfile' = "empty"
    /\ UNCHANGED <<rbackup, rhijacker, rtick, rpending, rfault, Ghosts>>
Public ==
    /\ Step("public", "idle") /\ rfile' = "public" /\ rhijacker' = "nil"
    /\ UNCHANGED <<rbackup, rtick, rpending, rfault, Ghosts>>
-----------------------------------------------------------------------------
(* The rest of the service, and the world *)

\* The start that hijacked commits
Commit ==
    /\ rmain = "idle" /\ rpending /\ rpending' = FALSE
    /\ UNCHANGED <<rfile, rbackup, rmain, rhijacker, rtick, rfault, Ghosts>>

ResolvKilled ==
    /\ rmain # "down" /\ rkills < MaxKillsR /\ rkills' = rkills + 1
    /\ rmain' = "down" /\ rhijacker' = "nil" /\ rtick' = "none"
    /\ UNCHANGED <<rfile, rbackup, rpending, rorig, rfault, rstale, rwrites>>

\* The resolver half of RecoverHostState, for a marker that is pending
Restart ==
    /\ Step("down", IF rpending /\ rbackup # "none" THEN "restore" ELSE "idle")
    /\ rpending' = FALSE
    /\ UNCHANGED <<rfile, rbackup, rhijacker, rtick, rfault, Ghosts>>

\* The file is not ours: nobody hijacks it, or it has just been put back
Nobody == rmain = "drop" \/ (rhijacker = "nil" /\ rmain \in {"idle", "down"})
Others(c) ==
    /\ rwrites < MaxWritesR /\ rwrites' = rwrites + 1
    /\ rfile # c /\ rfile' = c
    /\ rorig' = IF rbackup = "none" \/ Nobody THEN c ELSE rorig
    /\ rstale' = (rstale \/ (Nobody /\ rbackup # "none"))
    /\ UNCHANGED <<rbackup, rmain, rhijacker, rtick, rpending, rfault, rkills>>

ResolvInit ==
    /\ rfile \in Contents /\ rorig = rfile /\ rbackup = "none" /\ rmain = "idle" /\ rhijacker = "nil"
    /\ rtick = "none" /\ rpending = FALSE /\ rfault = FALSE /\ rstale = FALSE /\ rkills = 0 /\ rwrites = 0

ResolvService ==
    \/ \E w \in Workers : backupResolv(w) \/ BackupFails(w) \/ Unlink(w) \/ Truncate(w) \/ Write(w)
    \/ Spawn \/ TickFires \/ GoroutineEnds \/ resetResolvHijacker \/ ResetCloses \/ removeResolvHijacker \/ RemoveCloses
    \/ RestoreClears \/ RestorePuts \/ RestoreDrops \/ NoBackup \/ Public \/ Commit
ResolvNext == ResolvService \/ ResolvKilled \/ Restart \/ \E c \in Contents : Others(c)
ResolvSpec == ResolvInit /\ [][ResolvNext]_resolvVars
-----------------------------------------------------------------------------
(* Properties *)

\* Every variable holds a value of its kind, and only one goroutine ticks.
ResolvTypeOK ==
    /\ rfile \in Contents \union {"missing", "empty", "hijack", "public"}
    /\ rbackup \in Contents \union {"missing", "empty", "none"}
    /\ rmain \in {"down", "idle", "resetting", "removing", "backup", "unlink", "truncate", "write", "started",
                  "restore", "put", "drop", "nobackup", "public"}
    /\ rhijacker \in {"nil", "on", "done"}
    /\ rtick \in {"none", "idle", "backup", "unlink", "truncate", "write"}
    /\ rhijacker = "on" => rtick # "none"

\* While the tick writes the file nobody else of the service does: Close waits
\* for a tick that is under way before anything is restored or hijacked anew.
OneWriter ==
    rtick \notin {"none", "idle"} => rmain \in {"idle", "resetting", "removing"}

\* However the service was killed and restarted, what others last put into
\* resolv.conf is still there or in the backup: unless a backup could not be
\* written, or others wrote the file while the backup of a killed process lay
\* beside it (backupResolv never replaces a backup).
OriginalKept ==
    rfault \/ rstale \/ rfile = rorig \/ rbackup = rorig

\* Once a stop has removed the hijacker, resolv.conf does not point at the
\* module that is gone: the tick does not hijack it again.
NothingHijackedAfterStop ==
    rkills = 0 /\ rhijacker = "nil" /\ rmain = "idle" => rfile # "hijack"

\* The user's resolv.conf survives the hijack: one writer at a time, the
\* original in the file or its backup, and no hijack after a stop.
ResolverIsKept == ResolvTypeOK /\ OneWriter /\ OriginalKept /\ NothingHijackedAfterStop
=============================================================================
