----------------------------- MODULE TunDevice -----------------------------
(***************************************************************************)
(* The operating-system side of the tun mode: tun_core.go and its Linux,    *)
(* macOS and Windows parts.  The kernel is a set of entries, each the       *)
(* user's or ours: policy rules and the route of table 2020 on Linux, host, *)
(* scoped and half routes on macOS and Windows, and the resolvers of the    *)
(* network services on macOS.  Every command is a step of its own, so that  *)
(* what a packet meets halfway through a setup or an undo can be asked.     *)
(***************************************************************************)
EXTENDS Integers, Sequences, FiniteSets

CONSTANTS Services,     \* the network services of a Mac
          NoFile, MaxKillsT

VARIABLES
    tnos, tnv6,     \* the platform; whether IPv6 is supported
    tndefault,      \* the families with a physical default route
    tnkernel,       \* entry -> "none", "ours" or "user"
    tndns,          \* service -> "user", or "loop" when it points at the DNS module
    tndev,          \* the core's device exists
    tnphase,        \* "down", "idle", "up", "on", "undo"
    tntodo,         \* the commands of tunRoutesUp still to run
    tnundo,         \* what is recorded for the undo, most recent last
    tndnsmem,       \* service -> the resolver tunState.dns remembers
    tnfile,         \* the backup file
    tnskipped,      \* entries whose command failed with a warning only
    tnleft,         \* entries of ours a kill left
    tnkills

tunVars == <<tnos, tnv6, tndefault, tnkernel, tndns, tndev, tnphase, tntodo, tnundo,
             tndnsmem, tnfile, tnskipped, tnleft, tnkills>>
Machine == <<tnos, tnv6, tndefault, tnkills>>
-----------------------------------------------------------------------------
Fam == {"4", "6"}
Kinds == {"table", "marked", "unreach", "alien", "node", "main", "tun", "scoped", "half"}
Entries == Fam \X Kinds
TunFamilies == IF tnv6 THEN Fam ELSE {"4"}

\* Mutant: the rule of the core's own traffic is the last one.
RuleSteps_CoreLast(f) == <<<<f, "table">>, <<f, "node">>, <<f, "main">>, <<f, "tun">>, <<f, "marked">>, <<f, "unreach">>>>

\* The commands of tunRoutesUp in order; what a failure does is in Essential
RuleSteps(f) == <<<<f, "table">>, <<f, "marked">>, <<f, "unreach">>, <<f, "node">>, <<f, "main">>, <<f, "tun">>>>
OfKind(k, fams) == (IF "4" \in fams THEN <<<<"4", k>>>> ELSE <<>>) \o (IF "6" \in fams THEN <<<<"6", k>>>> ELSE <<>>)
Routed(k) == OfKind(k, TunFamilies \intersect tndefault)
Steps ==
    CASE tnos = "linux" -> IF tnv6 THEN RuleSteps("4") \o RuleSteps("6") ELSE RuleSteps("4")
      [] tnos = "darwin" -> Routed("node") \o Routed("scoped") \o OfKind("half", TunFamilies)
      [] OTHER -> Routed("node") \o OfKind("half", TunFamilies)
Essential(e) ==
    CASE tnos = "linux" -> TRUE
      [] OTHER -> e[1] = "4" /\ e[2] \in {"scoped", "half"}
\* What lies on the device and goes with it
OnDevice == Fam \X {"table", "half"}

\* tunConflicts of one family: our rules are deleted in the order of their
\* preferences up to the first that is not ours; a rule for a single host
\* counts as ours; the table is flushed only when no foreign rule was met
Foreign(f) == tnkernel[<<f, "alien">>] = "user"

Cleared(f) == IF Foreign(f) THEN {"marked", "unreach"} ELSE {"marked", "unreach", "node", "main", "tun", "table"}
\* The entries tunConflicts deletes, for the families fs in turn until one refuses
Conflicts(fs) ==
    LET asked == {i \in DOMAIN fs : \A j \in 1..(i - 1) : ~Foreign(fs[j])}
    IN  UNION {{<<fs[i], k>> : k \in Cleared(fs[i])} : i \in asked}
Wipe(gone) == [e \in Entries |-> IF e \in gone THEN "none" ELSE tnkernel[e]]

\* tunCleanupResidual: our rules on Linux, the resolvers on macOS, nothing on Windows
\* A service whose resolvers cannot be set stays as it is (a warning)
SomeRestored(saved) == {[s \in Services |-> IF s \in (DOMAIN saved \ T) THEN saved[s] ELSE tndns[s]] : T \in SUBSET Services}
tunCleanupResidual ==
    CASE tnos = "linux" -> /\ tnkernel' = Wipe(Conflicts(<<"4">>) \union Conflicts(<<"6">>))
                           /\ UNCHANGED <<tndns, tnfile>>
      [] tnos = "darwin" /\ tnfile # NoFile -> tndns' \in SomeRestored(tnfile) /\ tnfile' = NoFile /\ UNCHANGED tnkernel
      [] OTHER -> UNCHANGED <<tnkernel, tndns, tnfile>>
-----------------------------------------------------------------------------
\* The core runs its tun inbound
DeviceUp ==
    /\ tnphase = "idle" /\ ~tndev /\ tndev' = TRUE
    /\ UNCHANGED <<Machine, tnkernel, tndns, tnphase, tntodo, tnundo, tndnsmem, tnfile, tnskipped, tnleft>>

\* The core ends or its inbound closes the device: its routes go with it
DeviceGone ==
    /\ tndev /\ tndev' = FALSE
    /\ tnkernel' = Wipe(OnDevice)
    /\ UNCHANGED <<Machine, tndns, tnphase, tntodo, tnundo, tndnsmem, tnfile, tnskipped, tnleft>>

\* writeTransparentProxyRules cleans what an earlier run left, then tunRoutesUp begins
startTunCore ==
    /\ tnphase = "idle" /\ tndev
    /\ tunCleanupResidual
    /\ IF \/ tnos = "linux" /\ \E f \in TunFamilies : Foreign(f)
          \/ tnos # "linux" /\ "4" \notin tndefault
       THEN UNCHANGED <<tnphase, tntodo>>
       ELSE tnphase' = "up" /\ tntodo' = Steps
    /\ tnundo' = <<>> /\ tndnsmem' = <<>> /\ tnskipped' = {}
    /\ UNCHANGED <<Machine, tndev, tnleft>>

\* Mutant: Windows records an entry that was there already as its own.
AddEntry_TakesOver ==
    /\ tnphase = "up" /\ tntodo # <<>>
    /\ LET e == Head(tntodo)
           exists == tnkernel[e] # "none"
       IN  /\ e \in OnDevice => tndev
           /\ tnos = "windows" \/ ~exists \/ (tnos = "darwin" /\ e \notin OnDevice)
           /\ tntodo' = Tail(tntodo)
           /\ IF exists /\ tnos = "linux"
              THEN UNCHANGED <<tnkernel, tnundo>>
              ELSE tnkernel' = [tnkernel EXCEPT ![e] = "ours"] /\ tnundo' = Append(tnundo, e)
    /\ UNCHANGED <<Machine, tndns, tndev, tnphase, tndnsmem, tnfile, tnskipped, tnleft>>

\* One command.  An entry that is there already: macOS deletes it and adds it
\* again, Windows leaves it unrecorded; Linux never meets one
AddEntry ==
    /\ tnphase = "up" /\ tntodo # <<>>
    /\ LET e == Head(tntodo)
           exists == tnkernel[e] # "none"
       IN  /\ e \in OnDevice => tndev
           /\ tnos = "windows" \/ ~exists \/ (tnos = "darwin" /\ e \notin OnDevice)
           /\ tntodo' = Tail(tntodo)
           /\ IF exists /\ tnos = "windows"
              THEN UNCHANGED <<tnkernel, tnundo>>
              ELSE tnkernel' = [tnkernel EXCEPT ![e] = "ours"] /\ tnundo' = Append(tnundo, e)
    /\ UNCHANGED <<Machine, tndns, tndev, tnphase, tndnsmem, tnfile, tnskipped, tnleft>>

\* A command fails: an essential one ends the setup with the undo
AddFails ==
    /\ tnphase = "up" /\ tntodo # <<>>
    /\ LET e == Head(tntodo)
       IN  IF Essential(e)
           THEN tnphase' = "undo" /\ tntodo' = <<>> /\ UNCHANGED tnskipped
           ELSE tnphase' = "up" /\ tntodo' = Tail(tntodo) /\ tnskipped' = tnskipped \union {e}
    /\ UNCHANGED <<Machine, tnkernel, tndns, tndev, tnundo, tndnsmem, tnfile, tnleft>>

\* macOS: a service's resolvers are read and replaced; a failure leaves it out
SetDNS(s) ==
    /\ tnphase = "up" /\ tntodo = <<>> /\ tnos = "darwin"
    /\ s \in Services \ DOMAIN tndnsmem
    /\ tndns' = [tndns EXCEPT ![s] = "loop"]
    /\ tndnsmem' = [x \in DOMAIN tndnsmem \union {s} |-> IF x = s THEN tndns[s] ELSE tndnsmem[x]]
    /\ UNCHANGED <<Machine, tnkernel, tndev, tnphase, tntodo, tnundo, tnfile, tnskipped, tnleft>>

\* The backup is written once every service has been changed
RoutesUp ==
    /\ tnphase = "up" /\ tntodo = <<>> /\ tnphase' = "on"
    /\ tnfile' = IF tnos = "darwin" THEN tndnsmem ELSE tnfile
    /\ UNCHANGED <<Machine, tnkernel, tndns, tndev, tntodo, tnundo, tndnsmem, tnskipped, tnleft>>

\* stopTunCore, and a setup that cannot list the services or set the adapter's
\* resolver: tunRoutesDown starts with the resolvers, on Windows with the routes
\* to the nodes
stopTunCore ==
    /\ \/ tnphase = "on"
       \/ tnphase = "up" /\ tntodo = <<>> /\ tnos # "linux" /\ tndnsmem = <<>>
    /\ tnphase' = "undo" /\ tntodo' = <<>>
    /\ UNCHANGED <<Machine, tnkernel, tndns, tndev, tnundo, tndnsmem, tnfile, tnskipped, tnleft>>
UndoDNS ==
    /\ tnphase = "undo" /\ tndnsmem # <<>>
    /\ tndns' \in SomeRestored(tndnsmem)
    /\ tnfile' = NoFile /\ tndnsmem' = <<>>
    /\ UNCHANGED <<Machine, tnkernel, tndev, tnphase, tntodo, tnundo, tnskipped, tnleft>>
Undone == IF tnos = "windows" THEN Head(tnundo) ELSE tnundo[Len(tnundo)]
UndoEntry ==
    /\ tnphase = "undo" /\ tndnsmem = <<>> /\ tnundo # <<>>
    /\ tnkernel' = [tnkernel EXCEPT ![Undone] = "none"]
    /\ tnundo' = IF tnos = "windows" THEN Tail(tnundo) ELSE SubSeq(tnundo, 1, Len(tnundo) - 1)
    /\ UNCHANGED <<Machine, tndns, tndev, tnphase, tntodo, tndnsmem, tnfile, tnskipped, tnleft>>
UndoDone ==
    /\ tnphase = "undo" /\ tnundo = <<>> /\ tndnsmem = <<>> /\ tnphase' = "idle"
    /\ UNCHANGED <<Machine, tnkernel, tndns, tndev, tntodo, tnundo, tndnsmem, tnfile, tnskipped, tnleft>>
-----------------------------------------------------------------------------
\* The service is killed; its core goes with it
TunKilled ==
    /\ tnphase # "down" /\ tnkills < MaxKillsT /\ tnkills' = tnkills + 1
    /\ tnphase' = "down" /\ tndev' = FALSE /\ tnkernel' = Wipe(OnDevice)
    /\ tntodo' = <<>> /\ tnundo' = <<>> /\ tndnsmem' = <<>>
    /\ tnleft' = tnleft \union {e \in Entries \ OnDevice : tnkernel[e] = "ours"}
    /\ UNCHANGED <<tnos, tnv6, tndefault, tndns, tnfile, tnskipped>>
\* CleanupTunResidual at boot
TunBoot ==
    /\ tnphase = "down" /\ tnphase' = "idle" /\ tunCleanupResidual
    /\ UNCHANGED <<Machine, tndev, tntodo, tnundo, tndnsmem, tnskipped, tnleft>>
\* The user adds a rule of their own in our range, or a route to a node
UserAdds(e) ==
    /\ tnphase = "idle" /\ tnkernel[e] = "none"
    /\ e[2] = "node" \/ (tnos = "linux" /\ e[2] = "alien")
    /\ tnkernel' = [tnkernel EXCEPT ![e] = "user"]
    /\ UNCHANGED <<Machine, tndns, tndev, tnphase, tntodo, tnundo, tndnsmem, tnfile, tnskipped, tnleft>>

TunInit ==
    /\ tnos \in {"linux", "darwin", "windows"} /\ tnv6 \in BOOLEAN /\ tndefault \in SUBSET Fam
    /\ tnkernel = [e \in Entries |-> "none"] /\ tndns = [s \in Services |-> "user"]
    /\ tndev = FALSE /\ tnphase = "idle" /\ tntodo = <<>> /\ tnundo = <<>> /\ tndnsmem = <<>>
    /\ tnfile = NoFile /\ tnskipped = {} /\ tnleft = {} /\ tnkills = 0

TunNext ==
    \/ DeviceUp \/ DeviceGone \/ startTunCore \/ AddEntry \/ AddFails \/ RoutesUp \/ stopTunCore
    \/ UndoDNS \/ UndoEntry \/ UndoDone \/ TunKilled \/ TunBoot
    \/ \E s \in Services : SetDNS(s)
    \/ \E e \in Entries : UserAdds(e)

TunSpec == TunInit /\ [][TunNext]_tunVars
-----------------------------------------------------------------------------
(* What a packet of a family meets.  Kinds: "core" (marked, or bound to the *)
(* physical interface), "node" (any process, to a node), "other".           *)
TunAt(f, k) == tnkernel[<<f, k>>] # "none"
Main(f) == IF f \in tndefault THEN "physical" ELSE "unreachable"
RuleFate(f, packet) ==
    IF packet = "core" /\ TunAt(f, "marked") /\ f \in tndefault THEN "physical"
    ELSE IF packet = "core" /\ TunAt(f, "unreach") THEN "unreachable"
    ELSE IF packet = "node" /\ TunAt(f, "node") /\ f \in tndefault THEN "physical"
    ELSE IF TunAt(f, "tun") /\ TunAt(f, "table") THEN "tun"
    ELSE Main(f)
RouteFate(f, packet) ==
    IF packet = "core" THEN IF tnos = "darwin" /\ TunAt(f, "half") /\ ~TunAt(f, "scoped") THEN "unreachable" ELSE Main(f)
    ELSE IF TunAt(f, "half") /\ ~(packet = "node" /\ TunAt(f, "node")) THEN "tun"
    ELSE Main(f)
TunFate(f, packet) == IF tnos = "linux" THEN RuleFate(f, packet) ELSE RouteFate(f, packet)

\* Every variable holds a value of its kind.
TunTypeOK ==
    /\ tnkernel \in [Entries -> {"none", "ours", "user"}] /\ tndns \in [Services -> {"user", "loop"}]
    /\ tnphase \in {"down", "idle", "up", "on", "undo"} /\ tndev \in BOOLEAN
    /\ tnundo \in Seq(Entries) /\ tntodo \in Seq(Entries) /\ tnskipped \union tnleft \subseteq Entries
    /\ (tnphase # "up" => tntodo = <<>>) /\ (tnphase \in {"down", "idle"} => tnundo = <<>>)

\* At every moment of a setup, an undo, after a kill and at boot, a packet of
\* the core itself never enters the device (it would come back to the core),
\* and where its family has a physical default route it leaves by it.
CoreNeverLoops ==
    \A f \in Fam : /\ TunFate(f, "core") # "tun"
                   /\ f \in tndefault /\ <<f, "scoped">> \notin tnskipped => TunFate(f, "core") = "physical"

\* At every moment any process reaches a node outside the device, unless the
\* route to it could not be added: the entries that keep it out are installed
\* before the ones that draw traffic in, and removed after them.  (On Windows
\* the undo removes the node routes first.)
NodesStayOutside ==
    \A f \in tndefault : tnphase # "undo" \/ tnos # "windows" =>
        \/ TunFate(f, "node") = "physical"
        \/ <<f, "node">> \in tnskipped

\* A service idle after a complete stop leaves no entry of its own, unless a
\* kill left it.
StopLeavesNoRoutes ==
    tnphase = "idle" => \A e \in Entries : tnkernel[e] = "ours" => e \in tnleft

\* Linux: after a boot none of our rules is left, unless a foreign rule came
\* among them.
BootClearsRules ==
    tnphase = "idle" /\ tnos = "linux" =>
        \A f \in Fam : Foreign(f) \/ \A k \in Kinds : tnkernel[<<f, k>>] # "ours"

\* A rule or a route of the user is never removed, except a rule or a macOS
\* route to a single node, which is taken for one of ours.
UsersEntriesStay ==
    [][\A e \in Entries : tnkernel[e] = "user" /\ tnkernel'[e] # "user" => tnos # "windows" /\ e[2] = "node"]_tunVars

\* The routes of the tun device at every step of setup, undo, kill and boot: the
\* core and the nodes stay outside, and a stop or a boot leaves nothing of ours.
RoutesAreSafe == TunTypeOK /\ CoreNeverLoops /\ NodesStayOutside /\ StopLeavesNoRoutes /\ BootClearsRules

\* A killed service leaves no macOS network service pointed at the DNS module
\* without a backup of the resolvers it had.
CrashKeepsResolvers ==
    \A s \in Services : tndns[s] = "loop" /\ tnphase = "down" =>
        tnfile # NoFile /\ s \in DOMAIN tnfile /\ tnfile[s] # "loop"
=============================================================================
