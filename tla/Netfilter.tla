------------------------------ MODULE Netfilter ------------------------------
(***************************************************************************)
(* The packet filter rules of the tproxy and redirect modes: the command   *)
(* lists of kernel/iptables (legacy iptables and nftables), the order       *)
(* writeTransparentProxyRules, deleteTransparentProxyRules and              *)
(* RecoverHostState run them in (kernel/v2ray/transparent.go), the watcher  *)
(* that exempts the networks of the interfaces, and the death of the        *)
(* service between any two commands.                                        *)
(*                                                                         *)
(* A packet is the set of the facts a rule can match; a rule is the set of  *)
(* facts it asks for and its target.  What the rules do with a packet is    *)
(* computed by walking the chains (Fate).  Only the first packet of a       *)
(* connection is followed, so a restored connection mark is no mark.        *)
(***************************************************************************)
EXTENDS Integers, Sequences, FiniteSets, SequencesExt

CONSTANTS
    NfHosts,    \* [nft, ipv6, excluded, white, ipset : BOOLEAN]: the host and the user's lists
    NetFamily,  \* the networks an interface may get an address of -> "4" or "6"
    DnsPorts,   \* the ports DnsListenAddr may name, the stock one among them
    MaxKills    \* how often the service is killed, at most

VARIABLES
    nfhost,     \* the host, fixed
    nfrules,    \* the kernel: chain -> rules, and the routes and sets as empty chains
    nfphase,    \* "down", "idle", "cleared" and "failed" (within a start) or "on"
    nfmode,     \* the mode of the interception that is on
    nfpending,  \* the host state marker of a start that has not committed
    nfport,     \* the port of the saved settings
    nfmodule,   \* the port the running DNS module listens on
    nfknown,    \* dnsRedirectPorts
    nfleft,     \* the ports an earlier process left redirections for
    nfnets,     \* the networks of the interfaces
    nfpool,     \* cidrPool of the watcher
    nfkills     \* how often the service was killed

netfilterVars == <<nfhost, nfrules, nfphase, nfmode, nfpending, nfport, nfmodule,
                   nfknown, nfleft, nfnets, nfpool, nfkills>>

Stock == "52353"
Modes == {"tproxy", "redirect"}
-----------------------------------------------------------------------------
(* The kernel: commands *)

Builtin == {"4", "6"} \X {"mangle", "nat"} \X {"OUTPUT", "PREROUTING"}
Chains == {"TP_OUT", "TP_PRE", "TP_RULE", "TP_MARK", "DNS_MARK", "DNS_REDIRECT"}
Keys == Builtin \union {"4", "6"} \X {"mangle", "nat"} \X Chains
        \union {"4", "6"} \X {"nft"} \X (Chains \union {"OUTPUT", "PREROUTING", "local_ips"})
        \union {"4", "6"} \X {"ip"} \X {"rule", "route"} \union {"4", "6"} \X {"ipset"} \X {"white"}
NoRule == [m |-> {}, j |-> ""]
Absent == <<NoRule>>
Untouched == [k \in Builtin |-> <<>>] @@ [k \in Keys |-> Absent]

Cmd(op, f, t, c) == [op |-> op, key |-> <<f, t, c>>, rule |-> NoRule, pos |-> 1, table |-> <<>>]
Rule(op, f, t, c, m, j) == [Cmd(op, f, t, c) EXCEPT !.rule = [m |-> m, j |-> j]]

\* ip rule/route and ipset commands are -N and -X of a chain nothing is put into
Succeeds(R, c) ==
    LET exists == c.key \in Keys /\ R[c.key] # Absent
    IN  CASE c.op = "N" -> ~exists
          [] c.op = "F" -> exists
          [] c.op = "X" -> /\ exists /\ R[c.key] = <<>>
                           /\ \A k \in Keys : k[1] = c.key[1] => \A i \in DOMAIN R[k] :
                                  /\ k[2] = c.key[2] => R[k][i].j # c.key[3]
                                  /\ c.key[3] \notin R[k][i].m
          [] c.op \in {"A", "I"} ->
                /\ exists /\ c.pos <= Len(R[c.key]) + 1
                /\ c.rule.j \in Chains => R[<<c.key[1], c.key[2], c.rule.j>>] # Absent
          [] c.op = "D" -> exists /\ c.rule \in ToSet(R[c.key])
          [] c.op = "nft delete" -> R[<<"4", "nft", "OUTPUT">>] # Absent
          [] OTHER -> TRUE

Effect(R, c) ==
    CASE c.op \in {"N", "F", "ipset"} -> [R EXCEPT ![c.key] = <<>>]
      [] c.op = "X" -> [R EXCEPT ![c.key] = Absent]
      [] c.op = "A" -> [R EXCEPT ![c.key] = Append(@, c.rule)]
      [] c.op = "I" -> [R EXCEPT ![c.key] = InsertAt(@, c.pos, c.rule)]
      [] c.op = "D" -> [R EXCEPT ![c.key] = RemoveFirst(@, c.rule)]
      [] c.op = "nft -f" -> [k \in DOMAIN c.table |-> (IF R[k] = Absent THEN <<>> ELSE R[k]) \o c.table[k]] @@ R
      [] c.op = "nft delete" -> [k \in {k \in Keys : k[2] = "nft"} |-> Absent] @@ R

Try(R, c) == IF Succeeds(R, c) THEN Effect(R, c) ELSE R

RECURSIVE ExecCommands(_, _, _), Through(_, _)
Half(s) == SubSeq(s, 1, Len(s) \div 2)
Rest(s) == SubSeq(s, Len(s) \div 2 + 1, Len(s))
ExecCommands(R, cmds, stopWhenError) ==
    CASE cmds = <<>>      -> [ok |-> TRUE, R |-> R]
      [] Len(cmds) = 1    -> [ok |-> Succeeds(R, cmds[1]), R |-> Try(R, cmds[1])]
      [] OTHER            -> LET s == ExecCommands(R, Half(cmds), stopWhenError)
                             IN  IF ~s.ok /\ stopWhenError THEN s
                                 ELSE ExecCommands(s.R, Rest(cmds), stopWhenError)
Run(R, cmds) == ExecCommands(R, cmds, FALSE).R
RunStrict(R, cmds) == ExecCommands(R, cmds, TRUE)
\* The kernels on the way
Through(R, cmds) ==
    IF Len(cmds) = 1 THEN {R, Try(R, cmds[1])}
    ELSE Through(R, Half(cmds)) \union Through(Run(R, Half(cmds)), Rest(cmds))
-----------------------------------------------------------------------------
(* The kernel: packets *)

Marked40(p) == "m40" \in p /\ "m80" \notin p
Matches(m, p) == \A a \in m : CASE a = "only40" -> Marked40(p)
                                [] a = "not40"  -> ~Marked40(p)
                                [] OTHER        -> a \in p

RECURSIVE Walk(_, _, _, _)
\* The packet p at rule i of chain k: the verdict, and the packet it has become
Walk(R, k, i, p) ==
    IF R[k] = Absent \/ i > Len(R[k]) THEN [v |-> "RETURN", p |-> p]
    ELSE LET r == R[k][i]
         IN  IF ~Matches(r.m, p) THEN Walk(R, k, i + 1, p) ELSE
             CASE r.j = "MARK"       -> Walk(R, k, i + 1, p \union {"m40"})
               [] r.j = "RESTORE"    -> Walk(R, k, i + 1, p \ {"m40", "m80"})
               [] r.j = "SAVE"       -> Walk(R, k, i + 1, p)
               [] r.j \in Chains     -> LET q == Walk(R, <<k[1], k[2], r.j>>, 1, p)
                                        IN  IF q.v = "RETURN" THEN Walk(R, k, i + 1, q.p) ELSE q
               [] OTHER              -> [v |-> r.j, p |-> p]

Passed(q) == q.v \in {"RETURN", "ACCEPT"}
Hooks(R, f, c, p) ==
    LET a == Walk(R, <<f, "nft", c>>, 1, p)
        b == Walk(R, <<f, "mangle", c>>, 1, a.p)
    IN  IF ~Passed(a) THEN a ELSE IF ~Passed(b) THEN b ELSE Walk(R, <<f, "nat", c>>, 1, b.p)

\* Where the packet goes: "direct", "PROXY" (the core's inbound), a port of the
\* DNS module, or "lost" (routed to this host by its mark, and nobody listens)
Fate(R, f, packet) ==
    LET known == \E r \in ToSet(R[<<f, "nft", "local_ips">>]) : r.m # {} /\ r.m \subseteq packet
        p == packet \union (IF known THEN {"local"} ELSE {})
        policy == R[<<f, "ip", "rule">>] # Absent /\ R[<<f, "ip", "route">>] # Absent
        Again(q) == LET s == Hooks(R, f, "PREROUTING", q) IN IF Passed(s) THEN "lost" ELSE s.v
        first == Hooks(R, f, IF "own" \in p THEN "OUTPUT" ELSE "PREROUTING", p)
    IN  IF Passed(first)
        THEN IF ~(Marked40(first.p) /\ policy) THEN "direct"
             ELSE IF "own" \in p THEN Again((first.p \ {"own"}) \union {"lo"}) ELSE "lost"
        ELSE IF "own" \in p /\ "m40" \in first.p
             THEN LET s == Walk(R, <<f, "mangle", "PREROUTING">>, 1,
                                (first.p \ {"own", "dport53"}) \union {"lo", first.v})
                  IN  IF Passed(s) THEN first.v ELSE s.v
             ELSE first.v
-----------------------------------------------------------------------------
(* kernel/iptables: the command lists *)

Families(h) == IF h.ipv6 THEN <<"4", "6">> ELSE <<"4">>
PerFamily(h, Of(_)) == FlattenSeq([i \in DOMAIN Families(h) |-> Of(Families(h)[i])])
When(b, s) == IF b THEN s ELSE <<>>
Both(Of(_)) == Of("tcp") \o Of("udp")

\* run of legacyWhitelist: through an ipset where there is one, else per entry
Whitelist(h, f, t) ==
    When(h.white, When(h.ipset, <<Cmd("ipset", f, "ipset", "white")>>)
                  \o <<Rule("A", f, t, "TP_RULE", {"white"}, "RETURN")>>)

Excluded(h, f, t) == When(h.excluded, <<Rule("A", f, t, "TP_RULE", {"iif"}, "RETURN"),
                                        Rule("A", f, t, "TP_RULE", {"oif"}, "RETURN")>>)

\* legacyTproxy.GetSetupCommands
TproxySetup(h, port) == PerFamily(h, LAMBDA f :
    LET N(c) == Cmd("N", f, "mangle", c)
        A(c, m, j) == <<Rule("A", f, "mangle", c, m, j)>>
        I(c, m, j) == <<Rule("I", f, "mangle", c, m, j)>>
    IN  <<Cmd("N", f, "ip", "rule"), Cmd("N", f, "ip", "route"),
          N("TP_OUT"), N("TP_PRE"), N("TP_RULE"), N("TP_MARK"), N("DNS_MARK")>>
        \o I("OUTPUT", {"udp", "dport53"}, "DNS_MARK") \o I("OUTPUT", {"tcp", "dport53"}, "DNS_MARK")
        \o I("OUTPUT", {}, "TP_OUT")
        \o I("PREROUTING", {"udp", "dport53"}, "DNS_MARK") \o I("PREROUTING", {"tcp", "dport53"}, "DNS_MARK")
        \o I("PREROUTING", {}, "TP_PRE")
        \o A("TP_OUT", {"m80"}, "RETURN") \o Both(LAMBDA l4 : A("TP_OUT", {l4, "own"}, "TP_RULE"))
        \o A("TP_PRE", {"lo", "not40"}, "RETURN") \o Both(LAMBDA l4 : A("TP_PRE", {l4, "forwarded"}, "TP_RULE"))
        \o Both(LAMBDA l4 : A("TP_PRE", {l4, port}, "RETURN"))
        \o Both(LAMBDA l4 : A("TP_PRE", {l4, "only40", "dport53"}, port))
        \o Both(LAMBDA l4 : A("TP_PRE", {l4, "only40"}, "PROXY"))
        \o A("TP_RULE", {}, "RESTORE") \o A("TP_RULE", {"only40"}, "RETURN")
        \o Excluded(h, f, "mangle")
        \o A("TP_RULE", {"udp", "dport53"}, "TP_MARK") \o A("TP_RULE", {"tcp", "dport53"}, "TP_MARK")
        \o A("TP_RULE", {"only40"}, "RETURN")
        \o Whitelist(h, f, "mangle")
        \o A("TP_RULE", {}, "TP_MARK")
        \o A("TP_MARK", {"tcp"}, "MARK") \o A("TP_MARK", {"udp"}, "MARK") \o A("TP_MARK", {}, "SAVE")
        \o A("DNS_MARK", {"m80"}, "RETURN") \o A("DNS_MARK", {}, "MARK") \o A("DNS_MARK", {}, "ACCEPT"))

\* legacyTproxy.GetCleanCommands
TproxyClean(h) ==
    PerFamily(h, LAMBDA f :
        LET F(c) == Cmd("F", f, "mangle", c)
            X(c) == Cmd("X", f, "mangle", c)
            D(c, m, j) == Rule("D", f, "mangle", c, m, j)
        IN  <<Cmd("X", f, "ip", "rule"), Cmd("X", f, "ip", "route"),
              F("TP_OUT"), D("OUTPUT", {}, "TP_OUT"), X("TP_OUT"),
              F("TP_PRE"), D("PREROUTING", {}, "TP_PRE"), X("TP_PRE"),
              F("TP_RULE"), X("TP_RULE"), F("TP_MARK"), X("TP_MARK"), F("DNS_MARK"),
              D("PREROUTING", {"udp", "dport53"}, "DNS_MARK"), D("PREROUTING", {"tcp", "dport53"}, "DNS_MARK"),
              D("OUTPUT", {"udp", "dport53"}, "DNS_MARK"), D("OUTPUT", {"tcp", "dport53"}, "DNS_MARK"),
              X("DNS_MARK")>>)
    \o <<Cmd("X", "4", "ipset", "white"), Cmd("X", "6", "ipset", "white")>>

\* legacyRedirect.GetSetupCommands; "private" stands for the reserved ranges
RedirectSetup(h, port) == PerFamily(h, LAMBDA f :
    LET N(c) == Cmd("N", f, "nat", c)
        A(c, m, j) == <<Rule("A", f, "nat", c, m, j)>>
        I(c, m, j) == <<Rule("I", f, "nat", c, m, j)>>
    IN  <<N("TP_OUT"), N("TP_PRE"), N("TP_RULE"), N("DNS_REDIRECT")>>
        \o A("TP_RULE", {"private"}, "RETURN") \o A("TP_RULE", {"m80"}, "RETURN")
        \o A("DNS_REDIRECT", {"m80"}, "RETURN") \o Both(LAMBDA l4 : A("DNS_REDIRECT", {l4}, port))
        \o Excluded(h, f, "nat") \o Whitelist(h, f, "nat")
        \o A("TP_RULE", {"tcp"}, "PROXY")
        \o I("PREROUTING", {"tcp"}, "TP_PRE") \o I("OUTPUT", {"tcp"}, "TP_OUT")
        \o A("TP_PRE", {}, "TP_RULE") \o A("TP_OUT", {}, "TP_RULE")
        \o I("PREROUTING", {"udp", "dport53"}, "DNS_REDIRECT") \o I("PREROUTING", {"tcp", "dport53"}, "DNS_REDIRECT")
        \o I("OUTPUT", {"udp", "dport53"}, "DNS_REDIRECT") \o I("OUTPUT", {"tcp", "dport53"}, "DNS_REDIRECT"))

\* legacyRedirect.GetCleanCommands
RedirectClean(h) ==
    PerFamily(h, LAMBDA f :
        LET F(c) == Cmd("F", f, "nat", c)
            X(c) == Cmd("X", f, "nat", c)
            D(c, m, j) == Rule("D", f, "nat", c, m, j)
        IN  <<F("DNS_REDIRECT"),
              D("PREROUTING", {"udp", "dport53"}, "DNS_REDIRECT"), D("PREROUTING", {"tcp", "dport53"}, "DNS_REDIRECT"),
              D("OUTPUT", {"udp", "dport53"}, "DNS_REDIRECT"), D("OUTPUT", {"tcp", "dport53"}, "DNS_REDIRECT"),
              X("DNS_REDIRECT"), F("TP_OUT"), D("OUTPUT", {"tcp"}, "TP_OUT"), X("TP_OUT"),
              F("TP_PRE"), D("PREROUTING", {"tcp"}, "TP_PRE"), X("TP_PRE"), F("TP_RULE"), X("TP_RULE")>>)
    \o <<Cmd("X", "4", "ipset", "white"), Cmd("X", "6", "ipset", "white")>>

\* The nftables ruleset: one table loaded at once, hooked for IPv6 only where it is supported
NftTable(h, chains) ==
    [k \in {<<f, "nft", c>> : f \in ToSet(Families(h)), c \in DOMAIN chains} |-> chains[k[3]]]
Load(h, chains) == [Cmd("nft -f", "4", "nft", "") EXCEPT !.table = NftTable(h, chains)]
R1(m, j) == <<[m |-> m, j |-> j]>>

\* nftTproxy.GetSetupCommands; "local" stands for the sets local_ips and local_ips6
NftTproxySetup(h, port) ==
    PerFamily(h, LAMBDA f : <<Cmd("N", f, "ip", "rule"), Cmd("N", f, "ip", "route")>>)
    \o <<Load(h,
         [OUTPUT |-> R1({"dport53"}, "DNS_MARK") \o R1({}, "TP_OUT"),
          PREROUTING |-> R1({"dport53"}, "DNS_MARK") \o R1({}, "TP_PRE"),
          TP_OUT |-> R1({"m80"}, "RETURN") \o R1({"own"}, "TP_RULE"),
          TP_PRE |-> R1({"lo", "not40"}, "RETURN") \o R1({"forwarded"}, "TP_RULE") \o R1({port}, "RETURN")
                     \o R1({"only40", "dport53"}, port) \o R1({"only40"}, "PROXY"),
          DNS_MARK |-> R1({"m80"}, "RETURN") \o R1({}, "MARK") \o R1({}, "ACCEPT"),
          TP_RULE |-> R1({}, "RESTORE") \o R1({"only40"}, "RETURN")
                      \o When(h.excluded, R1({"iif"}, "RETURN") \o R1({"oif"}, "RETURN"))
                      \o R1({"dport53"}, "TP_MARK") \o R1({"only40"}, "RETURN")
                      \o R1({"local"}, "RETURN") \o When(h.white, R1({"white"}, "RETURN"))
                      \o R1({}, "TP_MARK"),
          TP_MARK |-> R1({}, "MARK") \o R1({}, "SAVE"),
          local_ips |-> <<>>])>>

\* nftRedirect.GetSetupCommands
NftRedirectSetup(h, port) ==
    <<Load(h,
      [OUTPUT |-> R1({"dport53"}, "DNS_REDIRECT") \o R1({"tcp"}, "TP_RULE"),
       PREROUTING |-> R1({"dport53"}, "DNS_REDIRECT") \o R1({"tcp"}, "TP_RULE"),
       DNS_REDIRECT |-> R1({"m80"}, "RETURN") \o R1({"dport53"}, port),
       TP_RULE |-> R1({"private"}, "RETURN") \o When(h.white, R1({"white"}, "RETURN"))
                   \o R1({"local"}, "RETURN") \o R1({"m80"}, "RETURN")
                   \o When(h.excluded, R1({"iif"}, "RETURN") \o R1({"oif"}, "RETURN"))
                   \o R1({"tcp"}, "PROXY"),
       local_ips |-> <<>>])>>

\* GetCleanCommands of nftRedirect and nftTproxy
NftRedirectClean == <<Cmd("nft delete", "4", "nft", "")>>
NftTproxyClean(h) ==
    PerFamily(h, LAMBDA f : <<Cmd("X", f, "ip", "rule"), Cmd("X", f, "ip", "route")>>) \o NftRedirectClean

\* AddIPWhitelist and RemoveIPWhitelist; an element of local_ips is a rule of that name
RemoveIPWhitelist(h, mode, n) ==
    LET f == NetFamily[n]
    IN  IF h.nft THEN <<Rule("D", f, "nft", "local_ips", {n}, "RETURN")>>
        ELSE <<Rule("D", f, IF mode = "tproxy" THEN "mangle" ELSE "nat", "TP_RULE", {n}, "RETURN")>>
AddIPWhitelist(h, mode, n) ==
    LET f == NetFamily[n]
    IN  IF h.nft THEN <<Rule("A", f, "nft", "local_ips", {n}, "RETURN")>>
        ELSE RemoveIPWhitelist(h, mode, n)
             \o <<IF mode = "tproxy" THEN [Rule("I", f, "mangle", "TP_RULE", {n}, "RETURN") EXCEPT !.pos = 7]
                  ELSE Rule("I", f, "nat", "TP_RULE", {n}, "RETURN")>>

\* SyncIP: from the networks in the pool to those of the interfaces
SyncIP(h, mode, pool, nets) ==
    FlattenSeq([i \in DOMAIN SetToSeq(nets \ pool) |-> AddIPWhitelist(h, mode, SetToSeq(nets \ pool)[i])])
    \o FlattenSeq([i \in DOMAIN SetToSeq(pool \ nets) |-> RemoveIPWhitelist(h, mode, SetToSeq(pool \ nets)[i])])
-----------------------------------------------------------------------------
(* kernel/v2ray/transparent.go *)

GetSetupCommands(h, mode, port) ==
    IF mode = "tproxy" THEN IF h.nft THEN NftTproxySetup(h, port) ELSE TproxySetup(h, port)
    ELSE IF h.nft /\ mode = "redirect" THEN NftRedirectSetup(h, port) ELSE RedirectSetup(h, port)
GetCleanCommands(h) ==
    IF h.nft THEN NftTproxyClean(h) \o NftRedirectClean ELSE TproxyClean(h) \o RedirectClean(h)

\* Mutant: the exemption follows the redirection.
DnsRedirect_ExemptLast(h, port) == PerFamily(h, LAMBDA f :
    <<Rule("A", f, "nat", "OUTPUT", {"udp", "dport53"}, port), Rule("A", f, "nat", "OUTPUT", {"tcp", "dport53"}, port),
      Rule("A", f, "nat", "PREROUTING", {"udp", "dport53"}, port), Rule("A", f, "nat", "PREROUTING", {"tcp", "dport53"}, port),
      Rule("A", f, "nat", "OUTPUT", {"m80"}, "RETURN"), Rule("A", f, "nat", "PREROUTING", {"m80"}, "RETURN")>>)

\* The redirection of DNS, its exemption, and their deletion for every port known
DnsRedirect(h, port) == PerFamily(h, LAMBDA f :
    <<Rule("A", f, "nat", "OUTPUT", {"udp", "dport53"}, port), Rule("A", f, "nat", "OUTPUT", {"tcp", "dport53"}, port),
      Rule("A", f, "nat", "PREROUTING", {"udp", "dport53"}, port), Rule("A", f, "nat", "PREROUTING", {"tcp", "dport53"}, port),
      Rule("I", f, "nat", "OUTPUT", {"m80"}, "RETURN"), Rule("I", f, "nat", "PREROUTING", {"m80"}, "RETURN")>>)

\* Mutant: only the UDP rules are deleted.
dnsRedirectDeleteCommands_Udp(ports) ==
    LET Of(port, f) == [i \in 1..4 |-> Rule("D", f, "nat", IF i <= 2 THEN "PREROUTING" ELSE "OUTPUT",
                                             {"udp", "dport53"}, port)]
        seq == SetToSeq(ports)
    IN  FlattenSeq([i \in DOMAIN seq |-> Of(seq[i], "4") \o Of(seq[i], "6")])

dnsRedirectDeleteCommands(ports) ==
    LET Of(port, f) == [i \in 1..4 |-> Rule("D", f, "nat", IF i <= 2 THEN "PREROUTING" ELSE "OUTPUT",
                                             {IF i % 2 = 1 THEN "udp" ELSE "tcp", "dport53"}, port)]
        seq == SetToSeq(ports)
    IN  FlattenSeq([i \in DOMAIN seq |-> Of(seq[i], "4") \o Of(seq[i], "6")])

Exemptions == [i \in 1..4 |-> Rule("D", IF i <= 2 THEN "4" ELSE "6", "nat",
                                   IF i % 2 = 1 THEN "OUTPUT" ELSE "PREROUTING", {"m80"}, "RETURN")]

\* deleteTransparentProxyRules
Delete(h, ports) == dnsRedirectDeleteCommands(ports) \o Exemptions \o GetCleanCommands(h)

\* cleanupResidualTransparentProxyRules
Residual(ports) ==
    LET F(f, t, c) == Cmd("F", f, t, c)
        X(f, t, c) == Cmd("X", f, t, c)
        D(f, t, c, m, j) == Rule("D", f, t, c, m, j)
        Dns(f, t, j) == <<F(f, t, j), D(f, t, "PREROUTING", {"udp", "dport53"}, j), D(f, t, "PREROUTING", {"tcp", "dport53"}, j),
                          D(f, t, "OUTPUT", {"udp", "dport53"}, j), D(f, t, "OUTPUT", {"tcp", "dport53"}, j), X(f, t, j)>>
        Hooked(t) == <<F("4", t, "TP_OUT"), D("4", t, "OUTPUT", {}, "TP_OUT"), X("4", t, "TP_OUT"),
                       F("4", t, "TP_PRE"), D("4", t, "PREROUTING", {}, "TP_PRE"), X("4", t, "TP_PRE"),
                       F("4", t, "TP_RULE"), X("4", t, "TP_RULE")>>
    IN  Dns("4", "mangle", "DNS_MARK") \o Dns("4", "nat", "DNS_REDIRECT") \o SubSeq(Exemptions, 1, 2)
        \o Dns("6", "mangle", "DNS_MARK") \o Dns("6", "nat", "DNS_REDIRECT")
        \o dnsRedirectDeleteCommands(ports) \o SubSeq(Exemptions, 3, 4)
        \o Hooked("mangle") \o <<F("4", "mangle", "TP_MARK"), X("4", "mangle", "TP_MARK")>> \o Hooked("nat")
        \o <<X("4", "ip", "rule"), X("4", "ip", "route"), Cmd("nft delete", "4", "nft", "")>>

Ports == nfknown \union {nfport}
Tidy == Run(nfrules, Residual(Ports))
Interception == <<nfmode, nfmodule, nfpool, nfnets>>
Quiet == nfmode' = "" /\ nfmodule' = "" /\ nfpool' = {} /\ nfnets' = {}

\* The ports REDIRECT rules are installed for
Redirected(R) == {p \in DnsPorts : \E k \in Builtin : k[2] = "nat" /\ k[3] \in {"OUTPUT", "PREROUTING"}
                                       /\ \E i \in DOMAIN R[k] : R[k][i].j = p}

\* setupTransparentProxy: deleteTransparentProxyRules first; the marker is written
\* before it, and cleared when the start commits
Clear ==
    /\ nfphase = "idle" /\ nfphase' = "cleared" /\ nfpending' = TRUE
    /\ nfrules' = Run(nfrules, Delete(nfhost, Ports))
    /\ UNCHANGED <<Interception, nfhost, nfport, nfknown, nfleft, nfkills>>

\* writeTransparentProxyRules
Start(mode) ==
    LET s == RunStrict(Tidy, GetSetupCommands(nfhost, mode, nfport))
    IN  /\ nfphase = "cleared" /\ s.ok /\ nfpending' = FALSE
        /\ nfnets' \in SUBSET DOMAIN NetFamily
        /\ nfrules' = Run(Run(s.R, SyncIP(nfhost, mode, {}, nfnets')), DnsRedirect(nfhost, nfport))
        /\ nfphase' = "on" /\ nfmode' = mode /\ nfmodule' = nfport /\ nfpool' = nfnets'
        /\ nfknown' = nfknown \union {nfport}
        /\ UNCHANGED <<nfhost, nfport, nfleft, nfkills>>

\* A command of the setup fails, and what was installed is deleted again
StartFails(mode) ==
    /\ nfphase = "cleared" /\ nfphase' = "failed"
    /\ nfrules' \in Through(Tidy, GetSetupCommands(nfhost, mode, nfport))
    /\ UNCHANGED <<Interception, nfhost, nfpending, nfport, nfknown, nfleft, nfkills>>

Undo ==
    /\ nfphase = "failed" /\ nfphase' = "idle" /\ nfpending' = FALSE
    /\ nfrules' = Run(nfrules, Delete(nfhost, Ports))
    /\ UNCHANGED <<Interception, nfhost, nfport, nfknown, nfleft, nfkills>>

\* deleteTransparentProxyRules of a stop; the watcher is closed first
Stop ==
    /\ nfphase = "on" /\ nfphase' = "idle" /\ Quiet
    /\ nfrules' = Run(nfrules, Delete(nfhost, Ports))
    /\ UNCHANGED <<nfhost, nfpending, nfport, nfknown, nfleft, nfkills>>

\* The watcher's tick
Tick ==
    /\ nfphase = "on" /\ nfnets # nfpool
    /\ nfrules' = Run(nfrules, SyncIP(nfhost, nfmode, nfpool, nfnets))
    /\ nfpool' = nfnets
    /\ UNCHANGED <<nfhost, nfphase, nfmode, nfpending, nfport, nfmodule, nfknown, nfleft, nfnets, nfkills>>

\* The service is killed with R installed, the marker of a start in place or not
Dies(R, pending) ==
    /\ nfkills < MaxKills /\ nfkills' = nfkills + 1
    /\ nfphase' = "down" /\ Quiet /\ nfrules' = R /\ nfpending' = pending
    /\ nfknown' = {Stock} /\ nfleft' = Redirected(R)
    /\ UNCHANGED <<nfhost, nfport>>

Kill == nfphase # "down" /\ Dies(nfrules, nfpending)
KillDuringClear ==
    /\ nfphase \in {"idle", "on", "failed"} /\ nfkills < MaxKills
    /\ \E R \in Through(nfrules, Delete(nfhost, Ports)) : Dies(R, nfphase # "on")
KillDuringStart(mode) ==
    /\ nfphase = "cleared" /\ nfkills < MaxKills
    /\ \E R \in Through(nfrules, Residual(Ports) \o GetSetupCommands(nfhost, mode, nfport)
                                  \o DnsRedirect(nfhost, nfport)) : Dies(R, TRUE)

\* recoverPendingHostState: RecoverHostState and the marker
Boot ==
    /\ nfphase = "down" /\ nfphase' = "idle"
    /\ nfrules' = IF nfpending THEN Run(nfrules, Residual(Ports)) ELSE nfrules
    /\ nfpending' = FALSE
    /\ UNCHANGED <<Interception, nfhost, nfport, nfknown, nfleft, nfkills>>

\* The settings are saved with another DnsListenAddr
SaveSetting(p) ==
    /\ nfphase \in {"idle", "on"} /\ p # nfport /\ nfport' = p
    /\ UNCHANGED <<Interception, nfhost, nfphase, nfrules, nfpending, nfknown, nfleft, nfkills>>

\* An interface gains or loses a network
Interfaces(nets) ==
    /\ nfphase = "on" /\ nets # nfnets /\ nfnets' = nets
    /\ UNCHANGED <<nfhost, nfphase, nfmode, nfmodule, nfpool, nfrules, nfpending, nfport, nfknown, nfleft, nfkills>>

NetfilterInit ==
    /\ nfhost \in NfHosts /\ nfrules = Untouched /\ nfphase = "idle" /\ nfmode = "" /\ nfpending = FALSE
    /\ nfport = Stock /\ nfmodule = "" /\ nfknown = {Stock} /\ nfleft = {} /\ nfnets = {} /\ nfpool = {}
    /\ nfkills = 0

NetfilterNext ==
    \/ \E mode \in Modes : Start(mode) \/ StartFails(mode) \/ KillDuringStart(mode)
    \/ Clear \/ Undo \/ Stop \/ Tick \/ Kill \/ KillDuringClear \/ Boot
    \/ \E p \in DnsPorts : SaveSetting(p)
    \/ \E nets \in SUBSET DOMAIN NetFamily : Interfaces(nets)
-----------------------------------------------------------------------------
(* Properties *)

L4 == {"tcp", "udp"}
Destinations == {{}, {"private"}, {"white"}} \union {{n} : n \in DOMAIN NetFamily}
Packets(origin) == {o \union {l4} \union d : o \in origin, l4 \in L4, d \in Destinations}
ToDns(ps) == {p \union {"dport53"} : p \in ps}
Apps == {{"own"}, {"own", "oif"}, {"forwarded"}, {"forwarded", "iif"}}
On == nfphase = "on"

\* Every variable holds a value of its kind, and the kernel's built-in chains never go away.
NetfilterTypeOK ==
    /\ nfhost \in NfHosts /\ nfphase \in {"down", "idle", "cleared", "failed", "on"} /\ nfmode \in Modes \union {""}
    /\ nfpending \in BOOLEAN /\ nfport \in DnsPorts /\ nfmodule \in DnsPorts \union {""}
    /\ nfknown \subseteq DnsPorts /\ nfleft \subseteq DnsPorts
    /\ nfnets \subseteq DOMAIN NetFamily /\ nfpool \subseteq DOMAIN NetFamily
    /\ DOMAIN nfrules = Keys /\ \A k \in Builtin : nfrules[k] # Absent
    /\ On <=> nfmode # ""

\* While the interception is on, whatever an earlier process left behind, no
\* packet the core itself sends (mark 0x80) is marked, redirected or diverted:
\* its DNS queries and its connections leave the host.
CoreTrafficLeaves ==
    On => \A f \in ToSet(Families(nfhost)), p \in Packets({{"own", "m80"}}) :
             Fate(nfrules, f, p) = "direct" /\ Fate(nfrules, f, p \union {"dport53"}) = "direct"

\* While the interception is on, every DNS query of this host or of its network
\* reaches the port the module listens on, in both modes, both backends and both
\* families.  The exception is a redirection an earlier process left for a port
\* this process never heard of: dnsRedirectPorts lives in memory.
DnsReachesModule ==
    On /\ nfleft \subseteq nfknown =>
        \A f \in ToSet(Families(nfhost)), p \in ToDns(Packets(Apps)) : Fate(nfrules, f, p) = nfmodule

\* While the interception is on, a connection to a public address goes to the
\* core, and one over an excluded interface, to a whitelisted address or to a
\* network the watcher has seen does not.  Legacy tproxy without exclusions and
\* without a whitelist is left out: rule 7 of TP_RULE is then behind TP_MARK.
OnlyForeignTrafficProxied ==
    On => \A f \in ToSet(Families(nfhost)), o \in Apps, d \in Destinations, l4 \in L4 :
            LET exempt == \/ o \cap {"iif", "oif"} # {} /\ nfhost.excluded
                          \/ "white" \in d /\ nfhost.white
                          \/ "private" \in d /\ nfmode = "redirect"
                          \/ \E n \in nfpool : n \in d /\ NetFamily[n] = f
                behind == /\ ~nfhost.nft /\ nfmode = "tproxy" /\ ~nfhost.excluded /\ ~nfhost.white
                          /\ d \cap nfpool # {}
            IN  behind \/ Fate(nfrules, f, o \union d \union {l4})
                            = IF exempt \/ (l4 = "udp" /\ nfmode = "redirect") THEN "direct" ELSE "PROXY"

\* A stop, and a start that failed half-way, leave nothing of ours in the
\* kernel, whatever was left there before: except redirections for a port of an
\* earlier process this one never heard of.
StopLeavesNothing ==
    [][(nfphase \in {"on", "failed"}) /\ nfphase' = "idle" =>
          \/ nfrules' = Untouched
          \/ ~(nfleft \subseteq nfknown \union {nfport})]_netfilterVars

\* What a killed process left in the kernel never makes the next start fail.
LeftoversNeverBlock ==
    nfphase = "cleared" => \A mode \in Modes : RunStrict(Tidy, GetSetupCommands(nfhost, mode, nfport)).ok

\* Every packet goes where it should while the interception is on, whatever an
\* earlier process left in the kernel.
NetfilterSafe ==
    NetfilterTypeOK /\ CoreTrafficLeaves /\ DnsReachesModule /\ OnlyForeignTrafficProxied /\ LeftoversNeverBlock

\* After a start that was killed half-way and the boot that recovers its host
\* state, an application's packet goes where it would go without the service.
RecoveredTrafficFlows ==
    [][nfphase = "down" /\ nfphase' = "idle" /\ nfpending =>
          \A f \in ToSet(Families(nfhost)), p \in Packets(Apps) : Fate(nfrules', f, p) = "direct"]_netfilterVars
=============================================================================
