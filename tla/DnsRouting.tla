----------------------------- MODULE DnsRouting -----------------------------
(***************************************************************************)
(* From the DNS rules a user stores to the server a query is sent to.      *)
(* The service checks and migrates the rules (dnslist.go, migrate_dns.go)  *)
(* and generates the dns_module configuration (template_dns.go); the core  *)
(* starts its module from it (dns_module.go, module.go), which compiles    *)
(* the rules (rule.go, router.go), indexes the upstreams (upstream.go) and *)
(* picks one for each query (handler.go).                                  *)
(*                                                                         *)
(* A name is the sequence of its labels.  An upstream text is a record     *)
(* [scheme, host, port], an empty string standing for an absent part; a    *)
(* CIDR is the set of its addresses; the entries of one field of a rule    *)
(* are a set, since a field is an OR of its entries.                       *)
(***************************************************************************)
EXTENDS Integers, Sequences, FiniteSets, SequencesExt, FiniteSetsExt

CONSTANTS
    Nil,            \* no router, manager, resolver, instance or answer
    RuleSets,       \* the sequences of rules a user may store
    DefaultRules,   \* DefaultDnsRules
    NodeSets,       \* the sets of names of the connected nodes
    NameQueries,    \* the queries: [name, qtype, client]
    IPs,            \* the hosts that parse as IP addresses
    Loopback,       \* those of them that are loopback addresses
    SystemDns,      \* getSystemDnsServers: resolv.conf, or its backup when hijacked
    LiveDns,        \* GetSystemDNS of the core: resolv.conf as it is
    OwnDns,         \* selfAddrs of isOwnAddress
    PublicDns,      \* wellKnownPublicDns
    Answers,        \* Answers[server][host]: the A record it returns, or ""
    Sites           \* geosite.dat: tag -> entries

VARIABLES
    phase,          \* where the configuration is on its way
    drules,         \* the stored rules
    nodes,          \* the names of the connected nodes
    dconfig,        \* the generated DnsModuleConfig; Start rewrites its upstreams
    dmgr,           \* DnsModule.upstreamMgr
    drouter,        \* DnsModule.router
    dlast           \* the last query, the instance it was sent to, and whether
                    \* the rules had been reloaded by then

routingVars == <<phase, drules, nodes, dconfig, dmgr, drouter, dlast>>

NoText == [scheme |-> "", host |-> "", port |-> ""]
Default(x, none, d) == IF x = none THEN d ELSE x
-----------------------------------------------------------------------------
(* The service: storing the rules *)

\* MigrateDnsRules: the old and the new field of a pair fill each other
MigrateDnsRules(rules) ==
    [i \in DOMAIN rules |->
        LET r == rules[i] IN
        [r EXCEPT !.upstream = Default(r.upstream, NoText, r.server),
                  !.server   = Default(r.server, NoText, r.upstream),
                  !.domain   = Default(r.domain, {}, r.domains),
                  !.domains  = Default(r.domains, {}, r.domain),
                  !.action   = Default(r.action, "", "route"),
                  !.outbound = Default(r.outbound, "", "direct")]]

\* CheckDnsUpstream lowers the scheme; only "tls" appears here in upper case
CheckDnsUpstream(u) == u.host # "" /\ u.scheme \in {"", "udp", "tcp", "tls", "TLS", "https"}

Accepted(rules) ==
    \A i \in DOMAIN rules :
        LET u == Default(rules[i].upstream, NoText, rules[i].server)
        IN  u # NoText /\ CheckDnsUpstream(u)

\* GetDnsRulesNotNil
GetDnsRulesNotNil(rules) == Default(rules, <<>>, DefaultRules)
-----------------------------------------------------------------------------
(* The service: generateDnsModuleConfig *)

\* The address part of the loop.  A scheme that is not tested for, udp:// or
\* one in capitals, stays in the address, so the host is not the one written.
RawText == "scheme left in the address"
ParseUpstream(text) ==
    LET proto == CASE text.scheme = "https" -> "https" [] text.scheme = "tcp" -> "tcp"
                   [] text.scheme = "tls" -> "tcp-tls" [] text.scheme = "quic" -> "quic"
                   [] OTHER -> "udp"
        raw   == text.scheme \notin {"", "https", "tcp", "tls", "quic"}
    IN  [protocol |-> proto,
         host |-> CASE raw -> RawText
                    [] text = [NoText EXCEPT !.host = "localhost"] -> "127.0.0.1"
                    [] OTHER -> text.host,
         port |-> IF proto = "https" THEN "url"
                  ELSE IF text.port # "" /\ ~raw THEN text.port
                  ELSE IF proto = "tcp-tls" THEN "853" ELSE "53"]

\* directDnsServers: plain direct upstreams given by address
directDnsServers(rules) ==
    LET plain(r) == /\ r.outbound \in {"", "direct"}
                    /\ r.upstream.scheme \in {"", "udp", "tcp"}
                    /\ r.upstream.host \in IPs \ Loopback
        text(r)  == <<r.upstream.host, Default(r.upstream.port, "", "53")>>
        used     == SelectSeq(rules, plain)
    IN  [i \in 1..Len(used) |-> text(used[i])]

\* The prefixes of the domain lines: domain: is a suffix, geosite: is left to
\* the core, and anything else is an exact name, prefix included
Pattern(e) ==
    CASE e.prefix = "domain"  -> [kind |-> "suffix", name |-> e.name]
      [] e.prefix = "domain." -> [kind |-> "dotted", name |-> e.name]
      [] e.prefix = "geosite" -> [kind |-> "geosite", name |-> e.name]
      [] e.prefix = ""        -> [kind |-> "exact", name |-> e.name]
      [] OTHER                -> [kind |-> "exact", name |-> <<e.prefix>> \o e.name]

HasCondition(r) == r.domain # {} \/ r.ip # {} \/ r.client # {}

\* Mutant: a rule with a known upstream is given the one behind it.
AddRule_NextIndex(acc, r) ==
    LET addr  == ParseUpstream(r.upstream)
        key   == <<addr.host, addr.port, r.outbound>>
        seen  == {i \in 1..Len(acc.upstreams) :
                     <<acc.upstreams[i].host, acc.upstreams[i].port, acc.upstreams[i].tag>> = key}
        index == IF seen = {} THEN Len(acc.upstreams) ELSE Min(seen)
        id    == <<"upstream", ToString(index)>>
    IN  [upstreams |-> IF seen # {} THEN acc.upstreams
                       ELSE Append(acc.upstreams,
                              [id |-> id, protocol |-> addr.protocol, host |-> addr.host,
                               port |-> addr.port, tag |-> r.outbound, serverName |-> ""]),
         rules     |-> IF ~HasCondition(r) THEN acc.rules
                       ELSE Append(acc.rules,
                              [upstream |-> id, action |-> r.action, domain |-> {Pattern(e) : e \in r.domain},
                               ip |-> r.ip, client |-> r.client, qtype |-> r.qtype]),
         default   |-> IF HasCondition(r) THEN acc.default ELSE id,
         bootstrap |-> acc.bootstrap \cup ({addr.host} \ IPs)]

\* One iteration of the loop over the rules
AddRule(acc, r) ==
    LET addr  == ParseUpstream(r.upstream)
        key   == <<addr.host, addr.port, r.outbound>>
        seen  == {i \in 1..Len(acc.upstreams) :
                     <<acc.upstreams[i].host, acc.upstreams[i].port, acc.upstreams[i].tag>> = key}
        index == IF seen = {} THEN Len(acc.upstreams) ELSE Min(seen) - 1
        id    == <<"upstream", ToString(index)>>
    IN  [upstreams |-> IF seen # {} THEN acc.upstreams
                       ELSE Append(acc.upstreams,
                              [id |-> id, protocol |-> addr.protocol, host |-> addr.host,
                               port |-> addr.port, tag |-> r.outbound, serverName |-> ""]),
         rules     |-> IF ~HasCondition(r) THEN acc.rules
                       ELSE Append(acc.rules,
                              [upstream |-> id, action |-> r.action, domain |-> {Pattern(e) : e \in r.domain},
                               ip |-> r.ip, client |-> r.client, qtype |-> r.qtype]),
         default   |-> IF HasCondition(r) THEN acc.default ELSE id,
         bootstrap |-> acc.bootstrap \cup ({addr.host} \ IPs)]

\* The upstream and the rule for the names of the nodes, in front of the others
NodeUpstream(rules) ==
    LET usable == SelectSeq(directDnsServers(rules) \o SystemDns, LAMBDA s : s[1] \in IPs \ Loopback)
        server == IF usable = <<>> THEN <<"223.5.5.5", "53">> ELSE usable[1]
    IN  [id |-> <<"upstream", "node">>, protocol |-> "udp", host |-> server[1], port |-> server[2],
         tag |-> "direct", serverName |-> ""]
NodeRule(names) ==
    [upstream |-> <<"upstream", "node">>, action |-> "route", ip |-> {}, client |-> {}, qtype |-> {},
     domain |-> {[kind |-> "suffix", name |-> n] : n \in names}]

generateDnsModuleConfig(rules, names) ==
    LET c == FoldLeft(AddRule, [upstreams |-> <<>>, rules |-> <<>>, default |-> <<>>, bootstrap |-> {}],
                      SelectSeq(rules, LAMBDA r : r.upstream # NoText))
    IN  [upstreams |-> IF names = {} THEN c.upstreams ELSE <<NodeUpstream(rules)>> \o c.upstreams,
         rules     |-> IF names = {} THEN c.rules ELSE <<NodeRule(names)>> \o c.rules,
         default   |-> c.default, bootstrap |-> c.bootstrap,
         bootstrapDns |-> SystemDns \o directDnsServers(rules)]
-----------------------------------------------------------------------------
(* The core: matching a query against the rules *)

\* DomainRule.Match, without the final dot of the name
DomainMatch(m, name) ==
    CASE m.kind = "exact"  -> name = m.name
      [] m.kind = "suffix" -> IsSuffix(m.name, name)
      [] m.kind = "dotted" -> IsStrictSuffix(m.name, name)

\* RuleMatcher.Match of a domain, ip, query type or client matcher
Match(m, q) ==
    CASE m.kind = "cidr"  -> q.client \in m.addrs
      [] m.kind = "qtype" -> q.qtype = m.qtype
      [] OTHER            -> DomainMatch(m, q.name)

\* geositeResolver: Domain entries are suffixes, Full and Regex entries exact
\* names, Substr entries are skipped; a tag that cannot be loaded is empty
geositeResolver(tag) ==
    IF tag \notin DOMAIN Sites THEN {}
    ELSE {[kind |-> IF d.type = "domain" THEN "suffix" ELSE "exact", name |-> d.name]
             : d \in {x \in Sites[tag] : x.type # "substr"}}

\* BuildMatchers: one OR group for each field that has a matcher; without a
\* resolver a geosite tag has none
DomainMatchers(rule, resolver) ==
    LET tags == {p \in rule.domain : p.kind = "geosite"}
    IN  (rule.domain \ tags)
          \cup IF resolver THEN UNION {geositeResolver(p.name) : p \in tags} ELSE {}
BuildMatchers(rule, resolver) ==
    {DomainMatchers(rule, resolver),
     {[kind |-> "cidr", field |-> "ip", addrs |-> c] : c \in rule.ip},
     {[kind |-> "cidr", field |-> "client", addrs |-> c] : c \in rule.client},
     {[kind |-> "qtype", qtype |-> t] : t \in rule.qtype}} \ {{}}

\* MatchAll over OrMatcher: without a group, everything matches
MatchAll(groups, q) == \A g \in groups : \E m \in g : Match(m, q)

\* UpdateRules
UpdateRules(rules, resolver) == [i \in DOMAIN rules |-> BuildMatchers(rules[i], resolver)]

\* Route: the first rule that matches, else the default upstream
Route(router, q) ==
    LET hits == {i \in DOMAIN router.rules : MatchAll(router.matchers[i], q)}
        rule == router.rules[Min(hits)]
    IN  IF hits = {} THEN [upstream |-> router.default, action |-> "route"]
        ELSE [upstream |-> rule.upstream, action |-> rule.action]
-----------------------------------------------------------------------------
(* The core: starting the module *)

\* collectBootstrapDns: saved servers, then the system's except the module's
\* own addresses, then the well-known ones, each once
collectBootstrapDns(saved) ==
    FoldLeft(LAMBDA seen, s : IF s \in ToSet(seen) THEN seen ELSE Append(seen, s), <<>>,
             saved \o SelectSeq(LiveDns, LAMBDA s : s \notin OwnDns) \o PublicDns)

\* resolveBootstrap: an address is itself, a name is what the first server
\* that has an A record for it says
resolveBootstrap(domains, servers) ==
    LET having(d) == {i \in DOMAIN servers : Answers[servers[i]][d] # ""}
    IN  [d \in {x \in domains : x \in IPs \/ having(x) # {}} |->
            IF d \in IPs THEN d ELSE Answers[servers[Min(having(d))]][d]]

\* The loop of Start that puts the resolved addresses into the upstreams; the
\* dialer of an https upstream does so itself (doh.go dialTarget)
BootstrapUpstream(u, resolved) ==
    IF u.protocol = "https" THEN [u EXCEPT !.serverName = u.host]
    ELSE IF u.host \in IPs THEN u
    ELSE [u EXCEPT !.serverName = u.host, !.host = IF @ \in DOMAIN resolved THEN resolved[@] ELSE @]

StartedUpstreams(c) ==
    IF c.bootstrap = {} THEN c.upstreams
    ELSE LET resolved == resolveBootstrap(c.bootstrap, collectBootstrapDns(c.bootstrapDns))
         IN  [i \in DOMAIN c.upstreams |-> BootstrapUpstream(c.upstreams[i], resolved)]

\* NewUpstreamManager: of two upstreams with one ID, or with one composite
\* key (BuildUpstreamKey), the last wins
CompositeKey(u) == <<u.host, u.port, u.tag>>
LastOf(ups, Has(_)) == ups[Max({i \in DOMAIN ups : Has(ups[i])})]
NewUpstreamManager(ups) ==
    [byID  |-> [k \in {u.id : u \in ToSet(ups)} |-> LastOf(ups, LAMBDA u : u.id = k)],
     byKey |-> [k \in {CompositeKey(u) : u \in ToSet(ups)} |-> LastOf(ups, LAMBDA u : CompositeKey(u) = k)]]

GetUpstream(mgr, id) ==
    IF id \in DOMAIN mgr.byID THEN mgr.byID[id]
    ELSE IF id \in DOMAIN mgr.byKey THEN mgr.byKey[id] ELSE Nil

\* selectDefaultUpstream: the configured one, else the last
selectDefaultUpstream(c) ==
    IF c.default # <<>> THEN c.default
    ELSE IF c.upstreams = <<>> THEN <<>> ELSE c.upstreams[Len(c.upstreams)].id

\* handleRoute and handleBypass, up to the exchange: the upstream the router
\* named, else the first one configured
PickUpstream(mgr, c, id) ==
    LET named == GetUpstream(mgr, id)
    IN  IF named # Nil THEN named
        ELSE IF c.upstreams # <<>> THEN GetUpstream(mgr, c.upstreams[1].id) ELSE Nil
-----------------------------------------------------------------------------
NoAnswer == [query |-> Nil, action |-> "", via |-> Nil, reloaded |-> FALSE]

RoutingInit ==
    /\ phase = "unset" /\ drules = <<>> /\ nodes = {}
    /\ dconfig = Nil /\ dmgr = Nil /\ drouter = Nil /\ dlast = NoAnswer

\* PutDnsRules; the transaction around it is ConfigApply's
PutDnsRules(rules) ==
    /\ phase = "unset" /\ Accepted(rules)
    /\ drules' = MigrateDnsRules(rules) /\ phase' = "stored"
    /\ UNCHANGED <<nodes, dconfig, dmgr, drouter, dlast>>

\* setDNS, for a template whose servers have these names
SetDNS(names) ==
    /\ phase = "stored"
    /\ nodes' = names
    /\ dconfig' = generateDnsModuleConfig(MigrateDnsRules(GetDnsRulesNotNil(drules)), names)
    /\ phase' = "generated"
    /\ UNCHANGED <<drules, dmgr, drouter, dlast>>

\* DnsModule.Start; the listener answers from here on
StartModule ==
    /\ phase = "generated"
    /\ dconfig' = [dconfig EXCEPT !.upstreams = StartedUpstreams(dconfig)]
    /\ dmgr' = NewUpstreamManager(dconfig'.upstreams)
    /\ drouter' = [rules |-> dconfig.rules, default |-> selectDefaultUpstream(dconfig'),
                   matchers |-> UpdateRules(dconfig.rules, FALSE)]
    /\ phase' = "started"
    /\ UNCHANGED <<drules, nodes, dlast>>

\* startDnsModuleWithXray after Start: SetGeositeResolver and Router.Reload
ReloadRules ==
    /\ phase = "started"
    /\ drouter' = [drouter EXCEPT !.matchers = UpdateRules(dconfig.rules, TRUE)]
    /\ phase' = "ready"
    /\ UNCHANGED <<drules, nodes, dconfig, dmgr, dlast>>

\* HandleQuery, up to the exchange with the upstream it picks
RouteQuery(q) ==
    /\ phase \in {"started", "ready"}
    /\ LET r == Route(drouter, q)
       IN  dlast' = [query |-> q, action |-> r.action, reloaded |-> phase = "ready",
                     via |-> IF r.action = "reject" THEN Nil ELSE PickUpstream(dmgr, dconfig, r.upstream)]
    /\ UNCHANGED <<phase, drules, nodes, dconfig, dmgr, drouter>>

RoutingNext ==
    \/ \E rules \in RuleSets : PutDnsRules(rules)
    \/ \E names \in NodeSets : SetDNS(names)
    \/ StartModule \/ ReloadRules
    \/ \E q \in NameQueries : RouteQuery(q)
-----------------------------------------------------------------------------
(* The reference: what the stored rules mean *)

Effective == MigrateDnsRules(GetDnsRulesNotNil(drules))

\* A line of the domain field covers a name
Covers(e, name) ==
    CASE e.prefix = "" -> e.name = name
      [] e.prefix = "domain" -> IsSuffix(e.name, name)
      [] e.prefix = "domain." -> IsStrictSuffix(e.name, name)
      [] e.prefix = "geosite" -> e.name \in DOMAIN Sites /\ \E d \in Sites[e.name] :
                                     \/ d.type = "domain" /\ IsSuffix(d.name, name)
                                     \/ d.type = "full" /\ d.name = name
      [] OTHER -> FALSE

\* Each field that is set has an entry for the query
Wants(r, q) ==
    /\ r.domain # {} => \E e \in r.domain : Covers(e, q.name)
    /\ r.ip # {}     => \E c \in r.ip : q.client \in c
    /\ r.client # {} => \E c \in r.client : q.client \in c
    /\ r.qtype # {}  => q.qtype \in r.qtype

ForNode(q) == \E n \in nodes : IsSuffix(n, q.name)
Loadable(r) == \A e \in r.domain : e.prefix = "geosite" => e.name \in DOMAIN Sites

\* The rules for a query: the first with a condition that wants it, else the
\* last without one; none when there is neither
RuleFor(q) ==
    LET rs    == Effective
        wants == {i \in DOMAIN rs : HasCondition(rs[i]) /\ Wants(rs[i], q)}
        rest  == {i \in DOMAIN rs : ~HasCondition(rs[i])}
    IN  IF wants # {} THEN {rs[Min(wants)]} ELSE IF rest # {} THEN {rs[Max(rest)]} ELSE {}

\* The instance u is the server the rule names, reached over its outbound
Serves(u, r) ==
    LET a == ParseUpstream(r.upstream)
    IN  /\ u.tag = r.outbound
        /\ u.port = a.port
        /\ u.host = a.host \/ u.serverName = a.host
-----------------------------------------------------------------------------
(* Every variable keeps its type; the manager and the router exist exactly   *)
(* from Start on.                                                            *)
RoutingTypeOK ==
    /\ phase \in {"unset", "stored", "generated", "started", "ready"}
    /\ nodes \in NodeSets \cup {{}}
    /\ dlast.query \in NameQueries \cup {Nil}
    /\ (phase \in {"started", "ready"}) <=> (dmgr # Nil /\ drouter # Nil)

(* Once the rules are reloaded with the geosite resolver, a query is sent to *)
(* the server, and over the outbound, of the rule the user wrote for it:     *)
(* deduplicating the upstreams, putting the node rule in front, rewriting    *)
(* the addresses and the manager's index lose nothing on the way.            *)
RoutedAsConfigured ==
    /\ dlast.query # Nil /\ dlast.reloaded /\ ~ForNode(dlast.query)
    /\ \A i \in DOMAIN Effective : Loadable(Effective[i])
    => \A r \in RuleFor(dlast.query) :
            IF HasCondition(r) /\ Wants(r, dlast.query) /\ r.action = "reject"
            THEN dlast.action = "reject"
            ELSE dlast.via # Nil /\ Serves(dlast.via, r)

(* The name of a node is asked directly in every phase, never through the   *)
(* proxy that needs the answer to connect (template_dns.go, the node rule). *)
NodeNamesGoDirect ==
    dlast.query # Nil /\ ForNode(dlast.query) => dlast.via # Nil /\ dlast.via.tag = "direct"

(* A query is never answered with the stub for want of an upstream, whatever *)
(* the rules (handleRoute and handleBypass, GetDnsRulesNotNil).              *)
UpstreamAlwaysFound ==
    dlast.query # Nil /\ dlast.action # "reject" => dlast.via # Nil

(* Every query goes where the user's rules, or the need to reach the nodes,  *)
(* send it, in every phase of the module.                                    *)
RoutingIsRight == RoutingTypeOK /\ RoutedAsConfigured /\ NodeNamesGoDirect /\ UpstreamAlwaysFound

(* CheckDnsUpstream "rejects an upstream the DNS module cannot query"        *)
(* (template_dns.go:98): each stored upstream reaches the core as its host.  *)
AcceptedIsQueryable ==
    phase = "generated" =>
        \A i \in DOMAIN drules : \E j \in DOMAIN dconfig.upstreams :
            dconfig.upstreams[j].host \in {drules[i].upstream.host, "127.0.0.1"}

(* "a rule with domain=["geosite:cn"] and query_type=[A] matches if the      *)
(* domain is in geosite:cn AND the query type is A" (rule.go:216).           *)
GeositeRuleSelective ==
    dlast.query # Nil =>
        \A i \in DOMAIN drouter.rules :
            LET r == drouter.rules[i] IN
            (\A p \in r.domain : p.kind = "geosite") /\ r.domain # {} /\ MatchAll(drouter.matchers[i], dlast.query)
                => \E p \in r.domain : \E m \in geositeResolver(p.name) : Match(m, dlast.query)

(* handleBypass "sends directly without proxy routing" (handler.go:334).     *)
BypassIsDirect == dlast.action = "bypass" => dlast.via.tag = "direct"
=============================================================================
