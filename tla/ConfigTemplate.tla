-------------------------- MODULE ConfigTemplate --------------------------
(***************************************************************************)
(* The document handed to the core: NewTemplate and its setters             *)
(* (template_core.go, template_outbound.go, template_inbound.go,            *)
(* template_routing.go, template_api.go, template_validate.go,              *)
(* template_serverdata.go).  A tag is a tuple, its suffixes further         *)
(* elements; a destination is a class of hosts, and a rule names classes by *)
(* the lists it cites.  Which rule a connection meets first, and whether    *)
(* its target exists, is what the properties ask of the finished document.  *)
(***************************************************************************)
EXTENDS Integers, Sequences, SequencesExt, FiniteSets, FiniteSetsExt

CONSTANTS Inputs,   \* what NewTemplate is called with and reads from the database
          NoTemplate

VARIABLES tpin, tpdoc, tptest
templateVars == <<tpin, tpdoc, tptest>>
-----------------------------------------------------------------------------
Outbound(tag, proto, groups) == [tag |-> tag, proto |-> proto, groups |-> groups, mark |-> FALSE]
Inbound(tag, proto, listen, port) == [tag |-> tag, proto |-> proto, listen |-> listen, port |-> port]
\* No inbound tags: any inbound; no lists: any destination
Rule(ins, lists, out) == [ins |-> ins, lists |-> lists, out |-> out, bal |-> FALSE]
Direct == <<"direct">>
Block == <<"block">>
Proxy == <<"proxy">>
Where(c, s) == IF c THEN s ELSE <<>>
On(in) == in.transparent # "close" /\ ~(in.lite /\ in.ttype \in {"tproxy", "redirect"})

(* NewServerData: names are made unique, in whatever order the map yields *)
NumberFrom(name, taken) ==
    IF name \notin taken THEN name
    ELSE LET n == CHOOSE k \in 2..9 : Append(name, k) \notin taken /\ \A j \in 2..(k - 1) : Append(name, j) \in taken
         IN  Append(name, n)
Naming(in, order) ==
    LET F[k \in 0..Len(order)] ==
            IF k = 0 THEN <<>> ELSE Append(F[k - 1], NumberFrom(in.names[order[k]], ToSet(F[k - 1])))
    IN  [l \in ToSet(order) |-> F[Len(order)][CHOOSE k \in DOMAIN order : order[k] = l]]
Links(in) == {in.infos[i].link : i \in DOMAIN in.infos}

(* resolveOutbounds *)
Members(in, g) == {i \in DOMAIN in.infos : in.infos[i].group = g}
Balanced(in, i) == Cardinality(Members(in, in.infos[i].group)) > 1
GroupWrapper(name) == <<"node", name>>
OutboundsOf(in, name, i) ==
    LET link == in.infos[i].link
        shared == {j \in DOMAIN in.infos : in.infos[j].link = link /\ Balanced(in, j)}
    IN  IF ~Balanced(in, i) THEN <<Outbound(<<in.infos[i].group>>, "proxy", <<>>)>>
        ELSE Where(i = Min(shared), <<Outbound(GroupWrapper(name[link]), "proxy",
                        [k \in 1..Cardinality(shared) |-> <<in.infos[SetToSortSeq(shared, <)[k]].group>>])>>)
\* The freedom outbound a v2ray-plugin node dials through
Dialers(in, outs, name) ==
    LET plugged(o) == \E i \in DOMAIN in.infos : in.infos[i].link \in in.plugins
                        /\ o.tag \in {<<in.infos[i].group>>, GroupWrapper(name[in.infos[i].link])}
                        /\ (o.tag = <<in.infos[i].group>> => ~Balanced(in, i))
        with == SelectSeq(outs, plugged)
    IN  [k \in DOMAIN with |-> Outbound(Append(with[k].tag, "-dialer"), "freedom", <<>>)]

resolveOutbounds(in, name) ==
    LET nodes == FlattenSeq([i \in DOMAIN in.infos |-> OutboundsOf(in, name, i)])
        empty(g) == g \in in.managed /\ Members(in, g) = {}
        blocked(s) == [k \in DOMAIN SelectSeq(s, empty) |-> Outbound(<<SelectSeq(s, empty)[k]>>, "blackhole", <<>>)]
    IN  blocked(<<"proxy">>) \o nodes \o blocked(in.groups)
        \o <<Outbound(Direct, "freedom", <<>>), Outbound(Block, "blackhole", <<>>)>> \o Dialers(in, nodes, name)

GroupNames(t) == UNION {ToSet(t.outs[k].groups) : k \in DOMAIN t.outs}
outNames(t) == GroupNames(t) \union {t.outs[k].tag : k \in {j \in DOMAIN t.outs : t.outs[j].groups = <<>>}}

FirstProxyOutboundName(t) ==
    LET own == SelectSeq(t.outs, LAMBDA o : o.tag \notin {Direct, Block})
    IN  IF own = <<>> THEN <<"">> ELSE IF own[1].groups # <<>> THEN own[1].groups[1] ELSE own[1].tag

(* setInbound *)
Listen(in) == IF in.sharing THEN "0.0.0.0" ELSE "127.0.0.1"
BaseInbounds(in) ==
    [k \in DOMAIN in.ports |-> Inbound(<<in.ports[k]>>, "http", Listen(in), in.ports[k])]
CustomInbounds(in) == [k \in DOMAIN in.custom |-> Inbound(in.custom[k].tag, "socks", Listen(in), in.custom[k].port)]
parseRoutingARules(ci) ==
    LET rules == SelectSeq(ci.program, LAMBDA s : s.kind = "rule")
    IN  IF \E k \in DOMAIN rules : "missing" \in rules[k].lists THEN <<>>
        ELSE [k \in DOMAIN rules |-> Rule(IF rules[k].ins = {} THEN {ci.tag} ELSE rules[k].ins, rules[k].lists, rules[k].out)]
CustomRules(in) ==
    FlattenSeq([k \in DOMAIN in.custom |->
        IF in.custom[k].kind = "direct" THEN <<Rule({in.custom[k].tag}, {}, in.custom[k].out)>>
        ELSE parseRoutingARules(in.custom[k])])
TransparentInbounds(in) ==
    IF ~On(in) THEN <<>> ELSE
    CASE in.ttype \in {"tproxy", "redirect"} -> <<Inbound(<<"transparent">>, "dokodemo-door", "127.0.0.1", "52345")>>
      [] in.ttype = "system_proxy" -> <<Inbound(<<"transparent">>, "http", "127.0.0.1", "52345"),
                                        Inbound(<<"transparent-socks">>, "socks", "127.0.0.1", "52306")>>
      [] OTHER -> <<Inbound(<<"transparent">>, "tun-mips", "", "0")>>

(* parseRoutingA: the outbounds it defines, then its rules, then the default *)
parseRoutingA(t, in, ins) ==
    LET defs == SelectSeq(in.routingA, LAMBDA s : s.kind = "outbound")
        rules == SelectSeq(in.routingA, LAMBDA s : s.kind = "rule")
        chosen == SelectSeq(in.routingA, LAMBDA s : s.kind = "default")
        outs == t.outs \o [k \in DOMAIN defs |-> Outbound(defs[k].out, "freedom", <<>>)]
        known == outNames([t EXCEPT !.outs = outs])
        default == IF chosen = <<>> THEN FirstProxyOutboundName(t) ELSE Last(chosen).out
    IN  [t EXCEPT !.outs = outs,
                  !.err = @ \/ (\E k \in DOMAIN rules : rules[k].out \notin known \/ "missing" \in rules[k].lists)
                            \/ (\E k \in DOMAIN chosen : chosen[k].out \notin known),
                  !.rules = @ \o [k \in DOMAIN rules |-> Rule(IF rules[k].ins = {} THEN ins ELSE rules[k].ins, rules[k].lists, rules[k].out)]
                              \o <<Rule({<<"rule-http">>, <<"rule-socks">>}, {}, default)>>]
AppendRoutingRuleByMode(t, in, mode, ins) ==
    LET first == FirstProxyOutboundName(t)
        apple == [t EXCEPT !.rules = Append(@, Rule(ins, {"apple"}, Direct))]
        add(rs) == [apple EXCEPT !.rules = @ \o rs]
    IN  CASE mode = "whitelist" ->
               add(<<Rule(ins, {"geolocation-!cn"}, first), Rule(ins, {"google"}, Proxy), Rule(ins, {"geosite:cn"}, Direct),
                     Rule(ins, {"geoip:hk"}, Proxy), Rule(ins, {"geoip:private", "geoip:cn"}, Direct)>>)
          [] mode = "gfwlist" ->
               add(<<Rule(ins, IF in.loyal THEN {"gfw"} ELSE {"geolocation-!cn"}, first), Rule(ins, {"telegram"}, first), Rule(ins, {}, Direct)>>)
          [] OTHER -> parseRoutingA(apple, in, ins)

setRulePortRouting(t, in) == AppendRoutingRuleByMode(t, in, in.mode, {<<"rule-http">>, <<"rule-socks">>})

Follow(t, tag) == [t EXCEPT !.rules = [k \in DOMAIN @ |-> IF <<"rule-http">> \in @[k].ins THEN [@[k] EXCEPT !.ins = @ \union {tag}] ELSE @[k]]]
setTransparentRouting(t, in) ==
    IF ~On(in) THEN t ELSE
    CASE in.transparent = "proxy" -> [t EXCEPT !.rules = Append(@, Rule({<<"transparent">>}, {}, FirstProxyOutboundName(t)))]
      [] in.transparent = "pac" -> Follow(t, <<"transparent">>)
      [] OTHER -> AppendRoutingRuleByMode(t, in, in.transparent, {<<"transparent">>})
setVmessInboundRouting(t, in) == IF "vmess" \in ToSet(in.ports) THEN Follow(t, <<"vmess">>) ELSE t

(* SetAPI *)
SetAPI(t, in, name) ==
    LET sel(g) == {GroupWrapper(name[in.infos[i].link]) : i \in Members(in, g[1])}
    IN  [t EXCEPT !.bals = {[tag |-> g, selector |-> sel(g), fallback |-> Block] : g \in GroupNames(t)},
                  !.ins = Append(@, Inbound(<<"api-in">>, "dokodemo-door", "127.0.0.1", "api")),
                  !.rules = Append(@, Rule({<<"api-in">>}, {}, <<"api-out">>))]

\* The nodes' own addresses go direct, before everything else
setWhitelistRouting(t, in) ==
    [t EXCEPT !.rules = [i \in DOMAIN in.infos |-> Rule({}, {in.infos[i].link}, Direct)] \o @]
updatePrivateRouting(t) ==
    [t EXCEPT !.rules = [k \in DOMAIN @ |-> IF "geoip:private" \in @[k].lists THEN [@[k] EXCEPT !.lists = @ \union {"local-cidr"}] ELSE @[k]]]
SpareTire(t) == [t EXCEPT !.rules = Append(@, Rule({}, {}, Proxy))]
setGroupRouting(t) == [t EXCEPT !.rules = [k \in DOMAIN @ |-> [@[k] EXCEPT !.bal = t.rules[k].out \in GroupNames(t)]]]
optimizeGeoipMemoryOccupation(t, in) ==
    LET ext(l) == IF in.smallgeo /\ l \in {"geoip:private", "geoip:cn"} THEN "ext:" \o l ELSE l
    IN  [t EXCEPT !.rules = [k \in DOMAIN @ |-> [@[k] EXCEPT !.lists = {ext(l) : l \in @}]]]

SetOutboundSockopt(t, in) ==
    [t EXCEPT !.outs = [k \in DOMAIN @ |-> IF @[k].proto # "blackhole" /\ On(in) THEN [@[k] EXCEPT !.mark = TRUE] ELSE @[k]]]

\* setDualStack: an inbound on IPv4 loopback gets a twin on ::1
HasTwin(in, i) == /\ i.listen = "127.0.0.1" /\ i.proto # "tun-mips"
                  /\ ~(i.tag = <<"transparent">> /\ in.ttype = "redirect")

setDualStack(t, in) ==
    LET twinned == {t.ins[k].tag : k \in {j \in DOMAIN t.ins : HasTwin(in, t.ins[j])}}
        four(tag) == IF tag \in twinned THEN Append(tag, "4") ELSE tag
        twins == SelectSeq(t.ins, LAMBDA i : HasTwin(in, i))
    IN  [t EXCEPT !.ins = [k \in DOMAIN @ |-> IF HasTwin(in, @[k]) THEN [@[k] EXCEPT !.tag = Append(@, "4")] ELSE @[k]]
                          \o Where(in.v6, [k \in DOMAIN twins |-> [twins[k] EXCEPT !.tag = Append(@, "6"), !.listen = "::1"]]),
                  !.rules = [k \in DOMAIN @ |-> [@[k] EXCEPT !.ins = {four(tag) : tag \in @}
                                \union (IF in.v6 THEN {Append(tag, "6") : tag \in (@ \intersect twinned)} ELSE {})]]]
Distinct(s, Op(_)) == \A i, j \in DOMAIN s : i # j => Op(s[i]) # Op(s[j])
checkDuplicated(t) ==
    [t EXCEPT !.err = @ \/ ~Distinct(t.ins, LAMBDA i : i.tag) \/ ~Distinct(t.outs, LAMBDA o : o.tag)
                        \/ ~Distinct(t.ins, LAMBDA i : <<IF i.listen = "" THEN "0.0.0.0" ELSE i.listen, i.port>>)]

\* Mutant: rules are bound to balancers before the last rule is there.
NewTemplate_GroupsEarly(in, name) ==
    LET t0 == [outs |-> resolveOutbounds(in, name), bals |-> {}, err |-> FALSE, rules |-> CustomRules(in),
               ins |-> BaseInbounds(in) \o CustomInbounds(in) \o TransparentInbounds(in)]
        t1 == setVmessInboundRouting(setTransparentRouting(setRulePortRouting(t0, in), in), in)
        t2 == SpareTire(setGroupRouting(updatePrivateRouting(setWhitelistRouting(SetAPI(t1, in, name), in))))
        t3 == SetOutboundSockopt(optimizeGeoipMemoryOccupation(t2, in), in)
    IN  checkDuplicated(setDualStack(t3, in))

NewTemplate(in, name) ==
    LET t0 == [outs |-> resolveOutbounds(in, name), bals |-> {}, err |-> FALSE, rules |-> CustomRules(in),
               ins |-> BaseInbounds(in) \o CustomInbounds(in) \o TransparentInbounds(in)]
        t1 == setVmessInboundRouting(setTransparentRouting(setRulePortRouting(t0, in), in), in)
        t2 == SpareTire(updatePrivateRouting(setWhitelistRouting(SetAPI(t1, in, name), in)))
        t3 == SetOutboundSockopt(optimizeGeoipMemoryOccupation(setGroupRouting(t2), in), in)
    IN  checkDuplicated(setDualStack(t3, in))

\* InsertMappingOutbound for each node of a latency test or a probe, then SetOutboundSockopt
InsertMappingOutbound(t, in, l) ==
    LET o == Outbound(<<"outbound", l>>, "proxy", <<>>)
        marked == [o EXCEPT !.mark = On(in)]
    IN  [t EXCEPT !.outs = @ \o <<marked>> \o Where(l \in in.plugins, <<Outbound(Append(o.tag, "-dialer"), "freedom", <<>>)>>),
                  !.ins = Append(@, Inbound(<<"inbound", l>>, "socks", "0.0.0.0", l)),
                  !.rules = <<Rule({<<"inbound", l>>}, {}, o.tag)>> \o @]
TestTemplate(in) ==
    LET F[k \in 0..Len(in.infos)] ==
            IF k = 0 THEN [outs |-> <<>>, ins |-> <<>>, rules |-> <<>>, bals |-> {}, err |-> FALSE]
            ELSE IF \E j \in 1..(k - 1) : in.infos[j].link = in.infos[k].link THEN F[k - 1]
            ELSE InsertMappingOutbound(F[k - 1], in, in.infos[k].link)
    IN  SetOutboundSockopt(F[Len(in.infos)], in)
-----------------------------------------------------------------------------
TemplateInit == tpin \in Inputs /\ tpdoc = NoTemplate /\ tptest = NoTemplate
Generate ==
    /\ tpdoc = NoTemplate
    /\ \E order \in SetToSeqs(Links(tpin)) : tpdoc' = NewTemplate(tpin, Naming(tpin, order))
    /\ UNCHANGED <<tpin, tptest>>
GenerateTest == tptest = NoTemplate /\ tptest' = TestTemplate(tpin) /\ UNCHANGED <<tpin, tpdoc>>
TemplateNext == Generate \/ GenerateTest
-----------------------------------------------------------------------------
(* The core's reading of the document (external): the first rule whose      *)
(* inbound and destination match decides; without one, the first outbound.  *)
Hosts == {"apple", "foreign", "google", "gfwsite", "cnsite", "hkip", "cnip", "privateip", "lanip", "telegramip", "otherip"}
Contents(list) ==
    CASE list = "apple" -> {"apple"} [] list = "google" -> {"google"} [] list = "gfw" -> {"google", "gfwsite"}
      [] list = "geolocation-!cn" -> {"foreign", "google", "gfwsite"}
      [] list = "geosite:cn" -> {"cnsite"} [] list = "geoip:hk" -> {"hkip"} [] list = "telegram" -> {"telegramip"}
      [] list \in {"geoip:private", "ext:geoip:private"} -> {"privateip"} [] list \in {"geoip:cn", "ext:geoip:cn"} -> {"cnip", "cnsite"}
      [] list = "local-cidr" -> {"lanip"} [] OTHER -> {list}
Matches(r, tag, host) == /\ r.ins = {} \/ tag \in r.ins
                         /\ r.lists = {} \/ \E l \in r.lists : host \in Contents(l)
Decide(t, tag, host) ==
    LET hits == {k \in DOMAIN t.rules : Matches(t.rules[k], tag, host)}
    IN  IF hits = {} THEN t.outs[1].tag ELSE t.rules[Min(hits)].out
Good == tpdoc # NoTemplate /\ ~tpdoc.err
Tags(t) == {t.ins[k].tag : k \in DOMAIN t.ins}
Base(tag) == IF Len(tag) = 2 /\ tag[2] \in {"4", "6"} THEN Front(tag) ELSE tag
\* A rule's target: a balancer when the rule names one, else an outbound or the API
Exists(t, r) == IF r.bal THEN \E b \in t.bals : b.tag = r.out
                ELSE r.out = <<"api-out">> \/ \E k \in DOMAIN t.outs : t.outs[k].tag = r.out
OutOf(t, tag) == t.outs[CHOOSE k \in DOMAIN t.outs : t.outs[k].tag = tag]

\* A generated document has its parts, and every balancer falls back to a block.
TemplateTypeOK ==
    Good => /\ \A k \in DOMAIN tpdoc.rules : tpdoc.rules[k].bal \in BOOLEAN
            /\ \A b \in tpdoc.bals : b.fallback \in {tpdoc.outs[k].tag : k \in DOMAIN tpdoc.outs}

\* A rule never sends traffic to an outbound or a balancer that is not in the
\* document: a group of several nodes is reached through its balancer,
\* except to the default group, which the modes cite by name, when no server
\* is connected in it, and from a custom port to the group it is bound to.
NoDanglingTarget ==
    Good => \A k \in DOMAIN tpdoc.rules : LET r == tpdoc.rules[k] IN
        \/ Exists(tpdoc, r)
        \/ r.out = Proxy /\ Members(tpin, "proxy") = {}
        \/ \E c \in DOMAIN tpin.custom : tpin.custom[c].tag \in {Base(tag) : tag \in r.ins}
        \/ r.out = <<"">> /\ tpin.infos = <<>>

\* An inbound and its IPv6 twin are routed alike, and no rule still names a
\* tag that setDualStack renamed.
TwinsRouteAlike ==
    Good => /\ \A a, b \in Tags(tpdoc) : Base(a) = Base(b) =>
                    \A h \in Hosts : Decide(tpdoc, a, h) = Decide(tpdoc, b, h)
            /\ \A k \in DOMAIN tpdoc.rules : \A tag \in tpdoc.rules[k].ins :
                    tag \in Tags(tpdoc) \/ Base(tag) \notin {Base(x) : x \in Tags(tpdoc)}

\* Connections to the nodes themselves go direct from every port, whatever
\* the rules of the user say.
NodesGoDirect ==
    Good => \A tag \in Tags(tpdoc) : \A l \in Links(tpin) : Decide(tpdoc, tag, l) = Direct

\* "Transparent mode is the same as rule": the transparent port decides as the
\* rule port does, unless a RoutingA rule names its own inbounds.
TransparentFollowsRule ==
    Good /\ On(tpin) /\ tpin.transparent = "pac" /\ (\A k \in DOMAIN tpin.routingA : tpin.routingA[k].ins = {}) =>
        \A a, b \in Tags(tpdoc) : Base(a) = <<"transparent">> /\ Base(b) = <<"rule-http">> =>
            \A h \in Hosts : Decide(tpdoc, a, h) = Decide(tpdoc, b, h)

\* The traffic of a managed group without a usable node is blocked: what the
\* rules send to the group reaches a blackhole, never another group or the
\* network directly.
EmptyGroupBlocks ==
    Good => \A g \in tpin.managed : Members(tpin, g) = {} =>
        /\ <<g>> \in outNames(tpdoc) /\ OutOf(tpdoc, <<g>>).proto = "blackhole"
        /\ g = "proxy" => tpdoc.outs[1].tag = Proxy

\* Every outbound that dials, of the running configuration and of a test, is
\* marked while traffic is intercepted, so that the core is never fed its own
\* connections.
DialsAreMarked ==
    \A t \in {tpdoc, tptest} \ {NoTemplate} : On(tpin) =>
        \A k \in DOMAIN t.outs : t.outs[k].proto # "blackhole" => t.outs[k].mark

\* The selectors of a group name the outbounds of its members and nothing
\* else; whatever order the nodes were named in, each has its own tag.
SelectorsAreMembers ==
    Good => /\ \A b \in tpdoc.bals : \A s \in b.selector : \E k \in DOMAIN tpdoc.outs :
                    tpdoc.outs[k].tag = s /\ b.tag \in ToSet(tpdoc.outs[k].groups)
            /\ \A b \in tpdoc.bals : Cardinality(b.selector) = Cardinality({tpin.infos[i].link : i \in Members(tpin, b.tag[1])})

\* The order of the outbounds, and with it the default of every mode, follows
\* the order of the connected servers, not the order a map yields.
OrderIsGiven ==
    Good /\ tpin.infos # <<>> /\ ~("proxy" \in tpin.managed /\ Members(tpin, "proxy") = {}) =>
        FirstProxyOutboundName(tpdoc) = <<tpin.infos[1].group>>

\* In the whitelist modes the local network, its public addresses included, and
\* domestic addresses are reached directly.
LocalStaysLocal ==
    Good /\ tpin.mode = "whitelist" =>
        \A tag \in Tags(tpdoc) : Base(tag) = <<"rule-http">> =>
            \A h \in {"cnsite", "cnip", "privateip", "lanip"} : Decide(tpdoc, tag, h) = Direct

\* The document made from any listed input is sound: every target exists, the
\* special traffic is routed as it must be, and groups hold their members.
DocumentIsSound ==
    /\ TemplateTypeOK /\ NoDanglingTarget /\ TwinsRouteAlike /\ NodesGoDirect /\ TransparentFollowsRule
    /\ EmptyGroupBlocks /\ DialsAreMarked /\ SelectorsAreMembers /\ OrderIsGiven /\ LocalStaysLocal

\* What the kernel redirects to the transparent port finds a listener: the
\* host's own connections arrive on loopback, those of the local network on
\* the address of the interface.
RedirectedFindsListener ==
    Good /\ On(tpin) /\ tpin.ttype = "redirect" =>
        \A a \in {"127.0.0.1", "192.168.1.1"} \union (IF tpin.v6 THEN {"::1"} ELSE {}) :
            \E k \in DOMAIN tpdoc.ins : Base(tpdoc.ins[k].tag) = <<"transparent">> /\ tpdoc.ins[k].listen \in {a, "0.0.0.0"}
=============================================================================
