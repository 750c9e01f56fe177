------------------------------- MODULE MCDns -------------------------------
(***************************************************************************)
(* The four models of the core's DNS module side by side.  They share no    *)
(* state, so a behaviour follows one of them (unit) while the others stay   *)
(* where they began, and the state spaces add up.                           *)
(***************************************************************************)
EXTENDS DnsCache, DnsRouting, DnsExchange, DnsModule

VARIABLE unit

-----------------------------------------------------------------------------
(* The cache: one name asked by two clients a rule tells apart, one server  *)
(* reached directly for the one and through the proxy for the other, and    *)
(* queries that are rejected, bypassed and left without an upstream.        *)

CONSTANTS qdirect, qproxy, qreject, qbypass, qstub, udirect, uproxy

MCName == [q \in Queries |-> "name"]
MCAction == [q \in Queries |-> CASE q = qreject -> "reject" [] q = qbypass -> "bypass" [] OTHER -> "route"]
MCRoute == [q \in Queries |-> CASE q = qproxy -> uproxy [] q = qstub -> NoUpstream [] OTHER -> udirect]
MCAddr == [u \in Upstreams |-> "8.8.8.8:53"]
MCTag == [u \in Upstreams |-> IF u = uproxy THEN "proxy" ELSE "direct"]
MCBackoff == [n \in 0..3 |-> IF n = 3 THEN 2 ELSE n]

-----------------------------------------------------------------------------
(* The rules: every sequence of up to two of nine kinds of rule, and a      *)
(* third, proxied one.                                                      *)

U(scheme, host, port) == [scheme |-> scheme, host |-> host, port |-> port]
R(up, entry) ==
    [server |-> up, upstream |-> NoText, domains |-> entry, domain |-> {}, ip |-> {}, client |-> {},
     qtype |-> {}, action |-> "", outbound |-> ""]
E(prefix, name) == [prefix |-> prefix, name |-> name]

MCDefault == <<R(U("", "localhost", ""), {E("geosite", <<"private">>)}),
               R(U("", "223.5.5.5", ""), {E("geosite", <<"cn">>)}),
               [R(U("", "1.0.0.1", ""), {}) EXCEPT !.outbound = "proxy"]>>
MCRules ==
    {R(U("", "8.8.8.8", ""), {E("domain", <<"b">>)}),
     [R(U("tcp", "8.8.8.8", ""), {E("geosite", <<"cn">>)}) EXCEPT !.outbound = "proxy"],
     [R(U("tls", "dns.t", ""), {}) EXCEPT !.outbound = "proxy"],
     R(U("https", "dns.t", ""), {E("domain.", <<"b">>), E("keyword", <<"a">>)}),
     [R(U("", "dns.u", "5353"), {E("", <<"a", "b">>)}) EXCEPT !.action = "reject"],
     [R(U("", "8.8.8.8", ""), {}) EXCEPT !.client = {{"c1"}}, !.qtype = {"A"}],
     R(U("udp", "8.8.8.8", ""), {E("domain", <<"z">>)}),
     [R(U("", "9.9.9.9", ""), {E("domain", <<"x", "cn">>)}) EXCEPT !.action = "bypass", !.outbound = "proxy"],
     [R(NoText, {}) EXCEPT !.upstream = U("", "9.9.9.9", ""), !.qtype = {"AAAA"}]}
MCRuleSets == {<<>>} \cup {<<r>> : r \in MCRules} \cup {<<r, s>> : r, s \in MCRules}
                \cup {<<r, s, t>> : r \in MCRules, s \in {x \in MCRules : x.outbound = ""},
                                    t \in {x \in MCRules : x.outbound = "proxy" /\ x.action = ""}}
MCNodes == {{}, {<<"b">>}, {<<"a", "b">>}}
MCQueries == {[name |-> n, qtype |-> t, client |-> c]
                : n \in {<<"b">>, <<"a", "b">>, <<"x", "cn">>, <<"z">>}, t \in {"A", "AAAA"}, c \in {"c1", "c2"}}
MCIPs == {"8.8.8.8", "9.9.9.9", "1.0.0.1", "223.5.5.5", "127.0.0.1", "127.2.0.17", "10.0.0.1"}
MCSystem == <<<<"10.0.0.1", "53">>>>
MCLive == <<<<"127.2.0.17", "53">>>>
MCOwn == {<<"127.2.0.17", "53">>}
MCPublic == <<<<"223.5.5.5", "53">>>>
MCAnswers == [s \in {<<h, "53">> : h \in MCIPs} |->
                 [d \in {"dns.t", "dns.u", RawText} |->
                     IF d = "dns.t" /\ s # <<"10.0.0.1", "53">> THEN "8.8.8.8" ELSE ""]]
MCSites == [t \in {<<"cn">>, <<"private">>} |->
              IF t = <<"cn">> THEN {[type |-> "domain", name |-> <<"cn">>], [type |-> "substr", name |-> <<"z">>]}
                              ELSE {[type |-> "full", name |-> <<"lan">>]}]

-----------------------------------------------------------------------------
(* The exchange and the module.                                             *)

MCChannels == {[protocol |-> "udp", tag |-> "direct"], [protocol |-> "https", tag |-> "proxy"],
               [protocol |-> "tcp-tls", tag |-> "group2"]}

MCSettings == [listen : {NoAddr, Stock}, shared : BOOLEAN]
              \cup [listen : {Addr("0.0.0.0", "53"), Addr("192.168.1.1", "5353"), Addr("", "5353"),
                           Addr("127.2.0.17", "5353"), Addr("::1", "5353")}, shared : {FALSE}]
MCHosts == [os : {"linux", "darwin"}, ipv6 : {FALSE}, tun : {TRUE}, port53 : BOOLEAN]
           \cup [os : {"windows"}, ipv6 : {TRUE}, tun : {TRUE}, port53 : {TRUE}]

-----------------------------------------------------------------------------

DnsInit ==
    /\ CacheInit /\ RoutingInit /\ ExchangeInit /\ ModuleInit
    /\ unit \in {"cache", "routing", "exchange", "module"}
    /\ unit # "exchange" => xdispatcher
    /\ unit # "module" => maddrs = <<Stock>>

DnsNext ==
    /\ UNCHANGED unit
    /\ \/ /\ unit = "cache" /\ CacheNext
          /\ UNCHANGED <<routingVars, exchangeVars, moduleVars>>
       \/ /\ unit = "routing" /\ RoutingNext
          /\ UNCHANGED <<cacheUnitVars, exchangeVars, moduleVars>>
       \/ /\ unit = "exchange" /\ ExchangeNext
          /\ UNCHANGED <<cacheUnitVars, routingVars, moduleVars>>
       \/ /\ unit = "module" /\ ModuleNext
          /\ UNCHANGED <<cacheUnitVars, routingVars, exchangeVars>>

DnsSpec == DnsInit /\ [][DnsNext]_<<unit, cacheUnitVars, routingVars, exchangeVars, moduleVars>>
=============================================================================
