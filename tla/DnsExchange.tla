---------------------------- MODULE DnsExchange ----------------------------
(***************************************************************************)
(* One query between the client and an upstream of the core's DNS module:  *)
(* handlePacket and sanitizeForClient (listener.go), the loop token         *)
(* (loop.go), the message and the three ways it is sent (upstream_stub.go,  *)
(* doh.go, xray_dispatcher.go), and the checks of the answer (validator.go).*)
(* The server may fail, truncate, answer something else, or be a resolver   *)
(* that forwards to this module again.                                      *)
(*                                                                         *)
(* A message is [opts, do]: the sequence of its OPT records, each the set   *)
(* of its options, and the DNSSEC OK bit.                                   *)
(***************************************************************************)
EXTENDS Integers, Sequences, FiniteSets

CONSTANTS
    Slots,          \* the goroutines miekg/dns serves queries with
    Channels,       \* the upstreams: [protocol, tag]
    ProxyMap        \* the tags resolveProxyAddr has an address for

ASSUME ExchangeAssumption == Channels # {}

VARIABLES
    xdispatcher,    \* whether SetDispatcher was called before the module started
    xpc,            \* per slot: where its query is
    xclient,        \* per slot: the client's message [opts, do, public, looped]
    xup,            \* per slot: the upstream the handler picked
    xmsg,           \* per slot: the message sent upstream
    xtries,         \* per slot: failed attempts so far
    xhops,          \* per slot: the ways the message has left the process
    xreply          \* per slot: the reply to the client

exchangeVars == <<xdispatcher, xpc, xclient, xup, xmsg, xtries, xhops, xreply>>

\* A client's query, or one of ours that a resolver sent back as it came
Clients == {c \in [opts : {<<>>, <<{}>>}, do : BOOLEAN, public : BOOLEAN] : c.do => c.opts # <<>>}
NoReply == [rcode |-> "none", opts |-> <<>>, do |-> FALSE, sigs |-> FALSE]
-----------------------------------------------------------------------------
(* The message *)

\* SetEdns0 of miekg/dns appends an OPT record; IsEdns0 finds the last one
SetEdns0(m, do) == [m EXCEPT !.opts = Append(@, {}), !.do = do]
Option(m, o) == [m EXCEPT !.opts[Len(m.opts)] = @ \cup {o}]

markOutgoing(m) == Option(IF m.opts = <<>> THEN SetEdns0(m, FALSE) ELSE m, "token")
AddECSSubnet(m) == Option(IF m.opts = <<>> THEN [m EXCEPT !.opts = <<{}>>] ELSE m, "ecs")
carriesOwnToken(m) == m.opts # <<>> /\ "token" \in m.opts[Len(m.opts)]

\* The head of exchangeDirect, exchangeViaProxy and exchangeViaDispatcher
BuildQuery(c) ==
    LET marked == markOutgoing(SetEdns0([opts |-> <<>>, do |-> FALSE], TRUE))
    IN  IF c.public THEN AddECSSubnet(marked) ELSE marked

\* sanitizeForClient: the answer's OPT records are dropped, its signatures too
\* unless the client asked for them, and a client with an OPT gets a fresh one
sanitizeForClient(m, c) ==
    LET bare == [m EXCEPT !.opts = <<>>, !.do = FALSE, !.sigs = @ /\ c.do]
    IN  IF c.opts = <<>> THEN bare ELSE SetEdns0(bare, c.do)

\* What a server may answer to q: it may echo the OPT record it got
UpstreamAnswers(q) ==
    [rcode : {"answer"}, opts : {<<>>, q.opts}, do : {q.do}, sigs : {q.do}]

\* What can be wrong with an answer, and what the validator makes of it
Faults == {"none", "query", "no_question", "empty_question", "rcode", "record", "name", "type"}
ValidateResponse(fault) == fault \notin {"query", "no_question", "empty_question", "rcode", "record"}
ValidateQuestionMatch(fault) == fault \notin {"no_question", "name", "type"}

\* The replies handlePacket builds itself: SetReply or SetRcode, nothing else
ServerFailure == [NoReply EXCEPT !.rcode = "servfail"]
-----------------------------------------------------------------------------
Step(s, from, to) == xpc[s] = from /\ xpc' = [xpc EXCEPT ![s] = to]
Reply(s, r) == xreply' = [xreply EXCEPT ![s] = r]
Leave(s, way) == xhops' = [xhops EXCEPT ![s] = @ \cup {way}]
Tried(s) == xtries' = [xtries EXCEPT ![s] = @ + 1]

\* Mutant: an unknown tag is asked for directly even with a dispatcher.
Exchange_UnknownDirect(u) ==
    IF u.tag \notin ProxyMap THEN "direct" ELSE IF xdispatcher THEN "dispatch" ELSE "socks"

\* Exchange: the way a query takes.  Without a dispatcher an unknown proxy tag
\* falls back to a direct TCP exchange (exchangeViaProxy).
Exchange(u) ==
    IF u.tag = "direct" THEN "direct"
    ELSE IF xdispatcher THEN "dispatch"
    ELSE IF u.tag \in ProxyMap THEN "socks" ELSE "direct"
ExchangeProtocol(u) == IF u.tag # "direct" /\ ~xdispatcher /\ u.tag \notin ProxyMap THEN "tcp" ELSE u.protocol

\* handlePacket and HandleQuery up to Exchange
Serve(s, c, u, looped) ==
    /\ UNCHANGED xdispatcher
    /\ xclient' = [xclient EXCEPT ![s] = [opts |-> c.opts, do |-> c.do, public |-> c.public, looped |-> looped]]
    /\ xup' = [xup EXCEPT ![s] = u]
    /\ xtries' = [xtries EXCEPT ![s] = 0]
    /\ xhops' = [xhops EXCEPT ![s] = {}]
    /\ IF carriesOwnToken(c)
       THEN /\ Step(s, "idle", "replied") /\ Reply(s, ServerFailure) /\ UNCHANGED xmsg
       ELSE /\ Step(s, "idle", Exchange(u)) /\ Reply(s, NoReply)
            /\ xmsg' = [xmsg EXCEPT ![s] = BuildQuery(c)]

handlePacket(s, c, u) == Serve(s, c, u, FALSE)

\* The upstream of s is a resolver that forwards its query to this module
Forwarded(s, t, u) ==
    /\ xpc[s] = "sent" /\ s # t
    /\ Serve(t, [opts |-> xmsg[s].opts, do |-> xmsg[s].do, public |-> FALSE], u, TRUE)

Kept(s) == UNCHANGED <<xdispatcher, xclient, xup, xmsg>>

\* An attempt of exchangeDirect or exchangeViaProxy fails: the second is the last
AttemptFails(s, retry) ==
    /\ Tried(s)
    /\ IF xtries[s] = 1
       THEN xpc' = [xpc EXCEPT ![s] = "replied"] /\ Reply(s, ServerFailure)
       ELSE xpc' = [xpc EXCEPT ![s] = retry] /\ UNCHANGED xreply
    /\ UNCHANGED xhops /\ Kept(s)

\* The end of each way: an answer that is refused is not asked for again
Answered(s, m, fault) ==
    /\ xpc' = [xpc EXCEPT ![s] = "replied"]
    /\ Reply(s, IF ValidateResponse(fault) /\ ValidateQuestionMatch(fault)
                THEN sanitizeForClient(m, xclient[s]) ELSE ServerFailure)
    /\ UNCHANGED <<xtries, xhops>> /\ Kept(s)

\* exchangeDirect: the query leaves on a marked socket
exchangeDirect(s) ==
    /\ Step(s, "direct", "sent") /\ Leave(s, ExchangeProtocol(xup[s]))
    /\ UNCHANGED <<xtries, xreply>> /\ Kept(s)
DirectFails(s) == xpc[s] \in {"sent", "truncated"} /\ AttemptFails(s, "direct")
DirectAnswers(s, m, fault) == xpc[s] \in {"sent", "truncated"} /\ Answered(s, m, fault)
\* a truncated UDP answer is asked for again over TCP, by a client of its own
Truncated(s) ==
    /\ Step(s, "sent", "truncated") /\ ExchangeProtocol(xup[s]) = "udp"
    /\ Leave(s, "tcp") /\ UNCHANGED <<xtries, xreply>> /\ Kept(s)

\* exchangeViaSocks5: it connects to the proxy and asks it for the target
exchangeViaSocks5(s) ==
    /\ Step(s, "socks", "relayed") /\ Leave(s, "socks5")
    /\ UNCHANGED <<xtries, xreply>> /\ Kept(s)
ProxyFails(s) == xpc[s] \in {"socks", "relayed"} /\ AttemptFails(s, "socks")
exchangeViaProxy(s, m, fault) == xpc[s] = "relayed" /\ Answered(s, m, fault)

\* exchangeViaDispatcher: the dial is tried twice; a failure after it, of the
\* TLS handshake, the write or the read, is final
Dispatch(s) ==
    /\ Step(s, "dispatch", "dialled") /\ Leave(s, "dispatcher")
    /\ UNCHANGED <<xtries, xreply>> /\ Kept(s)
DialFails(s) == xpc[s] = "dispatch" /\ AttemptFails(s, "dispatch")
exchangeViaDispatcher(s) ==
    /\ Step(s, "dialled", "replied") /\ Reply(s, ServerFailure)
    /\ UNCHANGED <<xtries, xhops>> /\ Kept(s)
finishDispatched(s, m, fault) == xpc[s] = "dialled" /\ Answered(s, m, fault)

NoClient == [opts |-> <<>>, do |-> FALSE, public |-> FALSE, looped |-> FALSE]
NoMsg == [opts |-> <<>>, do |-> FALSE]
AnyChannel == CHOOSE u \in Channels : TRUE

\* WriteMsg has returned; the goroutine's state is gone
Done(s) ==
    /\ Step(s, "replied", "idle") /\ Reply(s, NoReply)
    /\ xclient' = [xclient EXCEPT ![s] = NoClient] /\ xmsg' = [xmsg EXCEPT ![s] = NoMsg]
    /\ xup' = [xup EXCEPT ![s] = AnyChannel]
    /\ xtries' = [xtries EXCEPT ![s] = 0] /\ xhops' = [xhops EXCEPT ![s] = {}]
    /\ UNCHANGED xdispatcher

ExchangeInit ==
    /\ xdispatcher \in BOOLEAN
    /\ xpc = [s \in Slots |-> "idle"]
    /\ xclient = [s \in Slots |-> NoClient]
    /\ xup = [s \in Slots |-> AnyChannel]
    /\ xmsg = [s \in Slots |-> NoMsg]
    /\ xtries = [s \in Slots |-> 0]
    /\ xhops = [s \in Slots |-> {}]
    /\ xreply = [s \in Slots |-> NoReply]

SlotStep(s) ==
    \/ exchangeDirect(s) \/ DirectFails(s) \/ Truncated(s)
    \/ exchangeViaSocks5(s) \/ ProxyFails(s)
    \/ Dispatch(s) \/ DialFails(s) \/ exchangeViaDispatcher(s)
    \/ \E m \in UpstreamAnswers(xmsg[s]), fault \in Faults :
          DirectAnswers(s, m, fault) \/ exchangeViaProxy(s, m, fault) \/ finishDispatched(s, m, fault)
    \/ Done(s)

ExchangeNext ==
    \/ \E s \in Slots, c \in Clients, u \in Channels : handlePacket(s, c, u)
    \/ \E s, t \in Slots, u \in Channels : Forwarded(s, t, u)
    \/ \E s \in Slots : SlotStep(s)

ExchangeSpec == ExchangeInit /\ [][ExchangeNext]_exchangeVars
-----------------------------------------------------------------------------
Sending == {"direct", "sent", "truncated", "dispatch", "dialled", "socks", "relayed"}

(* The slots, upstreams and attempts; the third attempt does not exist.      *)
ExchangeTypeOK ==
    /\ xpc \in [Slots -> Sending \cup {"idle", "replied"}]
    /\ xup \in [Slots -> Channels]
    /\ \A s \in Slots : xtries[s] \in 0..2

(* A query for a proxied upstream never leaves the process other than        *)
(* through the dispatcher once one is set (Exchange, SetDispatcher).         *)
ProxiedNeverDirect ==
    \A s \in Slots : xdispatcher /\ xup[s].tag # "direct" => xhops[s] \subseteq {"dispatcher"}

(* Every message sent upstream carries exactly one OPT record, with this     *)
(* process's token in it; two OPT records are a FORMERR, and none or no      *)
(* token lets a resolver loop run on (SetEdns0 before AddECSSubnet).         *)
OneMarkedOPT ==
    \A s \in Slots : xpc[s] \in Sending => Len(xmsg[s].opts) = 1 /\ "token" \in xmsg[s].opts[1]

(* A query of ours that comes back through a resolver is refused, never sent *)
(* on: two resolvers that forward to each other stop after one round.        *)
LoopStops ==
    \A s \in Slots : xpc[s] # "idle" /\ xclient[s].looped => xhops[s] = {} /\ xreply[s].rcode = "servfail"

(* The client gets an OPT record and signatures only if it asked, and never  *)
(* the module's token, whatever the upstream answered (sanitizeForClient).   *)
ReplyFitsClient ==
    \A s \in Slots : xpc[s] = "replied" =>
        /\ xreply[s].sigs => xclient[s].do
        /\ Len(xreply[s].opts) <= Len(xclient[s].opts)
        /\ \A i \in DOMAIN xreply[s].opts : "token" \notin xreply[s].opts[i]
        /\ xreply[s].rcode # "servfail" =>
              Len(xreply[s].opts) = Len(xclient[s].opts) /\ xreply[s].do = xclient[s].do

(* What leaves the process and what the client gets back, over every retry   *)
(* and fallback of an exchange.                                              *)
ExchangeIsSafe == ExchangeTypeOK /\ ProxiedNeverDirect /\ OneMarkedOPT /\ LoopStops /\ ReplyFitsClient
=============================================================================
