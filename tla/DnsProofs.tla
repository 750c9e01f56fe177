------------------------------ MODULE DnsProofs ------------------------------
(* The core's DNS module: what an exchange sends and answers, for any number *)
(* of concurrent queries and any upstreams, and what start and stop leave to *)
(* the queries in flight, for any listener setting.                          *)
EXTENDS DnsExchange, DnsModule, TLAPS

Options == SUBSET {"token", "ecs"}
Messages == [opts : Seq(Options), do : BOOLEAN]
Askers == [opts : Seq(Options), do : BOOLEAN, public : BOOLEAN, looped : BOOLEAN]
Replies == [rcode : {"none", "servfail", "answer"}, opts : Seq(Options), do : BOOLEAN, sigs : BOOLEAN]

\* A client that is not one of our own queries come back.
PlainAsker(c) == c.opts \in {<<>>, <<{}>>} /\ (c.do => c.opts # <<>>)
Marked(m) == Len(m.opts) = 1 /\ "token" \in m.opts[1]
Fitting(c, r) ==
    /\ r.sigs => c.do
    /\ Len(r.opts) <= Len(c.opts)
    /\ \A i \in DOMAIN r.opts : "token" \notin r.opts[i]
    /\ r.rcode # "servfail" => Len(r.opts) = Len(c.opts) /\ r.do = c.do

\* What holds of one slot: its place, client, upstream, message, failed tries,
\* the ways taken and the reply.
SlotTypes(pc, c, u, m, n, r) ==
    /\ pc \in Sending \cup {"idle", "replied"}
    /\ c \in Askers /\ u \in Channels /\ m \in Messages /\ n \in 0..2 /\ r \in Replies
SlotSends(pc, c, m, n) == pc \in Sending => n \in 0..1 /\ ~c.looped /\ PlainAsker(c) /\ Marked(m)
SlotProxied(d, pc, u, h) ==
    d /\ u.tag # "direct" => h \subseteq {"dispatcher"} /\ pc \in {"idle", "replied", "dispatch", "dialled"}
SlotLooped(pc, c, h, r) == pc # "idle" /\ c.looped => h = {} /\ r = ServerFailure
SlotReplied(pc, c, r) == pc = "replied" => Fitting(c, r)
Fit(d, pc, c, u, m, n, h, r) ==
    /\ SlotTypes(pc, c, u, m, n, r) /\ SlotSends(pc, c, m, n) /\ SlotProxied(d, pc, u, h)
    /\ SlotLooped(pc, c, h, r) /\ SlotReplied(pc, c, r)

PerSlot(v) == v = [s \in Slots |-> v[s]]

ExchangeInv ==
    /\ xdispatcher \in BOOLEAN
    /\ PerSlot(xpc) /\ PerSlot(xclient) /\ PerSlot(xup) /\ PerSlot(xmsg)
    /\ PerSlot(xtries) /\ PerSlot(xhops) /\ PerSlot(xreply)
    /\ \A s \in Slots : Fit(xdispatcher, xpc[s], xclient[s], xup[s], xmsg[s], xtries[s], xhops[s], xreply[s])

-----------------------------------------------------------------------------
(* Messages.                                                               *)

LEMMA OneRecord ==
  ASSUME NEW o \in Options
  PROVE  /\ <<o>> \in Seq(Options) /\ Len(<<o>>) = 1 /\ <<o>>[1] = o /\ <<o>> # <<>> /\ DOMAIN <<o>> = {1}
         /\ Append(<<>>, o) = <<o>>
  OBVIOUS

LEMMA NoRecord == <<>> \in Seq(Options) /\ Len(<<>>) = 0 /\ DOMAIN <<>> = {}
  OBVIOUS

LEMMA OptionAdded ==
  ASSUME NEW m \in Messages, NEW o \in Options, NEW x \in {"token", "ecs"}, m.opts = <<o>>
  PROVE  Option(m, x) \in Messages /\ Option(m, x).opts = <<o \cup {x}>>
  <1>1. o \cup {x} \in Options
    BY DEF Options
  <1>2. [m.opts EXCEPT ![Len(m.opts)] = @ \cup {x}] = <<o \cup {x}>>
    BY OneRecord
  <1>3. Option(m, x) = [m EXCEPT !.opts = <<o \cup {x}>>]
    BY <1>2 DEF Option
  <1> QED BY <1>1, <1>3, OneRecord DEF Messages

LEMMA FirstMark ==
  LET b == markOutgoing(SetEdns0([opts |-> <<>>, do |-> FALSE], TRUE))
  IN  b \in Messages /\ b.opts = <<{"token"}>>
  <1> DEFINE z == [opts |-> <<>>, do |-> FALSE]
             e == SetEdns0(z, TRUE)
  <1>0. {} \in Options /\ {} \cup {"token"} = {"token"}
    BY DEF Options
  <1>1. z \in Messages /\ z.opts = <<>>
    BY NoRecord DEF Messages
  <1> HIDE DEF z
  <1>2. e = [z EXCEPT !.opts = <<{}>>, !.do = TRUE]
    BY <1>0, <1>1, OneRecord DEF SetEdns0
  <1>3. e \in Messages /\ e.opts = <<{}>>
    BY <1>0, <1>1, <1>2, OneRecord DEF Messages
  <1> HIDE DEF e
  <1>4. markOutgoing(e) = Option(e, "token")
    BY <1>0, <1>3, OneRecord DEF markOutgoing
  <1>5. Option(e, "token") \in Messages /\ Option(e, "token").opts = <<{"token"}>>
    BY <1>0, <1>3, OptionAdded
  <1> QED BY <1>4, <1>5 DEF e, z

\* Whatever the client asked, the message sent has one OPT record with the token.
LEMMA QueryIsMarked ==
  ASSUME NEW c
  PROVE  BuildQuery(c) \in Messages /\ Marked(BuildQuery(c))
  <1> DEFINE b == markOutgoing(SetEdns0([opts |-> <<>>, do |-> FALSE], TRUE))
  <1>0. {"token"} \in Options /\ {"token"} \cup {"ecs"} \in Options
    BY DEF Options
  <1>1. b \in Messages /\ b.opts = <<{"token"}>>
    BY FirstMark
  <1>2. BuildQuery(c) = IF c.public THEN AddECSSubnet(b) ELSE b
    BY DEF BuildQuery
  <1> HIDE DEF b
  <1>3. AddECSSubnet(b) = Option(b, "ecs")
    BY <1>0, <1>1, OneRecord DEF AddECSSubnet
  <1>4. AddECSSubnet(b) \in Messages /\ AddECSSubnet(b).opts = <<{"token"} \cup {"ecs"}>>
    BY <1>0, <1>1, <1>3, OptionAdded
  <1>5. Marked(b) /\ Marked(AddECSSubnet(b))
    BY <1>0, <1>1, <1>4, OneRecord DEF Marked
  <1> QED BY <1>1, <1>2, <1>4, <1>5

LEMMA Failure ==
  /\ ServerFailure \in Replies /\ NoReply \in Replies
  /\ ServerFailure.rcode = "servfail"
  /\ \A c \in Askers : Fitting(c, ServerFailure)
  <1>1. /\ NoReply \in Replies
        /\ NoReply.opts = <<>> /\ NoReply.do = FALSE /\ NoReply.sigs = FALSE
    BY NoRecord DEF NoReply, Replies
  <1>2. /\ ServerFailure \in Replies
        /\ ServerFailure.opts = <<>> /\ ServerFailure.rcode = "servfail" /\ ServerFailure.sigs = FALSE
    BY <1>1 DEF ServerFailure, Replies
  <1>3. ASSUME NEW c \in Askers PROVE Fitting(c, ServerFailure)
    <2>1. Len(c.opts) \in Nat
      BY DEF Askers
    <2> QED BY <1>2, <2>1, NoRecord DEF Fitting
  <1> QED BY <1>1, <1>2, <1>3

LEMMA SanitizedFits ==
  ASSUME NEW q \in Messages, NEW m \in UpstreamAnswers(q), NEW c \in Askers, PlainAsker(c)
  PROVE  sanitizeForClient(m, c) \in Replies /\ Fitting(c, sanitizeForClient(m, c))
  <1> DEFINE bare == [m EXCEPT !.opts = <<>>, !.do = FALSE, !.sigs = @ /\ c.do]
             fresh == SetEdns0(bare, c.do)
  <1>0. {} \in Options /\ c.do \in BOOLEAN
    BY DEF Options, Askers
  <1>1. m \in Replies /\ m.rcode = "answer"
    <2>1. q.opts \in Seq(Options) /\ q.do \in BOOLEAN
      BY DEF Messages
    <2>2. {<<>>, q.opts} \subseteq Seq(Options) /\ {q.do} \subseteq BOOLEAN
      BY <2>1, NoRecord
    <2> QED BY <2>2 DEF UpstreamAnswers, Replies
  <1>2. (m.sigs /\ c.do) \in BOOLEAN
    BY Zenon
  <1>3. bare \in Replies
    BY <1>1, <1>2, NoRecord DEF Replies
  <1>4. bare.opts = <<>> /\ bare.do = FALSE /\ bare.rcode = "answer" /\ (bare.sigs => c.do)
    BY <1>1 DEF Replies
  <1> HIDE DEF bare
  <1>5. CASE c.opts = <<>>
    <2>1. c.do = FALSE
      BY <1>0, <1>5 DEF PlainAsker
    <2>2. Len(bare.opts) = 0 /\ Len(c.opts) = 0 /\ DOMAIN bare.opts = {}
      BY <1>4, <1>5, NoRecord
    <2>3. Len(bare.opts) <= Len(c.opts) /\ Len(bare.opts) = Len(c.opts)
      BY <2>2
    <2>4. bare.do = c.do
      BY <1>4, <2>1
    <2>5. \A i \in DOMAIN bare.opts : "token" \notin bare.opts[i]
      BY <2>2
    <2>6. Fitting(c, bare)
      BY <1>4, <2>3, <2>4, <2>5, Zenon DEF Fitting
    <2> QED BY <1>3, <1>5, <2>6 DEF sanitizeForClient, bare
  <1>6. CASE c.opts # <<>>
    <2>1. c.opts = <<{}>>
      BY <1>6 DEF PlainAsker
    <2>2. fresh = [bare EXCEPT !.opts = <<{}>>, !.do = c.do]
      BY <1>0, <1>3, <1>4, OneRecord DEF SetEdns0
    <2>3. fresh \in Replies
      BY <1>0, <1>3, <2>2, OneRecord DEF Replies
    <2>4. fresh.opts = <<{}>> /\ fresh.do = c.do /\ fresh.rcode = "answer" /\ (fresh.sigs => c.do)
      BY <1>3, <1>4, <2>2 DEF Replies
    <2> HIDE DEF fresh
    <2>5. Fitting(c, fresh)
      BY <1>0, <2>1, <2>4, OneRecord DEF Fitting
    <2> QED BY <1>6, <2>3, <2>5 DEF sanitizeForClient, bare, fresh
  <1> QED BY <1>5, <1>6

-----------------------------------------------------------------------------
(* Steps.                                                                  *)

\* A step of one slot, seen from the others.
LEMMA SlotMoves ==
  ASSUME ExchangeInv, NEW s \in Slots, UNCHANGED xdispatcher,
         NEW pc, NEW c, NEW u, NEW m, NEW n, NEW h, NEW r,
         xpc' = [xpc EXCEPT ![s] = pc], xclient' = [xclient EXCEPT ![s] = c],
         xup' = [xup EXCEPT ![s] = u], xmsg' = [xmsg EXCEPT ![s] = m],
         xtries' = [xtries EXCEPT ![s] = n], xhops' = [xhops EXCEPT ![s] = h],
         xreply' = [xreply EXCEPT ![s] = r],
         Fit(xdispatcher, pc, c, u, m, n, h, r)
  PROVE  ExchangeInv'
  <1>1. \A v, x : PerSlot(v) => PerSlot([v EXCEPT ![s] = x])
    BY DEF PerSlot
  <1>2. /\ PerSlot(xpc') /\ PerSlot(xclient') /\ PerSlot(xup') /\ PerSlot(xmsg')
        /\ PerSlot(xtries') /\ PerSlot(xhops') /\ PerSlot(xreply')
    BY <1>1 DEF ExchangeInv
  <1>3. ASSUME NEW t \in Slots
        PROVE  Fit(xdispatcher', xpc'[t], xclient'[t], xup'[t], xmsg'[t], xtries'[t], xhops'[t], xreply'[t])
    <2>1. CASE t = s
      <3>1. /\ xpc'[t] = pc /\ xclient'[t] = c /\ xup'[t] = u /\ xmsg'[t] = m
            /\ xtries'[t] = n /\ xhops'[t] = h /\ xreply'[t] = r
        BY <2>1 DEF ExchangeInv, PerSlot
      <3> QED BY <3>1
    <2>2. CASE t # s
      <3>1. /\ xpc'[t] = xpc[t] /\ xclient'[t] = xclient[t] /\ xup'[t] = xup[t] /\ xmsg'[t] = xmsg[t]
            /\ xtries'[t] = xtries[t] /\ xhops'[t] = xhops[t] /\ xreply'[t] = xreply[t]
        BY <2>2 DEF ExchangeInv, PerSlot
      <3> QED BY <3>1 DEF ExchangeInv
    <2> QED BY <2>1, <2>2
  <1> QED BY <1>2, <1>3 DEF ExchangeInv

\* A step that leaves what was asked, where and how as it was.
LEMMA SlotGoesOn ==
  ASSUME ExchangeInv, NEW s \in Slots, UNCHANGED <<xdispatcher, xclient, xup, xmsg>>,
         NEW pc, NEW n, NEW h, NEW r,
         xpc' = [xpc EXCEPT ![s] = pc], xtries' = [xtries EXCEPT ![s] = n],
         xhops' = [xhops EXCEPT ![s] = h], xreply' = [xreply EXCEPT ![s] = r],
         Fit(xdispatcher, pc, xclient[s], xup[s], xmsg[s], n, h, r)
  PROVE  ExchangeInv'
  <1>1. \A v : PerSlot(v) => v = [v EXCEPT ![s] = v[s]]
    BY DEF PerSlot
  <1>2. /\ xclient' = [xclient EXCEPT ![s] = xclient[s]]
        /\ xup' = [xup EXCEPT ![s] = xup[s]]
        /\ xmsg' = [xmsg EXCEPT ![s] = xmsg[s]]
    BY <1>1 DEF ExchangeInv
  <1> QED BY <1>2, SlotMoves

LEMMA Unmoved ==
  ASSUME ExchangeInv, NEW s \in Slots
  PROVE  /\ Fit(xdispatcher, xpc[s], xclient[s], xup[s], xmsg[s], xtries[s], xhops[s], xreply[s])
         /\ xdispatcher \in BOOLEAN
         /\ xtries = [xtries EXCEPT ![s] = xtries[s]]
         /\ xhops = [xhops EXCEPT ![s] = xhops[s]]
         /\ xreply = [xreply EXCEPT ![s] = xreply[s]]
  <1>1. \A v : PerSlot(v) => v = [v EXCEPT ![s] = v[s]]
    BY DEF PerSlot
  <1> QED BY <1>1 DEF ExchangeInv

\* Main steps along a way: the query leaves, and nothing else changes.
LEMMA Leaves ==
  ASSUME ExchangeInv, NEW s \in Slots, exchangeDirect(s) \/ Truncated(s) \/ exchangeViaSocks5(s) \/ Dispatch(s)
  PROVE  ExchangeInv'
  <1> DEFINE d == xdispatcher
             pc == xpc[s]
             h == xhops[s]
  <1>1. PICK to, way :
            /\ xpc' = [xpc EXCEPT ![s] = to] /\ xhops' = [xhops EXCEPT ![s] = h \cup {way}]
            /\ \/ pc = "direct" /\ to = "sent"
               \/ pc = "sent" /\ to = "truncated"
               \/ pc = "socks" /\ to = "relayed"
               \/ pc = "dispatch" /\ to = "dialled" /\ way = "dispatcher"
    BY DEF exchangeDirect, Truncated, exchangeViaSocks5, Dispatch, Step, Leave
  <1>2. UNCHANGED <<xdispatcher, xclient, xup, xmsg, xtries, xreply>>
    BY DEF exchangeDirect, Truncated, exchangeViaSocks5, Dispatch, Kept
  <1>3. Fit(d, to, xclient[s], xup[s], xmsg[s], xtries[s], h \cup {way}, xreply[s])
    <2>0. Fit(d, pc, xclient[s], xup[s], xmsg[s], xtries[s], h, xreply[s])
      BY Unmoved
    <2>1. pc \in Sending /\ to \in Sending /\ to \notin {"idle", "replied"}
      BY <1>1 DEF Sending
    <2>2. SlotTypes(to, xclient[s], xup[s], xmsg[s], xtries[s], xreply[s])
      BY <2>0, <2>1 DEF Fit, SlotTypes
    <2>3. SlotSends(to, xclient[s], xmsg[s], xtries[s]) /\ ~xclient[s].looped
      BY <2>0, <2>1 DEF Fit, SlotSends
    <2>4. SlotProxied(d, to, xup[s], h \cup {way})
      BY <2>0, <1>1 DEF Fit, SlotProxied
    <2> QED BY <2>1, <2>2, <2>3, <2>4 DEF Fit, SlotLooped, SlotReplied
  <1> QED BY <1>1, <1>2, <1>3, Unmoved, SlotGoesOn

\* The end of a query that is being sent, with a failure.
LEMMA FailureFits ==
  ASSUME ExchangeInv, NEW s \in Slots, xpc[s] \in Sending, NEW n \in 0..2
  PROVE  Fit(xdispatcher, "replied", xclient[s], xup[s], xmsg[s], n, xhops[s], ServerFailure)
  <1>1. Fit(xdispatcher, xpc[s], xclient[s], xup[s], xmsg[s], xtries[s], xhops[s], xreply[s])
    BY Unmoved
  <1>2. ~xclient[s].looped
    BY <1>1 DEF Fit, SlotSends
  <1>3. SlotTypes("replied", xclient[s], xup[s], xmsg[s], n, ServerFailure)
    BY <1>1, Failure DEF Fit, SlotTypes
  <1>4. SlotProxied(xdispatcher, "replied", xup[s], xhops[s])
    BY <1>1 DEF Fit, SlotProxied
  <1>5. SlotReplied("replied", xclient[s], ServerFailure)
    BY <1>3, Failure DEF SlotReplied, SlotTypes
  <1> QED BY <1>2, <1>3, <1>4, <1>5 DEF Fit, SlotSends, SlotLooped, Sending

LEMMA Fails ==
  ASSUME ExchangeInv, NEW s \in Slots, DirectFails(s) \/ ProxyFails(s) \/ DialFails(s) \/ exchangeViaDispatcher(s)
  PROVE  ExchangeInv'
  <1>0. /\ xpc[s] \in Sending /\ UNCHANGED <<xdispatcher, xclient, xup, xmsg, xhops>>
    BY DEF DirectFails, ProxyFails, DialFails, exchangeViaDispatcher, Step, AttemptFails, Kept, Sending
  <1>1. Fit(xdispatcher, xpc[s], xclient[s], xup[s], xmsg[s], xtries[s], xhops[s], xreply[s])
    BY Unmoved
  <1>2. xtries[s] \in 0..1
    BY <1>0, <1>1 DEF Fit, SlotSends
  <1>3. CASE exchangeViaDispatcher(s)
    <2>1. xpc' = [xpc EXCEPT ![s] = "replied"] /\ xreply' = [xreply EXCEPT ![s] = ServerFailure] /\ UNCHANGED xtries
      BY <1>3 DEF exchangeViaDispatcher, Step, Reply
    <2>2. xtries[s] \in 0..2
      BY <1>2
    <2> QED BY <1>0, <2>1, <2>2, FailureFits, Unmoved, SlotGoesOn
  <1>4. CASE DirectFails(s) \/ ProxyFails(s) \/ DialFails(s)
    <2>1. PICK retry :
              /\ AttemptFails(s, retry)
              /\ \/ xpc[s] \in {"sent", "truncated"} /\ retry = "direct"
                 \/ xpc[s] \in {"socks", "relayed"} /\ retry = "socks"
                 \/ xpc[s] = "dispatch" /\ retry = "dispatch"
      BY <1>4 DEF DirectFails, ProxyFails, DialFails
    <2>2. xtries' = [xtries EXCEPT ![s] = xtries[s] + 1] /\ xtries[s] + 1 \in 0..2
      BY <1>2, <2>1 DEF AttemptFails, Tried
    <2>3. CASE xtries[s] = 1
      <3>1. xpc' = [xpc EXCEPT ![s] = "replied"] /\ xreply' = [xreply EXCEPT ![s] = ServerFailure]
        BY <2>1, <2>3 DEF AttemptFails, Reply
      <3> QED BY <1>0, <2>2, <3>1, FailureFits, Unmoved, SlotGoesOn
    <2>4. CASE xtries[s] # 1
      <3>1. xpc' = [xpc EXCEPT ![s] = retry] /\ UNCHANGED xreply
        BY <2>1, <2>4 DEF AttemptFails
      <3>2. xtries[s] + 1 \in 0..1
        BY <1>2, <2>4
      <3>3. retry \in Sending /\ retry \notin {"idle", "replied"}
        BY <2>1 DEF Sending
      <3>4. SlotTypes(retry, xclient[s], xup[s], xmsg[s], xtries[s] + 1, xreply[s])
        BY <1>1, <2>2, <3>3 DEF Fit, SlotTypes
      <3>5. SlotSends(retry, xclient[s], xmsg[s], xtries[s] + 1) /\ ~xclient[s].looped
        BY <1>0, <1>1, <3>2 DEF Fit, SlotSends
      <3>6. SlotProxied(xdispatcher, retry, xup[s], xhops[s])
        BY <1>1, <2>1 DEF Fit, SlotProxied
      <3>7. Fit(xdispatcher, retry, xclient[s], xup[s], xmsg[s], xtries[s] + 1, xhops[s], xreply[s])
        BY <3>3, <3>4, <3>5, <3>6 DEF Fit, SlotLooped, SlotReplied
      <3>8. xhops' = [xhops EXCEPT ![s] = xhops[s]] /\ xreply' = [xreply EXCEPT ![s] = xreply[s]]
        BY <1>0, <3>1, Unmoved
      <3> DEFINE n == xtries[s] + 1
      <3>9. xtries' = [xtries EXCEPT ![s] = n] /\ Fit(xdispatcher, retry, xclient[s], xup[s], xmsg[s], n, xhops[s], xreply[s])
        BY <2>2, <3>7
      <3>10. UNCHANGED <<xdispatcher, xclient, xup, xmsg>> /\ xpc' = [xpc EXCEPT ![s] = retry]
        BY <1>0, <3>1
      <3> HIDE DEF n
      <3> QED BY <3>8, <3>9, <3>10, SlotGoesOn
    <2> QED BY <2>3, <2>4
  <1> QED BY <1>3, <1>4

LEMMA Answers ==
  ASSUME ExchangeInv, NEW s \in Slots, NEW m \in UpstreamAnswers(xmsg[s]), NEW fault \in Faults,
         DirectAnswers(s, m, fault) \/ exchangeViaProxy(s, m, fault) \/ finishDispatched(s, m, fault)
  PROVE  ExchangeInv'
  <1> DEFINE ok == ValidateResponse(fault) /\ ValidateQuestionMatch(fault)
             r == IF ok THEN sanitizeForClient(m, xclient[s]) ELSE ServerFailure
  <1>0. xpc[s] \in Sending /\ Answered(s, m, fault)
    BY DEF DirectAnswers, exchangeViaProxy, finishDispatched, Sending
  <1>1. /\ UNCHANGED <<xdispatcher, xclient, xup, xmsg, xhops, xtries>>
        /\ xpc' = [xpc EXCEPT ![s] = "replied"] /\ xreply' = [xreply EXCEPT ![s] = r]
    BY <1>0 DEF Answered, Kept, Reply
  <1>2. Fit(xdispatcher, xpc[s], xclient[s], xup[s], xmsg[s], xtries[s], xhops[s], xreply[s])
    BY Unmoved
  <1>3. xtries[s] \in 0..2 /\ xclient[s] \in Askers /\ xmsg[s] \in Messages
    BY <1>2 DEF Fit, SlotTypes
  <1>4. PlainAsker(xclient[s]) /\ ~xclient[s].looped
    BY <1>0, <1>2 DEF Fit, SlotSends
  <1>5. r \in Replies /\ Fitting(xclient[s], r)
    BY <1>3, <1>4, SanitizedFits, Failure
  <1> HIDE DEF r
  <1>6. SlotTypes("replied", xclient[s], xup[s], xmsg[s], xtries[s], r)
    BY <1>2, <1>5 DEF Fit, SlotTypes
  <1>7. SlotProxied(xdispatcher, "replied", xup[s], xhops[s])
    BY <1>2 DEF Fit, SlotProxied
  <1>8. Fit(xdispatcher, "replied", xclient[s], xup[s], xmsg[s], xtries[s], xhops[s], r)
    BY <1>4, <1>5, <1>6, <1>7 DEF Fit, SlotSends, SlotLooped, SlotReplied, Sending
  <1> QED BY <1>1, <1>8, Unmoved, SlotGoesOn

\* handlePacket: a client's query is sent on, one of ours is refused.
LEMMA Serves ==
  ASSUME ExchangeInv, NEW s \in Slots, NEW c, NEW u \in Channels, NEW looped \in BOOLEAN, Serve(s, c, u, looped),
         c.opts \in Seq(Options), c.do \in BOOLEAN, c.public \in BOOLEAN,
         looped <=> carriesOwnToken(c), ~looped => PlainAsker(c)
  PROVE  ExchangeInv'
  <1> DEFINE a == [opts |-> c.opts, do |-> c.do, public |-> c.public, looped |-> looped]
  <1>0. /\ UNCHANGED xdispatcher /\ xclient' = [xclient EXCEPT ![s] = a] /\ xup' = [xup EXCEPT ![s] = u]
        /\ xtries' = [xtries EXCEPT ![s] = 0] /\ xhops' = [xhops EXCEPT ![s] = {}]
    BY DEF Serve
  <1>1. a \in Askers /\ a.opts = c.opts /\ a.do = c.do /\ a.looped = looped
    BY DEF Askers
  <1> HIDE DEF a
  <1>2. Fit(xdispatcher, xpc[s], xclient[s], xup[s], xmsg[s], xtries[s], xhops[s], xreply[s])
    BY Unmoved
  <1>3. CASE carriesOwnToken(c)
    <2>1. /\ xpc' = [xpc EXCEPT ![s] = "replied"] /\ xreply' = [xreply EXCEPT ![s] = ServerFailure]
          /\ xmsg' = xmsg
      BY <1>3 DEF Serve, Step, Reply
    <2>2. xmsg' = [xmsg EXCEPT ![s] = xmsg[s]]
      <3>1. \A v : PerSlot(v) => v = [v EXCEPT ![s] = v[s]]
        BY DEF PerSlot
      <3> QED BY <2>1, <3>1 DEF ExchangeInv
    <2>3. SlotTypes("replied", a, u, xmsg[s], 0, ServerFailure)
      BY <1>1, <1>2, Failure DEF Fit, SlotTypes
    <2>4. SlotReplied("replied", a, ServerFailure)
      BY <1>1, Failure DEF SlotReplied
    <2>5. Fit(xdispatcher, "replied", a, u, xmsg[s], 0, {}, ServerFailure)
      BY <2>3, <2>4 DEF Fit, SlotSends, SlotProxied, SlotLooped, Sending
    <2> QED BY <1>0, <2>1, <2>2, <2>5, SlotMoves
  <1>4. CASE ~carriesOwnToken(c)
    <2>1. /\ xpc' = [xpc EXCEPT ![s] = Exchange(u)] /\ xreply' = [xreply EXCEPT ![s] = NoReply]
          /\ xmsg' = [xmsg EXCEPT ![s] = BuildQuery(c)]
      BY <1>4 DEF Serve, Step, Reply
    <2>2. /\ Exchange(u) \in {"direct", "dispatch", "socks"}
          /\ xdispatcher /\ u.tag # "direct" => Exchange(u) = "dispatch"
      BY DEF Exchange
    <2>3. SlotTypes(Exchange(u), a, u, BuildQuery(c), 0, NoReply)
      BY <1>1, <2>2, Failure, QueryIsMarked DEF SlotTypes, Sending
    <2>4. ~a.looped /\ PlainAsker(a)
      BY <1>1, <1>4 DEF PlainAsker
    <2>5. SlotSends(Exchange(u), a, BuildQuery(c), 0) /\ SlotLooped(Exchange(u), a, {}, NoReply)
      BY <2>4, QueryIsMarked DEF SlotSends, SlotLooped
    <2>6. SlotProxied(xdispatcher, Exchange(u), u, {}) /\ SlotReplied(Exchange(u), a, NoReply)
      BY <2>2 DEF SlotProxied, SlotReplied
    <2>7. Fit(xdispatcher, Exchange(u), a, u, BuildQuery(c), 0, {}, NoReply)
      BY <2>3, <2>5, <2>6 DEF Fit
    <2> QED BY <1>0, <2>1, <2>7, SlotMoves
  <1> QED BY <1>3, <1>4

LEMMA ClientServed ==
  ASSUME ExchangeInv, NEW s \in Slots, NEW c \in Clients, NEW u \in Channels, handlePacket(s, c, u)
  PROVE  ExchangeInv'
  <1>1. /\ c.opts \in {<<>>, <<{}>>} /\ c.do \in BOOLEAN /\ c.public \in BOOLEAN
        /\ PlainAsker(c)
    BY DEF Clients, PlainAsker
  <1>2. {} \in Options
    BY DEF Options
  <1>3. c.opts \in Seq(Options)
    BY <1>1, <1>2, NoRecord, OneRecord
  <1>4. ~carriesOwnToken(c)
    <2>1. CASE c.opts = <<>>
      BY <2>1 DEF carriesOwnToken
    <2>2. CASE c.opts = <<{}>>
      <3>1. Len(c.opts) = 1 /\ c.opts[1] = {}
        BY <1>2, <2>2, OneRecord
      <3> QED BY <3>1 DEF carriesOwnToken
    <2> QED BY <1>1, <2>1, <2>2
  <1>5. FALSE \in BOOLEAN /\ Serve(s, c, u, FALSE)
    BY DEF handlePacket
  <1> QED BY <1>1, <1>3, <1>4, <1>5, Serves

LEMMA LoopRefused ==
  ASSUME ExchangeInv, NEW s \in Slots, NEW t \in Slots, NEW u \in Channels, Forwarded(s, t, u)
  PROVE  ExchangeInv'
  <1> DEFINE c == [opts |-> xmsg[s].opts, do |-> xmsg[s].do, public |-> FALSE]
  <1>1. xpc[s] = "sent" /\ Serve(t, c, u, TRUE)
    BY DEF Forwarded
  <1>2. Fit(xdispatcher, xpc[s], xclient[s], xup[s], xmsg[s], xtries[s], xhops[s], xreply[s])
    BY Unmoved
  <1>3. xmsg[s] \in Messages /\ Marked(xmsg[s])
    BY <1>1, <1>2 DEF Fit, SlotTypes, SlotSends, Sending
  <1>4. c.opts = xmsg[s].opts /\ c.opts \in Seq(Options) /\ c.do \in BOOLEAN /\ c.public = FALSE
    BY <1>3 DEF Messages
  <1> HIDE DEF c
  <1>5. Len(c.opts) = 1 /\ "token" \in c.opts[1]
    BY <1>3, <1>4 DEF Marked
  <1>6. c.opts # <<>>
    BY <1>5, NoRecord
  <1>7. carriesOwnToken(c)
    BY <1>5, <1>6 DEF carriesOwnToken
  <1> QED BY <1>1, <1>4, <1>7, Serves

LEMMA Returns ==
  ASSUME ExchangeInv, NEW s \in Slots, Done(s)
  PROVE  ExchangeInv'
  <1>1. /\ NoClient \in Askers /\ NoMsg \in Messages
    BY NoRecord DEF NoClient, NoMsg, Askers, Messages
  <1>2. AnyChannel \in Channels
    BY ExchangeAssumption DEF AnyChannel
  <1>3. SlotTypes("idle", NoClient, AnyChannel, NoMsg, 0, NoReply)
    BY <1>1, <1>2, Failure DEF SlotTypes
  <1>4. Fit(xdispatcher, "idle", NoClient, AnyChannel, NoMsg, 0, {}, NoReply)
    BY <1>3 DEF Fit, SlotSends, SlotProxied, SlotLooped, SlotReplied, Sending
  <1>5. /\ UNCHANGED xdispatcher /\ xpc' = [xpc EXCEPT ![s] = "idle"] /\ xreply' = [xreply EXCEPT ![s] = NoReply]
        /\ xclient' = [xclient EXCEPT ![s] = NoClient] /\ xmsg' = [xmsg EXCEPT ![s] = NoMsg]
        /\ xup' = [xup EXCEPT ![s] = AnyChannel]
        /\ xtries' = [xtries EXCEPT ![s] = 0] /\ xhops' = [xhops EXCEPT ![s] = {}]
    BY DEF Done, Step, Reply
  <1> QED BY <1>4, <1>5, SlotMoves

LEMMA ExchangeStarts == ExchangeInit => ExchangeInv
  <1> SUFFICES ASSUME ExchangeInit PROVE ExchangeInv
    OBVIOUS
  <1>1. NoClient \in Askers /\ NoMsg \in Messages
    BY NoRecord DEF NoClient, NoMsg, Askers, Messages
  <1>2. AnyChannel \in Channels
    BY ExchangeAssumption DEF AnyChannel
  <1>3. SlotTypes("idle", NoClient, AnyChannel, NoMsg, 0, NoReply)
    BY <1>1, <1>2, Failure DEF SlotTypes
  <1>4. Fit(xdispatcher, "idle", NoClient, AnyChannel, NoMsg, 0, {}, NoReply)
    BY <1>3 DEF Fit, SlotSends, SlotProxied, SlotLooped, SlotReplied, Sending
  <1>5. \A x : PerSlot([s \in Slots |-> x])
    BY DEF PerSlot
  <1>6. /\ PerSlot(xpc) /\ PerSlot(xclient) /\ PerSlot(xup) /\ PerSlot(xmsg)
        /\ PerSlot(xtries) /\ PerSlot(xhops) /\ PerSlot(xreply)
    BY <1>5 DEF ExchangeInit
  <1>7. ASSUME NEW s \in Slots
        PROVE  /\ xpc[s] = "idle" /\ xclient[s] = NoClient /\ xup[s] = AnyChannel /\ xmsg[s] = NoMsg
               /\ xtries[s] = 0 /\ xhops[s] = {} /\ xreply[s] = NoReply
    BY DEF ExchangeInit
  <1>8. xdispatcher \in BOOLEAN
    BY DEF ExchangeInit
  <1> QED BY <1>4, <1>6, <1>7, <1>8 DEF ExchangeInv

LEMMA ExchangeStep == ExchangeInv /\ [ExchangeNext]_exchangeVars => ExchangeInv'
  <1> SUFFICES ASSUME ExchangeInv, [ExchangeNext]_exchangeVars PROVE ExchangeInv'
    OBVIOUS
  <1>1. CASE UNCHANGED exchangeVars
    BY <1>1 DEF exchangeVars, ExchangeInv
  <1>2. ASSUME NEW s \in Slots, SlotStep(s) PROVE ExchangeInv'
    BY <1>2, Leaves, Fails, Answers, Returns DEF SlotStep
  <1> QED BY <1>1, <1>2, ClientServed, LoopRefused DEF ExchangeNext

LEMMA ExchangeHolds == ExchangeInv => ExchangeIsSafe
  <1> SUFFICES ASSUME ExchangeInv PROVE ExchangeIsSafe
    OBVIOUS
  <1>0. ASSUME NEW s \in Slots
        PROVE  Fit(xdispatcher, xpc[s], xclient[s], xup[s], xmsg[s], xtries[s], xhops[s], xreply[s])
    BY DEF ExchangeInv
  <1>1. ExchangeTypeOK
    BY <1>0 DEF ExchangeInv, PerSlot, ExchangeTypeOK, Fit, SlotTypes
  <1>2. ProxiedNeverDirect
    BY <1>0 DEF ProxiedNeverDirect, Fit, SlotProxied
  <1>3. OneMarkedOPT
    BY <1>0 DEF OneMarkedOPT, Fit, SlotSends, Marked
  <1>4. LoopStops
    BY <1>0, Failure DEF LoopStops, Fit, SlotLooped
  <1>5. ReplyFitsClient
    BY <1>0 DEF ReplyFitsClient, Fit, SlotReplied, Fitting
  <1> QED BY <1>1, <1>2, <1>3, <1>4, <1>5 DEF ExchangeIsSafe

(* What leaves the process and what the client gets back, for any number of  *)
(* queries at once and any upstreams: a proxied upstream is asked only       *)
(* through the dispatcher, every message has one OPT record with the token,  *)
(* a query that came back is refused, and the reply carries no more than the *)
(* client asked for (upstream_stub.go, listener.go, loop.go).                *)
THEOREM ExchangeSafe == ExchangeSpec => []ExchangeIsSafe
  <1>1. ExchangeInit => ExchangeInv
    BY ExchangeStarts
  <1>2. ExchangeInv /\ [ExchangeNext]_exchangeVars => ExchangeInv'
    BY ExchangeStep
  <1>3. ExchangeInv => ExchangeIsSafe
    BY ExchangeHolds
  <1> QED BY <1>1, <1>2, <1>3, PTL DEF ExchangeSpec

-----------------------------------------------------------------------------
(* The start and stop of the module.                                       *)

Phases == {"boot", "module", "binding", "cleanup", "running", "stopping", "shutdown", "closing", "exited"}
ServerStates == {"none", "bound", "serving", "closing", "stopped"}
Lookup == [at : {"none", "waiting", "routed", "exchanging"}, server : Nat \X Protocols]

ModuleTypes ==
    /\ mphase \in Phases /\ mnext \in Nat
    /\ mlock <=> mphase \in {"binding", "cleanup", "shutdown"}
    /\ mservers \in [(1 .. Len(maddrs)) \X Protocols -> ServerStates]
    /\ mqueries \in [Lookups -> Lookup]

\* The instance is up from before the module's start until after its stop.
XrayInv ==
    /\ mphase \notin {"boot", "exited"} => mxray = "up"
    /\ mxray = "closed" => mphase = "exited"

\* Sockets are bound in the order of the addresses, and all are gone before
\* the instance is closed.
ServersInv ==
    /\ mphase \in {"boot", "module"} => \A s \in Servers : mservers[s] = "none"
    /\ mphase = "binding" => \A s \in Servers : s[1] >= mnext => mservers[s] = "none"
    /\ mphase = "closing" \/ mxray = "closed" => \A s \in Servers : mservers[s] \in {"none", "stopped"}

\* A query in flight has a server that serves it or waits for it.
QueriesInv ==
    \A q \in Lookups : mqueries[q].at # "none" =>
        mqueries[q].server \in Servers /\ mservers[mqueries[q].server] \in {"serving", "closing"}

ModuleInv == ModuleTypes /\ XrayInv /\ ServersInv /\ QueriesInv /\ RoutedAfterStart /\ ListenersDoNotCollide

LEMMA ModulePart ==
  ASSUME ModuleInv
  PROVE  /\ ModuleTypes /\ XrayInv /\ ServersInv /\ QueriesInv /\ RoutedAfterStart /\ ListenersDoNotCollide
         /\ Servers = (1 .. Len(maddrs)) \X Protocols
  BY DEF ModuleInv, ModuleTypes, Servers

\* A step of the main goroutine that touches no socket and no query.
LEMMA MainMoves ==
  ASSUME ModuleInv, UNCHANGED <<maddrs, mservers, mqueries>>, mphase' \in Phases, mnext' \in Nat,
         mlock' <=> mphase' \in {"binding", "cleanup", "shutdown"},
         XrayInv', ServersInv', mphase' \in {"boot", "module", "binding", "cleanup"} =>
            mphase \in {"boot", "module", "binding", "cleanup"}
  PROVE  ModuleInv'
  <1>1. ModuleTypes' /\ QueriesInv' /\ ListenersDoNotCollide'
    BY ModulePart DEF ModuleTypes, QueriesInv, Servers, ListenersDoNotCollide
  <1>2. \A q \in Lookups : mqueries[q].at \in {"routed", "exchanging"} =>
            mphase' \notin {"boot", "module", "binding", "cleanup"}
    BY ModulePart DEF RoutedAfterStart
  <1>3. RoutedAfterStart'
    BY <1>2 DEF RoutedAfterStart
  <1> QED BY <1>1, <1>3 DEF ModuleInv

LEMMA MainStarts ==
  ASSUME ModuleInv, StartXray \/ startDnsModuleWithXray
  PROVE  ModuleInv'
  <1>0. mphase \in {"boot", "module"} /\ UNCHANGED <<maddrs, mservers, mqueries>>
    BY DEF StartXray, startDnsModuleWithXray
  <1>1. mxray # "closed" /\ \A s \in Servers : mservers[s] = "none"
    BY <1>0, ModulePart DEF XrayInv, ServersInv
  <1>2. CASE StartXray
    <2>1. mphase' \in {"module", "exited"} /\ UNCHANGED <<mlock, mnext>>
      BY <1>2 DEF StartXray
    <2>2. mphase' = "module" => mxray' = "up"
      BY <1>2 DEF StartXray
    <2>3. mxray' # "closed" /\ ~mlock /\ mnext \in Nat
      BY <1>1, <1>2, ModulePart DEF StartXray, ModuleTypes
    <2>4. XrayInv' /\ ServersInv'
      BY <1>0, <1>1, <2>1, <2>2, <2>3 DEF XrayInv, ServersInv, Servers
    <2> QED BY <1>0, <2>1, <2>3, <2>4, MainMoves DEF Phases
  <1>3. CASE startDnsModuleWithXray
    <2>1. /\ mphase = "module" /\ mphase' \in {"binding", "running", "exited"}
          /\ mnext' = 1 /\ UNCHANGED mxray /\ (mphase' # "binding" => UNCHANGED mlock) /\ (mphase' = "binding" => mlock')
      BY <1>3 DEF startDnsModuleWithXray
    <2>2. mxray = "up" /\ ~mlock
      BY <2>1, ModulePart DEF XrayInv, ModuleTypes
    <2>3. XrayInv' /\ ServersInv'
      BY <1>0, <1>1, <2>1, <2>2 DEF XrayInv, ServersInv, Servers
    <2> QED BY <1>0, <2>1, <2>2, <2>3, MainMoves DEF Phases
  <1> QED BY <1>2, <1>3

LEMMA MainEnds ==
  ASSUME ModuleInv, Started \/ BindFails \/ Signal \/ StopLocks \/ ListenerStopped \/ CloseXray
  PROVE  ModuleInv'
  <1>0. /\ mphase \in {"binding", "running", "stopping", "shutdown", "cleanup", "closing"}
        /\ UNCHANGED <<maddrs, mservers, mqueries>>
    BY DEF Started, BindFails, Signal, StopLocks, ListenerStopped, CloseXray, ModuleAt
  <1>1. mxray = "up" /\ mnext \in Nat
    BY <1>0, ModulePart DEF XrayInv, ModuleTypes
  <1>2. \/ mphase = "binding" /\ mphase' = "running" /\ ~mlock' /\ UNCHANGED <<mxray, mnext>>
        \/ mphase = "binding" /\ mphase' = "cleanup" /\ mlock' = mlock /\ mnext' = 1 /\ UNCHANGED mxray
        \/ mphase = "running" /\ mphase' = "stopping" /\ UNCHANGED <<mlock, mxray, mnext>>
        \/ /\ mphase = "running" /\ mphase' = "closing" /\ UNCHANGED <<mlock, mxray, mnext>>
           /\ \A s \in Servers : mservers[s] \in {"none", "stopped"}
        \/ mphase = "stopping" /\ mphase' = "shutdown" /\ mlock' /\ mnext' = 1 /\ UNCHANGED mxray
        \/ /\ mphase = "shutdown" /\ mphase' = "closing" /\ ~mlock' /\ UNCHANGED <<mxray, mnext>>
           /\ \A s \in Servers : mservers[s] \in {"none", "stopped"}
        \/ mphase = "cleanup" /\ mphase' = "exited" /\ ~mlock' /\ UNCHANGED <<mxray, mnext>>
        \/ mphase = "closing" /\ mphase' = "exited" /\ UNCHANGED <<mlock, mnext>>
    BY DEF Started, BindFails, Signal, StopLocks, ListenerStopped, CloseXray, ModuleAt
  <1>3. mphase' \in Phases /\ mnext' \in Nat
    BY <1>1, <1>2 DEF Phases
  <1>4. mlock' <=> mphase' \in {"binding", "cleanup", "shutdown"}
    BY <1>2, ModulePart DEF ModuleTypes
  <1>5. XrayInv'
    BY <1>1, <1>2 DEF XrayInv
  <1>6. ServersInv'
    <2>1. mphase' = "closing" \/ mxray' = "closed" => \A s \in Servers : mservers[s] \in {"none", "stopped"}
      BY <1>1, <1>2, ModulePart DEF ServersInv
    <2>2. mphase' \notin {"boot", "module", "binding"}
      BY <1>2
    <2> QED BY <1>0, <2>1, <2>2 DEF ServersInv, Servers
  <1> QED BY <1>0, <1>2, <1>3, <1>4, <1>5, <1>6, MainMoves

\* A step that changes sockets: a server with queries goes on having them.
LEMMA ServersMove ==
  ASSUME ModuleInv, UNCHANGED <<mphase, mlock, maddrs, mqueries, mxray>>, mnext' \in Nat,
         mservers' \in [(1 .. Len(maddrs)) \X Protocols -> ServerStates], ServersInv',
         \A s \in Servers : On(s) # {} => mservers'[s] \in {"serving", "closing"}
  PROVE  ModuleInv'
  <1>1. ModuleTypes' /\ XrayInv'
    BY ModulePart DEF ModuleTypes, XrayInv
  <1>2. RoutedAfterStart' /\ ListenersDoNotCollide'
    BY ModulePart DEF RoutedAfterStart, ListenersDoNotCollide
  <1>3. DOMAIN mservers' = Servers
    BY ModulePart
  <1>4. ASSUME NEW q \in Lookups, mqueries[q].at # "none"
        PROVE  mqueries[q].server \in Servers /\ mservers'[mqueries[q].server] \in {"serving", "closing"}
    <2>1. mqueries[q].server \in Servers /\ q \in On(mqueries[q].server)
      BY <1>4, ModulePart DEF QueriesInv, On
    <2> QED BY <2>1
  <1>5. QueriesInv'
    BY <1>3, <1>4 DEF QueriesInv, Servers
  <1> QED BY <1>1, <1>2, <1>5 DEF ModuleInv

LEMMA Busy ==
  ASSUME ModuleInv, NEW s \in Servers, On(s) # {}
  PROVE  mservers[s] \in {"serving", "closing"}
  BY ModulePart DEF On, QueriesInv

LEMMA PairStarts ==
  ASSUME ModuleInv, startPair
  PROVE  ModuleInv'
  <1>1. /\ mphase = "binding" /\ mnext' = mnext + 1 /\ UNCHANGED <<mphase, mlock, maddrs, mqueries, mxray>>
        /\ mservers' = [s \in Servers |-> IF s[1] = mnext THEN "bound" ELSE mservers[s]]
    BY DEF startPair
  <1>2. mnext \in Nat /\ Servers = (1 .. Len(maddrs)) \X Protocols /\ \A s \in Servers : mservers[s] \in ServerStates
    BY ModulePart DEF ModuleTypes
  <1>3. \A s \in Servers : s[1] >= mnext => mservers[s] = "none"
    BY <1>1, ModulePart DEF ServersInv
  <1>4. mservers' \in [(1 .. Len(maddrs)) \X Protocols -> ServerStates]
    BY <1>1, <1>2 DEF ServerStates
  <1>5. ASSUME NEW s \in Servers, On(s) # {} PROVE mservers'[s] \in {"serving", "closing"}
    <2>1. mservers[s] \in {"serving", "closing"}
      BY <1>5, Busy
    <2>2. s[1] # mnext
      BY <1>2, <1>3, <2>1
    <2> QED BY <1>1, <2>1, <2>2
  <1>6. ServersInv'
    <2>1. mxray = "up"
      BY <1>1, ModulePart DEF XrayInv
    <2>2. ASSUME NEW s \in Servers, s[1] >= mnext + 1 PROVE mservers'[s] = "none"
      <3>1. s[1] \in Int /\ s[1] >= mnext /\ s[1] # mnext
        BY <1>2, <2>2
      <3> QED BY <1>1, <1>3, <3>1
    <2>3. DOMAIN mservers' = Servers
      BY <1>1
    <2> QED BY <1>1, <2>1, <2>2, <2>3 DEF ServersInv, Servers
  <1>7. mnext' \in Nat
    BY <1>1, <1>2
  <1> QED BY <1>1, <1>4, <1>5, <1>6, <1>7, ServersMove

\* One server goes to the next of its states; none of them is unbound again.
LEMMA OneServerMoves ==
  ASSUME ModuleInv, NEW s, NEW x \in ServerStates, mservers' = [mservers EXCEPT ![s] = x],
         UNCHANGED <<mphase, mlock, maddrs, mqueries, mxray>>, mnext' \in Nat, mnext' = mnext \/ mphase # "binding",
         s \in Servers => mservers[s] # "none" \/ x = "none",
         s \in Servers /\ mservers[s] \in {"none", "stopped"} => x = mservers[s],
         s \in Servers /\ On(s) # {} => x \in {"serving", "closing"}
  PROVE  ModuleInv'
  <1>1. /\ mservers \in [(1 .. Len(maddrs)) \X Protocols -> ServerStates]
        /\ Servers = (1 .. Len(maddrs)) \X Protocols
    BY ModulePart DEF ModuleTypes
  <1>2. /\ mservers' \in [(1 .. Len(maddrs)) \X Protocols -> ServerStates]
        /\ \A u \in Servers : mservers'[u] = IF u = s THEN x ELSE mservers[u]
    BY <1>1
  <1>3. \A u \in Servers : On(u) # {} => mservers'[u] \in {"serving", "closing"}
    BY <1>2, Busy
  <1>4. \A u \in Servers : mservers[u] \in {"none", "stopped"} => mservers'[u] = mservers[u]
    BY <1>2
  <1>5. ServersInv'
    <2>1. DOMAIN mservers' = Servers
      BY <1>1, <1>2
    <2>2. mphase \in {"boot", "module"} => \A u \in Servers : mservers'[u] = "none"
      BY <1>4, ModulePart DEF ServersInv
    <2>3. mphase = "binding" => \A u \in Servers : u[1] >= mnext => mservers'[u] = "none"
      BY <1>4, ModulePart DEF ServersInv
    <2>4. mphase = "closing" \/ mxray = "closed" => \A u \in Servers : mservers'[u] \in {"none", "stopped"}
      BY <1>4, ModulePart DEF ServersInv
    <2> QED BY <2>1, <2>2, <2>3, <2>4 DEF ServersInv, Servers
  <1> QED BY <1>2, <1>3, <1>5, ServersMove

LEMMA ServerSteps ==
  ASSUME ModuleInv, ShutdownBegins \/ ShutdownReturns \/ \E s \in Servers : ActivateAndServe(s)
  PROVE  ModuleInv'
  <1>0. mnext \in Nat /\ UNCHANGED <<mphase, mlock, maddrs, mqueries, mxray>>
    BY ModulePart DEF ModuleTypes, ShutdownBegins, ShutdownReturns, ActivateAndServe
  <1>1. CASE ShutdownBegins
    <2>1. /\ mservers' = [mservers EXCEPT ![Current] = "closing"] /\ UNCHANGED mnext
          /\ mservers[Current] = "serving"
      BY <1>1 DEF ShutdownBegins
    <2> QED BY <1>0, <2>1, OneServerMoves DEF ServerStates
  <1>2. CASE ShutdownReturns
    <2> DEFINE x == IF mservers[Current] = "closing" THEN "stopped" ELSE mservers[Current]
    <2>1. /\ mservers' = [mservers EXCEPT ![Current] = x] /\ mnext' = mnext + 1 /\ mphase \in {"shutdown", "cleanup"}
          /\ mservers[Current] = "closing" => On(Current) = {}
          /\ mservers[Current] # "serving" /\ mnext <= 2 * Len(maddrs)
      BY <1>2 DEF ShutdownReturns
    <2>2. CASE Current \in Servers
      <3>1. x \in ServerStates
        BY <2>2, ModulePart DEF ModuleTypes, ServerStates
      <3>2. On(Current) = {}
        BY <2>1, <2>2, Busy
      <3>3. mservers[Current] \in {"none", "stopped"} => x = mservers[Current]
        OBVIOUS
      <3>4. mservers[Current] # "none" \/ x = "none"
        OBVIOUS
      <3>5. mnext' \in Nat /\ mphase # "binding"
        BY <1>0, <2>1
      <3> HIDE DEF x
      <3> QED BY <1>0, <2>1, <3>1, <3>2, <3>3, <3>4, <3>5, OneServerMoves
    <2>3. CASE Current \notin Servers
      <3>1. mservers' = [mservers EXCEPT ![Current] = "none"]
        BY <2>1, <2>3 DEF Servers
      <3>2. mnext' \in Nat /\ mphase # "binding"
        BY <1>0, <2>1
      <3> QED BY <1>0, <2>3, <3>1, <3>2, OneServerMoves DEF ServerStates
    <2> QED BY <2>2, <2>3
  <1>3. ASSUME NEW s \in Servers, ActivateAndServe(s) PROVE ModuleInv'
    <2>1. mservers[s] = "bound" /\ mservers' = [mservers EXCEPT ![s] = "serving"] /\ UNCHANGED mnext
      BY <1>3 DEF ActivateAndServe
    <2> QED BY <1>0, <2>1, OneServerMoves DEF ServerStates
  <1> QED BY <1>1, <1>2, <1>3

\* A query's step: the sockets and the main goroutine stay.
LEMMA QueryMoves ==
  ASSUME ModuleInv, QueryOnly, NEW q \in Lookups, NEW v \in Lookup, mqueries' = [mqueries EXCEPT ![q] = v],
         v.at # "none" => v.server \in Servers /\ mservers[v.server] \in {"serving", "closing"},
         v.at \in {"routed", "exchanging"} => mphase \notin {"boot", "module", "binding", "cleanup"}
  PROVE  ModuleInv'
  <1>1. /\ mqueries' \in [Lookups -> Lookup]
        /\ \A r \in Lookups : mqueries'[r] = IF r = q THEN v ELSE mqueries[r]
    BY ModulePart DEF ModuleTypes
  <1>2. ModuleTypes' /\ XrayInv' /\ ServersInv' /\ ListenersDoNotCollide'
    BY <1>1, ModulePart DEF ModuleTypes, XrayInv, ServersInv, Servers, ListenersDoNotCollide, QueryOnly
  <1>3. QueriesInv'
    BY <1>1, ModulePart DEF QueriesInv, Servers, QueryOnly
  <1>4. RoutedAfterStart'
    BY <1>1, ModulePart DEF RoutedAfterStart, QueryOnly
  <1> QED BY <1>2, <1>3, <1>4 DEF ModuleInv

\* Without the lock a query with a server is past Start.
LEMMA PastStart ==
  ASSUME ModuleInv, NEW q \in Lookups, mqueries[q].at # "none", ~mlock
  PROVE  mphase \notin {"boot", "module", "binding", "cleanup"}
  <1>1. mqueries[q].server \in Servers /\ mservers[mqueries[q].server] # "none"
    BY ModulePart DEF QueriesInv
  <1>2. mphase \notin {"boot", "module"}
    BY <1>1, ModulePart DEF ServersInv
  <1> QED BY <1>2, ModulePart DEF ModuleTypes

\* GetRouter and GetUpstreamManager: the query goes on with its server.
LEMMA LookupGoesOn ==
  ASSUME ModuleInv, QueryOnly, NEW q \in Lookups, NEW from \in {"waiting", "routed"},
         NEW to \in {"routed", "exchanging"}, Move(q, from, to), ~mlock
  PROVE  ModuleInv'
  <1> DEFINE v == [mqueries[q] EXCEPT !.at = to]
  <1>1. mqueries[q] \in Lookup /\ mqueries[q].at # "none" /\ mqueries' = [mqueries EXCEPT ![q].at = to]
    BY ModulePart DEF ModuleTypes, Move
  <1>2. mqueries' = [mqueries EXCEPT ![q] = v]
    BY <1>1
  <1>3. v \in Lookup /\ v.server = mqueries[q].server
    BY <1>1 DEF Lookup
  <1>4. v.server \in Servers /\ mservers[v.server] \in {"serving", "closing"}
    BY <1>1, <1>3, ModulePart DEF QueriesInv
  <1>5. mphase \notin {"boot", "module", "binding", "cleanup"}
    BY <1>1, PastStart
  <1> HIDE DEF v
  <1> QED BY <1>2, <1>3, <1>4, <1>5, QueryMoves

LEMMA QuerySteps ==
  ASSUME ModuleInv, NEW q \in Lookups, QueryStep(q) \/ \E s \in Servers : Arrives(q, s)
  PROVE  ModuleInv'
  <1>1. CASE GetRouter(q) \/ GetUpstreamManager(q)
    BY <1>1, LookupGoesOn DEF GetRouter, GetUpstreamManager
  <1>2. CASE LookupAnswered(q)
    <2>1. NoQuery \in Lookup /\ NoQuery.at = "none"
      BY DEF NoQuery, Lookup, Protocols
    <2>2. mqueries' = [mqueries EXCEPT ![q] = NoQuery] /\ QueryOnly
      BY <1>2 DEF LookupAnswered
    <2> QED BY <2>1, <2>2, QueryMoves
  <1>3. ASSUME NEW s \in Servers, Arrives(q, s) PROVE ModuleInv'
    <2> DEFINE v == [at |-> "waiting", server |-> s]
    <2>1. mservers[s] = "serving" /\ mqueries' = [mqueries EXCEPT ![q] = v] /\ QueryOnly
      BY <1>3 DEF Arrives
    <2>2. s \in Nat \X Protocols
      BY ModulePart
    <2>3. v \in Lookup /\ v.at = "waiting" /\ v.server = s
      BY <2>2 DEF Lookup
    <2> HIDE DEF v
    <2> QED BY <2>1, <2>3, QueryMoves
  <1> QED BY <1>1, <1>2, <1>3 DEF QueryStep
-----------------------------------------------------------------------------
(* The listener addresses *)

Apart(s) == \A i, j \in 1 .. Len(s) : i # j => ~Conflicts(s[i], s[j])
Cross(A, B) == \A a \in A, b \in B : ~Conflicts(a, b)

LEMMA JoinedFrom ==
  ASSUME NEW A, NEW B, NEW s \in Seq(A), NEW t \in Seq(B)
  PROVE  /\ s \o t \in Seq(A \cup B) /\ Len(s \o t) = Len(s) + Len(t)
         /\ \A i \in 1 .. Len(s \o t) :
               (s \o t)[i] = IF i <= Len(s) THEN s[i] ELSE t[i - Len(s)]
  <1>1. s \in Seq(A \cup B) /\ t \in Seq(A \cup B)
    OBVIOUS
  <1> QED BY <1>1

\* Two lists that do not conflict, joined.
LEMMA Joined ==
  ASSUME NEW A, NEW B, NEW s \in Seq(A), NEW t \in Seq(B), Apart(s), Apart(t), Cross(A, B)
  PROVE  s \o t \in Seq(A \cup B) /\ Apart(s \o t)
  <1> DEFINE m == Len(s)
             n == Len(t)
             u == s \o t
  <1>1. /\ u \in Seq(A \cup B) /\ Len(u) = m + n /\ m \in Nat /\ n \in Nat
        /\ \A i \in 1 .. (m + n) : u[i] = IF i <= m THEN s[i] ELSE t[i - m]
    BY JoinedFrom
  <1>2. (\A i \in 1 .. m : s[i] \in A) /\ (\A i \in 1 .. n : t[i] \in B)
    OBVIOUS
  <1>3. \A i, j \in 1 .. m : i # j => ~Conflicts(s[i], s[j])
    BY DEF Apart
  <1>4. \A i, j \in 1 .. n : i # j => ~Conflicts(t[i], t[j])
    BY DEF Apart
  <1>5. \A i \in 1 .. m, j \in 1 .. n : ~Conflicts(s[i], t[j]) /\ ~Conflicts(t[j], s[i])
    BY <1>2 DEF Cross, Conflicts
  <1> HIDE DEF m, n, u
  <1>6. ASSUME NEW i \in 1 .. (m + n), NEW j \in 1 .. (m + n), i # j
        PROVE  ~Conflicts(u[i], u[j])
    <2>1. i \in Int /\ j \in Int /\ (i > m => i - m \in 1 .. n) /\ (j > m => j - m \in 1 .. n)
      BY <1>1
    <2>2. CASE i <= m /\ j <= m
      <3>1. i \in 1 .. m /\ j \in 1 .. m /\ u[i] = s[i] /\ u[j] = s[j]
        BY <1>1, <2>2
      <3> QED BY <1>3, <1>6, <3>1
    <2>3. CASE i <= m /\ j > m
      <3>1. i \in 1 .. m /\ u[i] = s[i] /\ u[j] = t[j - m]
        BY <1>1, <2>3
      <3> QED BY <1>5, <2>1, <2>3, <3>1
    <2>4. CASE i > m /\ j <= m
      <3>1. j \in 1 .. m /\ u[j] = s[j] /\ u[i] = t[i - m]
        BY <1>1, <2>4
      <3> QED BY <1>5, <2>1, <2>4, <3>1
    <2>5. CASE i > m /\ j > m
      <3>1. u[i] = t[i - m] /\ u[j] = t[j - m] /\ i - m # j - m
        BY <1>1, <1>6, <2>1, <2>5
      <3> QED BY <1>4, <2>1, <2>5, <3>1
    <2> QED BY <1>1, <2>1, <2>2, <2>3, <2>4, <2>5
  <1> QED BY <1>1, <1>6 DEF Apart, u

LEMMA AtMostOne ==
  ASSUME NEW a
  PROVE  <<a>> \in Seq({a}) /\ Apart(<<a>>)
  BY DEF Apart

LEMMA NoneApart ==
  ASSUME NEW A
  PROVE  <<>> \in Seq(A) /\ Apart(<<>>)
  BY DEF Apart

\* What may be added beside the module's own address a: the IPv6 loopback,
\* the addresses the IPv4 interception needs, and those of port 53.
Six(a) == {x \in {Addr("::1", a.port)} : ~Unspecified(a.host) /\ IsV4(a.host)}
Four(a) == {x \in {Addr("127.0.0.1", a.port)} : ~Unspecified(a.host) /\ ~IsLoopback(a.host)}
Own(a) == {x \in {Addr("127.2.0.17", a.port)} : ~Unspecified(a.host)}
Port53 == {Addr("127.0.0.1", "53"), Addr("127.2.0.17", "53")}

LEMMA AddrFields ==
  ASSUME NEW x, NEW y
  PROVE  Addr(x, y).host = x /\ Addr(x, y).port = y
  BY DEF Addr

\* Two addresses on other ports, or with other hosts that are no wildcards.
LEMMA Clear ==
  ASSUME NEW a, NEW b,
         a.port # b.port \/ (a.host # b.host /\ ~Unspecified(a.host) /\ ~Unspecified(b.host))
  PROVE  ~Conflicts(a, b)
  BY DEF Conflicts

LEMMA NoWildcard == ~Unspecified("::1") /\ ~Unspecified("127.0.0.1") /\ ~Unspecified("127.2.0.17")
  BY DEF Unspecified

LEMMA AddedFields ==
  ASSUME NEW a
  PROVE  /\ \A x \in Six(a) : x.host = "::1" /\ x.port = a.port /\ ~Unspecified(a.host) /\ IsV4(a.host)
         /\ \A x \in Four(a) : x.host = "127.0.0.1" /\ x.port = a.port /\ ~Unspecified(a.host) /\ ~IsLoopback(a.host)
         /\ \A x \in Own(a) : x.host = "127.2.0.17" /\ x.port = a.port /\ ~Unspecified(a.host)
         /\ \A x \in Port53 : x.port = "53"
  BY AddrFields DEF Six, Four, Own, Port53

LEMMA AddedCross ==
  ASSUME NEW a, a.port # "53", a.host # "127.2.0.17"
  PROVE  /\ Cross({a}, Six(a)) /\ Cross({a}, Four(a)) /\ Cross({a}, Own(a)) /\ Cross({a}, Port53)
         /\ Cross(Six(a), Four(a)) /\ Cross(Six(a), Own(a)) /\ Cross(Four(a), Own(a))
         /\ Cross(Six(a), Port53) /\ Cross(Four(a), Port53) /\ Cross(Own(a), Port53)
  <1>1. ASSUME NEW x \in Six(a) PROVE ~Conflicts(a, x)
    <2>1. a.host # x.host /\ ~Unspecified(a.host) /\ ~Unspecified(x.host)
      BY <1>1, AddedFields, NoWildcard DEF IsV4
    <2> QED BY <2>1, Clear
  <1>2. ASSUME NEW x \in Four(a) PROVE ~Conflicts(a, x)
    <2>1. a.host # x.host /\ ~Unspecified(a.host) /\ ~Unspecified(x.host)
      BY <1>2, AddedFields, NoWildcard DEF IsLoopback
    <2> QED BY <2>1, Clear
  <1>3. ASSUME NEW x \in Own(a) PROVE ~Conflicts(a, x)
    <2>1. a.host # x.host /\ ~Unspecified(a.host) /\ ~Unspecified(x.host)
      BY <1>3, AddedFields, NoWildcard
    <2> QED BY <2>1, Clear
  <1>4. ASSUME NEW x, x.port = a.port, NEW y \in Port53 PROVE ~Conflicts(x, y)
    BY <1>4, AddedFields, Clear
  <1>5. ASSUME NEW x \in Six(a), NEW y, y \in Four(a) \/ y \in Own(a) PROVE ~Conflicts(x, y)
    <2>1. x.host # y.host /\ ~Unspecified(x.host) /\ ~Unspecified(y.host)
      BY <1>5, AddedFields, NoWildcard
    <2> QED BY <2>1, Clear
  <1>6. ASSUME NEW x \in Four(a), NEW y \in Own(a) PROVE ~Conflicts(x, y)
    <2>1. x.host # y.host /\ ~Unspecified(x.host) /\ ~Unspecified(y.host)
      BY <1>6, AddedFields, NoWildcard
    <2> QED BY <2>1, Clear
  <1>7. Cross({a}, Six(a)) /\ Cross({a}, Four(a)) /\ Cross({a}, Own(a)) /\ Cross({a}, Port53)
    BY <1>1, <1>2, <1>3, <1>4 DEF Cross
  <1>8. Cross(Six(a), Four(a)) /\ Cross(Six(a), Own(a)) /\ Cross(Four(a), Own(a))
    BY <1>5, <1>6 DEF Cross
  <1>9. Cross(Six(a), Port53) /\ Cross(Four(a), Port53) /\ Cross(Own(a), Port53)
    BY <1>4, AddedFields DEF Cross
  <1> QED BY <1>7, <1>8, <1>9

LEMMA CrossUnion ==
  ASSUME NEW A, NEW B, NEW C
  PROVE  /\ Cross(A, B) /\ Cross(A, C) => Cross(A, B \cup C)
         /\ Cross(A, C) /\ Cross(B, C) => Cross(A \cup B, C)
  BY DEF Cross

LEMMA Wider ==
  ASSUME NEW A, NEW B, NEW s \in Seq(A)
  PROVE  s \in Seq(A \cup B)
  OBVIOUS

LEMMA OwnPort ==
  ASSUME NEW set
  PROVE  dnsModuleListenAddr(set).port = dnsModulePort(set)
  <1>1. Stock.port = "52353" /\ Addr("127.0.0.1", "52353").port = "52353"
    BY AddrFields DEF Stock
  <1>2. set.listen \in {NoAddr, Stock} => dnsModulePort(set) = "52353"
    BY <1>1 DEF dnsModulePort
  <1>3. set.listen \notin {NoAddr, Stock} => dnsModulePort(set) = set.listen.port
    BY DEF dnsModulePort
  <1> QED BY <1>1, <1>2, <1>3 DEF dnsModuleListenAddr

LEMMA Covered ==
  ASSUME NEW a, a.port # "53", a.host # "127.2.0.17"
  PROVE  LET s == IF Unspecified(a.host) THEN <<>>
                  ELSE (IF IsLoopback(a.host) THEN <<>> ELSE <<Addr("127.0.0.1", a.port)>>)
                       \o <<Addr("127.2.0.17", a.port)>>
         IN  s \in Seq(Four(a) \cup Own(a)) /\ Apart(s)
  <1>1. CASE Unspecified(a.host)
    BY <1>1, NoneApart
  <1>2. CASE ~Unspecified(a.host)
    <2> DEFINE f == IF IsLoopback(a.host) THEN <<>> ELSE <<Addr("127.0.0.1", a.port)>>
               g == <<Addr("127.2.0.17", a.port)>>
    <2>1. f \in Seq(Four(a)) /\ Apart(f)
      <3>1. CASE IsLoopback(a.host)
        BY <3>1, NoneApart
      <3>2. CASE ~IsLoopback(a.host)
        <4>1. Four(a) = {Addr("127.0.0.1", a.port)}
          BY <1>2, <3>2 DEF Four
        <4> QED BY <3>2, <4>1, AtMostOne
      <3> QED BY <3>1, <3>2
    <2>2. g \in Seq(Own(a)) /\ Apart(g)
      <3>1. Own(a) = {Addr("127.2.0.17", a.port)}
        BY <1>2 DEF Own
      <3> QED BY <3>1, AtMostOne
    <2>3. Cross(Four(a), Own(a))
      BY AddedCross
    <2> HIDE DEF f, g
    <2>4. f \o g \in Seq(Four(a) \cup Own(a)) /\ Apart(f \o g)
      BY <2>1, <2>2, <2>3, Joined
    <2> QED BY <1>2, <2>4 DEF f, g
  <1> QED BY <1>1, <1>2

\* The addresses the service adds do not conflict with each other, nor with
\* the module's own.
LEMMA AddedApart ==
  ASSUME NEW set \in ListenSettings, NEW host \in Hosts,
         dnsModuleListenAddr(set).port # "53", dnsModuleListenAddr(set).host # "127.2.0.17"
  PROVE  Apart(<<dnsModuleListenAddr(set)>> \o dnsModuleExtraListenAddrs(set, host))
  <1> DEFINE a == dnsModuleListenAddr(set)
             h == a.host
             v6 == IF ~Unspecified(h) /\ IsV4(h) /\ host.ipv6 THEN <<Addr("::1", a.port)>> ELSE <<>>
             covered == IF Unspecified(h) THEN <<>>
                        ELSE (IF IsLoopback(h) THEN <<>> ELSE <<Addr("127.0.0.1", a.port)>>)
                             \o <<Addr("127.2.0.17", a.port)>>
             mac == IF host.tun /\ host.port53 THEN <<Addr("127.0.0.1", "53")>> ELSE <<>>
             lin == IF host.port53 THEN <<Addr("127.2.0.17", "53")>> ELSE <<>>
             extra == dnsModuleExtraListenAddrs(set, host)
             A == Six(a) \cup (Four(a) \cup Own(a)) \cup Port53
  <1>1. a.port = dnsModulePort(set)
    BY OwnPort
  <1>2. extra = v6 \o mac \/ extra = (v6 \o covered) \o lin \/ extra = v6
    BY <1>1 DEF dnsModuleExtraListenAddrs
  <1>3. v6 \in Seq(Six(a)) /\ Apart(v6)
    <2>1. CASE ~Unspecified(h) /\ IsV4(h) /\ host.ipv6
      <3>1. Six(a) = {Addr("::1", a.port)}
        BY <2>1 DEF Six
      <3> QED BY <2>1, <3>1, AtMostOne
    <2>2. CASE ~(~Unspecified(h) /\ IsV4(h) /\ host.ipv6)
      BY <2>2, NoneApart
    <2> QED BY <2>1, <2>2
  <1>4. covered \in Seq(Four(a) \cup Own(a)) /\ Apart(covered)
    BY <1>1, Covered
  <1>5. mac \in Seq(Port53) /\ Apart(mac)
    <2>1. Addr("127.0.0.1", "53") \in Port53
      BY DEF Port53
    <2>2. <<Addr("127.0.0.1", "53")>> \in Seq(Port53)
      BY <2>1
    <2> QED BY <2>2, AtMostOne, NoneApart
  <1>6. lin \in Seq(Port53) /\ Apart(lin)
    <2>1. Addr("127.2.0.17", "53") \in Port53
      BY DEF Port53
    <2>2. <<Addr("127.2.0.17", "53")>> \in Seq(Port53)
      BY <2>1
    <2> QED BY <2>2, AtMostOne, NoneApart
  <1>7. /\ Cross({a}, A) /\ Cross(Six(a), Four(a) \cup Own(a)) /\ Cross(Six(a), Port53)
        /\ Cross(Six(a) \cup (Four(a) \cup Own(a)), Port53)
    <2> HIDE DEF a
    <2>1. a.port # "53" /\ a.host # "127.2.0.17"
      BY DEF a
    <2> QED BY <2>1, AddedCross, CrossUnion
  <1>8. extra \in Seq(A) /\ Apart(extra)
    <2> HIDE DEF v6, covered, mac, lin, extra, a
    <2>1. CASE extra = v6
      <3>1. v6 \in Seq(A)
        BY <1>3, Wider
      <3> QED BY <1>3, <2>1, <3>1
    <2>2. CASE extra = v6 \o mac
      <3>1. v6 \in Seq(Six(a) \cup (Four(a) \cup Own(a)))
        BY <1>3, Wider
      <3> QED BY <1>3, <1>5, <1>7, <2>2, <3>1, Joined
    <2>3. CASE extra = (v6 \o covered) \o lin
      <3>1. v6 \o covered \in Seq(Six(a) \cup (Four(a) \cup Own(a))) /\ Apart(v6 \o covered)
        BY <1>3, <1>4, <1>7, Joined
      <3> DEFINE w == v6 \o covered
      <3>2. w \in Seq(Six(a) \cup (Four(a) \cup Own(a))) /\ Apart(w) /\ extra = w \o lin
        BY <2>3, <3>1
      <3> HIDE DEF w
      <3> QED BY <1>6, <1>7, <3>2, Joined
    <2> QED BY <1>2, <2>1, <2>2, <2>3
  <1>9. <<a>> \in Seq({a}) /\ Apart(<<a>>)
    BY AtMostOne
  <1> HIDE DEF extra, A, a
  <1>10. Apart(<<a>> \o extra)
    BY <1>7, <1>8, <1>9, Joined
  <1> QED BY <1>10 DEF a, extra

LEMMA Short ==
  ASSUME NEW S
  PROVE  /\ <<>> \in Seq(S) /\ \A x \in S : <<x>> \in Seq(S)
         /\ \A s, t \in Seq(S) : s \o t \in Seq(S)
  OBVIOUS

\* The module's own address stays the first.
LEMMA OwnIsFirst ==
  ASSUME NEW set, NEW host, NEW a
  PROVE  (<<a>> \o dnsModuleExtraListenAddrs(set, host))[1] = a
  <1> DEFINE p == dnsModulePort(set)
             S == {Addr("::1", p), Addr("127.0.0.1", p), Addr("127.2.0.17", p)} \cup Port53
             h == dnsModuleListenAddr(set).host
             v6 == IF ~Unspecified(h) /\ IsV4(h) /\ host.ipv6 THEN <<Addr("::1", p)>> ELSE <<>>
             four == IF IsLoopback(h) THEN <<>> ELSE <<Addr("127.0.0.1", p)>>
             own == <<Addr("127.2.0.17", p)>>
             covered == IF Unspecified(h) THEN <<>> ELSE four \o own
             mac == IF host.tun /\ host.port53 THEN <<Addr("127.0.0.1", "53")>> ELSE <<>>
             lin == IF host.port53 THEN <<Addr("127.2.0.17", "53")>> ELSE <<>>
             extra == dnsModuleExtraListenAddrs(set, host)
  <1>1. extra = v6 \o mac \/ extra = (v6 \o covered) \o lin \/ extra = v6
    BY DEF dnsModuleExtraListenAddrs
  <1>2. v6 \in Seq(S) /\ four \in Seq(S) /\ own \in Seq(S)
    <2>1. Addr("::1", p) \in S /\ Addr("127.0.0.1", p) \in S /\ Addr("127.2.0.17", p) \in S
      OBVIOUS
    <2> HIDE DEF S
    <2> QED BY <2>1, Short
  <1>3. mac \in Seq(S) /\ lin \in Seq(S)
    <2>1. Addr("127.0.0.1", "53") \in S /\ Addr("127.2.0.17", "53") \in S
      BY DEF Port53
    <2> HIDE DEF S
    <2> QED BY <2>1, Short
  <1> HIDE DEF S, v6, four, own, mac, lin, extra
  <1>4. covered \in Seq(S)
    BY <1>2, Short
  <1> HIDE DEF covered
  <1>5. extra \in Seq(S)
    <2>1. v6 \o covered \in Seq(S) /\ v6 \o mac \in Seq(S)
      BY <1>2, <1>3, <1>4, Short
    <2>2. (v6 \o covered) \o lin \in Seq(S)
      BY <1>3, <2>1, Short
    <2> QED BY <1>1, <1>2, <2>1, <2>2
  <1>6. (<<a>> \o extra)[1] = a
    BY <1>5
  <1> QED BY <1>6 DEF extra

LEMMA ModuleStarts == ModuleInit => ModuleInv
  <1> SUFFICES ASSUME ModuleInit PROVE ModuleInv
    OBVIOUS
  <1> PICK set \in ListenSettings, host \in Hosts :
            maddrs = <<dnsModuleListenAddr(set)>> \o dnsModuleExtraListenAddrs(set, host)
    BY DEF ModuleInit
  <1>1. Servers = (1 .. Len(maddrs)) \X Protocols /\ \A s \in Servers : mservers[s] = "none"
    BY DEF ModuleInit, Servers
  <1>2. NoQuery \in Lookup /\ \A q \in Lookups : mqueries[q].at = "none"
    BY DEF ModuleInit, NoQuery, Lookup, Protocols
  <1>3. ModuleTypes
    BY <1>2 DEF ModuleInit, ModuleTypes, Phases, ServerStates
  <1>4. XrayInv /\ ServersInv /\ QueriesInv /\ RoutedAfterStart
    BY <1>1, <1>2 DEF ModuleInit, XrayInv, ServersInv, QueriesInv, RoutedAfterStart
  <1>5. ListenersDoNotCollide
    <2>1. SUFFICES ASSUME maddrs[1].port # "53", maddrs[1].host # "127.2.0.17" PROVE Apart(maddrs)
      BY DEF ListenersDoNotCollide, Apart
    <2>2. maddrs[1] = dnsModuleListenAddr(set)
      BY OwnIsFirst
    <2> QED BY <2>1, <2>2, AddedApart
  <1> QED BY <1>3, <1>4, <1>5 DEF ModuleInv

LEMMA ModuleStep == ModuleInv /\ [ModuleNext]_moduleVars => ModuleInv'
  <1> SUFFICES ASSUME ModuleInv, [ModuleNext]_moduleVars PROVE ModuleInv'
    OBVIOUS
  <1>1. CASE MainStep \/ BindFails \/ Signal
    BY <1>1, MainStarts, MainEnds, PairStarts, ServerSteps DEF MainStep
  <1>2. CASE \E s \in Servers : ActivateAndServe(s)
    BY <1>2, ServerSteps
  <1>3. CASE \E q \in Lookups : QueryStep(q) \/ \E s \in Servers : Arrives(q, s)
    BY <1>3, QuerySteps
  <1>4. CASE UNCHANGED moduleVars
    BY <1>4, ModulePart DEF moduleVars, ModuleInv, ModuleTypes, XrayInv, ServersInv, QueriesInv, Servers,
       RoutedAfterStart, ListenersDoNotCollide
  <1> QED BY <1>1, <1>2, <1>3, <1>4 DEF ModuleNext

LEMMA ModuleHolds == ModuleInv => ModuleIsSafe
  <1> SUFFICES ASSUME ModuleInv PROVE ModuleIsSafe
    OBVIOUS
  <1>1. ModuleTypeOK
    BY ModulePart DEF ModuleTypeOK, ModuleTypes, ServerStates, QueriesInv
  <1>2. XrayOutlivesQueries
    BY ModulePart DEF XrayOutlivesQueries, XrayInv, RoutedAfterStart
  <1>3. ClosedIsQuiet
    BY ModulePart, Busy DEF ClosedIsQuiet, ServersInv
  <1> QED BY <1>1, <1>2, <1>3, ModulePart DEF ModuleIsSafe

(* For any number of queries in flight, any listen setting and any platform: *)
(* the xray instance is up for every exchange (run.go starts it first and    *)
(* closes it last), a closed module serves no socket and owes no answer, no  *)
(* query is routed before Start of module.go has returned, and the addresses *)
(* dnsModuleExtraListenAddrs adds never collide.                             *)
THEOREM ModuleSafe == ModuleSpec => []ModuleIsSafe
  <1>1. ModuleInit => ModuleInv
    BY ModuleStarts
  <1>2. ModuleInv /\ [ModuleNext]_moduleVars => ModuleInv'
    BY ModuleStep
  <1>3. ModuleInv => ModuleIsSafe
    BY ModuleHolds
  <1> QED BY <1>1, <1>2, <1>3, PTL DEF ModuleSpec
=============================================================================
