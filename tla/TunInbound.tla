----------------------------- MODULE TunInbound -----------------------------
(***************************************************************************)
(* The core's TUN inbound: a device and a user-space IP stack with two     *)
(* pumps between them, and what the stack's callbacks do.  A datagram goes *)
(* to the session of the application's socket (forward_udp.go), which the  *)
(* dispatcher serves; one to a foreign resolver goes to the DNS hijack     *)
(* (dns_hijack.go), which keeps a socket to the core's DNS module per      *)
(* flow; a DNS stream gets a relay of its own.  The dispatcher, the stack  *)
(* and the device are libraries: what they may do is an external choice.   *)
(*                                                                         *)
(* Sources: core/hint/proxy/tunmips/{inbound,stack_mipstack,forward,       *)
(* forward_udp,dns_hijack}.go.                                             *)
(***************************************************************************)
EXTENDS Naturals, FiniteSets

CONSTANTS
    Sources,        \* the applications' sockets, as numbers
    UdpConns,       \* bound: the sessions that may come, as numbers
    DnsConns,       \* bound: the hijack's sockets that may come, as numbers
    Relays,         \* bound: the DNS streams that may come
    UdpQueue,       \* udpQueue
    DnsMaxSessions, \* dnsMaxSessions
    DnsUDPIdle,     \* dnsUDPIdle, in ticks
    MaxDatagrams    \* bound: datagrams that arrive

ASSUME TunInboundAssumption ==
    /\ Sources \subseteq Nat \ {0} /\ IsFiniteSet(Sources) /\ UdpConns \subseteq Nat \ {0} /\ DnsConns \subseteq Nat \ {0} /\ IsFiniteSet(Relays)
    /\ UdpQueue \in Nat \ {0} /\ DnsMaxSessions \in Nat /\ DnsUDPIdle \in Nat /\ MaxDatagrams \in Nat

VARIABLES
    tnmap,      \* udpSessions.m: source -> session, 0 when there is none
    tnconn,     \* the sessions: how far dispatch is, the queue, is egress open
    tninput,    \* the stack's input path, which calls back one datagram at a time
    tnpanic,    \* something was sent on a closed channel, or it was closed twice
    tnsess,     \* dnsHijack.sessions: source -> socket, 0 when there is none
    tndns,      \* the hijack's sockets with their reading goroutines
    tnlive,     \* dnsHijack.tcpLive
    tnrelay,    \* the DNS streams
    tndev,      \* the device
    tnstack,    \* mipsStack: what closed it (done, forwarders, stack), and pumpErr
    tnpump,     \* the two pumps
    tnhandler,  \* the handler: down, up, or how far Close is
    tnwatch,    \* watch, and what it found in Err
    tncount     \* datagrams so far

udpVars == <<tnmap, tnconn, tnpanic>>
dnsVars == <<tnsess, tndns>>
relayVars == <<tnlive, tnrelay>>
deviceVars == <<tndev, tnstack, tnpump, tnhandler, tnwatch>>
tunInboundVars == <<udpVars, dnsVars, relayVars, deviceVars, tninput, tncount>>

Idle == [pc |-> "idle", src |-> 0, conn |-> 0]
Pumps == {"in", "out"}

TunInboundInit ==
    /\ tnmap = [s \in Sources |-> 0]
    /\ tnconn = [c \in UdpConns |-> [pc |-> "unused", src |-> 0, queued |-> 0, open |-> FALSE]]
    /\ tninput = Idle /\ tnpanic = FALSE /\ tncount = 0
    /\ tnsess = [s \in Sources |-> 0]
    /\ tndns = [c \in DnsConns |-> [pc |-> "unused", src |-> 0, open |-> FALSE, armed |-> 0, age |-> 0, owed |-> FALSE]]
    /\ tnlive = 0 /\ tnrelay = [r \in Relays |-> "unused"]
    /\ tndev = "none" /\ tnstack = [by |-> "none", err |-> FALSE] /\ tnpump = [p \in Pumps |-> "off"]
    /\ tnhandler = "down" /\ tnwatch = [pc |-> "off", err |-> FALSE]

\* Callbacks come while the inner pump feeds a stack that is not closed.
Delivers == tnpump["in"] = "run" /\ tnstack.by = "none" /\ tninput = Idle /\ tncount < MaxDatagrams
Returns == tninput' = Idle
-----------------------------------------------------------------------------
(* forward_udp.go *)

\* The non-blocking send; on a closed channel it panics.  (Callers hold u.mu.)
enqueue(c) ==
    /\ tnconn' = [tnconn EXCEPT ![c].queued = IF @ < UdpQueue THEN @ + 1 ELSE @]
    /\ tnpanic' = (tnpanic \/ ~tnconn[c].open)
    /\ UNCHANGED tnmap

handlePacket(s) ==
    /\ Delivers /\ tncount' = tncount + 1
    /\ IF tnmap[s] # 0 THEN enqueue(tnmap[s]) /\ Returns
       ELSE tninput' = [pc |-> "missed", src |-> s, conn |-> 0] /\ UNCHANGED udpVars
    /\ UNCHANGED <<dnsVars, relayVars, deviceVars>>
\* Between RUnlock and Lock the table may have changed.
handlePacketLocked ==
    LET s == tninput.src IN
    /\ tninput.pc = "missed"
    /\ IF tnmap[s] # 0 THEN enqueue(tnmap[s])
       ELSE \E c \in UdpConns :
                /\ tnconn[c].pc = "unused" /\ \A d \in UdpConns : d < c => tnconn[d].pc # "unused"
                /\ tnconn' = [tnconn EXCEPT ![c] = [pc |-> "dispatch", src |-> s, queued |-> 1, open |-> TRUE]]
                /\ tnmap' = [tnmap EXCEPT ![s] = c]
                /\ UNCHANGED tnpanic
    /\ Returns /\ UNCHANGED <<dnsVars, relayVars, deviceVars, tncount>>

\* Mutant: the session that ended stays in the table.
finished_KeepsEntry(c, pc) ==
    LET moved == [tnconn EXCEPT ![c].pc = pc]
        found == tnmap[tnconn[c].src]
    IN  /\ tnconn' = IF found = 0 THEN moved ELSE [moved EXCEPT ![found].open = FALSE]
        /\ tnpanic' = (tnpanic \/ (found # 0 /\ ~tnconn[found].open))
        /\ UNCHANGED tnmap

\* Removes whatever session the source of c has and closes that one's egress;
\* c itself goes on to pc.
finished(c, pc) ==
    LET moved == [tnconn EXCEPT ![c].pc = pc]
        found == tnmap[tnconn[c].src]
    IN  /\ tnconn' = IF found = 0 THEN moved ELSE [moved EXCEPT ![found].open = FALSE]
        /\ tnmap' = [tnmap EXCEPT ![tnconn[c].src] = 0]
        /\ tnpanic' = (tnpanic \/ (found # 0 /\ ~tnconn[found].open))

\* DispatchLink has the link: nothing is said of how long it keeps it.
dispatch(c) == tnconn[c].pc \in {"dispatch", "closed"}

\* The dispatcher reads a datagram, closes the link's writer, or is done.
ReadMultiBuffer(c) ==
    /\ dispatch(c) /\ tnconn[c].queued > 0
    /\ tnconn' = [tnconn EXCEPT ![c].queued = @ - 1]
    /\ UNCHANGED <<tnmap, tnpanic, dnsVars, relayVars, deviceVars, tninput, tncount>>
CloseLink(c) ==
    /\ tnconn[c].pc = "dispatch" /\ finished(c, "closed")
    /\ UNCHANGED <<dnsVars, relayVars, deviceVars, tninput, tncount>>
run(c) ==
    /\ dispatch(c) /\ finished(c, "ended")
    /\ UNCHANGED <<dnsVars, relayVars, deviceVars, tninput, tncount>>
-----------------------------------------------------------------------------
(* dns_hijack.go: datagrams.  A flow's resolver is left out: a flow is named *)
(* by its source.                                                            *)

Entries == {s \in Sources : tnsess[s] # 0}
\* No deadline is set; an age of DnsUDPIdle stands for the zero time and for
\* every age from there on.
NoDeadline == DnsUDPIdle + 1
\* The reading goroutine is in its loop.
Reads(c) == tndns[c].pc \in {"arm", "read"}
muFree == tninput.pc # "touch"

\* Under h.mu: the session is found and touched, or dialled, with its reader
\* started before the touch; over the limit, or when the dial fails, the query
\* is dropped.
handleUDP(s) ==
    /\ Delivers /\ tncount' = tncount + 1
    /\ \/ tnsess[s] # 0 /\ tndns' = [tndns EXCEPT ![tnsess[s]].age = 0]
          /\ tninput' = [pc |-> "write", src |-> s, conn |-> tnsess[s]] /\ UNCHANGED tnsess
       \/ tnsess[s] = 0 /\ UNCHANGED dnsVars /\ Returns
       \/ tnsess[s] = 0 /\ Cardinality(Entries) < DnsMaxSessions
          /\ \E c \in DnsConns :
                /\ tndns[c].pc = "unused" /\ \A d \in DnsConns : d < c => tndns[d].pc # "unused"
                /\ tndns' = [tndns EXCEPT ![c] =
                        [pc |-> "arm", src |-> s, open |-> TRUE, armed |-> NoDeadline, age |-> DnsUDPIdle, owed |-> FALSE]]
                /\ tnsess' = [tnsess EXCEPT ![s] = c]
                /\ tninput' = [pc |-> "touch", src |-> s, conn |-> c]
    /\ UNCHANGED <<udpVars, relayVars, deviceVars>>
touch ==
    /\ tninput.pc = "touch"
    /\ tndns' = [tndns EXCEPT ![tninput.conn].age = 0]
    /\ tninput' = [tninput EXCEPT !.pc = "write"]
    /\ UNCHANGED <<tnsess, udpVars, relayVars, deviceVars, tncount>>
\* The write, after the unlock: a socket closed meanwhile loses the query.
WriteQuery ==
    /\ tninput.pc = "write"
    /\ tndns' = [tndns EXCEPT ![tninput.conn].owed = @ \/ (tndns[tninput.conn].open /\ Reads(tninput.conn))]
    /\ Returns /\ UNCHANGED <<tnsess, udpVars, relayVars, deviceVars, tncount>>

\* readReplies: SetReadDeadline, Read, and the deferred removal and Close; once
\* the loop is left, deadline, touch and answers owed are of no account.
Left(d) == [d EXCEPT !.pc = "leave", !.armed = 0, !.age = 0, !.owed = FALSE]

\* Mutant: the reader arms no deadline.
SetReadDeadline_Never(c) ==
    /\ tndns[c].pc = "arm" /\ tndns' = [tndns EXCEPT ![c].pc = "read"]
    /\ UNCHANGED <<tnsess, udpVars, relayVars, deviceVars, tninput, tncount>>

SetReadDeadline(c) ==
    /\ tndns[c].pc = "arm"
    /\ tndns' = [tndns EXCEPT ![c].pc = "read", ![c].armed = DnsUDPIdle - tndns[c].age]
    /\ UNCHANGED <<tnsess, udpVars, relayVars, deviceVars, tninput, tncount>>
\* The module's answer, passed to the stack, which may refuse it
Reply(c) ==
    /\ tndns[c].pc = "read" /\ tndns[c].open /\ tndns[c].owed
    /\ \/ tndns' = [tndns EXCEPT ![c].pc = "arm", ![c].owed = FALSE]
       \/ tndns' = [tndns EXCEPT ![c] = Left(@)]
    /\ UNCHANGED <<tnsess, udpVars, relayVars, deviceVars, tninput, tncount>>
ReadFails(c) ==
    /\ tndns[c].pc = "read" /\ (tndns[c].armed = 0 \/ ~tndns[c].open)
    /\ tndns' = [tndns EXCEPT ![c] = Left(@)]
    /\ UNCHANGED <<tnsess, udpVars, relayVars, deviceVars, tninput, tncount>>
Leave(c) ==
    /\ tndns[c].pc = "leave" /\ muFree
    /\ tnsess' = [tnsess EXCEPT ![tndns[c].src] = IF @ = c THEN 0 ELSE @]
    /\ tndns' = [tndns EXCEPT ![c].pc = "close"]
    /\ UNCHANGED <<udpVars, relayVars, deviceVars, tninput, tncount>>
CloseSocket(c) ==
    /\ tndns[c].pc = "close" /\ tndns' = [tndns EXCEPT ![c].pc = "done", ![c].open = FALSE]
    /\ UNCHANGED <<tnsess, udpVars, relayVars, deviceVars, tninput, tncount>>
readReplies(c) == SetReadDeadline(c) \/ ReadFails(c) \/ Leave(c) \/ CloseSocket(c)

\* Deadlines come nearer and touches older.
Later(d) ==
    [d EXCEPT !.armed = IF @ \in 1..DnsUDPIdle THEN @ - 1 ELSE @, !.age = IF @ < DnsUDPIdle THEN @ + 1 ELSE @]
Tick ==
    /\ tndns' = [c \in DnsConns |-> IF Reads(c) THEN Later(tndns[c]) ELSE tndns[c]]
    /\ tndns' # tndns
    /\ UNCHANGED <<tnsess, udpVars, relayVars, deviceVars, tninput, tncount>>
-----------------------------------------------------------------------------
(* dns_hijack.go: streams *)

relayUnchanged == UNCHANGED <<udpVars, dnsVars, deviceVars, tninput, tncount>>

\* Accept, with the counter checked and taken under h.mu
handleTCP(r) ==
    /\ tnrelay[r] = "unused" /\ tnpump["in"] = "run" /\ tnstack.by = "none" /\ muFree
    /\ IF tnlive >= DnsMaxSessions
       THEN tnrelay' = [tnrelay EXCEPT ![r] = "done"] /\ UNCHANGED tnlive
       ELSE tnrelay' = [tnrelay EXCEPT ![r] = "dial"] /\ tnlive' = tnlive + 1
    /\ relayUnchanged
\* The dial has a timeout: it fails, or two copies run.
DialTimeout(r) ==
    /\ tnrelay[r] = "dial"
    /\ \E next \in {"return", "both"} : tnrelay' = [tnrelay EXCEPT ![r] = next]
    /\ UNCHANGED tnlive /\ relayUnchanged
\* One copy ends, at the latest by the deadline set on the client's stream;
\* then the other, or the timer.
RelayDone(r) ==
    /\ tnrelay[r] \in {"both", "one"}
    /\ tnrelay' = [tnrelay EXCEPT ![r] = IF @ = "both" THEN "one" ELSE "return"]
    /\ UNCHANGED tnlive /\ relayUnchanged
RelayReturns(r) ==
    /\ tnrelay[r] = "return" /\ muFree
    /\ tnrelay' = [tnrelay EXCEPT ![r] = "done"] /\ tnlive' = tnlive - 1
    /\ relayUnchanged
Relay(r) == DialTimeout(r) \/ RelayDone(r) \/ RelayReturns(r)
-----------------------------------------------------------------------------
(* inbound.go and stack_mipstack.go *)

deviceOnly == UNCHANGED <<udpVars, relayVars, tninput, tncount>>

\* What opening leaves: nothing, a device closed again because its addresses
\* were refused, or an open one
openDevice == {"none", "closed", "open"}
\* The stack's Start undoes its own steps when one fails, or starts the pumps.
StackStart(ok) == tnpump' = IF ok THEN [p \in Pumps |-> "run"] ELSE tnpump
Start ==
    /\ tnhandler = "down"
    /\ \E dev \in openDevice, ok \in BOOLEAN :
        LET up == dev = "open" /\ ok IN
        /\ tndev' = IF dev = "open" /\ ~ok THEN "closed" ELSE dev
        /\ StackStart(up)
        /\ tnhandler' = IF up THEN "up" ELSE "failed"
        /\ tnwatch' = IF up THEN [tnwatch EXCEPT !.pc = "wait"] ELSE tnwatch
    /\ UNCHANGED <<tnstack, dnsVars>> /\ deviceOnly

\* mipsStack.Close, under closeOnce
CloseStack(by) == tnstack' = IF tnstack.by = "none" THEN [tnstack EXCEPT !.by = by] ELSE tnstack

\* The other end is closed, or reading or writing the open device fails.
ErrClosed == tnstack.by # "none" \/ tndev = "closed"

\* Mutant: a first failure is not recorded.
fail_OnlyLater(p, fatal) ==
    /\ tnpump[p] = "run" /\ (p = "in" => tninput = Idle)
    /\ tnstack' = [tnstack EXCEPT !.err = @ /\ fatal]
    /\ tnpump' = [tnpump EXCEPT ![p] = IF fatal THEN "fatal" ELSE "clean"]
    /\ UNCHANGED <<tndev, tnhandler, tnwatch, dnsVars>> /\ deviceOnly

fail(p, fatal) ==
    /\ tnpump[p] = "run" /\ (p = "in" => tninput = Idle)
    /\ tnstack' = [tnstack EXCEPT !.err = @ \/ fatal]
    /\ tnpump' = [tnpump EXCEPT ![p] = IF fatal THEN "fatal" ELSE "clean"]
    /\ UNCHANGED <<tndev, tnhandler, tnwatch, dnsVars>> /\ deviceOnly
PumpSeesClosed(p) == ErrClosed /\ fail(p, FALSE)
DeviceFails(p) == tndev = "open" /\ fail(p, TRUE)
PumpCloses(p) ==
    /\ tnpump[p] \in {"fatal", "clean"} /\ CloseStack(tnpump[p])
    /\ tnpump' = [tnpump EXCEPT ![p] = "ended"]
    /\ UNCHANGED <<tndev, tnhandler, tnwatch, dnsVars>> /\ deviceOnly

watch ==
    /\ \/ /\ tnwatch.pc = "wait" /\ tnstack.by # "none"
          /\ tnwatch' = [pc |-> "read", err |-> tnstack.err] /\ UNCHANGED tndev
       \/ tnwatch.pc = "read" /\ tnwatch' = [tnwatch EXCEPT !.pc = "done"] /\ tndev' = "closed"
    /\ UNCHANGED <<tnstack, tnpump, tnhandler, dnsVars>> /\ deviceOnly

\* Handler.Close: the hijack's sessions, the stack, the device
CloseHijack ==
    /\ tnhandler = "up" /\ muFree /\ tnhandler' = "hijackClosed"
    /\ tndns' = [c \in DnsConns |-> IF \E s \in Sources : tnsess[s] = c THEN [tndns[c] EXCEPT !.open = FALSE] ELSE tndns[c]]
    /\ tnsess' = [s \in Sources |-> 0]
    /\ UNCHANGED <<tndev, tnstack, tnpump, tnwatch>> /\ deviceOnly
CloseRest ==
    /\ \/ tnhandler = "hijackClosed" /\ tnhandler' = "stackClosed" /\ CloseStack("clean") /\ UNCHANGED tndev
       \/ tnhandler = "stackClosed" /\ tnhandler' = "closed" /\ tndev' = "closed" /\ UNCHANGED tnstack
    /\ UNCHANGED <<tnpump, tnwatch, dnsVars>> /\ deviceOnly
-----------------------------------------------------------------------------
TunInboundNext ==
    \/ \E s \in Sources : handlePacket(s) \/ handleUDP(s)
    \/ handlePacketLocked \/ touch \/ WriteQuery \/ Tick
    \/ \E c \in UdpConns : ReadMultiBuffer(c) \/ CloseLink(c) \/ run(c)
    \/ \E c \in DnsConns : Reply(c) \/ readReplies(c)
    \/ \E r \in Relays : handleTCP(r) \/ Relay(r)
    \/ Start \/ watch \/ CloseHijack \/ CloseRest
    \/ \E p \in Pumps : PumpSeesClosed(p) \/ DeviceFails(p) \/ PumpCloses(p)
TunInboundSpec == TunInboundInit /\ [][TunInboundNext]_tunInboundVars

\* What the scheduler, the network deadlines and the dispatcher must do: it
\* reads what is queued and stops at the end of a closed queue.  The inner pump
\* is blocked in the device's Read until the device is closed.
Drains(c) == ReadMultiBuffer(c) \/ (~tnconn[c].open /\ tnconn[c].queued = 0 /\ run(c))
InputReturns == handlePacketLocked \/ touch \/ WriteQuery
PumpUnblocks == PumpSeesClosed("out") \/ (tndev = "closed" /\ PumpSeesClosed("in"))
-----------------------------------------------------------------------------
TunInboundTypeOK ==
    /\ tnmap \in [Sources -> UdpConns \cup {0}] /\ tnsess \in [Sources -> DnsConns \cup {0}]
    /\ tnconn \in [UdpConns -> [pc : {"unused", "dispatch", "closed", "ended"}, src : Sources \cup {0},
                               queued : 0..UdpQueue, open : BOOLEAN]]
    /\ tndns \in [DnsConns -> [pc : {"unused", "arm", "read", "leave", "close", "done"}, src : Sources \cup {0},
                              open : BOOLEAN, armed : 0..NoDeadline, age : 0..DnsUDPIdle, owed : BOOLEAN]]
    /\ tninput \in [pc : {"idle", "missed", "touch", "write"}, src : Sources \cup {0}, conn : DnsConns \cup {0}]
    /\ tnpanic \in BOOLEAN /\ tnlive \in 0..DnsMaxSessions /\ tncount \in 0..MaxDatagrams
    /\ tnrelay \in [Relays -> {"unused", "dial", "both", "one", "return", "done"}]
    /\ tndev \in {"none", "open", "closed"}
    /\ tnstack \in [by : {"none", "fatal", "clean"}, err : BOOLEAN]
    /\ tnpump \in [Pumps -> {"off", "run", "fatal", "clean", "ended"}]
    /\ tnhandler \in {"down", "up", "failed", "hijackClosed", "stackClosed", "closed"}
    /\ tnwatch \in [pc : {"off", "wait", "read", "done"}, err : BOOLEAN]

\* No datagram is sent on a closed egress and no egress is closed twice,
\* whichever of a session's two closings and of a later session's comes first
\* ("a send after that close would panic", forward_udp.go:51).
SendsAreSafe == ~tnpanic

\* A session found in the table is served: the dispatcher has its link and has
\* not closed it, so a datagram queued there is read (handlePacket trusts the
\* entry; finished and run keep it so).
EntriesAreServed ==
    \A s \in Sources : tnmap[s] # 0 =>
        tnconn[tnmap[s]].pc = "dispatch" /\ tnconn[tnmap[s]].open /\ tnconn[tnmap[s]].src = s

\* The hijack's open sockets stay within dnsMaxSessions, but for those whose
\* reader is about to close them, also while Close races new queries: readReplies
\* removes only its own entry, so an open socket never drops out of the table.
SocketsBounded ==
    Cardinality({c \in DnsConns : tndns[c].open /\ tndns[c].pc # "close"}) <= DnsMaxSessions

\* tcpLive is the number of streams being relayed, however dials, copies and
\* timers end: a slot that were not given back, or twice, would in time shut the
\* hijack or lift its limit.
RelaysCounted ==
    tnlive = Cardinality({r \in Relays : tnrelay[r] \in {"dial", "both", "one", "return"}}) /\ tnlive <= DnsMaxSessions

\* When a pump's fatal error took the stack down, watch reports an error: fail
\* records it before it closes done.
FailureIsReported == tnwatch.pc \in {"read", "done"} /\ tnstack.by = "fatal" => tnwatch.err

\* Traffic leaves nothing behind once it stops coming.  A session whose link the
\* outbound closed ends, for its queue was closed with its entry, by this closing
\* or by an earlier session's of the same source; a socket of the hijack is
\* closed by its read deadline, also one dialled after Close emptied the table;
\* and the slots of DNS streams come back, however dial and copies end.
Lingers ==
    \/ \E c \in UdpConns : tnconn[c].pc = "closed"
    \/ \E c \in DnsConns : tndns[c].open
    \/ tnlive > 0
NothingLingers == []<>~Lingers

\* Once the stack is closed, by either pump or by Close, the device is closed
\* and both pumps end (closing the device "is what unblocks the device pump",
\* stack_mipstack.go:187).
DeviceIsGivenUp == tnstack.by # "none" ~> tndev = "closed" /\ \A p \in Pumps : tnpump[p] = "ended"

\* The tables of the inbound tell the truth while packets, dispatchers, readers
\* and Close interleave: nothing is sent on a closed session, what the table of
\* datagrams names is served, and the hijack's sockets and streams stay bounded.
InboundSafe == TunInboundTypeOK /\ SendsAreSafe /\ EntriesAreServed /\ SocketsBounded /\ RelaysCounted

\* The inbound lets go of what it used, and of the device once it is closed.
InboundEnds == NothingLingers /\ DeviceIsGivenUp

(* Claims the code does not keep *)

\* A session stays in the table until its own dispatch ends or closes it: the
\* second closing of an earlier session takes it away (forward_udp.go:85).
SessionsEndAlone ==
    [][\A c \in UdpConns : tnconn[c].open /\ ~tnconn'[c].open => tnconn'[c].pc # "dispatch"]_tunInboundVars
\* The first query of a flow finds its socket open: the reader may set its
\* deadline before touch, from the zero time (dns_hijack.go:150-153).
FirstQueryIsSent ==
    tninput.pc = "write" /\ tnhandler = "up" => tndns[tninput.conn].open
=============================================================================
