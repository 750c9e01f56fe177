----------------------------- MODULE MessageFeed -----------------------------
(***************************************************************************)
(* The feed that carries running states, observatory results, traffic and  *)
(* catalog changes to the web clients, and the handler of one client's     *)
(* web socket.  A client holds one bounded box (a Go channel) per product; *)
(* ProductMessage never blocks, so a full box loses the message.  Each box *)
(* has a writer goroutine; the reader goroutine cancels the boxes when the *)
(* socket fails.                                                           *)
(*                                                                         *)
(* Sources: kernel/v2ray/feed.go, server/service/message.go,               *)
(* server/controller/message.go.                                           *)
(***************************************************************************)
EXTENDS Naturals, Sequences, FiniteSets, ListCut

CONSTANTS
    Clients,        \* the web socket connections that may come
    Products,       \* the registered products
    BoxSize,        \* the capacity of a box
    MaxMessages     \* bound: messages made per product

ASSUME FeedAssumption == IsFiniteSet(Clients) /\ BoxSize \in Nat /\ MaxMessages \in Nat

VARIABLES
    fdboxes,    \* per product, the open boxes in order, named by their client
    fdindex,    \* the index each cancel function captured
    fdbox,      \* the content of each box
    fdclosed,   \* the box is closed
    fdmade,     \* messages made so far, per product
    fdsent,     \* what the client was sent of a product
    fdconn,     \* the client's socket
    fdread,     \* the reader goroutine; "cancel" holds the products left
    fdwriter,   \* the writer goroutine of each box
    fdpanic     \* a message was sent on a closed box, or a box closed twice

feedVars == <<fdboxes, fdindex, fdbox, fdclosed, fdmade, fdsent, fdconn,
              fdread, fdwriter, fdpanic>>

Boxes == Clients \X Products

FeedInit ==
    /\ fdboxes = [p \in Products |-> <<>>]
    /\ fdindex = [b \in Boxes |-> 0]
    /\ fdbox = [b \in Boxes |-> <<>>]
    /\ fdclosed = [b \in Boxes |-> FALSE]
    /\ fdmade = [p \in Products |-> 0]
    /\ fdsent = [b \in Boxes |-> <<>>]
    /\ fdconn = [c \in Clients |-> "none"]
    /\ fdread = [c \in Clients |-> {}]
    /\ fdwriter = [b \in Boxes |-> "none"]
    /\ fdpanic = FALSE

-----------------------------------------------------------------------------
(* The feed.                                                               *)

\* One subscription.  The products of a client are subscribed one lock at a
\* time, in the order of the list.
SubscribeMessage(c, p) ==
    /\ fdconn[c] = "subscribing"
    /\ <<c, p>> \notin {b \in Boxes : fdindex[b] > 0}
    /\ fdboxes' = [fdboxes EXCEPT ![p] = Append(@, c)]
    /\ fdindex' = [fdindex EXCEPT ![<<c, p>>] = Len(fdboxes[p]) + 1]
    /\ UNCHANGED <<fdbox, fdclosed, fdmade, fdsent, fdconn, fdread, fdwriter, fdpanic>>

\* The clients whose boxes a product has.
BoxesOf(p) == {fdboxes[p][i] : i \in DOMAIN fdboxes[p]}

\* Mutant: the place taken at the subscription is used as it is.
cancelIndex_Captured(c, p) ==
    IF fdindex[<<c, p>>] > Len(fdboxes[p]) THEN 0 ELSE fdindex[<<c, p>>]

\* Mutant: a box that has moved is not searched for.
cancelIndex_NoSearch(c, p) ==
    LET i == fdindex[<<c, p>>] IN
    IF i \in DOMAIN fdboxes[p] /\ fdboxes[p][i] = c THEN i ELSE 0

\* The index a cancel function acts on: the captured one while the box is
\* still there, else the place the search finds, 0 when it is gone.
cancelIndex(c, p) ==
    LET i == fdindex[<<c, p>>] IN
    IF i \in DOMAIN fdboxes[p] /\ fdboxes[p][i] = c THEN i
    ELSE IF c \in BoxesOf(p)
         THEN CHOOSE j \in DOMAIN fdboxes[p] : fdboxes[p][j] = c
         ELSE 0

\* A message goes into every box with room.
ProductMessage(p) ==
    /\ fdmade[p] < MaxMessages
    /\ fdmade' = [fdmade EXCEPT ![p] = @ + 1]
    /\ fdbox' = [b \in Boxes |->
            IF b[2] = p /\ b[1] \in BoxesOf(p) /\ Len(fdbox[b]) < BoxSize
            THEN Append(fdbox[b], fdmade[p] + 1) ELSE fdbox[b]]
    /\ fdpanic' = (fdpanic \/ \E c \in BoxesOf(p) : fdclosed[<<c, p>>])
    /\ UNCHANGED <<fdboxes, fdindex, fdclosed, fdsent, fdconn, fdread, fdwriter>>

-----------------------------------------------------------------------------
(* One client.                                                             *)

WsMessage(c) ==
    /\ fdconn[c] = "none"
    /\ fdconn' = [fdconn EXCEPT ![c] = "subscribing"]
    /\ UNCHANGED <<fdboxes, fdindex, fdbox, fdclosed, fdmade, fdsent, fdread, fdwriter, fdpanic>>

\* Every product is subscribed: the reader and the writers start.
NewMessageHandler(c) ==
    /\ fdconn[c] = "subscribing"
    /\ \A p \in Products : fdindex[<<c, p>>] > 0
    /\ fdconn' = [fdconn EXCEPT ![c] = "open"]
    /\ fdread' = [fdread EXCEPT ![c] = Products]
    /\ fdwriter' = [b \in Boxes |-> IF b[1] = c THEN "range" ELSE fdwriter[b]]
    /\ UNCHANGED <<fdboxes, fdindex, fdbox, fdclosed, fdmade, fdsent, fdpanic>>

\* The client goes away, or Write closed the socket when its last writer
\* had returned.
ClientLeaves(c) ==
    /\ fdconn[c] = "open"
    /\ fdconn' = [fdconn EXCEPT ![c] = "closed"]
    /\ UNCHANGED <<fdboxes, fdindex, fdbox, fdclosed, fdmade, fdsent, fdread, fdwriter, fdpanic>>

WriteReturns(c) ==
    /\ \A p \in Products : fdwriter[<<c, p>>] = "done"
    /\ ClientLeaves(c)

\* The reader's socket failed: it cancels its boxes, one lock at a time.
Read(c, p) ==
    LET i == cancelIndex(c, p) IN
    /\ fdconn[c] = "closed"
    /\ p \in fdread[c]
    /\ fdread' = [fdread EXCEPT ![c] = @ \ {p}]
    /\ IF i = 0 THEN UNCHANGED <<fdclosed, fdboxes, fdpanic>>
       ELSE /\ fdclosed' = [fdclosed EXCEPT ![<<fdboxes[p][i], p>>] = TRUE]
            /\ fdpanic' = (fdpanic \/ fdclosed[<<fdboxes[p][i], p>>])
            /\ fdboxes' = [fdboxes EXCEPT ![p] = CutAt(@, i)]
    /\ UNCHANGED <<fdindex, fdbox, fdmade, fdsent, fdconn, fdwriter>>

\* A writer takes the next message of its box; the write may fail, always
\* once the socket is closed, and then the writer returns.
Write(c, p, ok) ==
    /\ fdwriter[<<c, p>>] = "range"
    /\ fdbox[<<c, p>>] # <<>>
    /\ ok => fdconn[c] = "open"
    /\ fdbox' = [fdbox EXCEPT ![<<c, p>>] = Tail(@)]
    /\ fdsent' = [fdsent EXCEPT ![<<c, p>>] =
            IF ok THEN Append(@, Head(fdbox[<<c, p>>])) ELSE @]
    /\ fdwriter' = [fdwriter EXCEPT ![<<c, p>>] = IF ok THEN "range" ELSE "done"]
    /\ UNCHANGED <<fdboxes, fdindex, fdclosed, fdmade, fdconn, fdread, fdpanic>>

\* The box is closed and empty: the range loop ends.
RangeEnds(c, p) ==
    /\ fdwriter[<<c, p>>] = "range"
    /\ fdclosed[<<c, p>>]
    /\ fdbox[<<c, p>>] = <<>>
    /\ fdwriter' = [fdwriter EXCEPT ![<<c, p>>] = "done"]
    /\ UNCHANGED <<fdboxes, fdindex, fdbox, fdclosed, fdmade, fdsent, fdconn, fdread, fdpanic>>

FeedNext ==
    \/ \E p \in Products : ProductMessage(p)
    \/ \E c \in Clients :
        \/ WsMessage(c)
        \/ NewMessageHandler(c)
        \/ ClientLeaves(c)
        \/ WriteReturns(c)
        \/ \E p \in Products :
            \/ SubscribeMessage(c, p)
            \/ Read(c, p)
            \/ \E ok \in BOOLEAN : Write(c, p, ok)
            \/ RangeEnds(c, p)

FeedSpec == FeedInit /\ [][FeedNext]_feedVars

-----------------------------------------------------------------------------

\* Every variable keeps its type, and no box holds more than its size.
FeedTypeOK ==
    /\ \A p \in Products : BoxesOf(p) \subseteq Clients
    /\ fdindex \in [Boxes -> 0..Cardinality(Clients)]
    /\ \A b \in Boxes : Len(fdbox[b]) <= BoxSize
    /\ fdconn \in [Clients -> {"none", "subscribing", "open", "closed"}]
    /\ fdwriter \in [Boxes -> {"none", "range", "done"}]
    /\ fdread \in [Clients -> SUBSET Products]

\* Cancelling one client's box while others come and go neither closes the
\* box of another client nor leaves a closed box registered: a message is
\* never sent on a closed channel and no channel is closed twice, which in
\* Go would end the service (feed.go, SubscribeMessage and ProductMessage).
NoSendOnClosedBox ==
    /\ ~fdpanic
    /\ \A b \in Boxes : fdclosed[b] => b[1] \notin BoxesOf(b[2])
    /\ \A b \in Boxes : fdclosed[b] => fdconn[b[1]] = "closed"

\* A client sees the messages of a product in the order they were made, each
\* at most once, whatever was dropped in between (feed.go ProductMessage,
\* message.go Write).
SentInOrder ==
    \A b \in Boxes : \A i, j \in DOMAIN fdsent[b] : i < j => fdsent[b][i] < fdsent[b][j]

\* A client that left is forgotten: its boxes leave the feed and its writers
\* return (message.go Read and Write).
LeaversAreForgotten ==
    []<>(\A c \in Clients, p \in Products : fdconn[c] = "closed" =>
            c \notin BoxesOf(p) /\ fdwriter[<<c, p>>] = "done")

\* The feed's boxes under clients that come and go: no send on a closed box, and
\* what a client sees is in order.
FeedSafe == FeedTypeOK /\ NoSendOnClosedBox /\ SentInOrder
=============================================================================
