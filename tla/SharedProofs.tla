---------------------------- MODULE SharedProofs ----------------------------
(* Two structures that many goroutines share under a lock.  The boxes of    *)
(* the message feed (MessageFeed), for any number of clients and messages:  *)
(* a cancel closes the client's own box, and what a client sees is in       *)
(* order; the argument is that the boxes of a product are distinct clients. *)
(* The DNS answer cache (DnsCache), for any number of handlers and          *)
(* prefetches: list and index agree, an answer stays with the channel it    *)
(* came over, and every query is counted once; the argument counts the      *)
(* handlers before their lookup.                                            *)
EXTENDS MessageFeed, DnsCache, FiniteSetTheorems, TLAPS

-----------------------------------------------------------------------------
(* The message feed.                                                        *)

\* The registered boxes of a product are distinct clients, subscribed and not
\* closed; a closed box was subscribed by a client whose socket is closed.
FeedTypes ==
    /\ fdboxes \in [Products -> Seq(Clients)]
    /\ fdindex \in [Boxes -> 0..Cardinality(Clients)]
    /\ fdbox \in [Boxes -> Seq(Nat)]
    /\ fdclosed \in [Boxes -> BOOLEAN]
    /\ fdmade \in [Products -> Nat]
    /\ fdsent \in [Boxes -> Seq(Nat)]
    /\ fdconn \in [Clients -> {"none", "subscribing", "open", "closed"}]
    /\ fdread \in [Clients -> SUBSET Products]
    /\ fdwriter \in [Boxes -> {"none", "range", "done"}]
    /\ fdpanic = FALSE

Distinct(s) == \A i, j \in 1..Len(s) : s[i] = s[j] => i = j

Registered ==
    \A p \in Products :
        /\ Distinct(fdboxes[p])
        /\ \A i \in 1..Len(fdboxes[p]) :
            /\ fdindex[<<fdboxes[p][i], p>>] > 0
            /\ ~fdclosed[<<fdboxes[p][i], p>>]

ClosedLeft ==
    \A c \in Clients, p \in Products :
        fdclosed[<<c, p>>] => fdindex[<<c, p>>] > 0 /\ fdconn[c] = "closed"

\* What was sent, and what waits in the box behind it, ascends up to the last
\* message made.
Ascends(s) == \A i, j \in 1..Len(s) : i < j => s[i] < s[j]
Below(s, n) == \A i \in 1..Len(s) : s[i] <= n
Before(s, t) == \A i \in 1..Len(s), j \in 1..Len(t) : s[i] < t[j]
InOrder(c, p) ==
    LET b == <<c, p>> IN
    /\ Len(fdbox[b]) <= BoxSize
    /\ Ascends(fdsent[b]) /\ Ascends(fdbox[b])
    /\ Before(fdsent[b], fdbox[b])
    /\ Below(fdsent[b], fdmade[p]) /\ Below(fdbox[b], fdmade[p])
Ordered == \A c \in Clients, p \in Products : InOrder(c, p)

FeedInv == FeedTypes /\ Registered /\ ClosedLeft /\ Ordered

LEMMA BoxIsPair == ASSUME NEW b \in Boxes
                   PROVE  b[1] \in Clients /\ b[2] \in Products /\ b = <<b[1], b[2]>>
BY DEF Boxes

LEMMA AppendFacts ==
    ASSUME NEW S, NEW s \in Seq(S), NEW x \in S
    PROVE  /\ Append(s, x) \in Seq(S)
           /\ Len(Append(s, x)) = Len(s) + 1
           /\ \A i \in 1..Len(s) : Append(s, x)[i] = s[i]
           /\ Append(s, x)[Len(s) + 1] = x
OBVIOUS

LEMMA RemoveFacts ==
    ASSUME NEW S, NEW s \in Seq(S), NEW k \in 1..Len(s)
    PROVE  /\ CutAt(s, k) \in Seq(S)
           /\ Len(CutAt(s, k)) = Len(s) - 1
           /\ \A i \in 1..(Len(s) - 1) : CutAt(s, k)[i] = IF i < k THEN s[i] ELSE s[i + 1]
<1>1. /\ SubSeq(s, 1, k - 1) \in Seq(S)
      /\ Len(SubSeq(s, 1, k - 1)) = k - 1
      /\ \A i \in 1..(k - 1) : SubSeq(s, 1, k - 1)[i] = s[i]
  OBVIOUS
<1>2. /\ SubSeq(s, k + 1, Len(s)) \in Seq(S)
      /\ Len(SubSeq(s, k + 1, Len(s))) = Len(s) - k
      /\ \A i \in 1..(Len(s) - k) : SubSeq(s, k + 1, Len(s))[i] = s[k + i]
  OBVIOUS
<1> DEFINE a == SubSeq(s, 1, k - 1)
           b == SubSeq(s, k + 1, Len(s))
<1> HIDE DEF a, b
<1>3. a \in Seq(S) /\ b \in Seq(S) /\ Len(a) = k - 1 /\ Len(b) = Len(s) - k
  BY <1>1, <1>2 DEF a, b
<1>4. /\ a \o b \in Seq(S)
      /\ Len(a \o b) = Len(s) - 1
      /\ \A i \in 1..(Len(s) - 1) : (a \o b)[i] = IF i <= Len(a) THEN a[i] ELSE b[i - Len(a)]
  <2>1. a \o b \in Seq(S)
    BY <1>3
  <2>2. Len(a \o b) = Len(a) + Len(b) /\ Len(a) + Len(b) = Len(s) - 1
    BY <1>3
  <2>3. \A i \in 1..(Len(a) + Len(b)) :
          (a \o b)[i] = IF i <= Len(a) THEN a[i] ELSE b[i - Len(a)]
    BY <1>3
  <2> QED BY <2>1, <2>2, <2>3
<1>5. \A i \in 1..(Len(s) - 1) : i >= k => b[i - Len(a)] = s[i + 1]
  BY <1>2, <1>3 DEF b
<1>6. \A i \in 1..(Len(s) - 1) : i < k => a[i] = s[i]
  BY <1>1 DEF a
<1>7. CutAt(s, k) = a \o b
  BY DEF CutAt, a, b
<1>8. \A i \in 1..(Len(s) - 1) : (a \o b)[i] = IF i < k THEN s[i] ELSE s[i + 1]
  BY <1>3, <1>4, <1>5, <1>6
<1> QED BY <1>4, <1>7, <1>8

LEMMA DistinctBound ==
    ASSUME NEW s \in Seq(Clients), Distinct(s)
    PROVE  Len(s) <= Cardinality(Clients)
<1>1. s \in Injection(1..Len(s), Clients)
  BY DEF Distinct, Injection, IsInjective
<1>2. Cardinality(1..Len(s)) <= Cardinality(Clients)
  BY <1>1, FS_Injection, FeedAssumption
<1>3. Cardinality(1..Len(s)) = Len(s)
  <2>1. Len(s) \in Int /\ 1 \in Int
    OBVIOUS
  <2>2. Cardinality(1..Len(s)) = IF 1 > Len(s) THEN 0 ELSE Len(s) - 1 + 1
    BY <2>1, FS_Interval
  <2> QED BY <2>2
<1> QED BY <1>2, <1>3

\* A step that leaves alone what an invariant speaks of keeps it.
LEMMA RegisteredStays ==
    Registered /\ UNCHANGED <<fdboxes, fdindex, fdclosed>> => Registered'
BY DEF Registered

LEMMA OrderedStays ==
    Ordered /\ UNCHANGED <<fdbox, fdsent, fdmade>> => Ordered'
BY DEF Ordered, InOrder

LEMMA FeedInitInv == FeedInit => FeedInv
<1> SUFFICES ASSUME FeedInit PROVE FeedInv OBVIOUS
<1>1. FeedTypes
  <2>1. 0 \in 0..Cardinality(Clients)
    BY FS_CardinalityType, FeedAssumption
  <2> QED BY <2>1 DEF FeedInit, FeedTypes
<1>2. Registered
  BY DEF FeedInit, Registered, Distinct
<1>3. ClosedLeft
  BY DEF FeedInit, ClosedLeft, Boxes
<1>4. Ordered
  BY FeedAssumption DEF FeedInit, Ordered, InOrder, Ascends, Below, Before, Boxes
<1> QED BY <1>1, <1>2, <1>3, <1>4 DEF FeedInv

LEMMA ClosedStays ==
    FeedTypes /\ ClosedLeft /\ UNCHANGED <<fdindex, fdclosed>>
      /\ (\A c \in Clients : fdconn[c] = "closed" => fdconn'[c] = "closed") => ClosedLeft'
BY DEF ClosedLeft

\* The index a cancel function acts on names the client's own box.
LEMMA CancelsOwnBox ==
    ASSUME FeedTypes, NEW c \in Clients, NEW p \in Products, cancelIndex(c, p) # 0
    PROVE  cancelIndex(c, p) \in 1..Len(fdboxes[p]) /\ fdboxes[p][cancelIndex(c, p)] = c
<1>1. DOMAIN fdboxes[p] = 1..Len(fdboxes[p])
  BY DEF FeedTypes
<1>2. CASE fdindex[<<c, p>>] \in DOMAIN fdboxes[p] /\ fdboxes[p][fdindex[<<c, p>>]] = c
  BY <1>1, <1>2 DEF cancelIndex
<1>3. CASE ~(fdindex[<<c, p>>] \in DOMAIN fdboxes[p] /\ fdboxes[p][fdindex[<<c, p>>]] = c)
  <2>1. c \in BoxesOf(p)
    BY <1>3 DEF cancelIndex
  <2>2. \E j \in DOMAIN fdboxes[p] : fdboxes[p][j] = c
    BY <2>1 DEF BoxesOf
  <2>3. cancelIndex(c, p) = CHOOSE j \in DOMAIN fdboxes[p] : fdboxes[p][j] = c
    BY <1>3, <2>1 DEF cancelIndex
  <2> QED BY <1>1, <2>2, <2>3
<1> QED BY <1>2, <1>3

LEMMA SubscribeKeeps ==
    ASSUME FeedInv, NEW c \in Clients, NEW p \in Products, SubscribeMessage(c, p)
    PROVE  FeedInv'
<1> DEFINE b == <<c, p>>
           s == fdboxes[p]
<1>1. b \in Boxes /\ s \in Seq(Clients)
  BY DEF FeedInv, FeedTypes, Boxes
<1>2. fdindex[b] = 0
  <2>1. fdindex[b] \in 0..Cardinality(Clients) /\ ~(fdindex[b] > 0)
    BY <1>1 DEF SubscribeMessage, FeedInv, FeedTypes
  <2> QED BY <2>1, FS_CardinalityType, FeedAssumption
<1>3. \A i \in 1..Len(s) : s[i] # c
  BY <1>2 DEF FeedInv, Registered
<1>4. ~fdclosed[b]
  BY <1>2 DEF FeedInv, ClosedLeft
<1>5. /\ fdboxes' = [fdboxes EXCEPT ![p] = Append(s, c)]
      /\ fdindex' = [fdindex EXCEPT ![b] = Len(s) + 1]
      /\ UNCHANGED <<fdbox, fdclosed, fdmade, fdsent, fdconn, fdread, fdwriter, fdpanic>>
  BY DEF SubscribeMessage
<1> DEFINE t == Append(s, c)
<1>6. /\ t \in Seq(Clients) /\ Len(t) = Len(s) + 1
      /\ \A i \in 1..Len(s) : t[i] = s[i]
      /\ t[Len(s) + 1] = c
  BY <1>1, AppendFacts
<1>7. Distinct(s) /\ Len(s) \in Nat
  BY <1>1 DEF FeedInv, Registered
<1> HIDE DEF s, t
<1>8. Distinct(t)
  BY <1>3, <1>6, <1>7 DEF Distinct
<1>9. Len(s) + 1 \in 0..Cardinality(Clients)
  BY <1>6, <1>7, <1>8, DistinctBound, FS_CardinalityType, FeedAssumption
<1> HIDE DEF b
<1>10. FeedTypes'
  BY <1>1, <1>5, <1>6, <1>9 DEF FeedInv, FeedTypes, t
<1>11. Registered'
  <2> SUFFICES ASSUME NEW q \in Products
               PROVE  /\ Distinct(fdboxes'[q])
                      /\ \A i \in 1..Len(fdboxes'[q]) : /\ fdindex'[<<fdboxes'[q][i], q>>] > 0
                                                        /\ ~fdclosed'[<<fdboxes'[q][i], q>>]
    BY DEF Registered
  <2>1. CASE q = p
    <3>1. fdboxes'[q] = t
      BY <2>1, <1>5 DEF FeedInv, FeedTypes, t
    <3>2. ASSUME NEW i \in 1..Len(t)
          PROVE  fdindex'[<<t[i], p>>] > 0 /\ ~fdclosed[<<t[i], p>>]
      <4>1. CASE i = Len(s) + 1
        <5>1. t[i] = c
          BY <4>1, <1>6
        <5>2. fdindex'[b] = Len(s) + 1
          BY <1>1, <1>5 DEF FeedInv, FeedTypes
        <5> QED BY <5>1, <5>2, <1>4, <1>7 DEF b
      <4>2. CASE i # Len(s) + 1
        <5>1. i \in 1..Len(s) /\ t[i] = s[i] /\ s[i] # c
          BY <4>2, <1>3, <1>6, <1>7
        <5>2. s[i] \in Clients
          BY <5>1, <1>1
        <5>3. fdindex[<<s[i], p>>] > 0 /\ ~fdclosed[<<s[i], p>>]
          BY <5>1 DEF FeedInv, Registered, s
        <5>4. <<s[i], p>> # b /\ <<s[i], p>> \in Boxes
          BY <5>1, <5>2 DEF b, Boxes
        <5>5. fdindex'[<<s[i], p>>] = fdindex[<<s[i], p>>]
          BY <5>4, <1>5 DEF FeedInv, FeedTypes
        <5> QED BY <5>1, <5>3, <5>5
      <4> QED BY <4>1, <4>2
    <3> QED BY <2>1, <3>1, <3>2, <1>5, <1>8
  <2>2. CASE q # p
    <3>1. fdboxes'[q] = fdboxes[q]
      BY <2>2, <1>5 DEF FeedInv, FeedTypes
    <3>2. ASSUME NEW i \in 1..Len(fdboxes[q])
          PROVE  fdindex'[<<fdboxes[q][i], q>>] > 0 /\ ~fdclosed[<<fdboxes[q][i], q>>]
      <4>1. fdindex[<<fdboxes[q][i], q>>] > 0 /\ ~fdclosed[<<fdboxes[q][i], q>>]
        BY DEF FeedInv, Registered
      <4>2. <<fdboxes[q][i], q>> # b
        BY <2>2 DEF b
      <4>3. fdboxes[q][i] \in Clients
        BY DEF FeedInv, FeedTypes
      <4>4. <<fdboxes[q][i], q>> \in Boxes
        BY <4>3 DEF Boxes
      <4> QED BY <4>1, <4>2, <4>4, <1>5 DEF FeedInv, FeedTypes
    <3> QED BY <3>1, <3>2, <1>5 DEF FeedInv, Registered
  <2> QED BY <2>1, <2>2
<1>12. ClosedLeft'
  <2> SUFFICES ASSUME NEW d \in Clients, NEW q \in Products, fdclosed[<<d, q>>]
               PROVE  fdindex'[<<d, q>>] > 0 /\ fdconn[d] = "closed"
    BY <1>5 DEF ClosedLeft
  <2>1. <<d, q>> # b /\ <<d, q>> \in Boxes
    BY <1>4 DEF Boxes
  <2>2. fdindex'[<<d, q>>] = fdindex[<<d, q>>]
    BY <2>1, <1>5 DEF FeedInv, FeedTypes
  <2> QED BY <2>2 DEF FeedInv, ClosedLeft
<1>13. Ordered'
  BY <1>5, OrderedStays DEF FeedInv
<1> QED BY <1>10, <1>11, <1>12, <1>13 DEF FeedInv

LEMMA BelowMore ==
    ASSUME NEW s \in Seq(Nat), NEW m \in Nat, NEW k \in Nat, m <= k, Below(s, m)
    PROVE  Below(s, k)
<1> SUFFICES ASSUME NEW i \in 1..Len(s) PROVE s[i] <= k
  BY DEF Below
<1>1. s[i] \in Nat /\ s[i] <= m
  BY DEF Below
<1> QED BY <1>1

LEMMA AppendAscends ==
    ASSUME NEW s \in Seq(Nat), NEW m \in Nat, Ascends(s), Below(s, m)
    PROVE  Ascends(Append(s, m + 1)) /\ Below(Append(s, m + 1), m + 1)
<1> DEFINE t == Append(s, m + 1)
<1>1. /\ t \in Seq(Nat) /\ Len(t) = Len(s) + 1 /\ Len(s) \in Nat
      /\ \A i \in 1..Len(s) : t[i] = s[i]
      /\ t[Len(s) + 1] = m + 1
  BY AppendFacts
<1>2. \A i \in 1..Len(s) : s[i] \in Nat /\ s[i] <= m
  BY DEF Below
<1> HIDE DEF t
<1>5. \A i \in 1..(Len(s) + 1) : i = Len(s) + 1 \/ i \in 1..Len(s)
  OBVIOUS
<1>3. ASSUME NEW i \in 1..Len(t) PROVE t[i] <= m + 1
  <2>1. CASE i = Len(s) + 1
    BY <2>1, <1>1
  <2>2. CASE i \in 1..Len(s)
    BY <2>2, <1>1, <1>2
  <2> QED BY <2>1, <2>2, <1>1, <1>5
<1>4. ASSUME NEW i \in 1..Len(t), NEW j \in 1..Len(t), i < j PROVE t[i] < t[j]
  <2>4. Len(s) \in Nat /\ i \in 1..(Len(s) + 1) /\ j \in 1..(Len(s) + 1)
    BY <1>1
  <2>5. i \in 1..Len(s)
    BY <2>4, <1>4
  <2>1. i \in 1..Len(s) /\ t[i] = s[i]
    BY <2>5, <1>1
  <2>2. CASE j = Len(s) + 1
    BY <2>1, <2>2, <1>1, <1>2
  <2>3. CASE j # Len(s) + 1
    <3>1. j \in 1..Len(s) /\ t[j] = s[j]
      BY <2>3, <1>1
    <3>2. s[i] < s[j]
      BY <2>1, <3>1, <1>4 DEF Ascends
    <3> QED BY <2>1, <3>1, <3>2
  <2> QED BY <2>2, <2>3
<1> QED BY <1>3, <1>4 DEF Ascends, Below, t

LEMMA AppendBehind ==
    ASSUME NEW u \in Seq(Nat), NEW s \in Seq(Nat), NEW m \in Nat, Before(u, s), Below(u, m)
    PROVE  Before(u, Append(s, m + 1))
<1> DEFINE t == Append(s, m + 1)
<1>1. /\ t \in Seq(Nat) /\ Len(t) = Len(s) + 1 /\ Len(s) \in Nat
      /\ \A i \in 1..Len(s) : t[i] = s[i]
      /\ t[Len(s) + 1] = m + 1
  BY AppendFacts
<1> HIDE DEF t
<1> SUFFICES ASSUME NEW i \in 1..Len(u), NEW j \in 1..Len(t) PROVE u[i] < t[j]
  BY DEF Before, t
<1>2. u[i] \in Nat /\ u[i] <= m
  BY DEF Below
<1>3. CASE j = Len(s) + 1
  BY <1>1, <1>2, <1>3
<1>4. CASE j # Len(s) + 1
  <2>1. j \in 1..Len(s) /\ t[j] = s[j]
    BY <1>1, <1>4, SMTT(30)
  <2> QED BY <2>1 DEF Before
<1> QED BY <1>3, <1>4

\* A message made is larger than those in a box, and goes behind them.
LEMMA ProductKeeps ==
    ASSUME FeedInv, NEW p \in Products, ProductMessage(p)
    PROVE  FeedInv'
<1> DEFINE n == fdmade[p] + 1
           Goes(b) == b[2] = p /\ b[1] \in BoxesOf(p) /\ Len(fdbox[b]) < BoxSize
<1>1. /\ fdmade' = [fdmade EXCEPT ![p] = n]
      /\ fdbox' = [b \in Boxes |-> IF Goes(b) THEN Append(fdbox[b], n) ELSE fdbox[b]]
      /\ fdpanic' = (fdpanic \/ \E c \in BoxesOf(p) : fdclosed[<<c, p>>])
      /\ UNCHANGED <<fdboxes, fdindex, fdclosed, fdsent, fdconn, fdread, fdwriter>>
  BY DEF ProductMessage
<1>2. fdpanic' = FALSE
  <2>1. ASSUME NEW c \in BoxesOf(p) PROVE ~fdclosed[<<c, p>>]
    <3>1. PICK i \in DOMAIN fdboxes[p] : c = fdboxes[p][i]
      BY DEF BoxesOf
    <3>2. i \in 1..Len(fdboxes[p])
      BY DEF FeedInv, FeedTypes
    <3> QED BY <3>1, <3>2 DEF FeedInv, Registered
  <2> QED BY <2>1, <1>1 DEF FeedInv, FeedTypes
<1>3. n \in Nat /\ fdmade[p] \in Nat
  BY DEF FeedInv, FeedTypes
<1> HIDE DEF Goes, n
<1>4. ASSUME NEW c \in Clients, NEW q \in Products
      PROVE  /\ fdbox'[<<c, q>>] \in Seq(Nat)
             /\ InOrder(c, q)'
  <2> DEFINE b == <<c, q>>
  <2>1. b \in Boxes
    BY DEF Boxes
  <2>2. fdbox[b] \in Seq(Nat) /\ fdsent[b] \in Seq(Nat) /\ fdmade[q] \in Nat
    BY <2>1 DEF FeedInv, FeedTypes
  <2>3. /\ Len(fdbox[b]) <= BoxSize
        /\ Ascends(fdsent[b]) /\ Ascends(fdbox[b]) /\ Before(fdsent[b], fdbox[b])
        /\ Below(fdsent[b], fdmade[q]) /\ Below(fdbox[b], fdmade[q])
    BY DEF FeedInv, Ordered, InOrder
  <2>4. fdmade'[q] = IF q = p THEN n ELSE fdmade[q]
    BY <1>1 DEF FeedInv, FeedTypes
  <2>5. fdbox'[b] = IF Goes(b) THEN Append(fdbox[b], n) ELSE fdbox[b]
    BY <1>1, <2>1
  <2>6. Goes(b) => q = p /\ Len(fdbox[b]) < BoxSize
    BY DEF Goes
  <2>7. q = p => n = fdmade[q] + 1
    BY DEF n
  <2> SUFFICES /\ fdbox'[b] \in Seq(Nat)
               /\ Len(fdbox'[b]) <= BoxSize
               /\ Ascends(fdsent[b]) /\ Ascends(fdbox'[b]) /\ Before(fdsent[b], fdbox'[b])
               /\ Below(fdsent[b], fdmade'[q]) /\ Below(fdbox'[b], fdmade'[q])
    BY <1>1 DEF InOrder
  <2> HIDE DEF b
  <2>8. CASE Goes(b)
    <3> DEFINE s == fdbox[b]
               t == Append(s, n)
    <3>1. /\ t \in Seq(Nat) /\ Len(t) = Len(s) + 1
          /\ \A i \in 1..Len(s) : t[i] = s[i]
          /\ t[Len(s) + 1] = n
      BY <2>2, <1>3, AppendFacts
    <3>2. Len(s) \in Nat /\ fdbox'[b] = t /\ fdmade'[q] = n /\ n = fdmade[q] + 1
      BY <2>2, <2>4, <2>5, <2>6, <2>7, <2>8
    <3> HIDE DEF t
    <3>3. Below(s, fdmade[q]) /\ Ascends(s) /\ s \in Seq(Nat)
      BY <2>2, <2>3
    <3> HIDE DEF s
    <3>4. Ascends(t) /\ Below(t, n)
      BY <3>2, <3>3, <2>2, AppendAscends DEF t
    <3>6. Below(fdsent[b], n)
      BY <2>2, <2>3, <3>2, <1>3, BelowMore
    <3>7. Before(fdsent[b], t)
      BY <2>2, <2>3, <3>2, <3>3, AppendBehind DEF t, s
    <3>8. Len(t) <= BoxSize
      BY <3>1, <3>2, <2>6, <2>8, FeedAssumption DEF s
    <3> QED BY <3>1, <3>2, <3>4, <3>6, <3>7, <3>8, <2>3
  <2>9. CASE ~Goes(b)
    <3>1. fdbox'[b] = fdbox[b] /\ fdmade'[q] \in Nat /\ fdmade[q] <= fdmade'[q]
      BY <2>9, <2>5, <2>2, <2>4, <2>7, <1>3
    <3>2. Below(fdsent[b], fdmade'[q]) /\ Below(fdbox[b], fdmade'[q])
      BY <3>1, <2>2, <2>3, BelowMore
    <3> QED BY <3>1, <3>2, <2>2, <2>3
  <2> QED BY <2>8, <2>9
<1>5. fdbox' \in [Boxes -> Seq(Nat)]
  <2>1. \A b \in Boxes : fdbox'[b] \in Seq(Nat)
    BY <1>4, BoxIsPair
  <2> QED BY <2>1, <1>1
<1>6. FeedTypes'
  BY <1>1, <1>2, <1>3, <1>5 DEF FeedInv, FeedTypes
<1>7. Registered' /\ ClosedLeft'
  BY <1>1, RegisteredStays, ClosedStays DEF FeedInv
<1> QED BY <1>4, <1>6, <1>7 DEF FeedInv, Ordered

LEMMA WsMessageKeeps ==
    ASSUME FeedInv, NEW c \in Clients, WsMessage(c)
    PROVE  FeedInv'
<1>1. FeedTypes'
  BY DEF WsMessage, FeedInv, FeedTypes
<1>2. \A d \in Clients : fdconn[d] = "closed" => fdconn'[d] = "closed"
  BY DEF WsMessage, FeedInv, FeedTypes
<1> QED BY <1>1, <1>2, RegisteredStays, ClosedStays, OrderedStays DEF WsMessage, FeedInv

LEMMA NewHandlerKeeps ==
    ASSUME FeedInv, NEW c \in Clients, NewMessageHandler(c)
    PROVE  FeedInv'
<1>1. FeedTypes'
  BY DEF NewMessageHandler, FeedInv, FeedTypes
<1>2. \A d \in Clients : fdconn[d] = "closed" => fdconn'[d] = "closed"
  BY DEF NewMessageHandler, FeedInv, FeedTypes
<1> QED BY <1>1, <1>2, RegisteredStays, ClosedStays, OrderedStays DEF NewMessageHandler, FeedInv

LEMMA LeavesKeeps ==
    ASSUME FeedInv, NEW c \in Clients, ClientLeaves(c)
    PROVE  FeedInv'
<1>1. FeedTypes'
  BY DEF ClientLeaves, FeedInv, FeedTypes
<1>2. \A d \in Clients : fdconn[d] = "closed" => fdconn'[d] = "closed"
  BY DEF ClientLeaves, FeedInv, FeedTypes
<1> QED BY <1>1, <1>2, RegisteredStays, ClosedStays, OrderedStays DEF ClientLeaves, FeedInv

LEMMA RangeEndsKeeps ==
    ASSUME FeedInv, NEW c \in Clients, NEW p \in Products, RangeEnds(c, p)
    PROVE  FeedInv'
<1>1. FeedTypes'
  BY DEF RangeEnds, FeedInv, FeedTypes
<1> QED BY <1>1, RegisteredStays, ClosedStays, OrderedStays DEF RangeEnds, FeedInv

LEMMA TailFacts ==
    ASSUME NEW s \in Seq(Nat), s # <<>>
    PROVE  /\ Tail(s) \in Seq(Nat) /\ Head(s) = s[1] /\ Head(s) \in Nat
           /\ Len(Tail(s)) = Len(s) - 1 /\ Len(s) \in Nat \ {0}
           /\ \A i \in 1..(Len(s) - 1) : Tail(s)[i] = s[i + 1]
OBVIOUS

\* Taking the head of an ascending box leaves it ascending, behind what was sent.
LEMMA TakeAscends ==
    ASSUME NEW u \in Seq(Nat), NEW s \in Seq(Nat), NEW m \in Nat, s # <<>>,
           Ascends(u), Ascends(s), Before(u, s), Below(u, m), Below(s, m)
    PROVE  /\ Ascends(Tail(s)) /\ Below(Tail(s), m) /\ Before(u, Tail(s))
           /\ Ascends(Append(u, Head(s))) /\ Below(Append(u, Head(s)), m)
           /\ Before(Append(u, Head(s)), Tail(s))
<1> DEFINE t == Tail(s)
           h == Head(s)
           v == Append(u, h)
<1>1. /\ t \in Seq(Nat) /\ h = s[1] /\ h \in Nat
      /\ Len(t) = Len(s) - 1 /\ Len(s) \in Nat \ {0}
      /\ \A i \in 1..(Len(s) - 1) : t[i] = s[i + 1]
  BY TailFacts
<1>2. /\ v \in Seq(Nat) /\ Len(v) = Len(u) + 1 /\ Len(u) \in Nat
      /\ \A i \in 1..Len(u) : v[i] = u[i]
      /\ v[Len(u) + 1] = h
  BY <1>1, AppendFacts
<1> HIDE DEF t, h, v
<1>3. ASSUME NEW i \in 1..Len(t)
      PROVE  /\ i + 1 \in 1..Len(s) /\ t[i] = s[i + 1] /\ t[i] \in Nat
             /\ h < t[i] /\ t[i] <= m
  <2>1. i + 1 \in 1..Len(s) /\ 1 \in 1..Len(s) /\ t[i] = s[i + 1]
    BY <1>1
  <2>2. s[i + 1] <= m /\ s[i + 1] \in Nat
    BY <2>1 DEF Below
  <2>3. 1 < i + 1
    OBVIOUS
  <2>4. s[1] < s[i + 1]
    BY <2>1, <2>3 DEF Ascends
  <2> QED BY <2>1, <2>2, <2>4, <1>1
<1>4. Ascends(t)
  <2> SUFFICES ASSUME NEW i \in 1..Len(t), NEW j \in 1..Len(t), i < j PROVE t[i] < t[j]
    BY DEF Ascends
  <2>2. i + 1 \in 1..Len(s) /\ j + 1 \in 1..Len(s) /\ i + 1 < j + 1
    BY <1>3
  <2>1. s[i + 1] < s[j + 1]
    BY <2>2 DEF Ascends
  <2> QED BY <2>1, <1>3
<1>5. Below(t, m)
  BY <1>3 DEF Below
<1>6. Before(u, t)
  BY <1>3 DEF Before
<1>7. ASSUME NEW i \in 1..Len(u) PROVE u[i] \in Nat /\ u[i] < h /\ u[i] <= m
  <2>1. 1 \in 1..Len(s)
    BY <1>1
  <2>2. u[i] < s[1] /\ u[i] <= m
    BY <2>1 DEF Before, Below
  <2> QED BY <2>2, <1>1
<1>8. h <= m
  <2>1. 1 \in 1..Len(s)
    BY <1>1
  <2> QED BY <2>1, <1>1 DEF Below
<1>9. \A i \in 1..Len(v) : i = Len(u) + 1 \/ i \in 1..Len(u)
  BY <1>2
<1>10. Ascends(v)
  <2> SUFFICES ASSUME NEW i \in 1..Len(v), NEW j \in 1..Len(v), i < j PROVE v[i] < v[j]
    BY DEF Ascends
  <2>1. i \in 1..Len(u)
    BY <1>2
  <2>2. CASE j = Len(u) + 1
    BY <2>1, <2>2, <1>2, <1>7
  <2>3. CASE j \in 1..Len(u)
    <3>1. u[i] < u[j]
      BY <2>1, <2>3 DEF Ascends
    <3> QED BY <2>1, <2>3, <3>1, <1>2
  <2> QED BY <2>2, <2>3, <1>9
<1>11. Below(v, m)
  <2> SUFFICES ASSUME NEW i \in 1..Len(v) PROVE v[i] <= m
    BY DEF Below
  <2> QED BY <1>2, <1>7, <1>8, <1>9
<1>12. Before(v, t)
  <2> SUFFICES ASSUME NEW i \in 1..Len(v), NEW j \in 1..Len(t) PROVE v[i] < t[j]
    BY DEF Before
  <2>1. h < t[j] /\ t[j] \in Nat
    BY <1>3
  <2>3. CASE i = Len(u) + 1
    BY <2>1, <2>3, <1>2
  <2>4. CASE i \in 1..Len(u)
    <3>1. v[i] = u[i] /\ u[i] \in Nat /\ u[i] < h /\ h \in Nat
      BY <2>4, <1>1, <1>2, <1>7
    <3> QED BY <3>1, <2>1, SMTT(30)
  <2> QED BY <2>3, <2>4, <1>9
<1> QED BY <1>4, <1>5, <1>6, <1>10, <1>11, <1>12 DEF t, h, v

LEMMA WriteKeeps ==
    ASSUME FeedInv, NEW c \in Clients, NEW p \in Products, NEW ok \in BOOLEAN, Write(c, p, ok)
    PROVE  FeedInv'
<1> DEFINE b == <<c, p>>
<1>1. b \in Boxes
  BY DEF Boxes
<1>2. /\ fdbox[b] # <<>>
      /\ fdbox' = [fdbox EXCEPT ![b] = Tail(fdbox[b])]
      /\ fdsent' = [fdsent EXCEPT ![b] = IF ok THEN Append(fdsent[b], Head(fdbox[b])) ELSE fdsent[b]]
      /\ fdwriter' = [fdwriter EXCEPT ![b] = IF ok THEN "range" ELSE "done"]
      /\ UNCHANGED <<fdboxes, fdindex, fdclosed, fdmade, fdconn, fdread, fdpanic>>
  BY DEF Write
<1>3. fdbox[b] \in Seq(Nat) /\ fdsent[b] \in Seq(Nat) /\ fdmade[p] \in Nat
  BY <1>1 DEF FeedInv, FeedTypes
<1>4. /\ Len(fdbox[b]) <= BoxSize
      /\ Ascends(fdsent[b]) /\ Ascends(fdbox[b]) /\ Before(fdsent[b], fdbox[b])
      /\ Below(fdsent[b], fdmade[p]) /\ Below(fdbox[b], fdmade[p])
  BY DEF FeedInv, Ordered, InOrder
<1> HIDE DEF b
<1>5. Tail(fdbox[b]) \in Seq(Nat) /\ Len(Tail(fdbox[b])) <= BoxSize
  BY <1>2, <1>3, <1>4, TailFacts, FeedAssumption, SMTT(30)
<1>6. Append(fdsent[b], Head(fdbox[b])) \in Seq(Nat)
  BY <1>2, <1>3, TailFacts, AppendFacts
<1>7. FeedTypes'
  BY <1>1, <1>2, <1>3, <1>5, <1>6 DEF FeedInv, FeedTypes
<1>8. Registered' /\ ClosedLeft'
  BY <1>2, RegisteredStays, ClosedStays DEF FeedInv
<1>9. /\ Len(fdbox'[b]) <= BoxSize
      /\ Ascends(fdsent'[b]) /\ Ascends(fdbox'[b]) /\ Before(fdsent'[b], fdbox'[b])
      /\ Below(fdsent'[b], fdmade[p]) /\ Below(fdbox'[b], fdmade[p])
  <2>1. fdbox'[b] = Tail(fdbox[b])
    BY <1>1, <1>2 DEF FeedInv, FeedTypes
  <2>2. fdsent'[b] = IF ok THEN Append(fdsent[b], Head(fdbox[b])) ELSE fdsent[b]
    BY <1>1, <1>2 DEF FeedInv, FeedTypes
  <2>3. /\ Ascends(Tail(fdbox[b])) /\ Below(Tail(fdbox[b]), fdmade[p]) /\ Before(fdsent[b], Tail(fdbox[b]))
        /\ Ascends(Append(fdsent[b], Head(fdbox[b]))) /\ Below(Append(fdsent[b], Head(fdbox[b])), fdmade[p])
        /\ Before(Append(fdsent[b], Head(fdbox[b])), Tail(fdbox[b]))
    BY <1>2, <1>3, <1>4, TakeAscends
  <2> QED BY <2>1, <2>2, <2>3, <1>4, <1>5
<1>10. ASSUME NEW d \in Clients, NEW q \in Products PROVE InOrder(d, q)'
  <2>1. CASE <<d, q>> = b
    <3>1. q = p
      BY <2>1 DEF b
    <3> QED BY <2>1, <3>1, <1>2, <1>9 DEF InOrder
  <2>2. CASE <<d, q>> # b
    <3>1. <<d, q>> \in Boxes
      BY DEF Boxes
    <3>2. fdbox'[<<d, q>>] = fdbox[<<d, q>>] /\ fdsent'[<<d, q>>] = fdsent[<<d, q>>]
      BY <3>1, <2>2, <1>2 DEF FeedInv, FeedTypes
    <3>3. InOrder(d, q)
      BY DEF FeedInv, Ordered
    <3> QED BY <3>2, <3>3, <1>2 DEF InOrder
  <2> QED BY <2>1, <2>2
<1> QED BY <1>7, <1>8, <1>10 DEF FeedInv, Ordered

\* What is left of a list of distinct clients without its k-th one.
LEMMA BoxCut ==
    ASSUME NEW s \in Seq(Clients), NEW k \in 1..Len(s), Distinct(s)
    PROVE  /\ CutAt(s, k) \in Seq(Clients) /\ Distinct(CutAt(s, k))
           /\ \A i \in 1..Len(CutAt(s, k)) :
                \E j \in 1..Len(s) : CutAt(s, k)[i] = s[j] /\ s[j] # s[k]
<1> DEFINE t == CutAt(s, k)
           At(i) == IF i < k THEN i ELSE i + 1
<1>1. /\ t \in Seq(Clients) /\ Len(t) = Len(s) - 1 /\ Len(s) \in Nat
      /\ \A i \in 1..(Len(s) - 1) : t[i] = IF i < k THEN s[i] ELSE s[i + 1]
  BY RemoveFacts
<1> HIDE DEF t
<1>2. ASSUME NEW i \in 1..Len(t) PROVE At(i) \in 1..Len(s) /\ At(i) # k /\ t[i] = s[At(i)]
  <2>1. i \in 1..(Len(s) - 1)
    BY <1>1
  <2>2. At(i) \in 1..Len(s) /\ At(i) # k
    BY <1>1, <2>1
  <2>3. t[i] = IF i < k THEN s[i] ELSE s[i + 1]
    BY <1>1, <2>1
  <2> QED BY <2>2, <2>3
<1>3. \A i, j \in 1..Len(t) : At(i) = At(j) => i = j
  BY <1>1
<1> HIDE DEF At
<1>4. Distinct(t)
  BY <1>2, <1>3 DEF Distinct
<1>5. ASSUME NEW i \in 1..Len(t) PROVE \E j \in 1..Len(s) : t[i] = s[j] /\ s[j] # s[k]
  BY <1>2 DEF Distinct
<1> QED BY <1>1, <1>4, <1>5 DEF t

LEMMA ReadKeeps ==
    ASSUME FeedInv, NEW c \in Clients, NEW p \in Products, Read(c, p)
    PROVE  FeedInv'
<1> DEFINE i == cancelIndex(c, p)
           s == fdboxes[p]
           b == <<c, p>>
<1>1. b \in Boxes /\ s \in Seq(Clients) /\ Distinct(s) /\ FeedTypes
  BY DEF FeedInv, FeedTypes, Boxes, Registered
<1>2. /\ fdconn[c] = "closed"
      /\ fdread' = [fdread EXCEPT ![c] = fdread[c] \ {p}]
      /\ UNCHANGED <<fdindex, fdbox, fdmade, fdsent, fdconn, fdwriter>>
  BY DEF Read
<1>3. Ordered'
  BY <1>2, OrderedStays DEF FeedInv
<1>4. CASE i = 0
  <2>1. UNCHANGED <<fdclosed, fdboxes, fdpanic>>
    BY <1>4 DEF Read
  <2>2. FeedTypes'
    BY <1>2, <2>1 DEF FeedInv, FeedTypes
  <2> QED BY <1>2, <1>3, <2>1, <2>2, RegisteredStays, ClosedStays DEF FeedInv
<1>5. CASE i # 0
  <2>1. i \in 1..Len(s) /\ s[i] = c
    BY <1>1, <1>5, CancelsOwnBox
  <2>2. /\ fdclosed' = [fdclosed EXCEPT ![<<s[i], p>>] = TRUE]
        /\ fdpanic' = (fdpanic \/ fdclosed[<<s[i], p>>])
        /\ fdboxes' = [fdboxes EXCEPT ![p] = CutAt(s, i)]
    BY <1>5 DEF Read
  <2> HIDE DEF i
  <2>3. ~fdclosed[b] /\ fdindex[b] > 0
    BY <2>1 DEF FeedInv, Registered
  <2>4. fdclosed' = [fdclosed EXCEPT ![b] = TRUE] /\ fdpanic' = (fdpanic \/ fdclosed[b])
    BY <2>1, <2>2
  <2> DEFINE t == CutAt(s, i)
  <2>5. /\ t \in Seq(Clients) /\ Distinct(t)
        /\ \A j \in 1..Len(t) : \E k \in 1..Len(s) : t[j] = s[k] /\ s[k] # c
    BY <1>1, <2>1, BoxCut
  <2>6. fdboxes' = [fdboxes EXCEPT ![p] = t]
    BY <2>2
  <2> HIDE DEF t, b
  <2>7. FeedTypes'
    BY <1>1, <1>2, <2>3, <2>4, <2>5, <2>6 DEF FeedTypes
  <2>8. Registered'
    <3> SUFFICES ASSUME NEW q \in Products
                 PROVE  /\ Distinct(fdboxes'[q])
                        /\ \A j \in 1..Len(fdboxes'[q]) : /\ fdindex[<<fdboxes'[q][j], q>>] > 0
                                                          /\ ~fdclosed'[<<fdboxes'[q][j], q>>]
      BY <1>2 DEF Registered
    <3>1. ASSUME NEW d \in Clients, <<d, q>> # b PROVE fdclosed'[<<d, q>>] = fdclosed[<<d, q>>]
      <4>1. <<d, q>> \in Boxes
        BY DEF Boxes
      <4> QED BY <3>1, <4>1, <2>4, <1>1 DEF FeedTypes
    <3>2. CASE q = p
      <4>1. fdboxes'[q] = t
        BY <3>2, <2>6, <1>1 DEF FeedTypes
      <4>2. ASSUME NEW j \in 1..Len(t)
            PROVE  fdindex[<<t[j], q>>] > 0 /\ ~fdclosed'[<<t[j], q>>]
        <5>1. PICK k \in 1..Len(s) : t[j] = s[k] /\ s[k] # c
          BY <2>5
        <5>2. fdindex[<<s[k], q>>] > 0 /\ ~fdclosed[<<s[k], q>>]
          BY <3>2 DEF FeedInv, Registered
        <5>3. s[k] \in Clients /\ <<s[k], q>> # b
          BY <1>1, <5>1 DEF b
        <5> QED BY <3>1, <5>1, <5>2, <5>3
      <4> QED BY <4>1, <4>2, <2>5
    <3>3. CASE q # p
      <4>1. fdboxes'[q] = fdboxes[q]
        BY <3>3, <2>6, <1>1 DEF FeedTypes
      <4>2. ASSUME NEW j \in 1..Len(fdboxes[q])
            PROVE  fdindex[<<fdboxes[q][j], q>>] > 0 /\ ~fdclosed'[<<fdboxes[q][j], q>>]
        <5>1. fdboxes[q][j] \in Clients /\ <<fdboxes[q][j], q>> # b
          BY <3>3, <1>1 DEF FeedTypes, b
        <5>2. fdindex[<<fdboxes[q][j], q>>] > 0 /\ ~fdclosed[<<fdboxes[q][j], q>>]
          BY DEF FeedInv, Registered
        <5> QED BY <3>1, <5>1, <5>2
      <4> QED BY <4>1, <4>2 DEF FeedInv, Registered
    <3> QED BY <3>2, <3>3
  <2>9. ClosedLeft'
    <3> SUFFICES ASSUME NEW d \in Clients, NEW q \in Products, fdclosed'[<<d, q>>]
                 PROVE  fdindex[<<d, q>>] > 0 /\ fdconn[d] = "closed"
      BY <1>2 DEF ClosedLeft
    <3>1. CASE <<d, q>> = b
      BY <3>1, <2>3, <1>2 DEF b
    <3>2. CASE <<d, q>> # b
      <4>1. <<d, q>> \in Boxes
        BY DEF Boxes
      <4>2. fdclosed[<<d, q>>]
        BY <3>2, <4>1, <2>4, <1>1 DEF FeedTypes
      <4> QED BY <4>2 DEF FeedInv, ClosedLeft
    <3> QED BY <3>1, <3>2
  <2> QED BY <1>3, <2>7, <2>8, <2>9 DEF FeedInv
<1> QED BY <1>4, <1>5

LEMMA FeedStep == FeedInv /\ [FeedNext]_feedVars => FeedInv'
<1> SUFFICES ASSUME FeedInv, [FeedNext]_feedVars PROVE FeedInv'
  OBVIOUS
<1>1. ASSUME NEW p \in Products, ProductMessage(p) PROVE FeedInv'
  BY <1>1, ProductKeeps
<1>2. ASSUME NEW c \in Clients, WsMessage(c) PROVE FeedInv'
  BY <1>2, WsMessageKeeps
<1>3. ASSUME NEW c \in Clients, NewMessageHandler(c) PROVE FeedInv'
  BY <1>3, NewHandlerKeeps
<1>4. ASSUME NEW c \in Clients, ClientLeaves(c) \/ WriteReturns(c) PROVE FeedInv'
  BY <1>4, LeavesKeeps DEF WriteReturns
<1>5. ASSUME NEW c \in Clients, NEW p \in Products, SubscribeMessage(c, p) PROVE FeedInv'
  BY <1>5, SubscribeKeeps
<1>6. ASSUME NEW c \in Clients, NEW p \in Products, Read(c, p) PROVE FeedInv'
  BY <1>6, ReadKeeps
<1>7. ASSUME NEW c \in Clients, NEW p \in Products, NEW ok \in BOOLEAN, Write(c, p, ok) PROVE FeedInv'
  BY <1>7, WriteKeeps
<1>8. ASSUME NEW c \in Clients, NEW p \in Products, RangeEnds(c, p) PROVE FeedInv'
  BY <1>8, RangeEndsKeeps
<1>9. CASE UNCHANGED feedVars
  <2>1. FeedTypes'
    BY <1>9 DEF feedVars, FeedInv, FeedTypes
  <2> QED BY <1>9, <2>1, RegisteredStays, ClosedStays, OrderedStays DEF feedVars, FeedInv
<1> QED BY <1>1, <1>2, <1>3, <1>4, <1>5, <1>6, <1>7, <1>8, <1>9 DEF FeedNext

LEMMA FeedInvSafe == FeedInv => FeedSafe
<1> SUFFICES ASSUME FeedInv PROVE FeedSafe OBVIOUS
<1>1. FeedTypeOK
  <2>1. \A p \in Products : BoxesOf(p) \subseteq Clients
    BY DEF FeedInv, FeedTypes, BoxesOf
  <2>2. ASSUME NEW b \in Boxes PROVE Len(fdbox[b]) <= BoxSize
    <3>1. b[1] \in Clients /\ b[2] \in Products /\ b = <<b[1], b[2]>>
      BY BoxIsPair
    <3> QED BY <3>1 DEF FeedInv, Ordered, InOrder
  <2> QED BY <2>1, <2>2 DEF FeedInv, FeedTypes, FeedTypeOK
<1>2. NoSendOnClosedBox
  <2>1. ASSUME NEW b \in Boxes, fdclosed[b]
        PROVE  b[1] \notin BoxesOf(b[2]) /\ fdconn[b[1]] = "closed"
    <3>1. b[1] \in Clients /\ b[2] \in Products /\ b = <<b[1], b[2]>>
      BY BoxIsPair
    <3>2. DOMAIN fdboxes[b[2]] = 1..Len(fdboxes[b[2]])
      BY <3>1 DEF FeedInv, FeedTypes
    <3>3. \A i \in 1..Len(fdboxes[b[2]]) : fdboxes[b[2]][i] # b[1]
      BY <2>1, <3>1 DEF FeedInv, Registered
    <3> QED BY <2>1, <3>1, <3>2, <3>3 DEF BoxesOf, FeedInv, ClosedLeft
  <2> QED BY <2>1 DEF NoSendOnClosedBox, FeedInv, FeedTypes
<1>3. SentInOrder
  <2> SUFFICES ASSUME NEW b \in Boxes, NEW i \in DOMAIN fdsent[b], NEW j \in DOMAIN fdsent[b], i < j
               PROVE  fdsent[b][i] < fdsent[b][j]
    BY DEF SentInOrder
  <2>1. b[1] \in Clients /\ b[2] \in Products /\ b = <<b[1], b[2]>>
    BY BoxIsPair
  <2>2. Ascends(fdsent[b])
    BY <2>1 DEF FeedInv, Ordered, InOrder
  <2>3. DOMAIN fdsent[b] = 1..Len(fdsent[b])
    BY DEF FeedInv, FeedTypes
  <2> QED BY <2>2, <2>3 DEF Ascends
<1> QED BY <1>1, <1>2, <1>3 DEF FeedSafe

\* Whatever clients come and go while messages are made: no message is sent on a
\* closed box and no box is closed twice, which would end the service
\* (feed.go, SubscribeMessage and ProductMessage), no box holds more than its
\* size, and every client sees the messages of a product in the order they were
\* made, each at most once (message.go, Write).
THEOREM FeedIsSafe == FeedSpec => []FeedSafe
<1>1. FeedInit => FeedInv
  BY FeedInitInv
<1>2. FeedInv /\ [FeedNext]_feedVars => FeedInv'
  BY FeedStep
<1>3. FeedInv => FeedSafe
  BY FeedInvSafe
<1> QED BY <1>1, <1>2, <1>3, PTL DEF FeedSpec
-----------------------------------------------------------------------------
(* The answer cache.                                                        *)

-----------------------------------------------------------------------------
(* The LRU list.                                                            *)

Members(s) == {s[i] : i \in 1..Len(s)}

\* Taking the k-th of distinct keys away leaves the others, in order.
LEMMA RemoveDistinct ==
    ASSUME NEW S, NEW s \in Seq(S), NEW k \in 1..Len(s), Distinct(s)
    PROVE  /\ CutAt(s, k) \in Seq(S) /\ Distinct(CutAt(s, k))
           /\ Len(CutAt(s, k)) = Len(s) - 1
           /\ Members(CutAt(s, k)) = Members(s) \ {s[k]}
<1> DEFINE t == CutAt(s, k)
           At(i) == IF i < k THEN i ELSE i + 1
           From(j) == IF j < k THEN j ELSE j - 1
<1>1. /\ t \in Seq(S) /\ Len(t) = Len(s) - 1 /\ Len(s) \in Nat
      /\ \A i \in 1..(Len(s) - 1) : t[i] = IF i < k THEN s[i] ELSE s[i + 1]
  BY RemoveFacts
<1> HIDE DEF t
<1>2. ASSUME NEW i \in 1..Len(t) PROVE At(i) \in 1..Len(s) /\ At(i) # k /\ t[i] = s[At(i)]
  <2>1. i \in 1..(Len(s) - 1)
    BY <1>1
  <2>2. At(i) \in 1..Len(s) /\ At(i) # k
    BY <1>1, <2>1
  <2>3. t[i] = IF i < k THEN s[i] ELSE s[i + 1]
    BY <1>1, <2>1
  <2> QED BY <2>2, <2>3
<1>3. \A i, j \in 1..Len(t) : At(i) = At(j) => i = j
  BY <1>1
<1>4. ASSUME NEW j \in 1..Len(s), j # k PROVE From(j) \in 1..Len(t) /\ t[From(j)] = s[j]
  <2>1. From(j) \in 1..(Len(s) - 1) /\ At(From(j)) = j
    BY <1>1, <1>4
  <2>2. From(j) \in 1..Len(t)
    BY <2>1, <1>1
  <2> HIDE DEF From
  <2> QED BY <2>1, <2>2, <1>2
<1> HIDE DEF At, From
<1>5. Distinct(t)
  BY <1>2, <1>3 DEF Distinct
<1>6. ASSUME NEW x \in Members(t) PROVE x \in Members(s) \ {s[k]}
  <2>1. PICK i \in 1..Len(t) : x = t[i]
    BY DEF Members
  <2> QED BY <2>1, <1>2 DEF Members, Distinct
<1>7. ASSUME NEW x \in Members(s) \ {s[k]} PROVE x \in Members(t)
  <2>1. PICK j \in 1..Len(s) : x = s[j]
    BY DEF Members
  <2>2. j # k
    BY <2>1
  <2> QED BY <2>1, <2>2, <1>4 DEF Members
<1> QED BY <1>1, <1>5, <1>6, <1>7 DEF t

LEMMA WithoutFacts ==
    ASSUME NEW S, NEW s \in Seq(S), NEW k, Distinct(s)
    PROVE  /\ Without(s, k) \in Seq(S) /\ Distinct(Without(s, k))
           /\ Members(Without(s, k)) = Members(s) \ {k}
           /\ k \in Members(s) => Len(Without(s, k)) = Len(s) - 1
           /\ k \notin Members(s) => Without(s, k) = s
<1>1. DOMAIN s = 1..Len(s) /\ ((\E i \in DOMAIN s : s[i] = k) <=> k \in Members(s))
  BY DEF Members
<1>2. CASE k \in Members(s)
  <2> DEFINE i == CHOOSE i \in DOMAIN s : s[i] = k
  <2>1. \E j \in DOMAIN s : s[j] = k
    BY <1>1, <1>2 DEF Members
  <2>2. i \in 1..Len(s) /\ s[i] = k
    BY <1>1, <2>1
  <2>3. Without(s, k) = CutAt(s, i)
    BY <1>1, <1>2 DEF Without
  <2> HIDE DEF i
  <2>4. /\ CutAt(s, i) \in Seq(S) /\ Distinct(CutAt(s, i))
        /\ Len(CutAt(s, i)) = Len(s) - 1
        /\ Members(CutAt(s, i)) = Members(s) \ {s[i]}
    BY <2>2, RemoveDistinct
  <2> QED BY <1>2, <2>2, <2>3, <2>4
<1>3. CASE k \notin Members(s)
  BY <1>1, <1>3 DEF Without
<1> QED BY <1>2, <1>3

LEMMA PushFacts ==
    ASSUME NEW S, NEW s \in Seq(S), NEW k \in S, Distinct(s), k \notin Members(s)
    PROVE  /\ <<k>> \o s \in Seq(S) /\ Distinct(<<k>> \o s)
           /\ Len(<<k>> \o s) = Len(s) + 1
           /\ Members(<<k>> \o s) = Members(s) \cup {k}
<1> DEFINE t == <<k>> \o s
<1>1. /\ t \in Seq(S) /\ Len(t) = Len(s) + 1 /\ Len(s) \in Nat
      /\ t[1] = k
      /\ \A i \in 1..Len(s) : t[i + 1] = s[i]
  <2>1. <<k>> \in Seq(S) /\ Len(<<k>>) = 1 /\ <<k>>[1] = k /\ Len(s) \in Nat
    OBVIOUS
  <2>2. t \in Seq(S) /\ Len(t) = 1 + Len(s)
    BY <2>1
  <2>3. \A i \in 1..(1 + Len(s)) : t[i] = IF i <= Len(<<k>>) THEN <<k>>[i] ELSE s[i - Len(<<k>>)]
    BY <2>1
  <2>4. t[1] = k
    BY <2>1, <2>3
  <2>5. ASSUME NEW i \in 1..Len(s) PROVE t[i + 1] = s[i]
    <3>1. i + 1 \in 1..(1 + Len(s)) /\ ~(i + 1 <= 1) /\ i + 1 - 1 = i
      BY <2>1
    <3> QED BY <3>1, <2>1, <2>3
  <2> QED BY <2>1, <2>2, <2>4, <2>5
<1> HIDE DEF t
<1>2. \A j \in 1..Len(t) : j = 1 \/ (j - 1 \in 1..Len(s) /\ (j - 1) + 1 = j)
  BY <1>1
<1>3. \A j \in 1..Len(t) : j = 1 \/ (j - 1 \in 1..Len(s) /\ t[j] = s[j - 1])
  BY <1>1, <1>2
<1>4. \A i \in 1..Len(s) : s[i] # k
  BY DEF Members
<1>5. ASSUME NEW i \in 1..Len(t), NEW j \in 1..Len(t), t[i] = t[j] PROVE i = j
  <2>1. CASE i = 1
    BY <2>1, <1>1, <1>3, <1>4, <1>5
  <2>2. CASE j = 1
    BY <2>2, <1>1, <1>3, <1>4, <1>5
  <2>3. CASE i # 1 /\ j # 1
    <3>1. /\ i - 1 \in 1..Len(s) /\ j - 1 \in 1..Len(s)
          /\ s[i - 1] = s[j - 1]
      BY <2>3, <1>3, <1>5
    <3>2. i - 1 = j - 1
      BY <3>1 DEF Distinct
    <3> QED BY <3>2
  <2> QED BY <2>1, <2>2, <2>3
<1>6. ASSUME NEW x \in Members(t) PROVE x \in Members(s) \cup {k}
  <2>1. PICK j \in 1..Len(t) : x = t[j]
    BY DEF Members
  <2> QED BY <2>1, <1>1, <1>3 DEF Members
<1>7. ASSUME NEW x \in Members(s) \cup {k} PROVE x \in Members(t)
  <2>1. CASE x = k
    <3>1. 1 \in 1..Len(t)
      BY <1>1
    <3> QED BY <2>1, <3>1, <1>1 DEF Members
  <2>2. CASE x \in Members(s)
    <3>1. PICK i \in 1..Len(s) : x = s[i]
      BY <2>2 DEF Members
    <3>2. i + 1 \in 1..Len(t) /\ t[i + 1] = x
      BY <3>1, <1>1
    <3> QED BY <3>2 DEF Members
  <2> QED BY <2>1, <2>2
<1> QED BY <1>1, <1>5, <1>6, <1>7 DEF t, Distinct

LEMMA PrefixFacts ==
    ASSUME NEW S, NEW s \in Seq(S), NEW n \in 0..Len(s)
    PROVE  /\ SubSeq(s, 1, n) \in Seq(S) /\ Len(SubSeq(s, 1, n)) = n
           /\ \A i \in 1..n : SubSeq(s, 1, n)[i] = s[i]
OBVIOUS

LEMMA EvictFacts ==
    ASSUME NEW S, NEW s \in Seq(S), Distinct(s), Len(s) > 0
    PROVE  /\ SubSeq(s, 1, Len(s) - 1) \in Seq(S) /\ Distinct(SubSeq(s, 1, Len(s) - 1))
           /\ Len(SubSeq(s, 1, Len(s) - 1)) = Len(s) - 1
           /\ Members(SubSeq(s, 1, Len(s) - 1)) = Members(s) \ {s[Len(s)]}
<1> DEFINE t == SubSeq(s, 1, Len(s) - 1)
<1>1. /\ t \in Seq(S) /\ Len(t) = Len(s) - 1 /\ Len(s) \in Nat /\ Len(s) \in 1..Len(s)
      /\ \A i \in 1..(Len(s) - 1) : t[i] = s[i]
  <2>1. Len(s) \in Nat /\ Len(s) \in 1..Len(s)
    OBVIOUS
  <2>2. Len(s) - 1 \in 0..Len(s)
    BY <2>1
  <2> QED BY <2>1, <2>2, PrefixFacts
<1> HIDE DEF t
<1>2. \A i \in 1..Len(s) : i = Len(s) \/ i \in 1..Len(t)
  BY <1>1
<1>3. \A i \in 1..Len(t) : i \in 1..Len(s) /\ i # Len(s) /\ t[i] = s[i]
  BY <1>1
<1>4. Distinct(t)
  BY <1>3 DEF Distinct
<1>5. ASSUME NEW x \in Members(t) PROVE x \in Members(s) \ {s[Len(s)]}
  BY <1>1, <1>3 DEF Members, Distinct
<1>6. ASSUME NEW x \in Members(s) \ {s[Len(s)]} PROVE x \in Members(t)
  <2>1. PICK i \in 1..Len(s) : x = s[i]
    BY DEF Members
  <2>2. i \in 1..Len(t)
    BY <2>1, <1>2
  <2> QED BY <2>1, <2>2, <1>3 DEF Members
<1> QED BY <1>1, <1>4, <1>5, <1>6 DEF t

-----------------------------------------------------------------------------
(* The invariant: the cache, the goroutines, the marks and the counters.    *)

CacheOK ==
    /\ DOMAIN entries \subseteq CacheKeys
    /\ entries \in [DOMAIN entries -> Entry]
    /\ lru \in Seq(CacheKeys)
    /\ Distinct(lru) /\ Members(lru) = DOMAIN entries /\ Len(lru) <= MaxSize
    /\ AnswersFromOwnChannel

GoroutinesOK ==
    /\ now \in Nat
    /\ hpc \in [Handlers -> {"idle", "bypass", "lookup", "hit", "flag", "exchange"}]
    /\ hq \in [Handlers -> Queries]
    /\ ppc \in [Prefetchers -> {"idle", "exchange", "done"}]
    /\ pq \in [Prefetchers -> Queries]
    /\ \A h \in Handlers : hpc[h] # "idle" => RoutedTo[hq[h]] \in Upstreams
    /\ \A p \in Prefetchers : ppc[p] # "idle" => RoutedTo[pq[p]] \in Upstreams
    /\ stats \in [Counters -> Nat]

CacheInv == CacheOK /\ GoroutinesOK /\ PrefetchFlagOwned /\ CountersAddUp

\* Every entry marked after a step was there and marked before it.
NoNewMarks == \A k \in DOMAIN entries' : entries'[k].prefetching => k \in DOMAIN entries /\ entries[k].prefetching

LEMMA CacheOKStays == CacheOK /\ UNCHANGED <<entries, lru>> => CacheOK' /\ NoNewMarks
BY DEF CacheOK, AnswersFromOwnChannel, NoNewMarks

\* GetHit: the key moves to the front of the list.
LEMMA MovedKeeps ==
    ASSUME CacheOK, NEW k \in DOMAIN entries, lru' = MoveToFront(k), entries' = entries
    PROVE  CacheOK' /\ NoNewMarks
<1> DEFINE s == Without(lru, k)
<1>1. /\ lru \in Seq(CacheKeys) /\ Distinct(lru) /\ Members(lru) = DOMAIN entries
      /\ k \in CacheKeys /\ k \in Members(lru)
  BY DEF CacheOK
<1>2. /\ s \in Seq(CacheKeys) /\ Distinct(s) /\ Members(s) = Members(lru) \ {k}
      /\ Len(s) = Len(lru) - 1
  BY <1>1, WithoutFacts
<1>3. lru' = <<k>> \o s
  BY DEF MoveToFront
<1> HIDE DEF s
<1>4. k \notin Members(s)
  BY <1>2
<1>5. /\ <<k>> \o s \in Seq(CacheKeys) /\ Distinct(<<k>> \o s)
      /\ Len(<<k>> \o s) = Len(s) + 1 /\ Members(<<k>> \o s) = Members(s) \cup {k}
  BY <1>1, <1>2, <1>4, PushFacts
<1>6. Members(<<k>> \o s) = DOMAIN entries
  BY <1>1, <1>2, <1>5
<1>7. Len(<<k>> \o s) = Len(lru)
  <2>1. Len(lru) \in Nat
    BY <1>1
  <2> QED BY <2>1, <1>2, <1>5
<1> QED BY <1>3, <1>5, <1>6, <1>7 DEF CacheOK, AnswersFromOwnChannel, NoNewMarks

\* GetMiss: the key leaves the list and the index.
LEMMA RemovedKeeps ==
    ASSUME CacheOK, NEW k, lru' = Without(lru, k), entries' = Drop(entries, {k})
    PROVE  CacheOK' /\ NoNewMarks
<1>1. lru \in Seq(CacheKeys) /\ Distinct(lru) /\ Members(lru) = DOMAIN entries /\ Len(lru) <= MaxSize
  BY DEF CacheOK
<1>2. /\ lru' \in Seq(CacheKeys) /\ Distinct(lru') /\ Members(lru') = Members(lru) \ {k}
      /\ k \in Members(lru) => Len(lru') = Len(lru) - 1
      /\ k \notin Members(lru) => lru' = lru
  BY <1>1, WithoutFacts
<1>3. Len(lru') <= MaxSize
  <2>1. Len(lru) \in Nat
    BY <1>1
  <2> QED BY <1>1, <1>2, <2>1, CacheAssumption
<1>4. /\ DOMAIN entries' = DOMAIN entries \ {k}
      /\ \A x \in DOMAIN entries' : entries'[x] = entries[x]
      /\ entries' = [x \in DOMAIN entries \ {k} |-> entries[x]]
  BY DEF Drop
<1>5. entries' \in [DOMAIN entries' -> Entry] /\ DOMAIN entries' \subseteq CacheKeys
  BY <1>4 DEF CacheOK
<1>6. AnswersFromOwnChannel'
  BY <1>4 DEF CacheOK, AnswersFromOwnChannel
<1>7. NoNewMarks
  BY <1>4 DEF NoNewMarks
<1> QED BY <1>1, <1>2, <1>3, <1>4, <1>5, <1>6, <1>7 DEF CacheOK

LEMMA EntryFields ==
    ASSUME NEW e \in Entry
    PROVE  /\ e.resp \in UNION {Responses(u, q) : u \in Upstreams, q \in Queries}
           /\ e.at \in Nat /\ e.expires \in Nat /\ e.prefetching \in BOOLEAN
           /\ e.fails \in Nat /\ e.failedAt \in Nat
BY DEF Entry

LEMMA EntryMade ==
    ASSUME NEW u \in Upstreams, NEW q \in Queries, NEW r \in Responses(u, q),
           NEW a \in Nat, NEW x \in Nat, NEW b \in BOOLEAN, NEW f \in Nat, NEW g \in Nat
    PROVE  [resp |-> r, at |-> a, expires |-> x, prefetching |-> b, fails |-> f, failedAt |-> g] \in Entry
<1>1. r \in UNION {Responses(v, w) : v \in Upstreams, w \in Queries}
  OBVIOUS
<1> HIDE DEF Responses
<1> QED BY <1>1, SMTT(30) DEF Entry

LEMMA ResponseFields ==
    ASSUME NEW u, NEW q, NEW r \in Responses(u, q)
    PROVE  r.by = u /\ r.about = NameOf[q] /\ r.ok \in BOOLEAN /\ (r.ok => r.ttl \in TTLs)
<1>1. CASE r \in {[ok |-> TRUE, ttl |-> t, by |-> u, about |-> NameOf[q]] : t \in TTLs}
  <2>1. PICK t \in TTLs : r = [ok |-> TRUE, ttl |-> t, by |-> u, about |-> NameOf[q]]
    BY <1>1
  <2> QED BY <2>1
<1>2. CASE r = [ok |-> FALSE, ttl |-> 0, by |-> u, about |-> NameOf[q]]
  BY <1>2
<1> QED BY <1>1, <1>2 DEF Responses

LEMMA TTLType ==
    ASSUME NEW u, NEW q, NEW r \in Responses(u, q)
    PROVE  computeEffectiveTTL(r) \in Nat
<1>1. r.ok => r.ttl \in Nat
  BY ResponseFields, CacheAssumption
<1> QED BY <1>1, CacheAssumption DEF computeEffectiveTTL, calculateEffectiveTTL

\* A query and the upstream it is routed to have a key.
LEMMA KeyIsOne == \A q \in Queries, u \in Upstreams : buildCacheKey(q, u) \in CacheKeys
BY DEF CacheKeys

\* Set: the answer is stored under its own key and unmarked, and the list and the
\* index lose the same key when there is one too many.
LEMMA SetKeeps ==
    ASSUME CacheOK, now \in Nat, NEW u \in Upstreams, NEW q \in Queries,
           NEW r \in Responses(u, q), Set(buildCacheKey(q, u), r)
    PROVE  CacheOK' /\ NoNewMarks
<1> DEFINE k == buildCacheKey(q, u)
<1>1. CASE ~r.ok /\ ~NegativeCache
  BY <1>1, CacheOKStays DEF Set, cacheVars
<1>2. CASE ~(~r.ok /\ ~NegativeCache)
  <2> DEFINE s == Without(lru, k)
             list == <<k>> \o s
             e == stored(k, r)
             all == [x \in DOMAIN entries \cup {k} |-> IF x = k THEN e ELSE entries[x]]
             over == Len(list) > MaxSize
             back == list[Len(list)]
  <2>1. /\ lru' = IF over THEN SubSeq(list, 1, Len(list) - 1) ELSE list
        /\ entries' = IF over THEN Drop(all, {back}) ELSE all
    BY <1>2 DEF Set, MoveToFront
  <2>2. k \in CacheKeys /\ k = <<AddrOf[u], TagOf[u], NameOf[q]>>
    <3>1. k = <<AddrOf[u], TagOf[u], NameOf[q]>>
      BY DEF buildCacheKey
    <3>2. buildCacheKey(q, u) \in CacheKeys
      BY KeyIsOne
    <3> QED BY <3>1, <3>2
  <2>3. /\ lru \in Seq(CacheKeys) /\ Distinct(lru) /\ Members(lru) = DOMAIN entries
        /\ Len(lru) <= MaxSize /\ Len(lru) \in Nat
    BY DEF CacheOK
  <2>4. e \in Entry /\ e.resp = r /\ e.prefetching = FALSE
    <3>1. now + computeEffectiveTTL(r) \in Nat
      BY TTLType
    <3>2. k \in DOMAIN entries => entries[k].fails \in Nat /\ entries[k].failedAt \in Nat
      BY EntryFields DEF CacheOK
    <3> DEFINE f == IF k \in DOMAIN entries /\ ~r.ok THEN entries[k].fails ELSE 0
               g == IF k \in DOMAIN entries THEN entries[k].failedAt ELSE 0
    <3>3. f \in Nat /\ g \in Nat
      BY <3>2
    <3>4. e = [resp |-> r, at |-> now, expires |-> now + computeEffectiveTTL(r), prefetching |-> FALSE,
               fails |-> f, failedAt |-> g]
      BY DEF stored
    <3> HIDE DEF f, g, e, k
    <3>5. e \in Entry
      BY <3>1, <3>3, <3>4, EntryMade
    <3> QED BY <3>4, <3>5
  <2> HIDE DEF e, k
  <2>5. /\ s \in Seq(CacheKeys) /\ Distinct(s) /\ Members(s) = Members(lru) \ {k}
        /\ Len(s) <= MaxSize /\ Len(s) \in Nat
    <3>1. /\ s \in Seq(CacheKeys) /\ Distinct(s) /\ Members(s) = Members(lru) \ {k}
          /\ k \in Members(lru) => Len(s) = Len(lru) - 1
          /\ k \notin Members(lru) => s = lru
      BY <2>3, WithoutFacts
    <3>2. Len(s) \in Nat
      BY <3>1
    <3> HIDE DEF s
    <3>3. Len(s) <= MaxSize
      BY <3>1, <3>2, <2>3, CacheAssumption, SMTT(30)
    <3> QED BY <3>1, <3>2, <3>3
  <2> HIDE DEF s
  <2>6. k \notin Members(s)
    BY <2>5
  <2>7. /\ list \in Seq(CacheKeys) /\ Distinct(list)
        /\ Len(list) = Len(s) + 1 /\ Members(list) = Members(s) \cup {k}
    <3>1. k \in CacheKeys /\ s \in Seq(CacheKeys) /\ Distinct(s) /\ k \notin Members(s)
      BY <2>2, <2>5, <2>6
    <3>2. /\ <<k>> \o s \in Seq(CacheKeys) /\ Distinct(<<k>> \o s)
          /\ Len(<<k>> \o s) = Len(s) + 1 /\ Members(<<k>> \o s) = Members(s) \cup {k}
      BY <3>1, PushFacts
    <3> QED BY <3>2
  <2> HIDE DEF list
  <2>8. Members(list) = DOMAIN entries \cup {k} /\ Len(list) \in Nat /\ Len(list) > 0
    BY <2>3, <2>5, <2>7
  <2>9. /\ DOMAIN all = DOMAIN entries \cup {k} /\ DOMAIN all \subseteq CacheKeys
        /\ all \in [DOMAIN all -> Entry]
        /\ all[k] = e
        /\ \A x \in DOMAIN all : x # k => x \in DOMAIN entries /\ all[x] = entries[x]
    BY <2>2, <2>4 DEF CacheOK
  <2> HIDE DEF all
  <2>10. /\ lru' \in Seq(CacheKeys) /\ Distinct(lru') /\ Len(lru') <= MaxSize
         /\ Members(lru') = DOMAIN entries'
         /\ DOMAIN entries' \subseteq DOMAIN all
         /\ entries' = [x \in DOMAIN entries' |-> all[x]]
    <3>1. CASE over
      <4> DEFINE t == SubSeq(list, 1, Len(list) - 1)
      <4>1. /\ t \in Seq(CacheKeys) /\ Distinct(t) /\ Len(t) = Len(list) - 1
            /\ Members(t) = Members(list) \ {back}
        BY <2>7, <2>8, EvictFacts
      <4>2. lru' = t /\ entries' = Drop(all, {back})
        BY <2>1, <3>1
      <4> HIDE DEF t, back
      <4>3. /\ DOMAIN entries' = DOMAIN all \ {back}
            /\ entries' = [x \in DOMAIN all \ {back} |-> all[x]]
        BY <4>2 DEF Drop
      <4>4. Members(t) = DOMAIN entries'
        BY <4>1, <4>3, <2>8, <2>9
      <4>5. Len(t) <= MaxSize
        BY <4>1, <2>5, <2>7, CacheAssumption, SMTT(30)
      <4> QED BY <4>1, <4>2, <4>3, <4>4, <4>5
    <3>2. CASE ~over
      <4>1. lru' = list /\ entries' = all
        BY <2>1, <3>2
      <4>2. Len(list) <= MaxSize
        BY <3>2, <2>8, CacheAssumption
      <4>3. all = [x \in DOMAIN all |-> all[x]]
        BY <2>9
      <4> QED BY <4>1, <4>2, <4>3, <2>7, <2>8, <2>9
    <3> QED BY <3>1, <3>2
  <2>11. \A x \in DOMAIN entries' : /\ x \in DOMAIN all /\ entries'[x] = all[x]
    BY <2>10
  <2>12. entries' \in [DOMAIN entries' -> Entry] /\ DOMAIN entries' \subseteq CacheKeys
    BY <2>9, <2>10, <2>11
  <2>13. AnswersFromOwnChannel'
    <3> SUFFICES ASSUME NEW x \in DOMAIN entries'
                 PROVE  x = <<AddrOf[entries'[x].resp.by], TagOf[entries'[x].resp.by], entries'[x].resp.about>>
      BY DEF AnswersFromOwnChannel
    <3>1. CASE x = k
      <4>1. entries'[x].resp = r
        BY <3>1, <2>4, <2>9, <2>11
      <4>2. r.by = u /\ r.about = NameOf[q]
        BY ResponseFields, SMTT(30)
      <4> QED BY <3>1, <4>1, <4>2, <2>2
    <3>2. CASE x # k
      <4>1. x \in DOMAIN entries /\ entries'[x] = entries[x]
        BY <3>2, <2>9, <2>11
      <4> QED BY <4>1 DEF CacheOK, AnswersFromOwnChannel
    <3> QED BY <3>1, <3>2
  <2>14. CacheOK'
    BY <2>10, <2>12, <2>13 DEF CacheOK
  <2>15. k \in DOMAIN entries' => entries'[k].prefetching = FALSE
    BY <2>4, <2>9, <2>11
  <2>16. NoNewMarks
    <3> SUFFICES ASSUME NEW x \in DOMAIN entries', entries'[x].prefetching
                 PROVE  x \in DOMAIN entries /\ entries[x].prefetching
      BY DEF NoNewMarks
    <3>1. x # k
      BY <2>15
    <3> QED BY <3>1, <2>9, <2>11
  <2> QED BY <2>14, <2>16
<1> QED BY <1>1, <1>2

\* A prefetch changes the marks and counts of an entry that is still there.
LEMMA UpdateKeeps ==
    ASSUME CacheOK, NEW k, NEW e, Update(k, e),
           k \in DOMAIN entries => e \in Entry /\ e.resp = entries[k].resp
    PROVE  /\ CacheOK' /\ DOMAIN entries' = DOMAIN entries
           /\ \A x \in DOMAIN entries : entries'[x] = IF x = k THEN e ELSE entries[x]
<1>1. lru' = lru /\ entries' = IF k \in DOMAIN entries THEN [entries EXCEPT ![k] = e] ELSE entries
  BY DEF Update
<1>2. /\ DOMAIN entries' = DOMAIN entries
      /\ \A x \in DOMAIN entries : entries'[x] = IF x = k THEN e ELSE entries[x]
      /\ entries' \in [DOMAIN entries -> Entry]
  BY <1>1 DEF CacheOK
<1>3. AnswersFromOwnChannel'
  BY <1>2 DEF CacheOK, AnswersFromOwnChannel
<1> QED BY <1>1, <1>2, <1>3 DEF CacheOK

\* The marks keep their owners when no mark is new and the goroutines that
\* refresh an entry go on, or the one that ends leaves its own entry unmarked.
LEMMA OwnersStay ==
    ASSUME PrefetchFlagOwned, NoNewMarks, UNCHANGED <<ppc, pq>>
    PROVE  PrefetchFlagOwned'
BY DEF PrefetchFlagOwned, NoNewMarks, PrefetchKey

LEMMA OwnerEnds ==
    ASSUME PrefetchFlagOwned, NoNewMarks, GoroutinesOK, NEW p \in Prefetchers, NEW l,
           ppc' = [ppc EXCEPT ![p] = l], pq' = pq,
           l # "idle" \/ PrefetchKey(p) \notin DOMAIN entries' \/ ~entries'[PrefetchKey(p)].prefetching
    PROVE  PrefetchFlagOwned'
<1> SUFFICES ASSUME NEW k \in DOMAIN entries', entries'[k].prefetching
             PROVE  \E o \in Prefetchers : ppc'[o] # "idle" /\ PrefetchKey(o)' = k
  BY DEF PrefetchFlagOwned
<1>1. k \in DOMAIN entries /\ entries[k].prefetching
  BY DEF NoNewMarks
<1>2. PICK o \in Prefetchers : ppc[o] # "idle" /\ PrefetchKey(o) = k
  BY <1>1 DEF PrefetchFlagOwned
<1>3. PrefetchKey(o)' = k
  BY <1>2 DEF PrefetchKey
<1>4. ppc'[o] = IF o = p THEN l ELSE ppc[o]
  BY DEF GoroutinesOK
<1>5. o = p => l # "idle"
  BY <1>2
<1> QED BY <1>2, <1>3, <1>4, <1>5

\* The counters stay balanced: the handlers before their lookup are the
\* difference.
Waiting == {h \in Handlers : hpc[h] = "lookup"}

LEMMA WaitingFinite == IsFiniteSet(Waiting) /\ Cardinality(Waiting) \in Nat
BY FS_Subset, FS_CardinalityType, CacheAssumption DEF Waiting

LEMMA CountersStay ==
    ASSUME GoroutinesOK, CountersAddUp, stats' = stats, NEW h \in Handlers, NEW l,
           hpc' = [hpc EXCEPT ![h] = l], l # "lookup", hpc[h] # "lookup"
    PROVE  CountersAddUp'
<1>1. {g \in Handlers : hpc'[g] = "lookup"} = {g \in Handlers : hpc[g] = "lookup"}
  BY DEF GoroutinesOK
<1> QED BY <1>1 DEF CountersAddUp

\* A lookup is counted as a hit or a miss when it ends.
LEMMA LookupCounted ==
    ASSUME GoroutinesOK, CountersAddUp, NEW h \in Handlers, NEW l, NEW c \in {"hits", "misses"},
           hpc[h] = "lookup", hpc' = [hpc EXCEPT ![h] = l], l # "lookup", Bump(c)
    PROVE  CountersAddUp' /\ stats' \in [Counters -> Nat]
<1>1. {g \in Handlers : hpc'[g] = "lookup"} = Waiting \ {h} /\ h \in Waiting
  BY DEF GoroutinesOK, Waiting
<1>2. /\ Cardinality(Waiting \ {h}) = Cardinality(Waiting) - 1
      /\ Cardinality(Waiting) \in Nat
  BY <1>1, WaitingFinite, FS_RemoveElement
<1>3. \A d \in Counters : stats[d] \in Nat
  BY DEF GoroutinesOK
<1>4. {"total", "rejected", "bypassed", "hits", "misses", "stub"} = Counters
  BY DEF Counters
<1>5. /\ stats' \in [Counters -> Nat]
      /\ \A d \in Counters : stats'[d] = IF d = c THEN stats[d] + 1 ELSE stats[d]
  BY <1>3, <1>4 DEF Bump, GoroutinesOK
<1>6. stats["total"] = stats["rejected"] + stats["bypassed"] + stats["hits"] + stats["misses"]
                         + stats["stub"] + Cardinality(Waiting)
  BY DEF CountersAddUp, Waiting
<1>7. stats'["total"] = stats'["rejected"] + stats'["bypassed"] + stats'["hits"] + stats'["misses"]
                          + stats'["stub"] + (Cardinality(Waiting) - 1)
  <2>1. /\ stats'["total"] = stats["total"] /\ stats'["rejected"] = stats["rejected"]
        /\ stats'["bypassed"] = stats["bypassed"] /\ stats'["stub"] = stats["stub"]
    BY <1>4, <1>5
  <2>2. /\ stats["total"] \in Nat /\ stats["rejected"] \in Nat /\ stats["bypassed"] \in Nat
        /\ stats["hits"] \in Nat /\ stats["misses"] \in Nat /\ stats["stub"] \in Nat
    BY <1>3, <1>4
  <2>3. CASE c = "hits"
    <3>1. stats'["hits"] = stats["hits"] + 1 /\ stats'["misses"] = stats["misses"]
      BY <2>3, <1>4, <1>5
    <3> QED BY <3>1, <2>1, <2>2, <1>2, <1>6, SMTT(30)
  <2>4. CASE c = "misses"
    <3>1. stats'["hits"] = stats["hits"] /\ stats'["misses"] = stats["misses"] + 1
      BY <2>4, <1>4, <1>5
    <3> QED BY <3>1, <2>1, <2>2, <1>2, <1>6, SMTT(30)
  <2> QED BY <2>3, <2>4
<1> QED BY <1>1, <1>2, <1>5, <1>7 DEF CountersAddUp

LEMMA HandleQueryKeeps ==
    ASSUME CacheInv, NEW h \in Handlers, NEW q \in Queries, HandleQuery(h, q)
    PROVE  CacheInv'
<1> DEFINE stubbed == RoutedTo[q] = NoUpstream
           l == CASE Action[q] = "reject"              -> "idle"
                  [] Action[q] = "bypass" /\ ~stubbed  -> "bypass"
                  [] Action[q] = "route" /\ ~stubbed   -> "lookup"
                  [] OTHER                             -> "idle"
<1>1. /\ hpc[h] = "idle"
      /\ hpc' = [hpc EXCEPT ![h] = l] /\ hq' = [hq EXCEPT ![h] = q]
      /\ stats' = [stats EXCEPT !["total"] = @ + 1,
                          !["rejected"] = @ + (IF Action[q] = "reject" THEN 1 ELSE 0),
                          !["bypassed"] = @ + (IF Action[q] = "bypass" THEN 1 ELSE 0),
                          !["stub"] = @ + (IF Action[q] = "route" /\ stubbed THEN 1 ELSE 0)]
      /\ now' = now /\ entries' = entries /\ lru' = lru /\ ppc' = ppc /\ pq' = pq
  BY DEF HandleQuery, cacheVars, prefetchVars
<1>2. Action[q] \in {"route", "reject", "bypass"} /\ RoutedTo[q] \in Upstreams \cup {NoUpstream}
  BY CacheAssumption
<1>3. l \in {"idle", "bypass", "lookup"} /\ (l # "idle" => RoutedTo[q] \in Upstreams)
  BY <1>2
<1>4. l = "lookup" <=> Action[q] = "route" /\ ~stubbed
  BY <1>2
<1> HIDE DEF l
<1>5. CacheOK' /\ NoNewMarks
  BY <1>1, CacheOKStays DEF CacheInv
<1>6. PrefetchFlagOwned'
  BY <1>1, <1>5, OwnersStay DEF CacheInv
<1>7. \A d \in Counters : stats[d] \in Nat
  BY DEF CacheInv, GoroutinesOK
<1>8. {"total", "rejected", "bypassed", "hits", "misses", "stub"} = Counters
  BY DEF Counters
<1> DEFINE x == IF Action[q] = "reject" THEN 1 ELSE 0
           y == IF Action[q] = "bypass" THEN 1 ELSE 0
           z == IF Action[q] = "route" /\ stubbed THEN 1 ELSE 0
           n == IF l = "lookup" THEN 1 ELSE 0
<1>9. x \in 0..1 /\ y \in 0..1 /\ z \in 0..1 /\ n \in 0..1 /\ x + y + z + n = 1
  BY <1>2, <1>4, SMTT(30)
<1>10. stats' = [stats EXCEPT !["total"] = stats["total"] + 1, !["rejected"] = stats["rejected"] + x,
                              !["bypassed"] = stats["bypassed"] + y, !["stub"] = stats["stub"] + z]
  BY <1>1, <1>8 DEF CacheInv, GoroutinesOK
<1> HIDE DEF x, y, z, n, stubbed
<1>11. /\ stats' \in [Counters -> Nat]
       /\ stats'["total"] = stats["total"] + 1 /\ stats'["rejected"] = stats["rejected"] + x
       /\ stats'["bypassed"] = stats["bypassed"] + y /\ stats'["stub"] = stats["stub"] + z
       /\ stats'["hits"] = stats["hits"] /\ stats'["misses"] = stats["misses"]
  BY <1>7, <1>8, <1>9, <1>10, SMTT(30) DEF CacheInv, GoroutinesOK
<1>12. GoroutinesOK'
  BY <1>1, <1>3, <1>11 DEF CacheInv, GoroutinesOK
<1>13. /\ Cardinality({g \in Handlers : hpc'[g] = "lookup"}) = Cardinality(Waiting) + n
       /\ Cardinality(Waiting) \in Nat
  <2>1. h \notin Waiting
    BY <1>1 DEF Waiting
  <2>2. CASE l = "lookup"
    <3>1. {g \in Handlers : hpc'[g] = "lookup"} = Waiting \cup {h}
      BY <2>2, <1>1 DEF Waiting, CacheInv, GoroutinesOK
    <3> QED BY <2>1, <2>2, <3>1, WaitingFinite, FS_AddElement DEF n
  <2>3. CASE l # "lookup"
    <3>1. {g \in Handlers : hpc'[g] = "lookup"} = Waiting
      BY <2>1, <2>3, <1>1 DEF Waiting, CacheInv, GoroutinesOK
    <3> QED BY <2>3, <3>1, WaitingFinite DEF n
  <2> QED BY <2>2, <2>3
<1>14. CountersAddUp'
  <2>1. stats["total"] = stats["rejected"] + stats["bypassed"] + stats["hits"] + stats["misses"]
                           + stats["stub"] + Cardinality(Waiting)
    BY DEF CacheInv, CountersAddUp, Waiting
  <2>2. stats'["total"] = stats'["rejected"] + stats'["bypassed"] + stats'["hits"] + stats'["misses"]
                            + stats'["stub"] + (Cardinality(Waiting) + n)
    BY <2>1, <1>7, <1>8, <1>9, <1>11, <1>13, SMTT(30)
  <2> QED BY <2>2, <1>13 DEF CountersAddUp
<1> QED BY <1>5, <1>6, <1>12, <1>14 DEF CacheInv

\* A handler that moves on keeps its query.
LEMMA HandlerMoves ==
    ASSUME GoroutinesOK, NEW h \in Handlers, NEW l \in {"idle", "hit", "flag", "exchange"},
           hpc[h] # "idle", Goto(h, l), now' = now, ppc' = ppc, pq' = pq, stats' \in [Counters -> Nat]
    PROVE  GoroutinesOK' /\ hpc' = [hpc EXCEPT ![h] = l]
<1>1. hpc' = [hpc EXCEPT ![h] = l] /\ hq' = hq
  BY DEF Goto
<1> QED BY <1>1 DEF GoroutinesOK

LEMMA KeyIsBuilt ==
    ASSUME GoroutinesOK, NEW h \in Handlers, hpc[h] # "idle"
    PROVE  /\ hq[h] \in Queries /\ RoutedTo[hq[h]] \in Upstreams
           /\ Key(h) = buildCacheKey(hq[h], RoutedTo[hq[h]])
BY DEF GoroutinesOK, Key

LEMMA GetHitKeeps ==
    ASSUME CacheInv, NEW h \in Handlers, GetHit(h)
    PROVE  CacheInv'
<1>1. /\ hpc[h] = "lookup" /\ Key(h) \in DOMAIN entries
      /\ lru' = MoveToFront(Key(h)) /\ Bump("hits") /\ Goto(h, "hit")
      /\ now' = now /\ entries' = entries /\ ppc' = ppc /\ pq' = pq
  BY DEF GetHit, prefetchVars
<1>2. CacheOK' /\ NoNewMarks
  BY <1>1, MovedKeeps DEF CacheInv
<1>3. hpc' = [hpc EXCEPT ![h] = "hit"]
  BY <1>1 DEF Goto
<1>4. CountersAddUp' /\ stats' \in [Counters -> Nat]
  BY <1>1, <1>3, LookupCounted DEF CacheInv
<1>5. GoroutinesOK'
  BY <1>1, <1>4, HandlerMoves DEF CacheInv
<1>6. PrefetchFlagOwned'
  BY <1>1, <1>2, OwnersStay DEF CacheInv
<1> QED BY <1>2, <1>4, <1>5, <1>6 DEF CacheInv

LEMMA GetMissKeeps ==
    ASSUME CacheInv, NEW h \in Handlers, GetMiss(h)
    PROVE  CacheInv'
<1>1. /\ hpc[h] = "lookup"
      /\ lru' = Without(lru, Key(h)) /\ entries' = Drop(entries, {Key(h)})
      /\ Bump("misses") /\ Goto(h, "exchange")
      /\ now' = now /\ ppc' = ppc /\ pq' = pq
  BY DEF GetMiss, prefetchVars
<1>2. CacheOK' /\ NoNewMarks
  BY <1>1, RemovedKeeps DEF CacheInv
<1>3. hpc' = [hpc EXCEPT ![h] = "exchange"]
  BY <1>1 DEF Goto
<1>4. CountersAddUp' /\ stats' \in [Counters -> Nat]
  BY <1>1, <1>3, LookupCounted DEF CacheInv
<1>5. GoroutinesOK'
  BY <1>1, <1>4, HandlerMoves DEF CacheInv
<1>6. PrefetchFlagOwned'
  BY <1>1, <1>2, OwnersStay DEF CacheInv
<1> QED BY <1>2, <1>4, <1>5, <1>6 DEF CacheInv

\* BypassAnswered, CheckPrefetch and ExchangeFails leave the cache alone.
LEMMA CacheUntouched ==
    ASSUME CacheInv, NEW h \in Handlers, NEW l \in {"idle", "flag"}, hpc[h] \notin {"idle", "lookup"},
           Goto(h, l), UNCHANGED <<now, cacheVars, prefetchVars, stats>>
    PROVE  CacheInv'
<1>1. /\ now' = now /\ entries' = entries /\ lru' = lru /\ ppc' = ppc /\ pq' = pq
      /\ stats' = stats /\ stats \in [Counters -> Nat]
  BY DEF cacheVars, prefetchVars, CacheInv, GoroutinesOK
<1>2. CacheOK' /\ NoNewMarks
  BY <1>1, CacheOKStays DEF CacheInv
<1>3. GoroutinesOK' /\ hpc' = [hpc EXCEPT ![h] = l]
  BY <1>1, HandlerMoves DEF CacheInv
<1>4. CountersAddUp'
  BY <1>1, <1>3, CountersStay DEF CacheInv
<1>5. PrefetchFlagOwned'
  BY <1>1, <1>2, OwnersStay DEF CacheInv
<1> QED BY <1>2, <1>3, <1>4, <1>5 DEF CacheInv

LEMMA ExchangeAnswersKeeps ==
    ASSUME CacheInv, NEW h \in Handlers, ExchangeAnswers(h)
    PROVE  CacheInv'
<1>1. /\ hpc[h] = "exchange" /\ Goto(h, "idle")
      /\ now' = now /\ ppc' = ppc /\ pq' = pq /\ stats' = stats /\ stats \in [Counters -> Nat]
  BY DEF ExchangeAnswers, prefetchVars, CacheInv, GoroutinesOK
<1>2. /\ hq[h] \in Queries /\ RoutedTo[hq[h]] \in Upstreams
      /\ Key(h) = buildCacheKey(hq[h], RoutedTo[hq[h]])
  BY <1>1, KeyIsBuilt DEF CacheInv
<1>3. PICK r \in Responses(RoutedTo[hq[h]], hq[h]) : Set(Key(h), r)
  BY DEF ExchangeAnswers
<1>4. CacheOK /\ now \in Nat
  BY DEF CacheInv, GoroutinesOK
<1>5. CacheOK' /\ NoNewMarks
  BY <1>2, <1>3, <1>4, SetKeeps
<1>6. GoroutinesOK' /\ hpc' = [hpc EXCEPT ![h] = "idle"]
  BY <1>1, HandlerMoves DEF CacheInv
<1>7. CountersAddUp'
  BY <1>1, <1>6, CountersStay DEF CacheInv
<1>8. PrefetchFlagOwned'
  BY <1>1, <1>5, OwnersStay DEF CacheInv
<1> QED BY <1>5, <1>6, <1>7, <1>8 DEF CacheInv

\* The record an update writes is an entry again, with the same answer.
LEMMA EntryMarked ==
    ASSUME NEW e \in Entry, NEW b \in BOOLEAN, NEW f \in Nat, NEW g \in Nat
    PROVE  LET m == [e EXCEPT !.prefetching = b, !.fails = f, !.failedAt = g]
           IN  m \in Entry /\ m.resp = e.resp /\ m.prefetching = b
<1> DEFINE R == UNION {Responses(u, q) : u \in Upstreams, q \in Queries}
<1>1. e \in [resp : R, at : Nat, expires : Nat, prefetching : BOOLEAN, fails : Nat, failedAt : Nat]
  BY DEF Entry
<1> HIDE DEF R
<1>2. LET m == [e EXCEPT !.prefetching = b, !.fails = f, !.failedAt = g]
      IN  /\ m \in [resp : R, at : Nat, expires : Nat, prefetching : BOOLEAN, fails : Nat, failedAt : Nat]
          /\ m.resp = e.resp /\ m.prefetching = b
  BY <1>1
<1> QED BY <1>2 DEF Entry, R

LEMMA EntryFlagged ==
    ASSUME NEW e \in Entry, NEW b \in BOOLEAN
    PROVE  LET m == [e EXCEPT !.prefetching = b] IN m \in Entry /\ m.resp = e.resp /\ m.prefetching = b
BY DEF Entry

LEMMA EntryCleared ==
    ASSUME NEW e \in Entry, NEW b \in BOOLEAN, NEW f \in Nat
    PROVE  LET m == [e EXCEPT !.prefetching = b, !.fails = f]
           IN  m \in Entry /\ m.resp = e.resp /\ m.prefetching = b
<1> DEFINE R == UNION {Responses(u, q) : u \in Upstreams, q \in Queries}
<1>1. e \in [resp : R, at : Nat, expires : Nat, prefetching : BOOLEAN, fails : Nat, failedAt : Nat]
  BY DEF Entry
<1> HIDE DEF R
<1>2. LET m == [e EXCEPT !.prefetching = b, !.fails = f]
      IN  /\ m \in [resp : R, at : Nat, expires : Nat, prefetching : BOOLEAN, fails : Nat, failedAt : Nat]
          /\ m.resp = e.resp /\ m.prefetching = b
  BY <1>1
<1> QED BY <1>2 DEF Entry, R

LEMMA StartPrefetchKeeps ==
    ASSUME CacheInv, NEW h \in Handlers, NEW p \in Prefetchers, StartPrefetch(h, p)
    PROVE  CacheInv'
<1> DEFINE k == Key(h)
           e == [entries[k] EXCEPT !.prefetching = TRUE]
<1>1. /\ hpc[h] = "flag" /\ ppc[p] = "idle" /\ Update(k, e)
      /\ ppc' = [ppc EXCEPT ![p] = "exchange"] /\ pq' = [pq EXCEPT ![p] = hq[h]]
      /\ hpc' = [hpc EXCEPT ![h] = "idle"] /\ hq' = hq /\ now' = now /\ stats' = stats
  BY DEF StartPrefetch, SetPrefetching, Goto
<1>2. /\ hq[h] \in Queries /\ RoutedTo[hq[h]] \in Upstreams
      /\ Key(h) = buildCacheKey(hq[h], RoutedTo[hq[h]])
  BY <1>1, KeyIsBuilt DEF CacheInv
<1>3. k \in DOMAIN entries => e \in Entry /\ e.resp = entries[k].resp
  <2> SUFFICES ASSUME k \in DOMAIN entries PROVE e \in Entry /\ e.resp = entries[k].resp
    OBVIOUS
  <2>1. entries[k] \in Entry
    BY DEF CacheInv, CacheOK
  <2> QED BY <2>1, EntryFlagged
<1> HIDE DEF k, e
<1>4. /\ CacheOK' /\ DOMAIN entries' = DOMAIN entries
      /\ \A x \in DOMAIN entries : entries'[x] = IF x = k THEN e ELSE entries[x]
  BY <1>1, <1>3, UpdateKeeps DEF CacheInv
<1>5. GoroutinesOK'
  BY <1>1, <1>2 DEF CacheInv, GoroutinesOK
<1>6. CountersAddUp'
  BY <1>1, CountersStay DEF CacheInv
<1>7. PrefetchFlagOwned'
  <2> SUFFICES ASSUME NEW x \in DOMAIN entries', entries'[x].prefetching
               PROVE  \E o \in Prefetchers : ppc'[o] # "idle" /\ PrefetchKey(o)' = x
    BY DEF PrefetchFlagOwned
  <2>1. CASE x = k
    <3>1. ppc'[p] = "exchange" /\ pq'[p] = hq[h]
      BY <1>1 DEF CacheInv, GoroutinesOK
    <3>2. PrefetchKey(p)' = x
      BY <2>1, <3>1, <1>2 DEF PrefetchKey, k
    <3> QED BY <3>1, <3>2
  <2>2. CASE x # k
    <3>1. x \in DOMAIN entries /\ entries[x].prefetching
      BY <2>2, <1>4
    <3>2. PICK o \in Prefetchers : ppc[o] # "idle" /\ PrefetchKey(o) = x
      BY <3>1 DEF CacheInv, PrefetchFlagOwned
    <3>3. o # p
      BY <3>2, <1>1
    <3>4. ppc'[o] = ppc[o] /\ pq'[o] = pq[o]
      BY <3>3, <1>1 DEF CacheInv, GoroutinesOK
    <3> QED BY <3>2, <3>4 DEF PrefetchKey
  <2> QED BY <2>1, <2>2
<1> QED BY <1>4, <1>5, <1>6, <1>7 DEF CacheInv

\* A prefetch goroutine goes on to l.
LEMMA PrefetcherMoves ==
    ASSUME GoroutinesOK, NEW p \in Prefetchers, NEW l \in {"idle", "done"}, ppc[p] # "idle",
           ppc' = [ppc EXCEPT ![p] = l], pq' = pq, hpc' = hpc, hq' = hq, now' = now, stats' = stats
    PROVE  GoroutinesOK'
BY DEF GoroutinesOK

LEMMA CountersSame == CountersAddUp /\ hpc' = hpc /\ stats' = stats => CountersAddUp'
BY DEF CountersAddUp

LEMMA PrefetchEnds ==
    ASSUME CacheInv, NEW p \in Prefetchers, NEW e, ppc[p] # "idle", Update(PrefetchKey(p), e),
           PrefetchKey(p) \in DOMAIN entries =>
               e \in Entry /\ e.resp = entries[PrefetchKey(p)].resp /\ e.prefetching = FALSE,
           ppc' = [ppc EXCEPT ![p] = "idle"], UNCHANGED <<now, handlerVars, pq, stats>>
    PROVE  CacheInv'
<1> DEFINE k == PrefetchKey(p)
<1>1. now' = now /\ hpc' = hpc /\ hq' = hq /\ pq' = pq /\ stats' = stats
  BY DEF handlerVars
<1>2. /\ CacheOK' /\ DOMAIN entries' = DOMAIN entries
      /\ \A x \in DOMAIN entries : entries'[x] = IF x = k THEN e ELSE entries[x]
  <2>1. Update(k, e) /\ (k \in DOMAIN entries => e \in Entry /\ e.resp = entries[k].resp)
    BY DEF k
  <2>2. CacheOK
    BY DEF CacheInv
  <2> HIDE DEF k
  <2> QED BY <2>1, <2>2, UpdateKeeps
<1> HIDE DEF k
<1>3. GoroutinesOK'
  BY <1>1, PrefetcherMoves DEF CacheInv
<1>4. NoNewMarks /\ (k \notin DOMAIN entries' \/ ~entries'[k].prefetching)
  BY <1>2 DEF NoNewMarks, k
<1>5. PrefetchFlagOwned'
  BY <1>1, <1>4, OwnerEnds DEF CacheInv, k
<1> QED BY <1>1, <1>2, <1>3, <1>5, CountersSame DEF CacheInv

LEMMA PrefetchFailsKeeps ==
    ASSUME CacheInv, NEW p \in Prefetchers, PrefetchFails(p)
    PROVE  CacheInv'
<1> DEFINE k == PrefetchKey(p)
           e == [entries[k] EXCEPT !.prefetching = FALSE, !.fails = @ + 1, !.failedAt = now]
<1>1. /\ ppc[p] # "idle" /\ Update(k, e)
      /\ ppc' = [ppc EXCEPT ![p] = "idle"] /\ UNCHANGED <<now, handlerVars, pq, stats>>
  BY DEF PrefetchFails, RecordPrefetchFailure
<1>2. k \in DOMAIN entries => e \in Entry /\ e.resp = entries[k].resp /\ e.prefetching = FALSE
  <2> SUFFICES ASSUME k \in DOMAIN entries
               PROVE  e \in Entry /\ e.resp = entries[k].resp /\ e.prefetching = FALSE
    OBVIOUS
  <2>1. entries[k] \in Entry /\ now \in Nat
    BY DEF CacheInv, CacheOK, GoroutinesOK
  <2>2. entries[k].fails + 1 \in Nat
    BY <2>1, EntryFields, SMTT(30)
  <2>3. e = [entries[k] EXCEPT !.prefetching = FALSE, !.fails = entries[k].fails + 1, !.failedAt = now]
    BY <2>1 DEF Entry
  <2> DEFINE f == entries[k].fails + 1
             m == [entries[k] EXCEPT !.prefetching = FALSE, !.fails = f, !.failedAt = now]
  <2>4. f \in Nat /\ FALSE \in BOOLEAN /\ e = m
    BY <2>2, <2>3
  <2> HIDE DEF e, k, f
  <2>5. m \in Entry /\ m.resp = entries[k].resp /\ m.prefetching = FALSE
    BY <2>1, <2>4, EntryMarked
  <2> HIDE DEF m
  <2> QED BY <2>4, <2>5
<1> HIDE DEF e
<1> QED BY <1>1, <1>2, PrefetchEnds

LEMMA PrefetchSucceedsKeeps ==
    ASSUME CacheInv, NEW p \in Prefetchers, PrefetchSucceeds(p)
    PROVE  CacheInv'
<1> DEFINE k == PrefetchKey(p)
           e == [entries[k] EXCEPT !.prefetching = FALSE, !.fails = 0]
<1>1. /\ ppc[p] # "idle" /\ Update(k, e)
      /\ ppc' = [ppc EXCEPT ![p] = "idle"] /\ UNCHANGED <<now, handlerVars, pq, stats>>
  BY DEF PrefetchSucceeds, RecordPrefetchSuccess
<1>2. k \in DOMAIN entries => e \in Entry /\ e.resp = entries[k].resp /\ e.prefetching = FALSE
  <2> SUFFICES ASSUME k \in DOMAIN entries
               PROVE  e \in Entry /\ e.resp = entries[k].resp /\ e.prefetching = FALSE
    OBVIOUS
  <2>1. entries[k] \in Entry
    BY DEF CacheInv, CacheOK
  <2> QED BY <2>1, EntryCleared
<1> HIDE DEF e
<1> QED BY <1>1, <1>2, PrefetchEnds

LEMMA PrefetchAnswersKeeps ==
    ASSUME CacheInv, NEW p \in Prefetchers, PrefetchAnswers(p)
    PROVE  CacheInv'
<1>1. /\ ppc[p] = "exchange" /\ ppc' = [ppc EXCEPT ![p] = "done"]
      /\ now' = now /\ hpc' = hpc /\ hq' = hq /\ pq' = pq /\ stats' = stats
  BY DEF PrefetchAnswers, handlerVars
<1>2. /\ pq[p] \in Queries /\ RoutedTo[pq[p]] \in Upstreams
      /\ PrefetchKey(p) = buildCacheKey(pq[p], RoutedTo[pq[p]])
  BY <1>1 DEF CacheInv, GoroutinesOK, PrefetchKey
<1>3. PICK r \in Responses(RoutedTo[pq[p]], pq[p]) : Set(PrefetchKey(p), r)
  BY DEF PrefetchAnswers
<1>4. CacheOK /\ now \in Nat
  BY DEF CacheInv, GoroutinesOK
<1>5. CacheOK' /\ NoNewMarks
  BY <1>2, <1>3, <1>4, SetKeeps
<1>6. GoroutinesOK'
  BY <1>1, PrefetcherMoves DEF CacheInv
<1>7. PrefetchFlagOwned'
  BY <1>1, <1>5, OwnerEnds DEF CacheInv
<1> QED BY <1>1, <1>5, <1>6, <1>7, CountersSame DEF CacheInv

LEMMA CacheTickKeeps ==
    ASSUME CacheInv, Tick
    PROVE  CacheInv'
<1>1. /\ now' = now + 1 /\ entries' = entries /\ lru' = lru /\ hpc' = hpc /\ hq' = hq
      /\ ppc' = ppc /\ pq' = pq /\ stats' = stats
  BY DEF Tick, cacheVars, handlerVars, prefetchVars
<1>2. GoroutinesOK'
  BY <1>1, SMTT(30) DEF CacheInv, GoroutinesOK
<1> QED BY <1>1, <1>2, CacheOKStays, OwnersStay, CountersSame DEF CacheInv

LEMMA CacheStep == CacheInv /\ [CacheNext]_cacheUnitVars => CacheInv'
<1> SUFFICES ASSUME CacheInv, [CacheNext]_cacheUnitVars PROVE CacheInv'
  OBVIOUS
<1>1. ASSUME NEW h \in Handlers, NEW q \in Queries, HandleQuery(h, q) PROVE CacheInv'
  BY <1>1, HandleQueryKeeps
<1>2. ASSUME NEW h \in Handlers, BypassAnswered(h) \/ CheckPrefetch(h) \/ ExchangeFails(h) PROVE CacheInv'
  <2>1. CASE BypassAnswered(h)
    BY <2>1, CacheUntouched DEF BypassAnswered
  <2>2. CASE CheckPrefetch(h)
    BY <2>2, CacheUntouched DEF CheckPrefetch
  <2>3. CASE ExchangeFails(h)
    BY <2>3, CacheUntouched DEF ExchangeFails
  <2> QED BY <1>2, <2>1, <2>2, <2>3
<1>3. ASSUME NEW h \in Handlers, GetHit(h) PROVE CacheInv'
  BY <1>3, GetHitKeeps
<1>4. ASSUME NEW h \in Handlers, GetMiss(h) PROVE CacheInv'
  BY <1>4, GetMissKeeps
<1>5. ASSUME NEW h \in Handlers, NEW p \in Prefetchers, StartPrefetch(h, p) PROVE CacheInv'
  BY <1>5, StartPrefetchKeeps
<1>6. ASSUME NEW h \in Handlers, ExchangeAnswers(h) PROVE CacheInv'
  BY <1>6, ExchangeAnswersKeeps
<1>7. ASSUME NEW p \in Prefetchers, PrefetchStep(p) PROVE CacheInv'
  BY <1>7, PrefetchFailsKeeps, PrefetchAnswersKeeps, PrefetchSucceedsKeeps DEF PrefetchStep
<1>8. CASE Tick
  BY <1>8, CacheTickKeeps
<1>9. CASE UNCHANGED cacheUnitVars
  <2>1. /\ now' = now /\ entries' = entries /\ lru' = lru /\ hpc' = hpc /\ hq' = hq
        /\ ppc' = ppc /\ pq' = pq /\ stats' = stats
    BY <1>9 DEF cacheUnitVars
  <2>2. GoroutinesOK'
    BY <2>1 DEF CacheInv, GoroutinesOK
  <2> QED BY <2>1, <2>2, CacheOKStays, OwnersStay, CountersSame DEF CacheInv
<1> QED BY <1>1, <1>2, <1>3, <1>4, <1>5, <1>6, <1>7, <1>8, <1>9 DEF CacheNext, HandlerStep

LEMMA CacheInitInv == CacheInit => CacheInv
<1> SUFFICES ASSUME CacheInit PROVE CacheInv
  OBVIOUS
<1>1. DOMAIN entries = {} /\ entries = [k \in {} |-> 0] /\ lru = <<>>
  BY DEF CacheInit
<1>2. CacheOK
  <2>1. DOMAIN entries \subseteq CacheKeys /\ entries \in [DOMAIN entries -> Entry]
    BY <1>1
  <2>2. lru \in Seq(CacheKeys) /\ Len(lru) = 0
    BY <1>1
  <2>3. 1..Len(lru) = {}
    BY <2>2
  <2>4. Distinct(lru)
    BY <2>3 DEF Distinct
  <2>5. Members(lru) = DOMAIN entries
    BY <1>1, <2>3 DEF Members
  <2>6. Len(lru) <= MaxSize
    BY <2>2, CacheAssumption
  <2>7. AnswersFromOwnChannel
    BY <1>1 DEF AnswersFromOwnChannel
  <2> QED BY <2>1, <2>2, <2>4, <2>5, <2>6, <2>7 DEF CacheOK
<1>3. (CHOOSE q \in Queries : TRUE) \in Queries
  BY CacheAssumption
<1>4. GoroutinesOK
  BY <1>3 DEF CacheInit, GoroutinesOK
<1>5. PrefetchFlagOwned
  BY <1>1 DEF PrefetchFlagOwned
<1>6. CountersAddUp
  <2>1. {h \in Handlers : hpc[h] = "lookup"} = {}
    BY DEF CacheInit
  <2>2. \A c \in Counters : stats[c] = 0
    BY DEF CacheInit
  <2>3. {"total", "rejected", "bypassed", "hits", "misses", "stub"} = Counters
    BY DEF Counters
  <2> QED BY <2>1, <2>2, <2>3, FS_EmptySet DEF CountersAddUp
<1> QED BY <1>2, <1>4, <1>5, <1>6 DEF CacheInv

LEMMA CacheInvSafe == CacheInv => CacheSafe
<1> SUFFICES ASSUME CacheInv PROVE CacheSafe
  OBVIOUS
<1>1. CacheTypeOK
  BY DEF CacheInv, CacheOK, GoroutinesOK, CacheTypeOK
<1>2. ListMatchesIndex
  BY DEF CacheInv, CacheOK, ListMatchesIndex, Members, Distinct
<1> QED BY <1>1, <1>2 DEF CacheInv, CacheOK, CacheSafe

\* However many handlers and prefetches share the cache, whatever its size and
\* policy: the LRU list and the index hold the same keys, each once and never
\* more than maxSize (cache.go Get, Set); every answer is kept under the server,
\* channel and name it came from (buildCacheKey); a mark has a prefetch that will
\* clear it; and every query is counted once (handler.go HandleQuery).
THEOREM CacheIsSafe == CacheSpec => []CacheSafe
<1>1. CacheInit => CacheInv
  BY CacheInitInv
<1>2. CacheInv /\ [CacheNext]_cacheUnitVars => CacheInv'
  BY CacheStep
<1>3. CacheInv => CacheSafe
  BY CacheInvSafe
<1> QED BY <1>1, <1>2, <1>3, PTL DEF CacheSpec
=============================================================================
