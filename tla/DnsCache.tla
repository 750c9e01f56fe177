------------------------------ MODULE DnsCache ------------------------------
(***************************************************************************)
(* The answer path of the core's DNS module: the goroutines that handle    *)
(* queries (handler.go), the cache they share (cache.go) with its LRU list *)
(* and TTL policy, and the goroutines that refresh entries before they     *)
(* expire (prefetchAsync).                                                 *)
(*                                                                         *)
(* Every method of the cache is one critical section of c.mu, so it is one *)
(* action; what a handler does between two of them is a program point.  An *)
(* exchange with an upstream (upstream_stub.go, DnsExchange) is a choice   *)
(* of its outcomes.  Time is a clock in seconds that moves at any moment.  *)
(***************************************************************************)
EXTENDS Integers, Sequences, FiniteSets, ListCut

CONSTANTS
    Queries,        \* the queries that arrive
    Upstreams,      \* the upstream instances of the manager
    NoUpstream,     \* no instance was found
    NameOf,         \* query -> the name and type asked
    Action,         \* query -> "route", "reject" or "bypass": what Route returns
    RoutedTo,       \* query -> the instance the handler picks, or NoUpstream
    AddrOf, TagOf,      \* of an instance
    Handlers,       \* slots of query goroutines
    Prefetchers,    \* slots of prefetchAsync goroutines
    TTLs,           \* the TTLs an upstream may answer with
    MaxSize, MinTTL, MaxTTL, Threshold,     \* CacheConfig
    Prefetch, NegativeCache,
    NegativeTTL,    \* negativeTTL of the negative rcode
    Backoff,        \* number of failures -> prefetchBackoff
    MaxClock, MaxQueries                    \* bounds

ASSUME CacheAssumption ==
    /\ Queries # {} /\ IsFiniteSet(Handlers)
    /\ NameOf \in [Queries -> STRING]
    /\ Action \in [Queries -> {"route", "reject", "bypass"}]
    /\ RoutedTo \in [Queries -> Upstreams \cup {NoUpstream}]
    /\ NoUpstream \notin Upstreams
    /\ MaxSize \in Nat \ {0}
    /\ MinTTL \in Nat /\ MaxTTL \in Nat /\ NegativeTTL \in Nat
    /\ MinTTL <= MaxTTL /\ TTLs \subseteq Nat
    /\ Prefetch \in BOOLEAN /\ NegativeCache \in BOOLEAN

VARIABLES
    now,        \* the clock
    entries,    \* c.entries: the cached keys and their CacheEntry
    lru,        \* c.lruList, most recently used first
    hpc, hq,    \* where each handler is and the query it has
    ppc, pq,    \* where each prefetcher is and the query it refreshes
    stats       \* DnsStats and the counters of DnsMetrics that follow it

cacheVars == <<entries, lru>>
handlerVars == <<hpc, hq>>
prefetchVars == <<ppc, pq>>
cacheUnitVars == <<now, entries, lru, hpc, hq, ppc, pq, stats>>

Counters == {"total", "rejected", "bypassed", "hits", "misses", "stub"}

\* Mutant: the upstream's tag is left out of the key.
buildCacheKey_NoTag(q, u) ==
    <<AddrOf[u], TagOf[CHOOSE v \in Upstreams : AddrOf[v] = AddrOf[u]], NameOf[q]>>

\* buildCacheKey: who is asked, over which channel, for what
buildCacheKey(q, u) == <<AddrOf[u], TagOf[u], NameOf[q]>>
CacheKeys == {buildCacheKey(q, u) : q \in Queries, u \in Upstreams}

\* What an upstream says: success with a TTL, or a negative answer.
\* by and about stand for the records: who was asked, and for what.
Responses(u, q) ==
    {[ok |-> TRUE, ttl |-> t, by |-> u, about |-> NameOf[q]] : t \in TTLs}
      \cup {[ok |-> FALSE, ttl |-> 0, by |-> u, about |-> NameOf[q]]}

Bump(c) == stats' = [stats EXCEPT ![c] = @ + 1]
-----------------------------------------------------------------------------
(* cache.go *)

calculateEffectiveTTL(ttl) ==
    LET raised == IF ttl < MinTTL THEN MinTTL ELSE ttl
    IN  IF raised > MaxTTL THEN MaxTTL ELSE raised

computeEffectiveTTL(r) == IF r.ok THEN calculateEffectiveTTL(r.ttl) ELSE NegativeTTL

prefetchBackoff(n) == Backoff[IF n > 3 THEN 3 ELSE n]

\* removeElement, and the list operations of container/list
Without(s, k) ==
    IF \E i \in DOMAIN s : s[i] = k THEN CutAt(s, CHOOSE i \in DOMAIN s : s[i] = k) ELSE s
MoveToFront(k) == <<k>> \o Without(lru, k)
Drop(f, K) == [k \in DOMAIN f \ K |-> f[k]]

expired(k) == now > entries[k].expires

\* The entry Set leaves for an answer: a new one, or the old one with its
\* prefetch state reset (the failure count only by a success).
stored(k, r) ==
    [resp |-> r, at |-> now, expires |-> now + computeEffectiveTTL(r), prefetching |-> FALSE,
     fails |-> IF k \in DOMAIN entries /\ ~r.ok THEN entries[k].fails ELSE 0,
     failedAt |-> IF k \in DOMAIN entries THEN entries[k].failedAt ELSE 0]

\* Set: a negative answer is kept only when negative caching is on; a new
\* key beyond the capacity evicts the least recently used one
Set(k, r) ==
    IF ~r.ok /\ ~NegativeCache THEN UNCHANGED cacheVars
    ELSE LET list == MoveToFront(k)
             over == Len(list) > MaxSize
             back == list[Len(list)]
             all  == [x \in DOMAIN entries \cup {k} |-> IF x = k THEN stored(k, r) ELSE entries[x]]
         IN  /\ lru' = IF over THEN SubSeq(list, 1, Len(list) - 1) ELSE list
             /\ entries' = IF over THEN Drop(all, {back}) ELSE all

shouldPrefetch(k) ==
    LET e == entries[k]
        remaining == e.expires - now
    IN  /\ Prefetch
        /\ ~e.prefetching
        /\ e.fails < 3
        /\ ~(prefetchBackoff(e.fails) > 0 /\ now - e.failedAt < prefetchBackoff(e.fails))
        /\ \/ e.expires > e.at /\ 10 * remaining < e.expires - e.at
           \/ remaining < Threshold

ShouldPrefetch(k) == k \in DOMAIN entries /\ shouldPrefetch(k)

\* SetPrefetching, RecordPrefetchFailure and RecordPrefetchSuccess change an
\* entry that is still there
Update(k, e) ==
    /\ entries' = IF k \in DOMAIN entries THEN [entries EXCEPT ![k] = e] ELSE entries
    /\ lru' = lru
SetPrefetching(k) ==
    Update(k, [entries[k] EXCEPT !.prefetching = TRUE])

RecordPrefetchFailure(k) ==
    Update(k, [entries[k] EXCEPT !.prefetching = FALSE, !.fails = @ + 1, !.failedAt = now])
RecordPrefetchSuccess(k) ==
    Update(k, [entries[k] EXCEPT !.prefetching = FALSE, !.fails = 0])
-----------------------------------------------------------------------------
(* handler.go *)

Key(h) == buildCacheKey(hq[h], RoutedTo[hq[h]])
PrefetchKey(p) == buildCacheKey(pq[p], RoutedTo[pq[p]])
Goto(h, l) == hpc' = [hpc EXCEPT ![h] = l] /\ hq' = hq

\* HandleQuery up to the first access of the cache or of the network
HandleQuery(h, q) ==
    /\ hpc[h] = "idle"
    /\ stats["total"] < MaxQueries
    /\ LET stubbed == RoutedTo[q] = NoUpstream
       IN  /\ hpc' = [hpc EXCEPT ![h] =
                        CASE Action[q] = "reject"              -> "idle"
                          [] Action[q] = "bypass" /\ ~stubbed  -> "bypass"
                          [] Action[q] = "route" /\ ~stubbed   -> "lookup"
                          [] OTHER                             -> "idle"]
           /\ stats' = [stats EXCEPT !["total"] = @ + 1,
                          !["rejected"] = @ + (IF Action[q] = "reject" THEN 1 ELSE 0),
                          !["bypassed"] = @ + (IF Action[q] = "bypass" THEN 1 ELSE 0),
                          !["stub"] = @ + (IF Action[q] = "route" /\ stubbed THEN 1 ELSE 0)]
    /\ hq' = [hq EXCEPT ![h] = q]
    /\ UNCHANGED <<now, cacheVars, prefetchVars>>

\* handleBypass: one exchange, nothing is cached
BypassAnswered(h) ==
    /\ hpc[h] = "bypass"
    /\ Goto(h, "idle")
    /\ UNCHANGED <<now, cacheVars, prefetchVars, stats>>

\* Get: an expired entry is removed and is a miss
GetHit(h) ==
    /\ hpc[h] = "lookup"
    /\ Key(h) \in DOMAIN entries /\ ~expired(Key(h))
    /\ lru' = MoveToFront(Key(h))
    /\ Bump("hits")
    /\ Goto(h, "hit")
    /\ UNCHANGED <<now, entries, prefetchVars>>

GetMiss(h) ==
    /\ hpc[h] = "lookup"
    /\ Key(h) \in DOMAIN entries => expired(Key(h))
    /\ lru' = Without(lru, Key(h))
    /\ entries' = Drop(entries, {Key(h)})
    /\ Bump("misses")
    /\ Goto(h, "exchange")
    /\ UNCHANGED <<now, prefetchVars>>

\* The hit is answered; whether to refresh is decided under the read lock ...
CheckPrefetch(h) ==
    /\ hpc[h] = "hit"
    /\ Goto(h, IF ShouldPrefetch(Key(h)) THEN "flag" ELSE "idle")
    /\ UNCHANGED <<now, cacheVars, prefetchVars, stats>>

\* ... and the flag is set under the write lock, later
StartPrefetch(h, p) ==
    /\ hpc[h] = "flag"
    /\ ppc[p] = "idle"
    /\ SetPrefetching(Key(h))
    /\ ppc' = [ppc EXCEPT ![p] = "exchange"]
    /\ pq' = [pq EXCEPT ![p] = hq[h]]
    /\ Goto(h, "idle")
    /\ UNCHANGED <<now, stats>>

\* The exchange of a miss: an error is answered SERVFAIL, a nil response by
\* a stub; an answer is stored and returned
ExchangeFails(h) ==
    /\ hpc[h] = "exchange"
    /\ Goto(h, "idle")
    /\ UNCHANGED <<now, cacheVars, prefetchVars, stats>>

ExchangeAnswers(h) ==
    /\ hpc[h] = "exchange"
    /\ \E r \in Responses(RoutedTo[hq[h]], hq[h]) : Set(Key(h), r)
    /\ Goto(h, "idle")
    /\ UNCHANGED <<now, prefetchVars, stats>>

\* prefetchAsync
PrefetchFails(p) ==
    /\ ppc[p] = "exchange"
    /\ RecordPrefetchFailure(PrefetchKey(p))
    /\ ppc' = [ppc EXCEPT ![p] = "idle"]
    /\ UNCHANGED <<now, handlerVars, pq, stats>>

PrefetchAnswers(p) ==
    /\ ppc[p] = "exchange"
    /\ \E r \in Responses(RoutedTo[pq[p]], pq[p]) : Set(PrefetchKey(p), r)
    /\ ppc' = [ppc EXCEPT ![p] = "done"]
    /\ UNCHANGED <<now, handlerVars, pq, stats>>

PrefetchSucceeds(p) ==
    /\ ppc[p] = "done"
    /\ RecordPrefetchSuccess(PrefetchKey(p))
    /\ ppc' = [ppc EXCEPT ![p] = "idle"]
    /\ UNCHANGED <<now, handlerVars, pq, stats>>

Tick ==
    /\ now < MaxClock
    /\ now' = now + 1
    /\ UNCHANGED <<cacheVars, handlerVars, prefetchVars, stats>>
-----------------------------------------------------------------------------
CacheInit ==
    /\ now = 0
    /\ entries = [k \in {} |-> 0]
    /\ lru = <<>>
    /\ hpc = [h \in Handlers |-> "idle"]
    /\ hq = [h \in Handlers |-> CHOOSE q \in Queries : TRUE]
    /\ ppc = [p \in Prefetchers |-> "idle"]
    /\ pq = [p \in Prefetchers |-> CHOOSE q \in Queries : TRUE]
    /\ stats = [c \in Counters |-> 0]

HandlerStep(h) ==
    \/ BypassAnswered(h) \/ GetHit(h) \/ GetMiss(h) \/ CheckPrefetch(h)
    \/ \E p \in Prefetchers : StartPrefetch(h, p)
    \/ ExchangeFails(h) \/ ExchangeAnswers(h)
PrefetchStep(p) == PrefetchFails(p) \/ PrefetchAnswers(p) \/ PrefetchSucceeds(p)

CacheNext ==
    \/ \E h \in Handlers, q \in Queries : HandleQuery(h, q)
    \/ \E h \in Handlers : HandlerStep(h)
    \/ \E p \in Prefetchers : PrefetchStep(p)
    \/ Tick

CacheSpec == CacheInit /\ [][CacheNext]_cacheUnitVars
-----------------------------------------------------------------------------
Entry ==
    [resp : UNION {Responses(u, q) : u \in Upstreams, q \in Queries}, at : Nat, expires : Nat,
     prefetching : BOOLEAN, fails : Nat, failedAt : Nat]

(* Every variable keeps the type the code gives it.                         *)
CacheTypeOK ==
    /\ now \in Nat
    /\ DOMAIN entries \subseteq CacheKeys
    /\ \A k \in DOMAIN entries : entries[k] \in Entry
    /\ lru \in Seq(CacheKeys)
    /\ hpc \in [Handlers -> {"idle", "bypass", "lookup", "hit", "flag", "exchange"}]
    /\ hq \in [Handlers -> Queries]
    /\ ppc \in [Prefetchers -> {"idle", "exchange", "done"}]
    /\ pq \in [Prefetchers -> Queries]
    /\ \A h \in Handlers : hpc[h] # "idle" => RoutedTo[hq[h]] \in Upstreams
    /\ \A p \in Prefetchers : ppc[p] # "idle" => RoutedTo[pq[p]] \in Upstreams
    /\ stats \in [Counters -> Nat]

(* The index and the LRU list of the cache hold the same keys, each once,  *)
(* and never more than maxSize of them, through every Get, Set, expiry and  *)
(* eviction of concurrent handlers (cache.go Get, Set, removeElement).      *)
ListMatchesIndex ==
    /\ {lru[i] : i \in 1..Len(lru)} = DOMAIN entries
    /\ \A i, j \in 1..Len(lru) : lru[i] = lru[j] => i = j
    /\ Len(lru) <= MaxSize

(* A cached answer came from the server and over the channel its key names, *)
(* and is about the name its key names: what was learnt over one channel is *)
(* never served to a query routed over another (buildCacheKey).            *)
AnswersFromOwnChannel ==
    \A k \in DOMAIN entries :
        LET r == entries[k].resp IN k = <<AddrOf[r.by], TagOf[r.by], r.about>>

(* An entry marked as being refreshed has a prefetchAsync running that will *)
(* clear the mark, in Set or, where Set keeps no negative answer, after it; *)
(* otherwise the entry would never be refreshed again (SetPrefetching,      *)
(* RecordPrefetchFailure, RecordPrefetchSuccess, Set).                      *)
PrefetchFlagOwned ==
    \A k \in DOMAIN entries :
        entries[k].prefetching => \E p \in Prefetchers : ppc[p] # "idle" /\ PrefetchKey(p) = k

(* Every query HandleQuery counted is counted once more, as rejected,       *)
(* bypassed, hit or miss, or is a stub or still before its lookup.          *)
CountersAddUp ==
    stats["total"] = stats["rejected"] + stats["bypassed"] + stats["hits"] + stats["misses"]
                       + stats["stub"] + Cardinality({h \in Handlers : hpc[h] = "lookup"})

(* The cache under concurrent handlers and prefetches: list and index agree, *)
(* answers stay with their channel, marks have an owner, and every query is  *)
(* counted once.                                                             *)
CacheSafe ==
    CacheTypeOK /\ ListMatchesIndex /\ AnswersFromOwnChannel /\ PrefetchFlagOwned /\ CountersAddUp

(* shouldPrefetch says of an entry whose mark is set "already prefetching,  *)
(* avoid the repetition" (cache.go:379): one key has one prefetch at a time.*)
OnePrefetchPerKey ==
    \A p1, p2 \in Prefetchers :
        ppc[p1] = "exchange" /\ ppc[p2] = "exchange" /\ PrefetchKey(p1) = PrefetchKey(p2) => p1 = p2
=============================================================================
