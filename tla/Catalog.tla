------------------------------ MODULE Catalog ------------------------------
(***************************************************************************)
(* The stored servers and subscriptions, and the groups whose members are   *)
(* references into them by position (db/configure/which.go, configure.go,   *)
(* db/listOp.go).  Every handler runs under the mutation turn and is one    *)
(* step: connecting, disconnecting, replacing a group, deleting, importing, *)
(* updating a subscription, editing groups (server/service/*.go,            *)
(* server/controller/outbound.go).  A reload of the core is refused, fails  *)
(* to start, or takes over the selection the store then names.              *)
(***************************************************************************)
EXTENDS Integers, Sequences, SequencesExt, FiniteSets

CONSTANTS Nodes,        \* [link, proto, host, name, ok]: ok when serverObj parses the stored row
          Feeds,        \* what a subscription address may answer: sequences of nodes
          FirstCatalog, \* the catalogs the service may find at start
          MaxServers, MaxSubs, MaxSubLen, MaxMembers, MaxRequests,
          FreshPages,   \* requests name only entries that still exist
          NoNode

VARIABLES ctcat,    \* [servers, subs, names, refs, set]
          ctrun, ctcore, cterr,
          ctasked, ctreq  \* the requests so far, and the last one
catalogVars == <<ctcat, ctrun, ctcore, cterr, ctasked, ctreq>>
-----------------------------------------------------------------------------
CtGroups == {"proxy", "work"}
Ref(type, sub, id) == [type |-> type, sub |-> sub, id |-> id]
Refs == {Ref("server", 0, i) : i \in 1..MaxServers} \union {Ref("subscriptionServer", s, i) : s \in 1..MaxSubs, i \in 1..MaxSubLen}
NoCore == [g \in CtGroups |-> {}]
DefaultOutboundSetting == [auto |-> FALSE, keep |-> FALSE, selected |-> "", sticky |-> ""]

(* Rows that no longer parse are left out of what the handlers read *)
GetServers(c) == SelectSeq(c.servers, LAMBDA n : n.ok)
GetSubscriptions(c) == SelectSeq(c.subs, LAMBDA s : \A i \in DOMAIN s : s[i].ok)
Locate(c, r) ==
    LET rows == IF r.type = "server" THEN GetServers(c)
                ELSE IF r.sub \in DOMAIN GetSubscriptions(c) THEN GetSubscriptions(c)[r.sub] ELSE <<>>
    IN  IF r.id \in DOMAIN rows THEN rows[r.id] ELSE NoNode
Located(c) == {r \in Refs : Locate(c, r) # NoNode}
Requested == IF FreshPages THEN Located(ctcat) ELSE Refs
MemberLinks(c, g) == [i \in DOMAIN c.refs[g] |-> Locate(c, c.refs[g][i]).link]
AllLocated(c) == \A g \in c.names : ToSet(c.refs[g]) \subseteq Located(c)

(* getConnectedServerObjs and applySelection: what each group routes through *)
applySelection(c) ==
    [g \in CtGroups |->
        LET links == IF g \in c.names THEN ToSet(MemberLinks(c, g)) ELSE {}
            s == c.set[g]
        IN  IF s.selected \in links THEN {s.selected}
            ELSE IF s.keep THEN links \intersect {s.sticky} ELSE links]
HasFailClosedGroup(c) == \E g \in c.names : c.set[g].auto \/ c.set[g].keep

(* updateV2RayConfig: the possible outcomes of handing the store to the core *)
Outcome(run, core, ok) == [run |-> run, core |-> core, ok |-> ok]
UpdateV2RayConfig(c, run, core) ==
    IF ~AllLocated(c) THEN {Outcome(run, core, FALSE)}
    ELSE IF (\A g \in c.names : c.refs[g] = <<>>) /\ ~HasFailClosedGroup(c) THEN {Outcome(FALSE, NoCore, TRUE)}
    ELSE {Outcome(TRUE, applySelection(c), TRUE), Outcome(run, core, FALSE), Outcome(FALSE, NoCore, FALSE)}
Becomes(c, o, err) == ctcat' = c /\ ctrun' = o.run /\ ctcore' = o.core /\ cterr' = (err /\ o.run)
Keeps(c) == ctcat' = c /\ UNCHANGED <<ctrun, ctcore, cterr>>
\* The old store, and the core told again: nothing is owed to the user
PutBack(o) == \E p \in UpdateV2RayConfig(ctcat, o.run, o.core) : Becomes(ctcat, p, cterr /\ ~p.ok)

ApplyGroupConfig(c) ==
    IF ~ctrun THEN Keeps(c)
    ELSE \E o \in UpdateV2RayConfig(c, ctrun, ctcore) : IF o.ok THEN Becomes(c, o, FALSE) ELSE PutBack(o)
\* DeleteWhich and ImportServer report the failure and leave the store
ApplyOnly(c) == \E o \in UpdateV2RayConfig(c, ctrun, ctcore) : Becomes(c, o, ~o.ok)
-----------------------------------------------------------------------------
(* connect.go *)
Manual(g) == g \in ctcat.names /\ ~ctcat.set[g].auto
StartV2ray == /\ (\E g \in ctcat.names : ctcat.refs[g] # <<>>) \/ HasFailClosedGroup(ctcat)
              /\ ApplyOnly(ctcat)
StopV2ray == ctrun /\ Becomes(ctcat, Outcome(FALSE, NoCore, TRUE), FALSE)
Connect(g, r) ==
    LET c == [ctcat EXCEPT !.refs[g] = IF r \in ToSet(@) THEN @ ELSE Append(@, r)]
    IN  /\ Manual(g) /\ Locate(ctcat, r) # NoNode
        /\ Len(c.refs[g]) <= MaxMembers
        /\ \E o \in UpdateV2RayConfig(c, ctrun, ctcore) :
              IF o.ok THEN Becomes(c, o, FALSE)
              ELSE IF o.run THEN PutBack(o) ELSE Becomes(ctcat, o, FALSE)
\* The members are put back only when the core survived the failed update
Disconnected(c) ==
    IF ~ctrun THEN Keeps(c)
    ELSE \E o \in UpdateV2RayConfig(c, ctrun, ctcore) :
            IF o.ok \/ ~o.run THEN Becomes(c, o, FALSE) ELSE PutBack(o)
Disconnect(g, r) ==
    /\ Manual(g) /\ r \in ToSet(ctcat.refs[g])
    /\ Disconnected([ctcat EXCEPT !.refs[g] = RemoveFirst(@, r)])
replaceOutboundConnections(g, rs, managed) ==
    /\ g \in ctcat.names /\ ctcat.set[g].auto = managed
    /\ ApplyGroupConfig([ctcat EXCEPT !.refs[g] = rs])

(* controller/outbound.go *)
PutOutboundConnections(g, rs) == replaceOutboundConnections(g, rs, FALSE)
PostOutbound(g) == g \notin ctcat.names /\ Keeps([ctcat EXCEPT !.names = @ \union {g}, !.set[g] = DefaultOutboundSetting])
initialStickyCurrent(g) ==
    IF ctcat.set[g].selected # "" THEN ctcat.set[g].selected
    ELSE LET found == SelectSeq(ctcat.refs[g], LAMBDA r : Locate(ctcat, r) # NoNode)
         IN  IF found = <<>> THEN "" ELSE Locate(ctcat, found[1]).link
PutOutbound(g, auto, keep) ==
    LET sticky == IF ~keep THEN "" ELSE IF ctcat.set[g].keep THEN ctcat.set[g].sticky ELSE initialStickyCurrent(g)
    IN  /\ g \in ctcat.names
        /\ ApplyGroupConfig([ctcat EXCEPT !.set[g] = [@ EXCEPT !.auto = auto, !.keep = keep, !.sticky = sticky]])
PutOutboundSelection(g, r) ==
    /\ g \in ctcat.names /\ r \in ToSet(ctcat.refs[g]) /\ Locate(ctcat, r) # NoNode
    /\ ApplyGroupConfig([ctcat EXCEPT !.set[g].selected = Locate(ctcat, r).link])
ClearSelection(g) == g \in ctcat.names /\ ApplyGroupConfig([ctcat EXCEPT !.set[g].selected = ""])
\* The members are disconnected first; a core that did not survive keeps the group, emptied
DeleteOutbound(g) ==
    LET emptied == [ctcat EXCEPT !.refs[g] = <<>>]
        removed == [emptied EXCEPT !.names = @ \ {g}, !.set[g] = DefaultOutboundSetting]
    IN  /\ g \in ctcat.names \ {"proxy"}
        /\ \/ (~ctrun \/ ctcat.refs[g] = <<>>) /\ Keeps(removed)
           \/ ctrun /\ \E o \in UpdateV2RayConfig([emptied EXCEPT !.set[g].auto = FALSE], ctrun, ctcore) :
                   IF o.ok THEN Becomes(removed, o, FALSE)
                   ELSE IF o.run THEN PutBack(o) ELSE Becomes(emptied, o, FALSE)
\* The worker pins KeepCurrent's member and rewrites an automatic group (automation.go)
StickyMoves(g, r) ==
    /\ g \in ctcat.names /\ ctcat.set[g].keep /\ r \in ToSet(ctcat.refs[g]) /\ Locate(ctcat, r) # NoNode
    /\ ApplyGroupConfig([ctcat EXCEPT !.set[g].sticky = Locate(ctcat, r).link])
-----------------------------------------------------------------------------
(* touch.go: one deleted row at a time, the larger positions first *)
Renumbered(refs, type, k) ==
    LET at(r) == IF type = "server" THEN r.type = "server" /\ r.id = k ELSE r.type # "server" /\ r.sub = k
        kept == SelectSeq(refs, LAMBDA r : ~at(r))
        down(r) == IF type = "server" THEN IF r.type = "server" /\ r.id > k THEN [r EXCEPT !.id = @ - 1] ELSE r
                   ELSE IF r.type # "server" /\ r.sub > k THEN [r EXCEPT !.sub = @ - 1] ELSE r
    IN  [i \in DOMAIN kept |-> down(kept[i])]

\* Mutant: the smaller positions are deleted first.
SortSameTypeReverse_Ascending(ks) == SetToSortSeq(ks, <)

SortSameTypeReverse(ks) == SetToSortSeq(ks, >)
WithoutRows(refs, type, ks) == FoldLeft(LAMBDA rs, k : Renumbered(rs, type, k), refs, SortSameTypeReverse(ks))
\* RemoveTx: rows by ordinal, then the ordinals close up
RemoveRows(rows, ks) == LET left == SetToSortSeq(DOMAIN rows \ ks, <) IN [i \in DOMAIN left |-> rows[left[i]]]
DeleteWhich(servers, subs) ==
    LET c == [ctcat EXCEPT !.servers = RemoveRows(@, servers), !.subs = RemoveRows(@, subs),
                           !.refs = [g \in CtGroups |-> WithoutRows(WithoutRows(@[g], "server", servers), "subscription", subs)]]
    IN  /\ servers \union subs # {} /\ servers \subseteq DOMAIN ctcat.servers /\ subs \subseteq DOMAIN ctcat.subs
        /\ IF ctrun THEN ApplyOnly(c) ELSE Keeps(c)

(* import.go *)
AppendServer(n) == Len(ctcat.servers) < MaxServers /\ Keeps([ctcat EXCEPT !.servers = Append(@, n)])
\* An edit reloads, and so starts, the core when a member has the same type and position
Edited(c, type, id) ==
    IF \E g \in c.names : \E r \in ToSet(c.refs[g]) : r.type = type /\ r.id = id THEN ApplyOnly(c) ELSE Keeps(c)
EditServer(i, n) == i \in DOMAIN ctcat.servers /\ Edited([ctcat EXCEPT !.servers[i] = n], "server", i)
EditSubscriptionServer(s, i, n) ==
    /\ s \in DOMAIN GetSubscriptions(ctcat) /\ i \in DOMAIN GetSubscriptions(ctcat)[s]
    /\ Edited([ctcat EXCEPT !.subs[s] = [GetSubscriptions(ctcat)[s] EXCEPT ![i] = n]], "subscriptionServer", i)
\* SubscriptionsAppend inserts the rows one by one, outside a transaction
ImportSubscription(f, stored) ==
    Len(ctcat.subs) < MaxSubs /\ Keeps([ctcat EXCEPT !.subs = Append(@, SubSeq(f, 1, stored))])
-----------------------------------------------------------------------------
(* subscription.go *)
OnlyMatch(hits) == IF Cardinality(hits) = 1 THEN CHOOSE i \in hits : TRUE ELSE 0
remapSubscriptionNodeDetailed(old, nodes) ==
    LET same == {i \in DOMAIN nodes : nodes[i].link = old.link}
        byHost == OnlyMatch({i \in DOMAIN nodes : nodes[i].proto = old.proto /\ nodes[i].host = old.host})
        byName == OnlyMatch({i \in DOMAIN nodes : old.name # "" /\ nodes[i].name = old.name /\ nodes[i].proto = old.proto})
    IN  IF same # {} THEN [id |-> CHOOSE i \in same : \A j \in same : i <= j, exact |-> TRUE]
        ELSE [id |-> IF byHost # 0 THEN byHost ELSE byName, exact |-> FALSE]
InSub(r, s) == r.type # "server" /\ r.sub = s
GroupOrder == <<"proxy", "work">>

\* Mutant: nodes that the update no longer has are not retained for their groups.
storeSubscriptionUpdate_Drops(s, nodes) ==
    LET old == ctcat.subs[s]
        groups == SelectSeq(GroupOrder, LAMBDA g : g \in ctcat.names)
        refsOf(g) == ctcat.refs[g]
        ids == UNION {{r.id : r \in {x \in ToSet(refsOf(g)) : InSub(x, s)}} : g \in ctcat.names}
        mapped == [i \in ids |-> remapSubscriptionNodeDetailed(old[i], nodes)]
        claims(n) == Cardinality({i \in ids : ~mapped[i].exact /\ mapped[i].id = n})
        to == [i \in ids |-> IF ~mapped[i].exact /\ claims(mapped[i].id) > 1 THEN 0 ELSE mapped[i].id]
        lost(g) == SelectSeq(refsOf(g), LAMBDA r : InSub(r, s) /\ to[r.id] = 0)
        keepers == FlattenSeq([k \in DOMAIN groups |-> <<>>])
        retained == FoldLeft(LAMBDA acc, r : IF Contains(acc, r.id) THEN acc ELSE Append(acc, r.id), <<>>, keepers)
        next == nodes \o [k \in DOMAIN retained |-> old[retained[k]]]
        place(i) == IF to[i] # 0 THEN to[i] ELSE Len(nodes) + CHOOSE k \in DOMAIN retained : retained[k] = i
        stays(g) == SelectSeq(refsOf(g), LAMBDA r : ~(InSub(r, s) /\ to[r.id] = 0))
        moved(r) == IF InSub(r, s) THEN [r EXCEPT !.id = place(r.id)] ELSE r
        c == [ctcat EXCEPT !.subs[s] = next,
                           !.refs = [g \in CtGroups |-> IF g \in ctcat.names
                                        THEN [i \in DOMAIN stays(g) |-> moved(stays(g)[i])] ELSE @[g]]]
        affected == \/ \E g \in ctcat.names : Len(stays(g)) # Len(refsOf(g))
                    \/ \E i \in ids : \E g \in ctcat.names : \E r \in ToSet(stays(g)) :
                            InSub(r, s) /\ r.id = i /\ (place(i) # i \/ next[place(i)].link # old[i].link)
    IN  /\ ids \subseteq DOMAIN old /\ Len(next) <= MaxSubLen
        /\ IF affected THEN ApplyGroupConfig(c) ELSE Keeps(c)

storeSubscriptionUpdate(s, nodes) ==
    LET old == ctcat.subs[s]
        groups == SelectSeq(GroupOrder, LAMBDA g : g \in ctcat.names)
        refsOf(g) == ctcat.refs[g]
        ids == UNION {{r.id : r \in {x \in ToSet(refsOf(g)) : InSub(x, s)}} : g \in ctcat.names}
        mapped == [i \in ids |-> remapSubscriptionNodeDetailed(old[i], nodes)]
        claims(n) == Cardinality({i \in ids : ~mapped[i].exact /\ mapped[i].id = n})
        to == [i \in ids |-> IF ~mapped[i].exact /\ claims(mapped[i].id) > 1 THEN 0 ELSE mapped[i].id]
        lost(g) == SelectSeq(refsOf(g), LAMBDA r : InSub(r, s) /\ to[r.id] = 0)
        keepers == FlattenSeq([k \in DOMAIN groups |-> IF ctcat.set[groups[k]].auto THEN <<>> ELSE lost(groups[k])])
        retained == FoldLeft(LAMBDA acc, r : IF Contains(acc, r.id) THEN acc ELSE Append(acc, r.id), <<>>, keepers)
        next == nodes \o [k \in DOMAIN retained |-> old[retained[k]]]
        place(i) == IF to[i] # 0 THEN to[i] ELSE Len(nodes) + CHOOSE k \in DOMAIN retained : retained[k] = i
        stays(g) == SelectSeq(refsOf(g), LAMBDA r : ~(InSub(r, s) /\ to[r.id] = 0 /\ ctcat.set[g].auto))
        moved(r) == IF InSub(r, s) THEN [r EXCEPT !.id = place(r.id)] ELSE r
        c == [ctcat EXCEPT !.subs[s] = next,
                           !.refs = [g \in CtGroups |-> IF g \in ctcat.names
                                        THEN [i \in DOMAIN stays(g) |-> moved(stays(g)[i])] ELSE @[g]]]
        affected == \/ \E g \in ctcat.names : Len(stays(g)) # Len(refsOf(g))
                    \/ \E i \in ids : \E g \in ctcat.names : \E r \in ToSet(stays(g)) :
                            InSub(r, s) /\ r.id = i /\ (place(i) # i \/ next[place(i)].link # old[i].link)
    IN  /\ ids \subseteq DOMAIN old /\ Len(next) <= MaxSubLen
        /\ IF affected THEN ApplyGroupConfig(c) ELSE Keeps(c)
UpdateSubscription(s, f) ==
    s \in DOMAIN ctcat.subs /\ (\A i \in DOMAIN ctcat.subs[s] : ctcat.subs[s][i].ok) /\ f # <<>> /\ storeSubscriptionUpdate(s, f)
-----------------------------------------------------------------------------
CatalogInit == /\ ctcat \in FirstCatalog /\ ctrun = FALSE /\ ctcore = NoCore /\ cterr = FALSE /\ ctasked = 0 /\ ctreq = [op |-> "none"]
Selections == {rs \in BoundedSeq(Requested, MaxMembers) : \A i, j \in DOMAIN rs : rs[i] = rs[j] => i = j}
Asks(op) == ctreq' = [op |-> op]
Starting ==
    /\ Asks("start")
    /\ \/ StartV2ray
       \/ (\E g \in CtGroups : \E r \in Requested : Connect(g, r))
       \/ (\E n \in Nodes : \E i \in 1..MaxServers : EditServer(i, n))
       \/ (\E n \in Nodes : \E s \in 1..MaxSubs : \E i \in 1..MaxSubLen : EditSubscriptionServer(s, i, n))
Editing ==
    /\ Asks("edit")
    /\ \/ StopV2ray
       \/ (\E g \in CtGroups : \E r \in Requested : Disconnect(g, r) \/ PutOutboundSelection(g, r))
       \/ (\E g \in CtGroups : ClearSelection(g) \/ PostOutbound(g) \/ DeleteOutbound(g))
       \/ (\E g \in CtGroups : \E auto, keep \in BOOLEAN : PutOutbound(g, auto, keep))
       \/ (\E g \in CtGroups : \E rs \in Selections : PutOutboundConnections(g, rs))
       \/ (\E n \in Nodes : AppendServer(n))
       \/ (\E f \in Feeds : \E k \in 0..Len(f) : ImportSubscription(f, k))
Managing ==
    /\ Asks("worker")
    /\ \/ (\E g \in CtGroups : \E r \in Located(ctcat) : StickyMoves(g, r))
       \/ (\E g \in CtGroups : \E rs \in Selections : replaceOutboundConnections(g, rs, TRUE))
Deleting == \E servers \in SUBSET DOMAIN ctcat.servers : \E subs \in SUBSET DOMAIN ctcat.subs :
                DeleteWhich(servers, subs) /\ ctreq' = [op |-> "delete", servers |-> servers, subs |-> subs]
Updating == \E s \in 1..MaxSubs : \E f \in Feeds : UpdateSubscription(s, f) /\ ctreq' = [op |-> "update", sub |-> s, feed |-> f]
CatalogNext == /\ ctasked < MaxRequests /\ ctasked' = ctasked + 1
               /\ Starting \/ Editing \/ Managing \/ Deleting \/ Updating
-----------------------------------------------------------------------------
(* Type correctness: positions, names and links of the catalog and of the   *)
(* core's selection stay in range (configure.go, which.go).                 *)
CatalogTypeOK ==
    /\ ToSet(ctcat.servers) \subseteq Nodes /\ \A s \in DOMAIN ctcat.subs : ToSet(ctcat.subs[s]) \subseteq Nodes
    /\ ctcat.names \subseteq CtGroups /\ "proxy" \in ctcat.names
    /\ \A g \in CtGroups : ToSet(ctcat.refs[g]) \subseteq Refs /\ (g \notin ctcat.names => ctcat.refs[g] = <<>>)
    /\ ctrun \in BOOLEAN /\ cterr \in BOOLEAN /\ (ctrun \/ ctcore = NoCore)

(* Every stored member of every group locates a node: "a stored entry that  *)
(* cannot be located makes every later connect and core start fail with the *)
(* same error" (connect.go).  Deleting, editing, importing and updating     *)
(* move positions under the references; none may leave one behind.          *)
EveryMemberLocates == AllLocated(ctcat)

(* A running core routes through what the store names, unless the request   *)
(* that changed the store reported that the core did not take it: an update *)
(* that found nothing "affected", an edit of an unconnected row or an       *)
(* append reloads nothing, and must not have had to.                        *)
CoreRunsSelection == ctrun /\ ~cterr => ctcore = applySelection(ctcat)

(* A deletion renumbers the references of every group together: what is     *)
(* left of a group is its old members, in order, without the deleted rows   *)
(* (DeleteWhich; SortSameTypeReverse makes the shifts compose).             *)
Undeleted(g) == SelectSeq(ctcat.refs[g], LAMBDA r : IF r.type = "server" THEN r.id \notin ctreq'.servers ELSE r.sub \notin ctreq'.subs)
DeletionKeepsTheRest ==
    [][ctreq'.op = "delete" =>
        \A g \in ctcat.names : [i \in DOMAIN ctcat'.refs[g] |-> Locate(ctcat', ctcat'.refs[g][i])]
                                = [i \in DOMAIN Undeleted(g) |-> Locate(ctcat, Undeleted(g)[i])]]_catalogVars

(* An update of a subscription never takes a node from a manual group: each *)
(* member is the same link when the new list still has it, and otherwise    *)
(* one that shares its endpoint or its name, or the old node, kept          *)
(* (storeSubscriptionUpdate).                                               *)
Succeeds(old, new, nodes) ==
    \/ new.link = old.link
    \/ (\A n \in ToSet(nodes) : n.link # old.link) /\ new.proto = old.proto /\ (new.host = old.host \/ new.name = old.name)
ManualGroups == {g \in ctcat.names : ~ctcat.set[g].auto}
UpdateKeepsSelections ==
    [][ctreq'.op = "update" =>
        \A g \in ManualGroups :
            /\ Len(ctcat'.refs[g]) = Len(ctcat.refs[g])
            /\ \A i \in DOMAIN ctcat.refs[g] :
                  Succeeds(Locate(ctcat, ctcat.refs[g][i]), Locate(ctcat', ctcat'.refs[g][i]), ctreq'.feed)]_catalogVars

(* The core is started by a start, a connect or the edit of a member, and   *)
(* by putting back what a failed request found running; no other request    *)
(* starts a core the user stopped.                                          *)
StartsOnRequest == [][~ctrun /\ ctrun' => ctreq'.op = "start"]_catalogVars

(* The references into the catalog stay good, and the core runs what they    *)
(* name.                                                                     *)
CatalogSafe == CatalogTypeOK /\ EveryMemberLocates /\ CoreRunsSelection

(* No request changes what it was not asked to: a deletion, an update of a   *)
(* subscription, a stopped core.                                             *)
SelectionsAreKept == DeletionKeepsTheRest /\ UpdateKeepsSelections /\ StartsOnRequest

(* "two accounts on one endpoint are not interchangeable" (subscription.go, *)
(* above remapSubscriptionNodeDetailed): an update never makes two members  *)
(* of a group that were different nodes the same node.                      *)
TwoSelectionsStayTwo ==
    [][ctreq'.op = "update" =>
        \A g \in ManualGroups : \A i, j \in DOMAIN ctcat.refs[g] :
            MemberLinks(ctcat, g)[i] # MemberLinks(ctcat, g)[j] => MemberLinks(ctcat', g)[i] # MemberLinks(ctcat', g)[j]]_catalogVars
=============================================================================
