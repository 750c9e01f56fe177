----------------------------- MODULE DataProofs -----------------------------
(* The files behind the core.  The GFWList database (GfwList): what is      *)
(* installed was verified, carries its release's time and is what a core    *)
(* that routes by it has loaded; the argument follows the one updater that  *)
(* uses ".new".  The database of a start (Migration): the file the next     *)
(* start reads holds what the user has, wherever the last one was killed;   *)
(* the argument is which of the two files counts.                           *)
EXTENDS GfwList, Migration, TLAPS

\* What an updater knows of its own record: a file is open only while it is
\* written, and the tag of a release is known before its download.
Own(r) ==
    /\ r.pc # "write" => r.fd = 0
    /\ r.pc = "sum" => ~r.link
    /\ r.pc \in {"remote", "valid"} => r.link
    /\ ~r.link /\ r.pc \in {"get", "write", "sum", "times", "rename"} => r.tag \in Releases
    /\ r.pc = "write" => r.body \in {Junk, IF r.link THEN Custom ELSE r.tag}

\* What an updater that uses ".new" knows of it: n is its inode, f its file.
Knows(r, n, f) ==
    r.pc \in Using =>
        /\ n # 0
        /\ r.pc = "write" => r.fd = n
        /\ r.link /\ r.pc \in {"remote", "times", "valid", "rename"} => f.data \in {Custom, Junk}
        /\ r.link /\ r.pc = "rename" => f.data = Custom
        /\ ~r.link /\ r.pc \in {"times", "rename"} => f.data = r.tag
        /\ ~r.link /\ r.pc = "rename" => f.time = r.tag

\* A list that may be installed.
Sound(f) == f.data \in Valid /\ (f.data \in Releases => f.time = f.data)

AloneOnNew == \A u, v \in Updaters : gwup[u].pc \in Using /\ gwup[v].pc \in Using => u = v
NewIsKnown == \A u \in Updaters : Knows(gwup[u], gwnew, gwino[gwnew])
InstalledIsSound == gwdat # 0 => Sound(gwino[gwdat])

OwnInv == \A u \in Updaters : Own(gwup[u])
FilesInv == ~gwoverlap => AloneOnNew /\ NewIsKnown /\ InstalledIsSound

\* The inductive invariant.
GfwInv == GfwTypeOK /\ OwnInv /\ FilesInv /\ CoreHasInstalled
-----------------------------------------------------------------------------
(* Types.                                                                  *)

File == [data : Data, time : 0..MaxRelease]

LEMMA Constants ==
    /\ MaxRelease \in Nat /\ MaxRelease > 0 /\ 1 \in Releases
    /\ Releases \subseteq 0..MaxRelease /\ 0 \in 0..MaxRelease /\ 0..MaxRelease \subseteq Data
    /\ {Empty, Custom, Junk} \subseteq Data /\ Valid \subseteq Data
    /\ 0 \notin Inodes
BY GfwListAssumption DEF Releases, Data, Empty, Custom, Junk, Valid

LEMMA IdleType == Idle \in UpdaterStates
BY Constants DEF Idle, UpdaterStates

\* The record an updater's step leaves, as one value.
LEMMA OneRecord ==
    ASSUME GfwTypeOK, NEW u \in Updaters, NEW v \in UpdaterStates, gwup' = [gwup EXCEPT ![u] = v]
    PROVE  gwup' \in [Updaters -> UpdaterStates] /\ gwup'[u] = v /\ \A w \in Updaters \ {u} : gwup'[w] = gwup[w]
BY DEF GfwTypeOK

LEMMA NewFileFree ==
    ASSUME GfwTypeOK, gwnew = 0 => FreeInodes # {}
    PROVE  NewFile \in Inodes /\ NewFile # gwdat /\ (gwnew # 0 => NewFile = gwnew)
<1>1. CASE gwnew = 0
  <2>1. NewFile \in FreeInodes
    BY <1>1 DEF NewFile
  <2> QED
    BY <1>1, <2>1 DEF FreeInodes
<1>2. CASE gwnew # 0
  BY <1>2 DEF NewFile, GfwTypeOK
<1> QED
  BY <1>1, <1>2

LEMMA LoadsType ==
    ASSUME GfwTypeOK, NEW s, CanLoad(s)
    PROVE  [on |-> TRUE, list |-> Loads(s)] \in [on : BOOLEAN, list : Data \cup {NoList}]
BY DEF GfwTypeOK, CanLoad, Loads

LEMMA GfwInitType == GfwInit => GfwTypeOK
<1> SUFFICES ASSUME GfwInit PROVE GfwTypeOK
  OBVIOUS
<1>1. gwino \in [Inodes -> File]
  BY Constants, GfwListAssumption DEF GfwInit, File, Empty
<1>2. {gwdat, gwnew} \subseteq Inodes \cup {0} /\ (gwdat = gwnew => gwdat = 0)
  BY GfwListAssumption DEF GfwInit
<1>3. gwlatest \in Releases /\ gwcache \in [tag : 0..MaxRelease, fresh : BOOLEAN]
  BY Constants DEF GfwInit
<1>4. gwup \in [Updaters -> UpdaterStates]
  BY IdleType DEF GfwInit
<1> QED
  BY <1>1, <1>2, <1>3, <1>4 DEF GfwInit, GfwTypeOK, File
-----------------------------------------------------------------------------
(* Steps that change only an updater's record and the cached tag.          *)

Restarting(r) == r.pc \in {"restart", "reload"}
CacheType == gwcache \in [tag : 0..MaxRelease, fresh : BOOLEAN]

\* Such a step preserves the invariant when the new record holds what its place
\* says, begins no use of ".new", and ends no restart that is due.
LEMMA RecordStep ==
    ASSUME GfwInv, NEW u \in Updaters, NEW v \in UpdaterStates, gwup' = [gwup EXCEPT ![u] = v],
           UNCHANGED <<files, gwlatest, coreState, gwoverlap>>, CacheType',
           Own(v), ~gwoverlap => Knows(v, gwnew, gwino[gwnew]), v.pc \in Using => gwup[u].pc \in Using,
           Restarting(gwup[u]) => Restarting(v) \/ ~gwcore.on \/ ~RestartsFor(gwset)
    PROVE  GfwInv'
<1> USE DEF GfwInv
<1>1. gwup' \in [Updaters -> UpdaterStates] /\ gwup'[u] = v /\ \A w \in Updaters \ {u} : gwup'[w] = gwup[w]
  BY OneRecord
<1>2. GfwTypeOK'
  BY <1>1 DEF GfwTypeOK, CacheType, files, coreState
<1>3. OwnInv'
  BY <1>1 DEF OwnInv
<1>4. gwino' = gwino /\ gwdat' = gwdat /\ gwnew' = gwnew /\ gwoverlap' = gwoverlap
  BY DEF files
<1>5. ASSUME ~gwoverlap PROVE AloneOnNew' /\ NewIsKnown' /\ InstalledIsSound'
  <2>1. AloneOnNew /\ NewIsKnown /\ InstalledIsSound
    BY <1>5 DEF FilesInv
  <2>2. \A w \in Updaters : gwup'[w].pc \in Using => gwup[w].pc \in Using
    BY <1>1
  <2>3. AloneOnNew'
    BY <2>1, <2>2 DEF AloneOnNew
  <2>4. \A w \in Updaters : Knows(gwup'[w], gwnew, gwino[gwnew])
    BY <1>1, <1>5, <2>1 DEF NewIsKnown
  <2>5. NewIsKnown'
    BY <1>4, <2>4 DEF NewIsKnown
  <2> QED
    BY <1>4, <2>1, <2>3, <2>5 DEF InstalledIsSound
<1>6. FilesInv'
  BY <1>4, <1>5 DEF FilesInv
<1>7. CoreHasInstalled'
  BY <1>1, <1>4 DEF CoreHasInstalled, coreState, Restarting
<1> QED
  BY <1>2, <1>3, <1>6, <1>7

\* A step that ends an update, wherever a restart is not due.
LEMMA EndStep ==
    ASSUME GfwInv, NEW u \in Updaters, Ends(u), UNCHANGED <<files, gwlatest, coreState, gwoverlap>>, CacheType',
           ~Restarting(gwup[u]) \/ ~gwcore.on \/ ~RestartsFor(gwset)
    PROVE  GfwInv'
<1>1. Own(Idle) /\ Idle.pc \notin Using
  BY DEF Own, Idle, Using
<1>2. Knows(Idle, gwnew, gwino[gwnew])
  BY <1>1 DEF Knows
<1> QED
  BY <1>1, <1>2, IdleType, RecordStep DEF Ends

\* The record with another place in it.
LEMMA GotoRecord ==
    ASSUME GfwTypeOK, NEW u \in Updaters, NEW pc, Goto(u, pc),
           pc \in {"idle", "check", "tag", "get", "write", "remote", "sum", "times", "valid", "rename", "restart", "reload"}
    PROVE  \E v \in UpdaterStates : /\ gwup' = [gwup EXCEPT ![u] = v] /\ v.pc = pc /\ v.link = gwup[u].link
                                    /\ v.tag = gwup[u].tag /\ v.fd = gwup[u].fd /\ v.body = gwup[u].body
<1> DEFINE v == [gwup[u] EXCEPT !.pc = pc]
<1>1. gwup[u] \in UpdaterStates
  BY DEF GfwTypeOK
<1>2. /\ v \in UpdaterStates /\ v.pc = pc /\ v.link = gwup[u].link
      /\ v.tag = gwup[u].tag /\ v.fd = gwup[u].fd /\ v.body = gwup[u].body
  BY <1>1 DEF UpdaterStates
<1>3. gwup' = [gwup EXCEPT ![u] = v]
  BY DEF Goto, GfwTypeOK
<1> HIDE DEF v
<1> QED
  BY <1>2, <1>3

LEMMA CacheKept == GfwTypeOK /\ UNCHANGED gwcache => CacheType'
BY DEF GfwTypeOK, CacheType

LEMMA RemoteType ==
    ASSUME GfwTypeOK, NEW tag \in Releases, GetRemoteGFWListUpdateTime(tag)
    PROVE  CacheType' /\ tag \in 0..MaxRelease
<1>1. tag \in 0..MaxRelease
  BY Constants
<1>2. [tag |-> tag, fresh |-> TRUE] \in [tag : 0..MaxRelease, fresh : BOOLEAN]
  BY <1>1
<1>3. gwcache \in [tag : 0..MaxRelease, fresh : BOOLEAN]
  BY DEF GfwTypeOK
<1>4. gwcache' = gwcache \/ gwcache' = [tag |-> tag, fresh |-> TRUE]
  BY Zenon DEF GetRemoteGFWListUpdateTime
<1> QED
  BY <1>1, <1>2, <1>3, <1>4 DEF CacheType
LEMMA BeginStep ==
    ASSUME GfwInv, NEW u \in Updaters, NEW link \in BOOLEAN, CheckAndUpdateGFWList(u, link)
    PROVE  GfwInv'
<1> DEFINE v == [Idle EXCEPT !.pc = IF link THEN "get" ELSE "check", !.link = link]
<1>1. v \in UpdaterStates /\ Own(v) /\ v.pc \notin Using
  BY Constants DEF Idle, UpdaterStates, Own, Using
<1>2. gwup' = [gwup EXCEPT ![u] = v] /\ UNCHANGED <<files, gwlatest, coreState, gwoverlap>>
  BY DEF CheckAndUpdateGFWList
<1>3. CacheType'
  BY CacheKept DEF CheckAndUpdateGFWList, GfwInv
<1>4. ~Restarting(gwup[u])
  BY DEF CheckAndUpdateGFWList, Restarting
<1> HIDE DEF v
<1>5. Knows(v, gwnew, gwino[gwnew])
  BY <1>1 DEF Knows
<1> QED
  BY <1>1, <1>2, <1>3, <1>4, <1>5, RecordStep

LEMMA CheckStep ==
    ASSUME GfwInv, NEW u \in Updaters, IsGFWListUpdate(u)
    PROVE  GfwInv'
<1>0. GfwTypeOK /\ gwup[u].pc = "check" /\ ~Restarting(gwup[u]) /\ Own(gwup[u])
  BY DEF GfwInv, OwnInv, IsGFWListUpdate, Restarting
<1>1. UNCHANGED <<files, gwlatest, coreState, gwoverlap>>
  BY DEF IsGFWListUpdate
<1>2. CASE RemoteFails /\ Ends(u)
  BY <1>0, <1>1, <1>2, CacheKept, EndStep DEF RemoteFails
<1>3. ASSUME NEW tag \in Releases, GetRemoteGFWListUpdateTime(tag), Ends(u) \/ Goto(u, "tag") PROVE GfwInv'
  <2>1. CacheType'
    BY <1>0, <1>3, RemoteType
  <2>2. CASE Ends(u)
    BY <1>0, <1>1, <2>1, <2>2, EndStep
  <2>3. CASE Goto(u, "tag")
    <3>1. PICK v \in UpdaterStates : /\ gwup' = [gwup EXCEPT ![u] = v] /\ v.pc = "tag" /\ v.link = gwup[u].link
                                     /\ v.tag = gwup[u].tag /\ v.fd = gwup[u].fd /\ v.body = gwup[u].body
      BY <1>0, <2>3, GotoRecord
    <3>2. Own(v) /\ Knows(v, gwnew, gwino[gwnew]) /\ v.pc \notin Using
      BY <1>0, <3>1 DEF Own, Knows, Using
    <3> QED
      BY <1>0, <1>1, <2>1, <3>1, <3>2, RecordStep
  <2> QED
    BY <1>3, <2>2, <2>3
<1> QED
  BY <1>2, <1>3 DEF IsGFWListUpdate

LEMMA TagStep ==
    ASSUME GfwInv, NEW u \in Updaters, UpdateLocalGFWList(u)
    PROVE  GfwInv'
<1>0. GfwTypeOK /\ gwup[u].pc = "tag" /\ ~Restarting(gwup[u]) /\ Own(gwup[u]) /\ gwup[u] \in UpdaterStates
  BY DEF GfwInv, OwnInv, UpdateLocalGFWList, Restarting, GfwTypeOK
<1>1. UNCHANGED <<files, gwlatest, coreState, gwoverlap>>
  BY DEF UpdateLocalGFWList
<1>2. CASE RemoteFails /\ Ends(u)
  BY <1>0, <1>1, <1>2, CacheKept, EndStep DEF RemoteFails
<1>3. ASSUME NEW tag \in Releases, GetRemoteGFWListUpdateTime(tag),
             gwup' = [gwup EXCEPT ![u].pc = "get", ![u].tag = tag]
      PROVE  GfwInv'
  <2> DEFINE v == [gwup[u] EXCEPT !.pc = "get", !.tag = tag]
  <2>1. CacheType' /\ tag \in 0..MaxRelease
    BY <1>0, <1>3, RemoteType
  <2>2. gwup' = [gwup EXCEPT ![u] = v]
    BY <1>0, <1>3 DEF GfwTypeOK
  <2>3. v \in UpdaterStates /\ v.pc = "get" /\ v.tag = tag /\ v.fd = gwup[u].fd /\ v.link = gwup[u].link
    BY <1>0, <2>1 DEF UpdaterStates
  <2> HIDE DEF v
  <2>4. Own(v) /\ Knows(v, gwnew, gwino[gwnew]) /\ v.pc \notin Using
    BY <1>0, <1>3, <2>3 DEF Own, Knows, Using
  <2> QED
    BY <1>0, <1>1, <2>1, <2>2, <2>3, <2>4, RecordStep
<1> QED
  BY <1>2, <1>3 DEF UpdateLocalGFWList

LEMMA CustomTimeStep ==
    ASSUME GfwInv, NEW u \in Updaters, CustomTime(u)
    PROVE  GfwInv'
<1>0. GfwTypeOK /\ gwup[u].pc = "remote" /\ ~Restarting(gwup[u]) /\ Own(gwup[u]) /\ gwup[u] \in UpdaterStates
  BY DEF GfwInv, OwnInv, CustomTime, Restarting, GfwTypeOK
<1>1. UNCHANGED <<files, gwlatest, coreState, gwoverlap>>
  BY DEF CustomTime
<1>2. ~gwoverlap => Knows(gwup[u], gwnew, gwino[gwnew])
  BY DEF GfwInv, FilesInv, NewIsKnown
<1>3. CASE RemoteFails /\ Goto(u, "valid")
  <2>1. PICK v \in UpdaterStates : /\ gwup' = [gwup EXCEPT ![u] = v] /\ v.pc = "valid" /\ v.link = gwup[u].link
                                   /\ v.tag = gwup[u].tag /\ v.fd = gwup[u].fd /\ v.body = gwup[u].body
    BY <1>0, <1>3, GotoRecord
  <2>2. Own(v) /\ (~gwoverlap => Knows(v, gwnew, gwino[gwnew])) /\ gwup[u].pc \in Using
    BY <1>0, <1>2, <2>1 DEF Own, Knows, Using
  <2> QED
    BY <1>0, <1>1, <1>3, <2>1, <2>2, CacheKept, RecordStep DEF RemoteFails
<1>4. ASSUME NEW tag \in Releases, GetRemoteGFWListUpdateTime(tag),
             gwup' = [gwup EXCEPT ![u].pc = "times", ![u].tag = tag]
      PROVE  GfwInv'
  <2> DEFINE v == [gwup[u] EXCEPT !.pc = "times", !.tag = tag]
  <2>1. CacheType' /\ tag \in 0..MaxRelease
    BY <1>0, <1>4, RemoteType
  <2>2. gwup' = [gwup EXCEPT ![u] = v]
    BY <1>0, <1>4 DEF GfwTypeOK
  <2>3. v \in UpdaterStates /\ v.pc = "times" /\ v.tag = tag /\ v.fd = gwup[u].fd /\ v.link = gwup[u].link
    BY <1>0, <2>1 DEF UpdaterStates
  <2> HIDE DEF v
  <2>4. Own(v) /\ (~gwoverlap => Knows(v, gwnew, gwino[gwnew])) /\ gwup[u].pc \in Using
    BY <1>0, <1>2, <1>4, <2>3 DEF Own, Knows, Using
  <2> QED
    BY <1>0, <1>1, <2>1, <2>2, <2>3, <2>4, RecordStep
<1> QED
  BY <1>3, <1>4 DEF CustomTime

LEMMA SumStep ==
    ASSUME GfwInv, NEW u \in Updaters, checkSha256(u)
    PROVE  GfwInv'
<1>0. GfwTypeOK /\ gwup[u].pc = "sum" /\ ~Restarting(gwup[u]) /\ Own(gwup[u])
  BY DEF GfwInv, OwnInv, checkSha256, Restarting
<1>1. UNCHANGED <<files, gwlatest, coreState, gwoverlap>> /\ CacheType'
  BY <1>0, CacheKept DEF checkSha256
<1>2. CASE Ends(u)
  BY <1>0, <1>1, <1>2, EndStep
<1>3. CASE gwnew # 0 /\ gwino[gwnew].data = gwup[u].tag /\ Goto(u, "times")
  <2>1. PICK v \in UpdaterStates : /\ gwup' = [gwup EXCEPT ![u] = v] /\ v.pc = "times" /\ v.link = gwup[u].link
                                   /\ v.tag = gwup[u].tag /\ v.fd = gwup[u].fd /\ v.body = gwup[u].body
    BY <1>0, <1>3, GotoRecord
  <2>2. Own(v) /\ Knows(v, gwnew, gwino[gwnew]) /\ gwup[u].pc \in Using
    BY <1>0, <1>3, <2>1 DEF Own, Knows, Using
  <2> QED
    BY <1>0, <1>1, <2>1, <2>2, RecordStep
<1> QED
  BY <1>2, <1>3 DEF checkSha256

LEMMA ValidStep ==
    ASSUME GfwInv, NEW u \in Updaters, installGeoSiteFile(u)
    PROVE  GfwInv'
<1>0. GfwTypeOK /\ gwup[u].pc = "valid" /\ ~Restarting(gwup[u]) /\ Own(gwup[u])
  BY DEF GfwInv, OwnInv, installGeoSiteFile, Restarting
<1>1. UNCHANGED <<files, gwlatest, coreState, gwoverlap>> /\ CacheType'
  BY <1>0, CacheKept DEF installGeoSiteFile
<1>2. ~gwoverlap => Knows(gwup[u], gwnew, gwino[gwnew])
  BY DEF GfwInv, FilesInv, NewIsKnown
<1>3. CASE gwnew # 0 /\ gwino[gwnew].data \in Valid /\ Goto(u, "rename")
  <2>1. PICK v \in UpdaterStates : /\ gwup' = [gwup EXCEPT ![u] = v] /\ v.pc = "rename" /\ v.link = gwup[u].link
                                   /\ v.tag = gwup[u].tag /\ v.fd = gwup[u].fd /\ v.body = gwup[u].body
    BY <1>0, <1>3, GotoRecord
  <2>2. Junk \notin Valid
    BY Constants DEF Junk, Valid, Releases, Custom
  <2>3. Own(v) /\ (~gwoverlap => Knows(v, gwnew, gwino[gwnew])) /\ gwup[u].pc \in Using
    BY <1>0, <1>2, <1>3, <2>1, <2>2 DEF Own, Knows, Using
  <2> QED
    BY <1>0, <1>1, <2>1, <2>3, RecordStep
<1>4. CASE Ends(u)
  BY <1>0, <1>1, <1>4, EndStep
<1> QED
  BY <1>3, <1>4 DEF installGeoSiteFile

LEMMA TestStep ==
    ASSUME GfwInv, NEW u \in Updaters, TestRunning(u)
    PROVE  GfwInv'
<1>0. GfwTypeOK /\ gwup[u].pc = "restart" /\ Own(gwup[u])
  BY DEF GfwInv, OwnInv, TestRunning
<1>1. UNCHANGED <<files, gwlatest, coreState, gwoverlap>> /\ CacheType'
  BY <1>0, CacheKept DEF TestRunning
<1>2. CASE gwcore.on /\ RestartsFor(gwset)
  <2>1. Goto(u, "reload")
    BY <1>2 DEF TestRunning
  <2>2. PICK v \in UpdaterStates : /\ gwup' = [gwup EXCEPT ![u] = v] /\ v.pc = "reload" /\ v.link = gwup[u].link
                                   /\ v.tag = gwup[u].tag /\ v.fd = gwup[u].fd /\ v.body = gwup[u].body
    BY <1>0, <2>1, GotoRecord
  <2>3. Own(v) /\ Knows(v, gwnew, gwino[gwnew]) /\ v.pc \notin Using /\ Restarting(v)
    BY <1>0, <2>2 DEF Own, Knows, Using, Restarting
  <2> QED
    BY <1>1, <2>2, <2>3, RecordStep
<1>3. CASE ~(gwcore.on /\ RestartsFor(gwset))
  BY <1>1, <1>3, EndStep DEF TestRunning
<1> QED
  BY <1>2, <1>3
-----------------------------------------------------------------------------
(* Steps on ".new".                                                        *)

\* A step of the only updater that uses ".new" preserves the invariant when it
\* leaves the installed file alone and its record knows what ".new" became.
LEMMA NewStep ==
    ASSUME GfwInv, NEW u \in Updaters, NEW v \in UpdaterStates, gwup' = [gwup EXCEPT ![u] = v],
           UNCHANGED <<gwdat, gwlatest, gwcache, coreState>>,
           gwino' \in [Inodes -> File], gwnew' \in Inodes \cup {0}, gwdat = gwnew' => gwdat = 0,
           gwoverlap' \in BOOLEAN, gwoverlap => gwoverlap',
           ~Restarting(gwup[u]), Own(v), ~gwoverlap' => Knows(v, gwnew', gwino'[gwnew']),
           ~gwoverlap' => \A w \in Updaters \ {u} : gwup[w].pc \notin Using,
           ~gwoverlap' /\ gwdat # 0 => gwino'[gwdat] = gwino[gwdat]
    PROVE  GfwInv'
<1> USE DEF GfwInv
<1>1. gwup' \in [Updaters -> UpdaterStates] /\ gwup'[u] = v /\ \A w \in Updaters \ {u} : gwup'[w] = gwup[w]
  BY OneRecord
<1>2. GfwTypeOK'
  BY <1>1 DEF GfwTypeOK, File, coreState
<1>3. OwnInv'
  BY <1>1 DEF OwnInv
<1>4. ASSUME ~gwoverlap' PROVE AloneOnNew' /\ NewIsKnown' /\ InstalledIsSound'
  <2>1. \A w \in Updaters \ {u} : gwup'[w].pc \notin Using
    BY <1>1, <1>4
  <2>2. AloneOnNew'
    BY <2>1 DEF AloneOnNew
  <2>3. \A w \in Updaters : Knows(gwup'[w], gwnew', gwino'[gwnew'])
    BY <1>1, <1>4, <2>1 DEF Knows
  <2>4. NewIsKnown'
    BY <2>3 DEF NewIsKnown
  <2>5. InstalledIsSound'
    BY <1>4 DEF FilesInv, InstalledIsSound
  <2> QED
    BY <2>2, <2>4, <2>5
<1>5. FilesInv'
  BY <1>4 DEF FilesInv
<1>6. CoreHasInstalled'
  BY <1>1 DEF CoreHasInstalled, coreState, Restarting
<1> QED
  BY <1>2, <1>3, <1>5, <1>6

LEMMA DownloadStep ==
    ASSUME GfwInv, NEW u \in Updaters, download(u)
    PROVE  GfwInv'
<1>0. GfwTypeOK /\ gwup[u].pc = "get" /\ ~Restarting(gwup[u]) /\ Own(gwup[u]) /\ gwup[u] \in UpdaterStates
  BY DEF GfwInv, OwnInv, download, Restarting, GfwTypeOK
<1>1. UNCHANGED <<gwdat, gwlatest, gwcache, coreState>>
  BY DEF download
<1>2. CASE Ends(u) /\ UNCHANGED <<gwino, gwnew, gwoverlap>>
  <2>1. UNCHANGED files
    BY <1>1, <1>2 DEF files
  <2> QED
    BY <1>0, <1>1, <1>2, <2>1, CacheKept, EndStep
<1>3. ASSUME gwnew = 0 => FreeInodes # {}, gwnew' = NewFile,
             gwino' = [gwino EXCEPT ![NewFile] = [data |-> Empty, time |-> gwlatest]],
             NEW body \in {Junk, IF gwup[u].link THEN Custom ELSE gwup[u].tag},
             gwup' = [gwup EXCEPT ![u].pc = "write", ![u].fd = NewFile, ![u].body = body],
             gwoverlap' = (gwoverlap \/ \E v \in Updaters \ {u} : gwup[v].pc \in Using)
      PROVE  GfwInv'
  <2> DEFINE v == [gwup[u] EXCEPT !.pc = "write", !.fd = NewFile, !.body = body]
  <2>1. NewFile \in Inodes /\ NewFile # gwdat /\ NewFile # 0
    BY <1>0, <1>3, NewFileFree, Constants
  <2>2. gwino' \in [Inodes -> File] /\ (gwdat # 0 => gwino'[gwdat] = gwino[gwdat])
    <3>1. [data |-> Empty, time |-> gwlatest] \in File
      BY <1>0, Constants DEF GfwTypeOK, File
    <3> QED
      BY <1>0, <1>3, <2>1, <3>1 DEF GfwTypeOK, File
  <2>3. body \in Data
    BY <1>0, Constants DEF UpdaterStates
  <2>4. /\ v \in UpdaterStates /\ v.pc = "write" /\ v.fd = NewFile /\ v.body = body
        /\ v.link = gwup[u].link /\ v.tag = gwup[u].tag
    BY <1>0, <2>1, <2>3 DEF UpdaterStates
  <2>5. gwup' = [gwup EXCEPT ![u] = v]
    BY <1>0, <1>3 DEF GfwTypeOK
  <2> HIDE DEF v
  <2>6. Own(v)
    BY <1>0, <2>4 DEF Own
  <2>7. Knows(v, gwnew', gwino'[gwnew'])
    BY <1>3, <2>1, <2>4 DEF Knows
  <2>8. gwoverlap' \in BOOLEAN /\ (gwoverlap => gwoverlap')
    BY <1>3
  <2>9. ~gwoverlap' => \A w \in Updaters \ {u} : gwup[w].pc \notin Using
    BY <1>3
  <2>10. gwnew' \in Inodes \cup {0} /\ (gwdat = gwnew' => gwdat = 0)
    BY <1>3, <2>1
  <2> QED
    BY <1>0, <1>1, <2>2, <2>4, <2>5, <2>6, <2>7, <2>8, <2>9, <2>10, NewStep
<1> QED
  BY <1>2, <1>3 DEF download

LEMMA Sole ==
    ASSUME GfwInv, NEW u \in Updaters, gwup[u].pc \in Using, ~gwoverlap
    PROVE  /\ \A w \in Updaters \ {u} : gwup[w].pc \notin Using
           /\ Knows(gwup[u], gwnew, gwino[gwnew]) /\ gwnew \in Inodes /\ gwnew # gwdat
<1>1. AloneOnNew /\ NewIsKnown
  BY DEF GfwInv, FilesInv
<1>2. Knows(gwup[u], gwnew, gwino[gwnew])
  BY <1>1 DEF NewIsKnown
<1>3. gwnew # 0
  BY <1>2 DEF Knows
<1> QED
  BY <1>1, <1>2, <1>3 DEF AloneOnNew, GfwInv, GfwTypeOK

LEMMA WriteStep ==
    ASSUME GfwInv, NEW u \in Updaters, WriteFile(u)
    PROVE  GfwInv'
<1>0. GfwTypeOK /\ gwup[u].pc = "write" /\ ~Restarting(gwup[u]) /\ Own(gwup[u]) /\ gwup[u] \in UpdaterStates
  BY DEF GfwInv, OwnInv, WriteFile, Restarting, GfwTypeOK
<1>1. UNCHANGED <<gwdat, gwnew, gwlatest, gwcache, coreState, gwoverlap>>
  BY DEF WriteFile
<1>2. CASE Ends(u) /\ UNCHANGED gwino
  <2>1. UNCHANGED files
    BY <1>1, <1>2 DEF files
  <2> QED
    BY <1>0, <1>1, <1>2, <2>1, CacheKept, EndStep
<1>3. CASE /\ gwino' = [gwino EXCEPT ![gwup[u].fd] = [data |-> gwup[u].body, time |-> gwlatest]]
           /\ gwup' = [gwup EXCEPT ![u].pc = IF gwup[u].link THEN "remote" ELSE "sum", ![u].fd = 0, ![u].body = Empty]
  <2> DEFINE v == [gwup[u] EXCEPT !.pc = IF gwup[u].link THEN "remote" ELSE "sum", !.fd = 0, !.body = Empty]
  <2>1. /\ v \in UpdaterStates /\ v.pc = (IF gwup[u].link THEN "remote" ELSE "sum") /\ v.fd = 0
        /\ v.link = gwup[u].link /\ v.tag = gwup[u].tag
    BY <1>0, Constants DEF UpdaterStates
  <2>2. gwup' = [gwup EXCEPT ![u] = v]
    BY <1>0, <1>3 DEF GfwTypeOK
  <2> HIDE DEF v
  <2>3. Own(v)
    BY <1>0, <2>1 DEF Own
  <2>4. gwino' \in [Inodes -> File]
    <3>1. [data |-> gwup[u].body, time |-> gwlatest] \in File
      BY <1>0, Constants DEF GfwTypeOK, File, UpdaterStates
    <3> QED
      BY <1>0, <1>3, <3>1 DEF GfwTypeOK, File
  <2>5. ASSUME ~gwoverlap
        PROVE  /\ \A w \in Updaters \ {u} : gwup[w].pc \notin Using
               /\ Knows(v, gwnew, gwino'[gwnew]) /\ (gwdat # 0 => gwino'[gwdat] = gwino[gwdat])
    <3>1. /\ \A w \in Updaters \ {u} : gwup[w].pc \notin Using
          /\ Knows(gwup[u], gwnew, gwino[gwnew]) /\ gwnew \in Inodes /\ gwnew # gwdat
      BY <1>0, <2>5, Sole DEF Using
    <3>2. gwup[u].fd = gwnew /\ gwnew # 0
      BY <1>0, <3>1 DEF Knows, Using
    <3>3. gwino'[gwnew].data = gwup[u].body
      BY <1>0, <1>3, <3>1, <3>2 DEF GfwTypeOK
    <3>4. gwdat # 0 => gwino'[gwdat] = gwino[gwdat]
      BY <1>0, <1>3, <3>1, <3>2 DEF GfwTypeOK
    <3>5. Knows(v, gwnew, gwino'[gwnew])
      BY <1>0, <2>1, <3>2, <3>3 DEF Own, Knows
    <3> QED
      BY <3>1, <3>4, <3>5
  <2> QED
    BY <1>0, <1>1, <2>1, <2>2, <2>3, <2>4, <2>5, NewStep DEF GfwTypeOK
<1> QED
  BY <1>2, <1>3 DEF WriteFile
LEMMA TimesStep ==
    ASSUME GfwInv, NEW u \in Updaters, Chtimes(u)
    PROVE  GfwInv'
<1>0. GfwTypeOK /\ gwup[u].pc = "times" /\ ~Restarting(gwup[u]) /\ Own(gwup[u]) /\ gwup[u] \in UpdaterStates
  BY DEF GfwInv, OwnInv, Chtimes, Restarting, GfwTypeOK
<1>1. UNCHANGED <<gwdat, gwnew, gwlatest, gwcache, coreState, gwoverlap>>
  BY DEF Chtimes
<1>2. PICK v \in UpdaterStates :
         /\ gwup' = [gwup EXCEPT ![u] = v] /\ v.pc = (IF gwup[u].link THEN "valid" ELSE "rename")
         /\ v.link = gwup[u].link /\ v.tag = gwup[u].tag /\ v.fd = gwup[u].fd /\ v.body = gwup[u].body
  BY <1>0, GotoRecord DEF Chtimes
<1>3. Own(v)
  BY <1>0, <1>2 DEF Own
<1>4. gwino' \in [Inodes -> File]
  <2>1. gwup[u].tag \in 0..MaxRelease
    BY <1>0 DEF UpdaterStates
  <2>2. \A i \in Inodes : [gwino[i] EXCEPT !.time = gwup[u].tag] \in File
    BY <1>0, <2>1 DEF GfwTypeOK, File
  <2>3. gwino' = gwino \/ (gwnew \in Inodes /\ gwino' = [gwino EXCEPT ![gwnew] = [gwino[gwnew] EXCEPT !.time = gwup[u].tag]])
    BY <1>0 DEF Chtimes, GfwTypeOK
  <2> QED
    BY <1>0, <2>2, <2>3 DEF GfwTypeOK, File
<1>5. ASSUME ~gwoverlap
      PROVE  /\ \A w \in Updaters \ {u} : gwup[w].pc \notin Using
             /\ Knows(v, gwnew, gwino'[gwnew]) /\ (gwdat # 0 => gwino'[gwdat] = gwino[gwdat])
  <2>1. /\ \A w \in Updaters \ {u} : gwup[w].pc \notin Using
        /\ Knows(gwup[u], gwnew, gwino[gwnew]) /\ gwnew \in Inodes /\ gwnew # gwdat
    BY <1>0, <1>5, Sole DEF Using
  <2>2. gwnew # 0
    BY <2>1, Constants
  <2>3. gwino[gwnew] \in File /\ gwino' = [gwino EXCEPT ![gwnew].time = gwup[u].tag]
    BY <1>0, <2>1, <2>2 DEF Chtimes, GfwTypeOK, File
  <2>4. gwino'[gwnew].data = gwino[gwnew].data /\ gwino'[gwnew].time = gwup[u].tag
    BY <1>0, <2>1, <2>3 DEF GfwTypeOK, File
  <2>5. gwdat # 0 => gwino'[gwdat] = gwino[gwdat]
    BY <1>0, <2>1, <2>3 DEF GfwTypeOK
  <2>6. Knows(v, gwnew, gwino'[gwnew])
    BY <1>0, <1>2, <2>1, <2>2, <2>4 DEF Knows, Using
  <2> QED
    BY <2>1, <2>5, <2>6
<1> QED
  BY <1>0, <1>1, <1>2, <1>3, <1>4, <1>5, NewStep DEF GfwTypeOK

LEMMA RenameStep ==
    ASSUME GfwInv, NEW u \in Updaters, Rename(u)
    PROVE  GfwInv'
<1>0. GfwTypeOK /\ gwup[u].pc = "rename" /\ ~Restarting(gwup[u]) /\ Own(gwup[u])
  BY DEF GfwInv, OwnInv, Rename, Restarting
<1>1. UNCHANGED <<gwlatest, gwcache, coreState, gwoverlap>>
  BY DEF Rename
<1>2. CASE gwnew = 0
  BY <1>0, <1>1, <1>2, CacheKept, EndStep DEF Rename
<1>3. CASE gwnew # 0
  <2>0. gwdat' = gwnew /\ gwnew' = 0 /\ gwino' = gwino /\ Goto(u, "restart")
    BY <1>3 DEF Rename
  <2>1. PICK v \in UpdaterStates : /\ gwup' = [gwup EXCEPT ![u] = v] /\ v.pc = "restart" /\ v.link = gwup[u].link
                                   /\ v.tag = gwup[u].tag /\ v.fd = gwup[u].fd /\ v.body = gwup[u].body
    BY <1>0, <2>0, GotoRecord
  <2>2. gwup' \in [Updaters -> UpdaterStates] /\ gwup'[u] = v /\ \A w \in Updaters \ {u} : gwup'[w] = gwup[w]
    BY <1>0, <2>1, OneRecord
  <2>3. GfwTypeOK'
    BY <1>0, <1>1, <1>3, <2>0, <2>2 DEF GfwTypeOK, coreState
  <2>4. Own(v)
    BY <1>0, <2>1 DEF Own
  <2>5. OwnInv'
    BY <2>2, <2>4 DEF OwnInv, GfwInv
  <2>6. ASSUME ~gwoverlap PROVE AloneOnNew' /\ NewIsKnown' /\ InstalledIsSound'
    <3>1. /\ \A w \in Updaters \ {u} : gwup[w].pc \notin Using
          /\ Knows(gwup[u], gwnew, gwino[gwnew]) /\ gwnew \in Inodes /\ gwnew # gwdat
      BY <1>0, <2>6, Sole DEF Using
    <3>2. \A w \in Updaters : gwup'[w].pc \notin Using
      BY <2>1, <2>2, <3>1 DEF Using
    <3>3. AloneOnNew' /\ NewIsKnown'
      BY <3>2 DEF AloneOnNew, NewIsKnown, Knows
    <3>4. Custom \notin Releases /\ Releases \subseteq Valid /\ Custom \in Valid
      BY Constants DEF Custom, Releases, Valid
    <3>5. Sound(gwino[gwnew])
      BY <1>0, <3>1, <3>4 DEF Sound, Knows, Own, Using
    <3> QED
      BY <2>0, <3>3, <3>5 DEF InstalledIsSound
  <2>7. FilesInv'
    BY <1>1, <2>6 DEF FilesInv
  <2>8. CoreHasInstalled'
    BY <2>1, <2>2 DEF CoreHasInstalled
  <2> QED
    BY <2>3, <2>5, <2>7, <2>8 DEF GfwInv
<1> QED
  BY <1>2, <1>3

-----------------------------------------------------------------------------
(* Steps on the core, and the environment.                                 *)

\* What the invariant says apart from the core depends on these alone.
LEMMA FilesKept ==
    ASSUME GfwInv, UNCHANGED <<files, gwup, gwoverlap>>
    PROVE  OwnInv' /\ FilesInv'
BY DEF GfwInv, OwnInv, FilesInv, AloneOnNew, NewIsKnown, InstalledIsSound, files

LEMMA CoreStep ==
    ASSUME GfwInv, NothingElse, gwset' \in GwModes,
           (CanLoad(gwset') /\ Starts(gwset')) \/ (gwcore' = Off /\ gwfailed' = FALSE)
               \/ (~gwcore.on /\ UNCHANGED <<gwcore, gwfailed>>)
    PROVE  GfwInv'
<1>1. GfwTypeOK /\ UNCHANGED <<gwino, gwdat, gwnew, gwlatest, gwcache, gwup, gwoverlap>>
  BY DEF NothingElse, files, GfwInv
<1>2. gwcore' \in [on : BOOLEAN, list : Data \cup {NoList}] /\ gwfailed' \in BOOLEAN
  <2>1. CASE CanLoad(gwset') /\ Starts(gwset')
    BY <1>1, <2>1, LoadsType DEF Starts
  <2>2. CASE gwcore' = Off /\ gwfailed' = FALSE
    BY <2>2 DEF Off
  <2>3. CASE UNCHANGED <<gwcore, gwfailed>>
    BY <1>1, <2>3 DEF GfwTypeOK
  <2> QED
    BY <2>1, <2>2, <2>3
<1>3. GfwTypeOK'
  BY <1>1, <1>2 DEF GfwTypeOK
<1>4. OwnInv' /\ FilesInv'
  BY <1>1, FilesKept DEF files
<1>5. CoreHasInstalled'
  <2>1. CASE CanLoad(gwset') /\ Starts(gwset')
    <3>1. RestartsFor(gwset') => gwcore'.list = gwino[gwdat].data
      BY <2>1 DEF RestartsFor, Starts, Loads, NeedsList
    <3> QED
      BY <1>1, <3>1 DEF CoreHasInstalled
  <2>2. CASE gwcore' = Off \/ (~gwcore.on /\ gwcore' = gwcore)
    BY <2>2 DEF CoreHasInstalled, Off
  <2> QED
    BY <2>1, <2>2
<1> QED
  BY <1>3, <1>4, <1>5 DEF GfwInv

LEMMA UserStep ==
    ASSUME GfwInv, StartCore \/ StopCore \/ \E s \in GwModes : UpdateSetting(s)
    PROVE  GfwInv'
<1>0. gwset \in GwModes
  BY DEF GfwInv, GfwTypeOK
<1>1. CASE StartCore
  BY <1>0, <1>1, CoreStep DEF StartCore
<1>2. CASE StopCore
  BY <1>0, <1>2, CoreStep DEF StopCore
<1>3. ASSUME NEW s \in GwModes, UpdateSetting(s) PROVE GfwInv'
  BY <1>3, CoreStep DEF UpdateSetting
<1> QED
  BY <1>1, <1>2, <1>3

LEMMA ReloadStep ==
    ASSUME GfwInv, NEW u \in Updaters, ReloadCore(u)
    PROVE  GfwInv'
<1>1. /\ GfwTypeOK /\ UNCHANGED <<gwino, gwdat, gwnew, gwlatest, gwcache, gwset, gwoverlap>>
      /\ gwup' = [gwup EXCEPT ![u] = Idle]
  BY DEF ReloadCore, Ends, files, GfwInv
<1>2. gwup' \in [Updaters -> UpdaterStates] /\ gwup'[u] = Idle /\ \A w \in Updaters \ {u} : gwup'[w] = gwup[w]
  BY <1>1, IdleType, OneRecord
<1>3. Own(Idle) /\ Idle.pc \notin Using
  BY DEF Own, Idle, Using
<1>4. gwcore' \in [on : BOOLEAN, list : Data \cup {NoList}] /\ gwfailed' \in BOOLEAN
  <2>1. CASE CanLoad(gwset) /\ Starts(gwset)
    BY <1>1, <2>1, LoadsType DEF Starts
  <2>2. CASE gwcore' = gwcore /\ gwfailed' = gwcore.on
    BY <1>1, <2>2 DEF GfwTypeOK
  <2>3. CASE gwcore' = Off /\ gwfailed' = FALSE
    BY <2>3 DEF Off
  <2> QED
    BY <2>1, <2>2, <2>3 DEF ReloadCore
<1>5. GfwTypeOK'
  BY <1>1, <1>2, <1>4 DEF GfwTypeOK
<1>6. OwnInv'
  BY <1>2, <1>3 DEF OwnInv, GfwInv
<1>7. ASSUME ~gwoverlap PROVE AloneOnNew' /\ NewIsKnown' /\ InstalledIsSound'
  <2>1. AloneOnNew /\ NewIsKnown /\ InstalledIsSound
    BY <1>7 DEF GfwInv, FilesInv
  <2>2. AloneOnNew'
    BY <1>2, <1>3, <2>1 DEF AloneOnNew
  <2>3. \A w \in Updaters : Knows(gwup'[w], gwnew, gwino[gwnew])
    BY <1>2, <1>3, <2>1 DEF NewIsKnown, Knows
  <2> QED
    BY <1>1, <2>1, <2>2, <2>3 DEF NewIsKnown, InstalledIsSound
<1>8. FilesInv'
  BY <1>1, <1>7 DEF FilesInv
<1>9. CoreHasInstalled'
  <2>1. CASE CanLoad(gwset) /\ Starts(gwset)
    <3>1. RestartsFor(gwset) => gwcore'.list = gwino[gwdat].data
      BY <2>1 DEF RestartsFor, Starts, Loads, NeedsList
    <3> QED
      BY <1>1, <3>1 DEF CoreHasInstalled
  <2>2. CASE gwcore' = gwcore /\ gwfailed' = gwcore.on
    BY <2>2 DEF CoreHasInstalled
  <2>3. CASE gwcore' = Off
    BY <2>3 DEF CoreHasInstalled, Off
  <2> QED
    BY <2>1, <2>2, <2>3 DEF ReloadCore
<1> QED
  BY <1>5, <1>6, <1>8, <1>9 DEF GfwInv
LEMMA DeleteStep == GfwInv /\ DeleteGFWList => GfwInv'
<1> SUFFICES ASSUME GfwInv, DeleteGFWList PROVE GfwInv'
  OBVIOUS
<1>1. gwdat' = 0 /\ UNCHANGED <<gwino, gwnew, gwlatest, gwcache, gwup, gwset, gwcore, gwfailed, gwoverlap>>
  BY DEF DeleteGFWList, coreState
<1>2. GfwTypeOK'
  BY <1>1 DEF GfwInv, GfwTypeOK
<1>3. OwnInv'
  BY <1>1 DEF GfwInv, OwnInv
<1>4. FilesInv'
  BY <1>1 DEF GfwInv, FilesInv, AloneOnNew, NewIsKnown, InstalledIsSound
<1>5. CoreHasInstalled'
  BY <1>1 DEF CoreHasInstalled
<1> QED
  BY <1>2, <1>3, <1>4, <1>5 DEF GfwInv

LEMMA KillStep == GfwInv /\ ServiceKilled => GfwInv'
<1> SUFFICES ASSUME GfwInv, ServiceKilled PROVE GfwInv'
  OBVIOUS
<1>1. /\ gwup' = [u \in Updaters |-> Idle] /\ gwcore' = Off /\ gwfailed' = FALSE
      /\ gwcache' = [tag |-> 0, fresh |-> FALSE] /\ UNCHANGED <<gwino, gwdat, gwnew, gwlatest, gwset, gwoverlap>>
  BY DEF ServiceKilled, files
<1>2. gwup' \in [Updaters -> UpdaterStates] /\ \A u \in Updaters : gwup'[u] = Idle
  BY <1>1, IdleType
<1>3. Own(Idle) /\ Idle.pc \notin Using
  BY DEF Own, Idle, Using
<1>4. Off \in [on : BOOLEAN, list : Data \cup {NoList}] /\ [tag |-> 0, fresh |-> FALSE] \in [tag : 0..MaxRelease, fresh : BOOLEAN]
  BY Constants DEF Off
<1>5. GfwTypeOK'
  BY <1>1, <1>2, <1>4 DEF GfwInv, GfwTypeOK
<1>6. OwnInv'
  BY <1>2, <1>3 DEF OwnInv
<1>7. AloneOnNew' /\ NewIsKnown'
  BY <1>2, <1>3 DEF AloneOnNew, NewIsKnown, Knows
<1>8. FilesInv'
  BY <1>1, <1>7 DEF GfwInv, FilesInv, InstalledIsSound
<1>9. CoreHasInstalled'
  BY <1>1 DEF CoreHasInstalled, Off
<1> QED
  BY <1>5, <1>6, <1>8, <1>9 DEF GfwInv

\* The clock and the server, and steps that change nothing the invariant reads.
LEMMA OutsideStep ==
    ASSUME GfwInv, UNCHANGED <<files, gwup, coreState, gwoverlap>>, gwlatest' \in Releases, CacheType'
    PROVE  GfwInv'
<1>1. GfwTypeOK'
  BY DEF GfwInv, GfwTypeOK, CacheType, files, coreState
<1>2. CoreHasInstalled'
  BY DEF GfwInv, CoreHasInstalled, files, coreState
<1> QED
  BY <1>1, <1>2, FilesKept DEF GfwInv

LEMMA EnvironmentStep ==
    ASSUME GfwInv, Published \/ HourPasses \/ UNCHANGED gfwVars
    PROVE  GfwInv'
<1>0. gwlatest \in Releases /\ CacheType /\ GfwTypeOK
  BY DEF GfwInv, GfwTypeOK, CacheType
<1>1. CASE Published
  <2>1. gwlatest' \in Releases
    BY <1>0, <1>1, Constants DEF Published, Releases
  <2> QED
    BY <1>0, <1>1, <2>1, CacheKept, OutsideStep DEF Published
<1>2. CASE HourPasses
  <2>1. CacheType'
    BY <1>0, <1>2 DEF HourPasses, CacheType
  <2> QED
    BY <1>0, <1>2, <2>1, OutsideStep DEF HourPasses
<1>3. CASE UNCHANGED gfwVars
  BY <1>0, <1>3, CacheKept, OutsideStep DEF gfwVars, files, coreState
<1> QED
  BY <1>1, <1>2, <1>3

LEMMA InitInv == GfwInit => GfwInv
<1> SUFFICES ASSUME GfwInit PROVE GfwInv
  OBVIOUS
<1>1. GfwTypeOK
  BY GfwInitType
<1>2. Own(Idle) /\ Idle.pc \notin Using
  BY DEF Own, Idle, Using
<1>3. \A u \in Updaters : gwup[u] = Idle
  BY DEF GfwInit
<1>4. OwnInv /\ AloneOnNew /\ NewIsKnown
  BY <1>2, <1>3 DEF OwnInv, AloneOnNew, NewIsKnown, Knows
<1>5. InstalledIsSound
  BY Constants, GfwListAssumption DEF GfwInit, InstalledIsSound, Sound, Valid
<1>6. CoreHasInstalled
  BY DEF GfwInit, CoreHasInstalled
<1> QED
  BY <1>1, <1>4, <1>5, <1>6 DEF GfwInv, FilesInv

LEMMA NextInv == GfwInv /\ [GfwNext]_gfwVars => GfwInv'
<1> SUFFICES ASSUME GfwInv, [GfwNext]_gfwVars PROVE GfwInv'
  OBVIOUS
<1>1. ASSUME NEW u \in Updaters, NEW link \in BOOLEAN, CheckAndUpdateGFWList(u, link) PROVE GfwInv'
  BY <1>1, BeginStep
<1>2. ASSUME NEW u \in Updaters,
             IsGFWListUpdate(u) \/ UpdateLocalGFWList(u) \/ download(u) \/ WriteFile(u) \/ CustomTime(u) \/ checkSha256(u)
             \/ Chtimes(u) \/ installGeoSiteFile(u) \/ Rename(u) \/ TestRunning(u) \/ ReloadCore(u)
      PROVE  GfwInv'
  BY <1>2, CheckStep, TagStep, DownloadStep, WriteStep, CustomTimeStep, SumStep, TimesStep, ValidStep, RenameStep, TestStep, ReloadStep
<1> QED
  BY <1>1, <1>2, DeleteStep, KillStep, EnvironmentStep, UserStep DEF GfwNext

LEMMA InvImplies == GfwInv => GfwListSafe
<1> SUFFICES ASSUME GfwInv PROVE GfwListSafe
  OBVIOUS
<1>1. InstalledIsVerified
  <2> SUFFICES ASSUME ~gwoverlap, gwdat # 0, NEW u \in Updaters
               PROVE  gwino[gwdat].data \in Valid /\ gwup[u].fd # gwdat
    BY DEF InstalledIsVerified, GfwInv, FilesInv, InstalledIsSound, Sound
  <2>1. gwino[gwdat].data \in Valid
    BY DEF GfwInv, FilesInv, InstalledIsSound, Sound
  <2>2. CASE gwup[u].pc = "write"
    BY <2>1, <2>2, Sole DEF Using, Knows
  <2>3. CASE gwup[u].pc # "write"
    BY <2>1, <2>3 DEF GfwInv, OwnInv, Own
  <2> QED
    BY <2>1, <2>2, <2>3
<1>2. NewerReleaseIsSeen
  BY DEF NewerReleaseIsSeen, GfwInv, FilesInv, InstalledIsSound, Sound
<1> QED
  BY <1>1, <1>2 DEF GfwListSafe, GfwInv

\* What is installed was verified and carries its release's time, and a core
\* that routes by the list has loaded it (CheckAndUpdateGFWList, download,
\* installGeoSiteFile, DeleteGFWList, kills at any step): for any number of
\* releases and updates, as long as no two of them used ".new" at once.
THEOREM GfwListIsSafe == GfwSpec => []GfwListSafe
<1>1. GfwInit => GfwInv
  BY InitInv
<1>2. GfwInv /\ [GfwNext]_gfwVars => GfwInv'
  BY NextInv
<1>3. GfwInv => GfwListSafe
  BY InvImplies
<1> QED
  BY <1>1, <1>2, <1>3, PTL DEF GfwSpec
-----------------------------------------------------------------------------
(* Opening the database.                                                   *)

\* A database as the service may have it: no more subscriptions than the user can choose for.
Db == {d \in Database : Len(d.subs) <= MaxDbSubs}
\* A database on which both policy migrations are done.
Marked(d) == d.marks = {"policy", "auto"}
Row == [auto : BOOLEAN, mode : DbModes]
\* The user chose an update mode or turned automatic membership on or off.
Chosen(mode) == \E i \in 0..MaxDbSubs : mode[i] # ""
\* What a file must hold to be the one a start reads.
Holds(d, members, mode) ==
    /\ \A g \in MgGroups : members[g] # "deleted" => MembersOf(d, g) = members[g]
    /\ HasRows(d) /\ mode[0] = "" /\ d.auto["proxy"] = "on" => MembersOf(d, "proxy") # "manual"
ChoicesIn(d, mode) ==
    /\ \A i \in DOMAIN d.subs : mode[i] # "" => d.subs[i].mode = mode[i]
    /\ mode[0] # "" => d.auto["proxy"] = mode[0]
OldFile(b, members) == \A g \in MgGroups : MembersOf(b, g) = members[g]
OldBolts == Bolts \intersect Database

MgTypes ==
    /\ mgbolt \in OldBolts \union {NoFile} /\ mgbak \subseteq OldBolts
    /\ mgsqlite \in Db \union {NoFile, Blank} /\ mgtemp \in Db \union {NoFile}
    /\ mgmembers \in [MgGroups -> {"none", "automatic", "manual", "deleted"}] /\ mgmembers["proxy"] # "deleted"
    /\ mgmode \in [0..MaxDbSubs -> {"", "disabled", "at_interval", "on", "off"}]
\* Until the SQLite file counts, the Bolt files are what the user has and nothing was chosen.
BoltCounts ==
    ~sqliteHoldsData(mgsqlite) \/ mgpc \in {"publish", "aside"} =>
        ~Chosen(mgmode) /\ \A b \in (mgbak \union {mgbolt}) \ {NoFile} : OldFile(b, mgmembers)
SqliteCounts == sqliteHoldsData(mgsqlite) \/ mgbolt = NoFile => Holds(mgsqlite, mgmembers, mgmode)
\* What each place of a start knows.
PlaceKnows ==
    /\ mgpc \in {"migrate", "publish", "aside"} => mgbolt # NoFile
    /\ mgpc = "schema" => mgbolt = NoFile
    /\ mgpc = "publish" => Holds(mgtemp, mgmembers, mgmode)
    /\ mgpc = "aside" => Holds(mgsqlite, mgmembers, mgmode) /\ HasRows(mgsqlite)
    /\ mgpc = "policies" => Recoverable(mgsqlite, "refs") = {}
    /\ mgpc \in {"fill", "finish", "running"} => Marked(mgsqlite)
    /\ mgpc = "running" => mgsqlite.sys
ChosenStays == Chosen(mgmode) => Marked(mgsqlite) /\ ChoicesIn(mgsqlite, mgmode)
\* The inductive invariant.
MgInv == MigrationTypeOK /\ MgTypes /\ BoltCounts /\ SqliteCounts /\ PlaceKnows /\ ChosenStays
-----------------------------------------------------------------------------
LEMMA DbFacts ==
    ASSUME NEW d \in Db
    PROVE  /\ d \in Database /\ HasRows(d) /\ d # NoFile /\ d # Blank
           /\ DOMAIN d.subs \subseteq 1..MaxDbSubs
<1>1. d \in Database /\ Len(d.subs) <= MaxDbSubs
  BY DEF Db
<1>2. d # NoFile /\ d # Blank
  BY <1>1, MigrationAssumption
<1>3. HasRows(d)
  BY <1>2 DEF HasRows
<1>4. d.subs \in Seq(Row)
  BY <1>1 DEF Database, Row
<1>5. DOMAIN d.subs \subseteq 1..MaxDbSubs
  <2> DEFINE s == d.subs
  <2> HIDE DEF s
  <2>1. s \in Seq(Row) /\ Len(s) <= MaxDbSubs /\ MaxDbSubs \in Nat
    BY <1>1, <1>4, MigrationAssumption DEF s
  <2>2. DOMAIN s \subseteq 1..MaxDbSubs
    BY <2>1
  <2> QED BY <2>2 DEF s
<1> QED BY <1>1, <1>2, <1>3, <1>5

LEMMA BoltFacts ==
    ASSUME NEW b \in OldBolts
    PROVE  /\ b \in Db /\ b.legacy = {}
           /\ b.auto["proxy"] = "on" => MembersOf(b, "proxy") # "manual"
BY MigrationAssumption DEF Db, OldBolts

LEMMA NoRows == ~HasRows(NoFile) /\ ~HasRows(Blank) /\ ~sqliteHoldsData(NoFile) /\ ~sqliteHoldsData(Blank)
BY DEF HasRows, sqliteHoldsData

LEMMA MembersByKeys ==
    ASSUME NEW d \in Db, NEW e \in Db, d.refs = e.refs, d.legacy = e.legacy
    PROVE  \A g \in MgGroups : MembersOf(d, g) = MembersOf(e, g)
BY DbFacts DEF MembersOf

LEMMA MembersType ==
    ASSUME NEW d \in Db \union {NoFile, Blank}, NEW g \in MgGroups
    PROVE  MembersOf(d, g) \in {"none", "automatic", "manual"}
<1>1. CASE d \in Db
  <2>1. d.refs[g] \in {"absent", "empty", "automatic", "manual", "corrupt"}
    BY <1>1 DEF Db, Database
  <2> QED BY <2>1 DEF MembersOf
<1>2. CASE d \in {NoFile, Blank}
  BY <1>2, NoRows DEF MembersOf
<1> QED BY <1>1, <1>2

LEMMA EmptyIsDb == EmptyDatabase \in Db /\ \A g \in MgGroups : MembersOf(EmptyDatabase, g) = "none"
<1>1. EmptyDatabase \in Database
  BY DEF EmptyDatabase, Database, MgGroups
<1>2. Len(EmptyDatabase.subs) = 0
  BY DEF EmptyDatabase
<1>3. EmptyDatabase \in Db
  BY <1>1, <1>2, MigrationAssumption DEF Db
<1> QED BY <1>3 DEF MembersOf, EmptyDatabase, MgGroups
-----------------------------------------------------------------------------
(* The migrations of one database.                                         *)

LEMMA RowsIn == ASSUME NEW S, NEW s \in Seq(S) PROVE \A i \in DOMAIN s : s[i] \in S
OBVIOUS

LEMMA RowTurned == ASSUME NEW r \in Row PROVE [r EXCEPT !.auto = FALSE] \in Row
BY DEF Row

\* A sequence rewritten row by row.
LEMMA RowByRow ==
    ASSUME NEW S, NEW s \in Seq(S), NEW t, t = [i \in DOMAIN s |-> t[i]], \A i \in DOMAIN s : t[i] \in S
    PROVE  t \in Seq(S) /\ Len(t) = Len(s) /\ DOMAIN t = DOMAIN s
<1>1. DOMAIN s = 1..Len(s) /\ Len(s) \in Nat
  BY SMT
<1>2. t \in [1..Len(s) -> S]
  BY <1>1
<1> QED BY <1>1, <1>2

\* The update policy is moved into the subscriptions once, and touches nothing else.
LEMMA PolicyFacts ==
    ASSUME NEW d \in Db
    PROVE  LET e == migrateSubscriptionUpdatePolicy(d)
           IN  /\ e \in Db /\ e.refs = d.refs /\ e.legacy = d.legacy /\ e.auto = d.auto /\ e.sys = d.sys
               /\ e.marks = d.marks \union {"policy"} /\ ("policy" \in d.marks => e = d)
<1>1. CASE "policy" \in d.marks
  BY <1>1 DEF migrateSubscriptionUpdatePolicy
<1>2. CASE "policy" \notin d.marks
  <2> DEFINE subs == [i \in DOMAIN d.subs |-> IF d.subs[i].mode = "disabled" THEN [d.subs[i] EXCEPT !.mode = LegacyMode(d.mode)] ELSE d.subs[i]]
             e == [d EXCEPT !.subs = subs, !.mode = "none", !.marks = d.marks \union {"policy"}]
  <2>1. migrateSubscriptionUpdatePolicy(d) = e
    BY <1>2 DEF migrateSubscriptionUpdatePolicy
  <2>2. LegacyMode(d.mode) \in DbModes
    BY DEF LegacyMode, DbModes
  <2>3. subs \in Seq(Row) /\ Len(subs) = Len(d.subs)
    <3>1. d.subs \in Seq(Row)
      BY DEF Db, Database, Row
    <3>2. \A i \in DOMAIN d.subs : d.subs[i] \in Row
      BY <3>1, RowsIn
    <3>3. \A i \in DOMAIN d.subs : subs[i] \in Row
      BY <3>2, <2>2 DEF Row
    <3>4. subs = [i \in DOMAIN d.subs |-> subs[i]]
      OBVIOUS
    <3> HIDE DEF subs
    <3> QED BY <3>1, <3>3, <3>4, RowByRow
  <2> HIDE DEF subs
  <2>4. e \in Db
    BY <2>3 DEF Db, Database, Row
  <2> QED BY <2>1, <2>4, <1>2 DEF Db, Database
<1> QED BY <1>1, <1>2

\* Automatic selection becomes an automatic group once; it is turned on only where no member was chosen by hand.
LEMMA AutoFacts ==
    ASSUME NEW d \in Db
    PROVE  LET e == migrateAutoSelectToAutomaticGroup(d)
           IN  /\ e \in Db /\ e.refs = d.refs /\ e.legacy = d.legacy /\ e.sys = d.sys
               /\ e.marks = d.marks \union {"auto"} /\ ("auto" \in d.marks => e = d)
               /\ e.auto["proxy"] = "on" => d.auto["proxy"] = "on" \/ d.refs["proxy"] \in {"absent", "automatic"}
<1>1. CASE "auto" \in d.marks
  BY <1>1 DEF migrateAutoSelectToAutomaticGroup
<1>2. CASE "auto" \notin d.marks /\ ~AutoSelects(d)
  BY <1>2 DEF migrateAutoSelectToAutomaticGroup, Db, Database
<1>3. CASE "auto" \notin d.marks /\ AutoSelects(d)
  <2> DEFINE subs == [i \in DOMAIN d.subs |-> [d.subs[i] EXCEPT !.auto = FALSE]]
             at == d.set["proxy"]
             set == [d.set EXCEPT !["proxy"] = IF at = "absent" \/ (at = "60s" /\ ~proxyHasManualMembers(d)) THEN "300s" ELSE at]
             auto == [d.auto EXCEPT !["proxy"] = IF proxyHasManualMembers(d) THEN "off" ELSE "on"]
             e == [d EXCEPT !.set = set, !.auto = auto, !.subs = subs, !.marks = d.marks \union {"auto"}]
  <2>0. d.set \in [MgGroups -> {"absent", "45s", "60s", "300s"}] /\ d.auto \in [MgGroups -> {"unset", "on", "off"}] /\ "proxy" \in MgGroups
    BY DEF Db, Database, MgGroups
  <2>1. migrateAutoSelectToAutomaticGroup(d) = e
    BY <1>3 DEF migrateAutoSelectToAutomaticGroup
  <2>2. set \in [MgGroups -> {"absent", "45s", "60s", "300s"}] /\ auto \in [MgGroups -> {"unset", "on", "off"}]
    BY <2>0
  <2>3. subs \in Seq(Row) /\ Len(subs) = Len(d.subs)
    <3>1. d.subs \in Seq(Row)
      BY DEF Db, Database, Row
    <3>2. \A i \in DOMAIN d.subs : d.subs[i] \in Row
      BY <3>1, RowsIn
    <3>3. \A i \in DOMAIN d.subs : subs[i] \in Row
      BY <3>2, RowTurned
    <3>4. subs = [i \in DOMAIN d.subs |-> subs[i]]
      OBVIOUS
    <3> HIDE DEF subs
    <3> QED BY <3>1, <3>3, <3>4, RowByRow
  <2>4. auto["proxy"] = "on" => d.refs["proxy"] \in {"absent", "automatic"}
    BY <2>0 DEF proxyHasManualMembers
  <2> HIDE DEF subs, set, auto
  <2>5. e \in Db
    BY <2>2, <2>3 DEF Db, Database, Row
  <2> QED BY <2>1, <2>4, <2>5, <1>3 DEF Db, Database
<1> QED BY <1>1, <1>2, <1>3

\* Both, in the order of the code.
Upgraded(d) == migrateAutoSelectToAutomaticGroup(migrateSubscriptionUpdatePolicy(d))
LEMMA UpgradeFacts ==
    ASSUME NEW d \in Db
    PROVE  /\ Upgraded(d) \in Db /\ Upgraded(d).refs = d.refs /\ Upgraded(d).legacy = d.legacy /\ Upgraded(d).sys = d.sys
           /\ Marked(Upgraded(d)) /\ (Marked(d) => Upgraded(d) = d)
           /\ Upgraded(d).auto["proxy"] = "on" => d.auto["proxy"] = "on" \/ d.refs["proxy"] \in {"absent", "automatic"}
<1> DEFINE p == migrateSubscriptionUpdatePolicy(d)
<1>1. /\ p \in Db /\ p.refs = d.refs /\ p.legacy = d.legacy /\ p.auto = d.auto /\ p.sys = d.sys
      /\ p.marks = d.marks \union {"policy"} /\ ("policy" \in d.marks => p = d)
  BY PolicyFacts
<1>2. Upgraded(d) = migrateAutoSelectToAutomaticGroup(p)
  BY DEF Upgraded
<1> HIDE DEF p
<1> DEFINE e == migrateAutoSelectToAutomaticGroup(p)
<1>3. /\ e \in Db /\ e.refs = p.refs /\ e.legacy = p.legacy /\ e.sys = p.sys
      /\ e.marks = p.marks \union {"auto"} /\ ("auto" \in p.marks => e = p)
      /\ e.auto["proxy"] = "on" => p.auto["proxy"] = "on" \/ p.refs["proxy"] \in {"absent", "automatic"}
  BY <1>1, AutoFacts
<1>4. d.marks \subseteq {"policy", "auto"}
  BY DEF Db, Database
<1> HIDE DEF e
<1> QED BY <1>1, <1>2, <1>3, <1>4 DEF Marked, e
\* Where nothing is left to recover, an upgraded database holds what the database held.
LEMMA UpgradeHolds ==
    ASSUME NEW d \in Db, NEW members, NEW mode, Holds(d, members, mode), Recoverable(d, "refs") = {}
    PROVE  Holds(Upgraded(d), members, mode)
<1>1. /\ Upgraded(d) \in Db /\ Upgraded(d).refs = d.refs /\ Upgraded(d).legacy = d.legacy
      /\ Upgraded(d).auto["proxy"] = "on" => d.auto["proxy"] = "on" \/ d.refs["proxy"] \in {"absent", "automatic"}
  BY UpgradeFacts
<1>2. \A g \in MgGroups : MembersOf(Upgraded(d), g) = MembersOf(d, g)
  BY <1>1, MembersByKeys
<1>3. "proxy" \in MgGroups
  BY DEF MgGroups
<1>4. d.refs["proxy"] \in {"absent", "automatic"} => MembersOf(d, "proxy") # "manual"
  BY <1>3, DbFacts DEF MembersOf, Recoverable
<1> QED BY <1>1, <1>2, <1>3, <1>4, DbFacts DEF Holds

\* The buckets of a Bolt file, copied.
LEMMA BucketsFacts ==
    ASSUME NEW b \in OldBolts
    PROVE  LET d == migrateBuckets(b) IN d \in Db /\ d.refs = b.refs /\ d.legacy = {} /\ d.auto = b.auto
<1>1. b \in Database /\ b \in Db
  BY BoltFacts DEF OldBolts
<1>2. EmptyDatabase \in Database /\ EmptyDatabase.legacy = {}
  BY EmptyIsDb DEF Db, EmptyDatabase
<1>3. {g \in MgGroups : b.refs[g] # "absent" \/ b.set[g] # "absent"} \subseteq MgGroups /\ b.names \subseteq MgGroups
  BY <1>1 DEF Database
<1> QED BY <1>1, <1>2, <1>3 DEF migrateBuckets, migrateOutboundsBucket, migrateTouchBucket, migrateSystemBucket, Db, Database

\* A Bolt file that is what the user has becomes a database that holds it.
LEMMA BoltHolds ==
    ASSUME NEW b \in OldBolts, NEW members, NEW mode, OldFile(b, members)
    PROVE  Upgraded(migrateBuckets(b)) \in Db /\ Holds(Upgraded(migrateBuckets(b)), members, mode)
<1> DEFINE d == migrateBuckets(b)
<1>1. d \in Db /\ d.refs = b.refs /\ d.legacy = {} /\ d.auto = b.auto
  BY BucketsFacts
<1>2. b \in Db /\ b.legacy = {} /\ (b.auto["proxy"] = "on" => MembersOf(b, "proxy") # "manual")
  BY BoltFacts
<1> HIDE DEF d
<1>3. \A g \in MgGroups : MembersOf(d, g) = MembersOf(b, g)
  BY <1>1, <1>2, MembersByKeys
<1>4. "proxy" \in MgGroups
  BY DEF MgGroups
<1>5. Holds(d, members, mode)
  BY <1>1, <1>2, <1>3, <1>4 DEF Holds, OldFile
<1>6. Recoverable(d, "refs") = {}
  BY <1>1 DEF Recoverable
<1>7. Upgraded(d) \in Db /\ Holds(Upgraded(d), members, mode)
  BY <1>1, <1>5, <1>6, UpgradeHolds, UpgradeFacts
<1> QED BY <1>7 DEF d

\* A database that differs in no key the user's members and choices are read from.
LEMMA SameKeys ==
    ASSUME NEW d \in Db, NEW e \in Db, NEW members, NEW mode,
           e.refs = d.refs, e.legacy = d.legacy, e.auto = d.auto, e.subs = d.subs, e.marks = d.marks
    PROVE  /\ Holds(d, members, mode) => Holds(e, members, mode)
           /\ ChoicesIn(d, mode) => ChoicesIn(e, mode)
           /\ Marked(d) => Marked(e)
<1>1. \A g \in MgGroups : MembersOf(e, g) = MembersOf(d, g)
  BY MembersByKeys
<1>2. "proxy" \in MgGroups
  BY DEF MgGroups
<1> QED BY <1>1, <1>2, DbFacts DEF Holds, ChoicesIn, Marked

\* A database created where there was none holds as little.
LEMMA NewHolds ==
    ASSUME NEW f \in {NoFile, Blank}, NEW members, NEW mode, Holds(f, members, mode)
    PROVE  Holds(Blank, members, mode) /\ Holds(EmptyDatabase, members, mode)
<1>1. \A g \in MgGroups : MembersOf(f, g) = "none" /\ MembersOf(Blank, g) = "none" /\ MembersOf(EmptyDatabase, g) = "none"
  BY NoRows, EmptyIsDb DEF MembersOf
<1>2. "proxy" \in MgGroups
  BY DEF MgGroups
<1> QED BY <1>1, <1>2 DEF Holds
-----------------------------------------------------------------------------
(* The steps of a start.                                                   *)

\* What was chosen is in an SQLite file that counts.
LEMMA ChosenCounts ==
    ASSUME MgInv
    PROVE  Chosen(mgmode) => sqliteHoldsData(mgsqlite) /\ HasRows(mgsqlite) /\ mgpc \notin {"publish", "aside"}
BY DEF MgInv, BoltCounts, sqliteHoldsData

LEMMA MigrateStep == ASSUME MgInv, MigrateFromBoltDB PROVE MgInv'
<1> USE DEF MgInv
<1>1. mgpc = "migrate" /\ mgtemp = NoFile /\ mgbolt \in OldBolts /\ mgbolt # NoFile /\ UNCHANGED User
  BY DEF MigrateFromBoltDB, PlaceKnows, MgTypes
<1>2. CASE sqliteHoldsData(mgsqlite)
  <2>1. /\ mgbak' = mgbak \union {mgbolt} /\ mgbolt' = NoFile /\ mgpc' = "open" /\ UNCHANGED <<mgsqlite, mgtemp>>
    BY <1>2 DEF MigrateFromBoltDB
  <2>2. MigrationTypeOK' /\ MgTypes'
    BY <1>1, <2>1 DEF MigrationTypeOK, MgTypes, User
  <2>3. BoltCounts' /\ SqliteCounts' /\ PlaceKnows' /\ ChosenStays'
    BY <1>1, <1>2, <2>1 DEF BoltCounts, SqliteCounts, PlaceKnows, ChosenStays, User
  <2> QED BY <2>2, <2>3
<1>3. CASE ~sqliteHoldsData(mgsqlite)
  <2> DEFINE d == Upgraded(migrateBuckets(mgbolt))
  <2>1. ~Chosen(mgmode) /\ OldFile(mgbolt, mgmembers)
    BY <1>1, <1>3 DEF BoltCounts
  <2>2. d \in Db /\ Holds(d, mgmembers, mgmode)
    BY <1>1, <2>1, BoltHolds
  <2>3. /\ mgsqlite' = NoFile /\ UNCHANGED <<mgbolt, mgbak>>
        /\ \/ mgtemp' = d /\ mgpc' = "publish"
           \/ mgtemp' = NoFile /\ mgpc' = "down"
    BY <1>3 DEF MigrateFromBoltDB, Dies, Upgraded
  <2> HIDE DEF d
  <2>4. d # NoFile
    BY <2>2, DbFacts
  <2>5. MigrationTypeOK' /\ MgTypes'
    BY <1>1, <2>2, <2>3, <2>4 DEF MigrationTypeOK, MgTypes, User
  <2>6. BoltCounts' /\ SqliteCounts' /\ PlaceKnows' /\ ChosenStays'
    BY <1>1, <1>3, <2>1, <2>2, <2>3, NoRows DEF BoltCounts, SqliteCounts, PlaceKnows, ChosenStays, User
  <2> QED BY <2>5, <2>6
<1> QED BY <1>2, <1>3

LEMMA PublishStep == ASSUME MgInv, Publish PROVE MgInv'
<1> USE DEF MgInv
<1>1. mgtemp \in Db /\ HasRows(mgtemp) /\ Holds(mgtemp, mgmembers, mgmode) /\ mgbolt # NoFile /\ ~Chosen(mgmode)
  BY DbFacts DEF Publish, MigrationTypeOK, MgTypes, PlaceKnows, BoltCounts
<1>2. MigrationTypeOK' /\ MgTypes'
  BY <1>1 DEF Publish, MigrationTypeOK, MgTypes, User
<1>3. BoltCounts' /\ SqliteCounts' /\ PlaceKnows' /\ ChosenStays'
  BY <1>1 DEF Publish, BoltCounts, SqliteCounts, PlaceKnows, ChosenStays, User
<1> QED BY <1>2, <1>3

LEMMA AsideStep == ASSUME MgInv, moveBoltAside PROVE MgInv'
<1> USE DEF MgInv
<1>1. mgbolt \in OldBolts /\ Holds(mgsqlite, mgmembers, mgmode) /\ ~Chosen(mgmode)
  BY DEF moveBoltAside, MgTypes, PlaceKnows, BoltCounts
<1>2. MigrationTypeOK' /\ MgTypes'
  BY <1>1 DEF moveBoltAside, MigrationTypeOK, MgTypes, User
<1>3. BoltCounts' /\ SqliteCounts' /\ PlaceKnows' /\ ChosenStays'
  BY <1>1 DEF moveBoltAside, BoltCounts, SqliteCounts, PlaceKnows, ChosenStays, User
<1> QED BY <1>2, <1>3

LEMMA AsideFailsStep == ASSUME MgInv, AsideFails PROVE MgInv'
<1> USE DEF MgInv
<1>1. mgbolt # NoFile /\ Holds(mgsqlite, mgmembers, mgmode) /\ ~Chosen(mgmode)
  BY DEF AsideFails, PlaceKnows, BoltCounts
<1>2. MigrationTypeOK' /\ MgTypes'
  BY DEF AsideFails, Dies, MigrationTypeOK, MgTypes, User
<1>3. BoltCounts' /\ SqliteCounts' /\ PlaceKnows' /\ ChosenStays'
  BY <1>1, NoRows DEF AsideFails, Dies, BoltCounts, SqliteCounts, PlaceKnows, ChosenStays, User
<1> QED BY <1>2, <1>3

LEMMA OpenStep == ASSUME MgInv, Open PROVE MgInv'
<1> USE DEF MgInv
<1>1. CASE mgbolt # NoFile
  <2>1. MigrationTypeOK' /\ MgTypes'
    BY <1>1 DEF Open, MigrationTypeOK, MgTypes, User
  <2>2. BoltCounts' /\ SqliteCounts' /\ PlaceKnows' /\ ChosenStays'
    BY <1>1 DEF Open, BoltCounts, SqliteCounts, PlaceKnows, ChosenStays, User
  <2> QED BY <2>1, <2>2
<1>2. CASE mgbolt = NoFile
  <2>1. mgpc' = "schema" /\ mgsqlite' = (IF mgsqlite = NoFile THEN Blank ELSE mgsqlite) /\ UNCHANGED <<mgbolt, mgbak, mgtemp, User>> /\ mgpc = "open"
    BY <1>2 DEF Open
  <2>2. Holds(mgsqlite', mgmembers, mgmode)
    BY <1>2, <2>1, NewHolds DEF SqliteCounts
  <2>3. sqliteHoldsData(mgsqlite') <=> sqliteHoldsData(mgsqlite)
    BY <2>1, NoRows
  <2>4. Chosen(mgmode) => mgsqlite' = mgsqlite
    BY <2>1, ChosenCounts, NoRows
  <2>5. MigrationTypeOK' /\ MgTypes'
    BY <1>2, <2>1 DEF MigrationTypeOK, MgTypes, User
  <2>6. BoltCounts' /\ SqliteCounts' /\ PlaceKnows' /\ ChosenStays'
    BY <1>2, <2>1, <2>2, <2>3, <2>4 DEF BoltCounts, SqliteCounts, PlaceKnows, ChosenStays, User
  <2> QED BY <2>5, <2>6
<1> QED BY <1>1, <1>2
\* A step that writes a database to the file a start reads, while there is no Bolt file.
LEMMA StoreStep ==
    ASSUME MgInv, NEW from, NEW d, NEW to, Writes(from, d, to), mgbolt = NoFile,
           from \in {"schema", "legacy", "policies", "fill", "finish"}, to \in {"legacy", "policies", "fill", "finish", "running"},
           d \in Db, Holds(d, mgmembers, mgmode), sqliteHoldsData(mgsqlite) => d.sys,
           to = "policies" => Recoverable(d, "refs") = {},
           to \in {"fill", "finish", "running"} => Marked(d),
           to = "running" => d.sys,
           Chosen(mgmode) => Marked(d) /\ ChoicesIn(d, mgmode)
    PROVE  MgInv'
<1> USE DEF MgInv
<1>1. mgpc = from /\ mgpc' = to /\ mgsqlite' = d /\ UNCHANGED <<mgbolt, mgbak, mgtemp, User>>
  BY DEF Writes
<1>2. HasRows(d) /\ (sqliteHoldsData(mgsqlite) => sqliteHoldsData(d))
  BY DbFacts DEF sqliteHoldsData
<1>3. MigrationTypeOK' /\ MgTypes'
  BY <1>1, <1>2 DEF MigrationTypeOK, MgTypes, User
<1>4. BoltCounts'
  BY <1>1, <1>2 DEF BoltCounts, User
<1>5. SqliteCounts' /\ PlaceKnows' /\ ChosenStays'
  BY <1>1 DEF SqliteCounts, PlaceKnows, ChosenStays, User
<1> QED BY <1>3, <1>4, <1>5

\* Past the schema, the file a start reads is a database that holds what the user has.
LEMMA PastSchema ==
    ASSUME MgInv, mgpc \in {"legacy", "policies", "fill", "finish", "running"}
    PROVE  /\ mgbolt = NoFile /\ mgsqlite \in Db /\ HasRows(mgsqlite) /\ Holds(mgsqlite, mgmembers, mgmode)
           /\ sqliteHoldsData(mgsqlite) <=> mgsqlite.sys
           /\ mgsqlite.sys \in BOOLEAN
<1>1. mgbolt = NoFile /\ HasRows(mgsqlite) /\ mgsqlite \in Db
  BY NoRows DEF MgInv, MigrationTypeOK, MgTypes
<1>2. mgsqlite.sys \in BOOLEAN
  BY <1>1 DEF Db, Database
<1> QED BY <1>1, <1>2 DEF MgInv, SqliteCounts, sqliteHoldsData

LEMMA SchemaStep == ASSUME MgInv, InitSchema PROVE MgInv'
<1> DEFINE d == IF HasRows(mgsqlite) THEN mgsqlite ELSE EmptyDatabase
<1>1. Writes("schema", d, "legacy") /\ mgpc = "schema"
  BY DEF InitSchema, Writes
<1>2. mgbolt = NoFile
  BY <1>1 DEF MgInv, PlaceKnows
<1>3. Holds(mgsqlite, mgmembers, mgmode)
  BY <1>2 DEF MgInv, SqliteCounts
<1>4. mgsqlite \in Db \union {NoFile, Blank}
  BY DEF MgInv, MgTypes
<1>5. /\ d \in Db /\ Holds(d, mgmembers, mgmode) /\ (sqliteHoldsData(mgsqlite) => d.sys)
      /\ Chosen(mgmode) => Marked(d) /\ ChoicesIn(d, mgmode)
  <2>1. CASE HasRows(mgsqlite)
    BY <1>3, <1>4, <2>1, NoRows DEF MgInv, ChosenStays, sqliteHoldsData
  <2>2. CASE ~HasRows(mgsqlite)
    <3>1. mgsqlite \in {NoFile, Blank}
      BY <2>2 DEF HasRows
    <3>2. ~Chosen(mgmode) /\ ~sqliteHoldsData(mgsqlite)
      BY <2>2, ChosenCounts DEF sqliteHoldsData
    <3>3. d = EmptyDatabase
      BY <2>2
    <3> HIDE DEF d
    <3> QED BY <1>3, <3>1, <3>2, <3>3, NewHolds, EmptyIsDb
  <2> QED BY <2>1, <2>2
<1> HIDE DEF d
<1> QED BY <1>1, <1>2, <1>5, StoreStep

LEMMA RecoverMembers ==
    ASSUME NEW d \in Db, NEW g \in Recoverable(d, "refs"), NEW members, NEW mode, Holds(d, members, mode)
    PROVE  LET e == [d EXCEPT !.refs[g] = "manual"]
           IN  /\ e \in Db /\ Holds(e, members, mode) /\ e.sys = d.sys
               /\ Marked(d) => Marked(e)
               /\ ChoicesIn(d, mode) => ChoicesIn(e, mode)
<1> DEFINE e == [d EXCEPT !.refs[g] = "manual"]
<1>1. g \in d.legacy /\ g \in MgGroups /\ d.refs[g] = "absent"
  BY DEF Recoverable, Db, Database
<1>2. e \in Db /\ e.sys = d.sys /\ e.legacy = d.legacy /\ e.auto = d.auto /\ e.subs = d.subs /\ e.marks = d.marks
  BY <1>1 DEF Db, Database
<1>3. e.refs = [d.refs EXCEPT ![g] = "manual"] /\ d.refs \in [MgGroups -> {"absent", "empty", "automatic", "manual", "corrupt"}]
  BY DEF Db, Database
<1> HIDE DEF e
<1>4. ASSUME NEW h \in MgGroups PROVE MembersOf(e, h) = MembersOf(d, h)
  <2>1. CASE h = g
    BY <1>1, <1>2, <1>3, <2>1, DbFacts DEF MembersOf
  <2>2. CASE h # g
    BY <1>1, <1>2, <1>3, <2>2, DbFacts DEF MembersOf
  <2> QED BY <2>1, <2>2
<1>5. "proxy" \in MgGroups
  BY DEF MgGroups
<1>6. Holds(e, members, mode)
  BY <1>2, <1>4, <1>5, DbFacts DEF Holds
<1>7. (Marked(d) => Marked(e)) /\ (ChoicesIn(d, mode) => ChoicesIn(e, mode))
  BY <1>2 DEF Marked, ChoicesIn
<1> QED BY <1>2, <1>6, <1>7 DEF e

LEMMA LegacyStep == ASSUME MgInv, migrateLegacyOutboundTables PROVE MgInv'
<1>1. mgpc = "legacy"
  BY DEF migrateLegacyOutboundTables
<1>2. mgbolt = NoFile /\ mgsqlite \in Db /\ Holds(mgsqlite, mgmembers, mgmode) /\ (sqliteHoldsData(mgsqlite) <=> mgsqlite.sys)
  BY <1>1, PastSchema
<1>3. Chosen(mgmode) => Marked(mgsqlite) /\ ChoicesIn(mgsqlite, mgmode)
  BY DEF MgInv, ChosenStays
<1>4. ASSUME NEW g \in Recoverable(mgsqlite, "refs"), Writes("legacy", [mgsqlite EXCEPT !.refs[g] = "manual"], "legacy")
      PROVE  MgInv'
  <2> DEFINE e == [mgsqlite EXCEPT !.refs[g] = "manual"]
  <2>1. /\ e \in Db /\ Holds(e, mgmembers, mgmode) /\ e.sys = mgsqlite.sys
        /\ Marked(mgsqlite) => Marked(e)
        /\ ChoicesIn(mgsqlite, mgmode) => ChoicesIn(e, mgmode)
    BY <1>2, RecoverMembers
  <2>2. Writes("legacy", e, "legacy")
    BY <1>4
  <2> HIDE DEF e
  <2> QED BY <1>2, <1>3, <2>1, <2>2, StoreStep
<1>5. ASSUME NEW g \in Recoverable(mgsqlite, "set"), Writes("legacy", [mgsqlite EXCEPT !.set[g] = "45s"], "legacy")
      PROVE  MgInv'
  <2> DEFINE e == [mgsqlite EXCEPT !.set[g] = "45s"]
  <2>1. /\ e \in Db /\ e.sys = mgsqlite.sys /\ e.refs = mgsqlite.refs /\ e.legacy = mgsqlite.legacy
        /\ e.auto = mgsqlite.auto /\ e.subs = mgsqlite.subs /\ e.marks = mgsqlite.marks
    BY <1>2 DEF Db, Database, Recoverable
  <2>2. Writes("legacy", e, "legacy")
    BY <1>5
  <2> HIDE DEF e
  <2>3. /\ Holds(e, mgmembers, mgmode)
        /\ ChoicesIn(mgsqlite, mgmode) => ChoicesIn(e, mgmode)
        /\ Marked(mgsqlite) => Marked(e)
    BY <1>2, <2>1, SameKeys
  <2> QED BY <1>2, <1>3, <2>1, <2>2, <2>3, StoreStep
<1>6. ASSUME Recoverable(mgsqlite, "refs") = {}, Writes("legacy", mgsqlite, "policies")
      PROVE  MgInv'
  BY <1>2, <1>3, <1>6, StoreStep
<1> QED BY <1>4, <1>5, <1>6 DEF migrateLegacyOutboundTables
LEMMA KilledStep == ASSUME MgInv, mgpc' = "down", mgtemp' = NoFile, UNCHANGED <<Files, User>> PROVE MgInv'
<1> USE DEF MgInv
<1>1. MigrationTypeOK' /\ MgTypes'
  BY DEF MigrationTypeOK, MgTypes, Files, User
<1>2. BoltCounts' /\ SqliteCounts' /\ PlaceKnows' /\ ChosenStays'
  BY DEF BoltCounts, SqliteCounts, PlaceKnows, ChosenStays, Files, User
<1> QED BY <1>1, <1>2

LEMMA PoliciesStep == ASSUME MgInv, MigrateSchema PROVE MgInv'
<1>1. mgpc = "policies"
  BY DEF MigrateSchema
<1>2. /\ mgbolt = NoFile /\ mgsqlite \in Db /\ Holds(mgsqlite, mgmembers, mgmode)
      /\ sqliteHoldsData(mgsqlite) <=> mgsqlite.sys
      /\ mgsqlite.sys \in BOOLEAN
  BY <1>1, PastSchema
<1>3. Recoverable(mgsqlite, "refs") = {}
  BY <1>1 DEF MgInv, PlaceKnows
<1>4. CASE MembersReadable(mgsqlite)
  <2> DEFINE d == Upgraded(mgsqlite)
             to == IF mgnew /\ ~mgmigrated THEN "fill" ELSE "finish"
  <2>1. Writes("policies", d, to) /\ to \in {"fill", "finish"}
    BY <1>4 DEF MigrateSchema, Upgraded
  <2>2. d \in Db /\ d.sys = mgsqlite.sys /\ Marked(d) /\ (Marked(mgsqlite) => d = mgsqlite)
    BY <1>2, UpgradeFacts
  <2>3. Holds(d, mgmembers, mgmode)
    BY <1>2, <1>3, UpgradeHolds
  <2> HIDE DEF d, to
  <2>4. Chosen(mgmode) => Marked(d) /\ ChoicesIn(d, mgmode)
    BY <2>2 DEF MgInv, ChosenStays
  <2> QED BY <1>2, <2>1, <2>2, <2>3, <2>4, StoreStep
<1>5. CASE ~MembersReadable(mgsqlite)
  BY <1>1, <1>5, KilledStep DEF MigrateSchema, Dies
<1> QED BY <1>4, <1>5

\* The defaults of a new database change no key of the user's.
LEMMA FillStep ==
    ASSUME MgInv, NEW from \in {"fill", "finish"}, NEW to \in {"finish", "running"}, NEW names \in SUBSET MgGroups,
           Writes(from, [mgsqlite EXCEPT !.sys = TRUE, !.names = names], to)
    PROVE  MgInv'
<1> DEFINE d == [mgsqlite EXCEPT !.sys = TRUE, !.names = names]
<1>1. mgpc = from
  BY DEF Writes
<1>2. mgbolt = NoFile /\ mgsqlite \in Db /\ Holds(mgsqlite, mgmembers, mgmode)
  BY <1>1, PastSchema
<1>3. /\ d \in Db /\ d.sys /\ d.refs = mgsqlite.refs /\ d.legacy = mgsqlite.legacy
      /\ d.auto = mgsqlite.auto /\ d.subs = mgsqlite.subs /\ d.marks = mgsqlite.marks
  BY <1>2 DEF Db, Database
<1>4. Writes(from, d, to)
  OBVIOUS
<1> HIDE DEF d
<1>5. /\ Holds(d, mgmembers, mgmode)
      /\ ChoicesIn(mgsqlite, mgmode) => ChoicesIn(d, mgmode)
      /\ Marked(mgsqlite) => Marked(d)
  BY <1>2, <1>3, SameKeys
<1>6. Marked(mgsqlite) /\ (Chosen(mgmode) => ChoicesIn(mgsqlite, mgmode))
  BY <1>1 DEF MgInv, PlaceKnows, ChosenStays
<1> QED BY <1>2, <1>3, <1>4, <1>5, <1>6, StoreStep

LEMMA DefaultsStep == ASSUME MgInv, initDBValue \/ initConfigure PROVE MgInv'
<1>1. mgpc \in {"fill", "finish"}
  BY DEF initDBValue, initConfigure
<1>2. mgsqlite \in Db
  BY <1>1, PastSchema
<1>3. mgsqlite.names \in SUBSET MgGroups /\ mgsqlite.names \union {"proxy"} \in SUBSET MgGroups
  BY <1>2 DEF Db, Database, MgGroups
<1>4. CASE initDBValue
  <2>1. [mgsqlite EXCEPT !.sys = TRUE] = [mgsqlite EXCEPT !.sys = TRUE, !.names = mgsqlite.names]
    BY <1>2 DEF Db, Database
  <2> QED BY <1>3, <1>4, <2>1, FillStep DEF initDBValue
<1>5. CASE initConfigure
  BY <1>3, <1>5, FillStep DEF initConfigure
<1> QED BY <1>4, <1>5

LEMMA BootStep == ASSUME MgInv, Boot PROVE MgInv'
<1> USE DEF MgInv
<1>1. MigrationTypeOK' /\ MgTypes'
  BY DEF Boot, MigrationTypeOK, MgTypes, Files, User
<1>2. BoltCounts' /\ SqliteCounts' /\ PlaceKnows' /\ ChosenStays'
  BY DEF Boot, BoltCounts, SqliteCounts, PlaceKnows, ChosenStays, Files, User
<1> QED BY <1>1, <1>2

LEMMA ReturnStep == ASSUME MgInv, NEW b \in mgbak, BoltReturns(b) PROVE MgInv'
<1> USE DEF MgInv
<1>1. b \in OldBolts /\ b # NoFile
  BY BoltFacts, DbFacts DEF MgTypes
<1>2. MigrationTypeOK' /\ MgTypes'
  BY <1>1 DEF BoltReturns, MigrationTypeOK, MgTypes, User
<1>3. BoltCounts' /\ SqliteCounts' /\ PlaceKnows' /\ ChosenStays'
  BY <1>1 DEF BoltReturns, BoltCounts, SqliteCounts, PlaceKnows, ChosenStays, User
<1> QED BY <1>2, <1>3
-----------------------------------------------------------------------------
(* What the running service stores.                                        *)

LEMMA RunningFacts ==
    ASSUME MgInv, mgpc = "running"
    PROVE  /\ mgbolt = NoFile /\ mgsqlite \in Db /\ Holds(mgsqlite, mgmembers, mgmode) /\ mgsqlite.sys
           /\ Marked(mgsqlite) /\ ChoicesIn(mgsqlite, mgmode) /\ mgtemp = NoFile
<1>1. mgbolt = NoFile /\ mgsqlite \in Db /\ Holds(mgsqlite, mgmembers, mgmode)
  BY PastSchema
<1>2. mgsqlite.sys /\ Marked(mgsqlite) /\ mgtemp = NoFile
  BY DEF MgInv, PlaceKnows, MigrationTypeOK
<1>3. CASE Chosen(mgmode)
  BY <1>1, <1>2, <1>3 DEF MgInv, ChosenStays
<1>4. CASE ~Chosen(mgmode)
  <2>1. \A i \in 0..MaxDbSubs : mgmode[i] = ""
    BY <1>4 DEF Chosen
  <2>2. DOMAIN mgsqlite.subs \subseteq 0..MaxDbSubs /\ 0 \in 0..MaxDbSubs
    BY <1>1, DbFacts, MigrationAssumption, SMTT(30)
  <2> QED BY <1>1, <1>2, <2>1, <2>2 DEF ChoicesIn
<1> QED BY <1>1, <1>2, <1>3, <1>4

\* A choice of the user: the database it leaves holds the members and the choices it leaves.
LEMMA ChoiceStep ==
    ASSUME MgInv, NEW d \in Db, Chooses(d), d.sys, Marked(d),
           mgmembers' \in [MgGroups -> {"none", "automatic", "manual", "deleted"}], mgmembers'["proxy"] # "deleted",
           mgmode' \in [0..MaxDbSubs -> {"", "disabled", "at_interval", "on", "off"}],
           Holds(d, mgmembers', mgmode'), ChoicesIn(d, mgmode')
    PROVE  MgInv'
<1> USE DEF MgInv
<1>1. mgpc = "running" /\ mgpc' = "running" /\ mgsqlite' = d /\ UNCHANGED <<mgbolt, mgbak, mgtemp>>
  BY DEF Chooses
<1>2. HasRows(d) /\ sqliteHoldsData(d)
  BY DbFacts DEF sqliteHoldsData
<1>3. MigrationTypeOK' /\ MgTypes'
  BY <1>1, <1>2 DEF MigrationTypeOK, MgTypes
<1>4. BoltCounts'
  BY <1>1, <1>2 DEF BoltCounts
<1>5. SqliteCounts' /\ PlaceKnows' /\ ChosenStays'
  BY <1>1 DEF SqliteCounts, PlaceKnows, ChosenStays
<1> QED BY <1>3, <1>4, <1>5
LEMMA ModeStep ==
    ASSUME MgInv, NEW i \in 1..MaxDbSubs, NEW m \in {"disabled", "at_interval"}, ChooseMode(i, m)
    PROVE  MgInv'
<1> DEFINE d == [mgsqlite EXCEPT !.subs[i].mode = m]
<1>1. mgpc = "running" /\ i \in DOMAIN mgsqlite.subs /\ Chooses(d) /\ mgmode' = [mgmode EXCEPT ![i] = m] /\ mgmembers' = mgmembers
  BY DEF ChooseMode
<1>2. /\ mgsqlite \in Db /\ Holds(mgsqlite, mgmembers, mgmode) /\ mgsqlite.sys
      /\ Marked(mgsqlite) /\ ChoicesIn(mgsqlite, mgmode)
  BY <1>1, RunningFacts
<1>3. /\ mgmembers \in [MgGroups -> {"none", "automatic", "manual", "deleted"}] /\ mgmembers["proxy"] # "deleted"
      /\ mgmode \in [0..MaxDbSubs -> {"", "disabled", "at_interval", "on", "off"}]
  BY DEF MgInv, MgTypes
<1>4. i \in 0..MaxDbSubs /\ i # 0 /\ 0 \in 0..MaxDbSubs
  BY MigrationAssumption, SMTT(30)
<1>5. mgmode' \in [0..MaxDbSubs -> {"", "disabled", "at_interval", "on", "off"}] /\ mgmode'[0] = mgmode[0]
  BY <1>1, <1>3, <1>4
<1> DEFINE subs == [mgsqlite.subs EXCEPT ![i] = [mgsqlite.subs[i] EXCEPT !.mode = m]]
<1>6. d = [mgsqlite EXCEPT !.subs = subs]
  BY <1>2 DEF Db, Database
<1>7. mgsqlite.subs \in Seq(Row)
  BY <1>2 DEF Db, Database, Row
<1>8. \A j \in DOMAIN mgsqlite.subs : mgsqlite.subs[j] \in Row
  BY <1>7, RowsIn
<1>9. \A j \in DOMAIN mgsqlite.subs : subs[j] \in Row /\ (j # i => subs[j] = mgsqlite.subs[j])
  BY <1>1, <1>8 DEF Row, DbModes
<1>10. subs[i].mode = m /\ subs = [j \in DOMAIN mgsqlite.subs |-> subs[j]]
  BY <1>1, <1>8 DEF Row
<1> HIDE DEF subs
<1>11. subs \in Seq(Row) /\ Len(subs) = Len(mgsqlite.subs) /\ DOMAIN subs = DOMAIN mgsqlite.subs
  BY <1>7, <1>9, <1>10, RowByRow
<1>12. /\ d \in Db /\ d.sys = mgsqlite.sys /\ d.refs = mgsqlite.refs /\ d.legacy = mgsqlite.legacy
       /\ d.auto = mgsqlite.auto /\ d.marks = mgsqlite.marks /\ d.subs = subs
  BY <1>2, <1>6, <1>11 DEF Db, Database, Row
<1> HIDE DEF d
<1>13. \A g \in MgGroups : MembersOf(d, g) = MembersOf(mgsqlite, g)
  BY <1>2, <1>12, MembersByKeys
<1>14. Holds(d, mgmembers', mgmode')
  BY <1>1, <1>2, <1>5, <1>12, <1>13, DbFacts DEF Holds, MgGroups
<1>15. DOMAIN mgsqlite.subs \subseteq 0..MaxDbSubs
  <2>1. DOMAIN mgsqlite.subs \subseteq 1..MaxDbSubs
    BY <1>2, DbFacts
  <2> QED BY <2>1
<1>16. ChoicesIn(d, mgmode')
  <2>1. ASSUME NEW j \in DOMAIN d.subs, mgmode'[j] # "" PROVE d.subs[j].mode = mgmode'[j]
    <3>1. d.subs = subs /\ j \in DOMAIN mgsqlite.subs /\ j \in 0..MaxDbSubs
      BY <1>11, <1>12, <1>15
    <3>2. CASE j = i
      BY <1>1, <1>3, <1>4, <1>10, <3>1, <3>2
    <3>3. CASE j # i
      <4>1. mgmode'[j] = mgmode[j] /\ subs[j] = mgsqlite.subs[j]
        BY <1>1, <1>3, <1>9, <3>1, <3>3
      <4> QED BY <1>2, <2>1, <3>1, <4>1 DEF ChoicesIn
    <3> QED BY <3>2, <3>3
  <2>2. mgmode'[0] # "" => d.auto["proxy"] = mgmode'[0]
    BY <1>2, <1>5, <1>12 DEF ChoicesIn
  <2> QED BY <2>1, <2>2 DEF ChoicesIn
<1>17. Marked(d)
  BY <1>2, <1>12 DEF Marked
<1> QED BY <1>1, <1>2, <1>3, <1>5, <1>12, <1>14, <1>16, <1>17, ChoiceStep

\* A step that changes the keys of one group and what the user has of it.
LEMMA GroupStep ==
    ASSUME MgInv, NEW g \in MgGroups, NEW d \in Db, Chooses(d), mgmode' = mgmode,
           d.sys = mgsqlite.sys, d.subs = mgsqlite.subs, d.marks = mgsqlite.marks, d.legacy = mgsqlite.legacy,
           \A h \in MgGroups \ {g} : d.refs[h] = mgsqlite.refs[h] /\ d.auto[h] = mgsqlite.auto[h] /\ mgmembers'[h] = mgmembers[h],
           g = "proxy" => d.auto["proxy"] = mgsqlite.auto["proxy"],
           mgmembers' \in [MgGroups -> {"none", "automatic", "manual", "deleted"}],
           g = "proxy" => mgmembers'[g] # "deleted",
           mgmembers'[g] # "deleted" => MembersOf(d, g) = mgmembers'[g],
           g = "proxy" => MembersOf(d, g) # "manual" \/ MembersOf(d, g) = MembersOf(mgsqlite, g)
    PROVE  MgInv'
<1>1. mgpc = "running"
  BY DEF Chooses
<1>2. /\ mgsqlite \in Db /\ Holds(mgsqlite, mgmembers, mgmode) /\ mgsqlite.sys
      /\ Marked(mgsqlite) /\ ChoicesIn(mgsqlite, mgmode)
  BY <1>1, RunningFacts
<1>3. mgmembers["proxy"] # "deleted" /\ mgmode \in [0..MaxDbSubs -> {"", "disabled", "at_interval", "on", "off"}]
  BY DEF MgInv, MgTypes
<1>4. "proxy" \in MgGroups
  BY DEF MgGroups
<1>5. d.auto["proxy"] = mgsqlite.auto["proxy"] /\ mgmembers'["proxy"] # "deleted"
  BY <1>3, <1>4
<1>6. \A h \in MgGroups \ {g} : MembersOf(d, h) = MembersOf(mgsqlite, h)
  BY <1>2, DbFacts DEF MembersOf
<1>7. Holds(d, mgmembers', mgmode')
  BY <1>2, <1>4, <1>5, <1>6, DbFacts DEF Holds
<1>8. ChoicesIn(d, mgmode') /\ Marked(d)
  BY <1>2, <1>5 DEF ChoicesIn, Marked
<1> QED BY <1>2, <1>3, <1>5, <1>7, <1>8, ChoiceStep

LEMMA DisconnectStep == ASSUME MgInv, NEW g \in MgGroups, DisconnectNode(g) PROVE MgInv'
<1> DEFINE d == [mgsqlite EXCEPT !.refs[g] = "empty"]
<1>1. mgpc = "running" /\ Chooses(d) /\ mgmembers' = [mgmembers EXCEPT ![g] = "none"] /\ mgmode' = mgmode
  BY DEF DisconnectNode
<1>2. mgsqlite \in Db /\ mgmembers \in [MgGroups -> {"none", "automatic", "manual", "deleted"}]
  BY <1>1, RunningFacts DEF MgInv, MgTypes
<1>3. /\ d \in Db /\ d.sys = mgsqlite.sys /\ d.subs = mgsqlite.subs /\ d.marks = mgsqlite.marks /\ d.legacy = mgsqlite.legacy
      /\ d.auto = mgsqlite.auto /\ d.refs = [mgsqlite.refs EXCEPT ![g] = "empty"]
  BY <1>2 DEF Db, Database
<1>4. mgsqlite.refs \in [MgGroups -> {"absent", "empty", "automatic", "manual", "corrupt"}]
  BY <1>2 DEF Db, Database
<1> HIDE DEF d
<1>5. d.refs[g] = "empty" /\ \A h \in MgGroups \ {g} : d.refs[h] = mgsqlite.refs[h]
  BY <1>3, <1>4
<1>6. MembersOf(d, g) = "none"
  BY <1>5 DEF MembersOf
<1>7. mgmembers' \in [MgGroups -> {"none", "automatic", "manual", "deleted"}] /\ mgmembers'[g] = "none" /\ \A h \in MgGroups \ {g} : mgmembers'[h] = mgmembers[h]
  BY <1>1, <1>2
<1>8. \A h \in MgGroups \ {g} : d.refs[h] = mgsqlite.refs[h] /\ d.auto[h] = mgsqlite.auto[h] /\ mgmembers'[h] = mgmembers[h]
  BY <1>3, <1>5, <1>7
<1>9. /\ mgmembers'[g] # "deleted" /\ MembersOf(d, g) = mgmembers'[g] /\ MembersOf(d, g) # "manual"
      /\ d.auto["proxy"] = mgsqlite.auto["proxy"]
  BY <1>3, <1>6, <1>7
<1> QED BY <1>1, <1>3, <1>7, <1>8, <1>9, GroupStep

LEMMA RemoveStep == ASSUME MgInv, NEW g \in MgGroups, RemoveOutbound(g) PROVE MgInv'
<1> DEFINE d == [mgsqlite EXCEPT !.refs[g] = "absent", !.set[g] = "absent", !.auto[g] = "unset", !.names = @ \ {g}]
<1>1. mgpc = "running" /\ g # "proxy" /\ Chooses(d) /\ mgmembers' = [mgmembers EXCEPT ![g] = "deleted"] /\ mgmode' = mgmode
  BY DEF RemoveOutbound
<1>2. mgsqlite \in Db /\ mgmembers \in [MgGroups -> {"none", "automatic", "manual", "deleted"}]
  BY <1>1, RunningFacts DEF MgInv, MgTypes
<1>3. /\ d.sys = mgsqlite.sys /\ d.subs = mgsqlite.subs /\ d.marks = mgsqlite.marks /\ d.legacy = mgsqlite.legacy
      /\ d.auto = [mgsqlite.auto EXCEPT ![g] = "unset"] /\ d.refs = [mgsqlite.refs EXCEPT ![g] = "absent"]
  BY <1>2 DEF Db, Database
<1>4. d \in Db
  BY <1>2 DEF Db, Database
<1>5. /\ mgsqlite.refs \in [MgGroups -> {"absent", "empty", "automatic", "manual", "corrupt"}]
      /\ mgsqlite.auto \in [MgGroups -> {"unset", "on", "off"}]
  BY <1>2 DEF Db, Database
<1> HIDE DEF d
<1>6. \A h \in MgGroups \ {g} : d.refs[h] = mgsqlite.refs[h] /\ d.auto[h] = mgsqlite.auto[h]
  BY <1>3, <1>5
<1>7. mgmembers' \in [MgGroups -> {"none", "automatic", "manual", "deleted"}] /\ mgmembers'[g] = "deleted" /\ \A h \in MgGroups \ {g} : mgmembers'[h] = mgmembers[h]
  BY <1>1, <1>2
<1> QED BY <1>1, <1>3, <1>4, <1>6, <1>7, GroupStep

LEMMA AddStep == ASSUME MgInv, NEW g \in MgGroups, AddOutbound(g) PROVE MgInv'
<1> DEFINE d == [mgsqlite EXCEPT !.set[g] = "60s", !.names = @ \union {g}]
<1>1. mgpc = "running" /\ Chooses(d) /\ mgmembers' = mgmembers /\ mgmode' = mgmode
  BY DEF AddOutbound
<1>2. /\ mgsqlite \in Db /\ Holds(mgsqlite, mgmembers, mgmode) /\ mgsqlite.sys
      /\ Marked(mgsqlite) /\ ChoicesIn(mgsqlite, mgmode)
  BY <1>1, RunningFacts
<1>3. /\ mgmembers \in [MgGroups -> {"none", "automatic", "manual", "deleted"}] /\ mgmembers["proxy"] # "deleted"
      /\ mgmode \in [0..MaxDbSubs -> {"", "disabled", "at_interval", "on", "off"}]
  BY DEF MgInv, MgTypes
<1>4. /\ d \in Db /\ d.sys = mgsqlite.sys /\ d.subs = mgsqlite.subs /\ d.marks = mgsqlite.marks /\ d.legacy = mgsqlite.legacy
      /\ d.auto = mgsqlite.auto /\ d.refs = mgsqlite.refs
  BY <1>2 DEF Db, Database
<1> HIDE DEF d
<1>5. /\ Holds(d, mgmembers, mgmode)
      /\ ChoicesIn(d, mgmode)
      /\ Marked(d)
  BY <1>2, <1>4, SameKeys
<1> QED BY <1>1, <1>2, <1>3, <1>4, <1>5, ChoiceStep

LEMMA AutoAddStep == ASSUME MgInv, NEW v \in {"on", "off"}, SetAutoAdd(v) PROVE MgInv'
<1> DEFINE d == [mgsqlite EXCEPT !.auto["proxy"] = v, !.set["proxy"] = "60s"]
<1>1. mgpc = "running" /\ Chooses(d) /\ mgmembers' = mgmembers /\ mgmode' = [mgmode EXCEPT ![0] = v]
  BY DEF SetAutoAdd
<1>2. /\ mgsqlite \in Db /\ Holds(mgsqlite, mgmembers, mgmode) /\ mgsqlite.sys
      /\ Marked(mgsqlite) /\ ChoicesIn(mgsqlite, mgmode)
  BY <1>1, RunningFacts
<1>3. /\ mgmembers \in [MgGroups -> {"none", "automatic", "manual", "deleted"}] /\ mgmembers["proxy"] # "deleted"
      /\ mgmode \in [0..MaxDbSubs -> {"", "disabled", "at_interval", "on", "off"}]
  BY DEF MgInv, MgTypes
<1>3a. 0 \in 0..MaxDbSubs /\ \A i \in 1..MaxDbSubs : i \in 0..MaxDbSubs /\ i # 0
  BY MigrationAssumption
<1>4. /\ d \in Db /\ d.sys = mgsqlite.sys /\ d.subs = mgsqlite.subs /\ d.marks = mgsqlite.marks /\ d.legacy = mgsqlite.legacy
      /\ d.auto["proxy"] = v /\ d.refs = mgsqlite.refs
  BY <1>2 DEF Db, Database, MgGroups
<1> HIDE DEF d
<1>5. /\ mgmode' \in [0..MaxDbSubs -> {"", "disabled", "at_interval", "on", "off"}]
      /\ mgmode'[0] = v /\ \A i \in 1..MaxDbSubs : mgmode'[i] = mgmode[i]
  BY <1>1, <1>3, <1>3a
<1>6. \A g \in MgGroups : MembersOf(d, g) = MembersOf(mgsqlite, g)
  BY <1>2, <1>4, MembersByKeys
<1>7. Holds(d, mgmembers', mgmode')
  BY <1>1, <1>2, <1>5, <1>6 DEF Holds
<1>8. ChoicesIn(d, mgmode') /\ Marked(d)
  BY <1>2, <1>4, <1>5, DbFacts DEF ChoicesIn, Marked
<1> QED BY <1>1, <1>2, <1>3, <1>4, <1>5, <1>7, <1>8, ChoiceStep
-----------------------------------------------------------------------------
LEMMA MgInit == MigrationInit => MgInv
<1> SUFFICES ASSUME MigrationInit PROVE MgInv
  OBVIOUS
<1> DEFINE f == IF mgbolt # NoFile THEN mgbolt ELSE mgsqlite
<1>1. /\ mgbolt \in OldBolts \union {NoFile} /\ mgsqlite \in Db \union {NoFile, Blank}
      /\ mgsqlite \in Db /\ mgsqlite.auto["proxy"] = "on" => MembersOf(mgsqlite, "proxy") # "manual"
      /\ mgbolt # NoFile => mgsqlite \in {NoFile, Blank}
  BY MigrationAssumption DEF MigrationInit, OldBolts, Db
<1>2. f \in Db \union {NoFile, Blank}
  BY <1>1, BoltFacts
<1>3. mgmembers = [g \in MgGroups |-> MembersOf(f, g)] /\ mgmode = [i \in 0..MaxDbSubs |-> ""]
  BY DEF MigrationInit
<1>4. mgpc = "down" /\ mgtemp = NoFile /\ mgbak = {}
  BY DEF MigrationInit
<1>5. \A g \in MgGroups : mgmembers[g] \in {"none", "automatic", "manual"} /\ mgmembers[g] = MembersOf(f, g)
  <2> HIDE DEF f
  <2> QED BY <1>2, <1>3, MembersType
<1>6. MigrationTypeOK /\ MgTypes
  <2> HIDE DEF f
  <2>1. mgmembers \in [MgGroups -> {"none", "automatic", "manual", "deleted"}] /\ mgmembers["proxy"] # "deleted"
    BY <1>3, <1>5 DEF MgGroups
  <2>2. mgmode \in [0..MaxDbSubs -> {"", "disabled", "at_interval", "on", "off"}]
    BY <1>3
  <2> QED BY <1>1, <1>4, <2>1, <2>2 DEF MigrationTypeOK, MgTypes
<1>7. ~Chosen(mgmode)
  BY <1>3 DEF Chosen
<1>8. BoltCounts
  BY <1>4, <1>5, <1>7 DEF BoltCounts, OldFile
<1>9. SqliteCounts
  <2>1. CASE mgbolt # NoFile
    BY <1>1, <2>1, NoRows DEF SqliteCounts
  <2>2. CASE mgbolt = NoFile
    <3>1. f = mgsqlite
      BY <2>2
    <3> HIDE DEF f
    <3>2. HasRows(mgsqlite) => mgsqlite \in Db
      BY <1>1, NoRows
    <3> QED BY <1>1, <1>5, <3>1, <3>2 DEF SqliteCounts, Holds
  <2> QED BY <2>1, <2>2
<1> QED BY <1>4, <1>6, <1>7, <1>8, <1>9 DEF MgInv, PlaceKnows, ChosenStays

LEMMA MgNext == MgInv /\ [MigrationNext]_migrationVars => MgInv'
<1> SUFFICES ASSUME MgInv, [MigrationNext]_migrationVars PROVE MgInv'
  OBVIOUS
<1>1. CASE UNCHANGED migrationVars
  BY <1>1 DEF migrationVars, MgInv, MigrationTypeOK, MgTypes, BoltCounts, SqliteCounts, PlaceKnows, ChosenStays
<1>2. CASE MigrateFromBoltDB
  BY <1>2, MigrateStep
<1>3. CASE Publish
  BY <1>3, PublishStep
<1>4. CASE moveBoltAside
  BY <1>4, AsideStep
<1>5. CASE AsideFails
  BY <1>5, AsideFailsStep
<1>6. CASE Open
  BY <1>6, OpenStep
<1>7. CASE InitSchema
  BY <1>7, SchemaStep
<1>8. CASE migrateLegacyOutboundTables
  BY <1>8, LegacyStep
<1>9. CASE MigrateSchema
  BY <1>9, PoliciesStep
<1>10. CASE initDBValue \/ initConfigure
  BY <1>10, DefaultsStep
<1>11. CASE Boot
  BY <1>11, BootStep
<1>12. CASE Killed
  BY <1>12, KilledStep DEF Killed, Dies
<1>13. CASE \E b \in mgbak : BoltReturns(b)
  BY <1>13, ReturnStep
<1>14. CASE \E i \in 1..MaxDbSubs : \E m \in {"disabled", "at_interval"} : ChooseMode(i, m)
  BY <1>14, ModeStep
<1>15. CASE \E g \in MgGroups : DisconnectNode(g) \/ RemoveOutbound(g) \/ AddOutbound(g)
  BY <1>15, DisconnectStep, RemoveStep, AddStep
<1>16. CASE \E v \in {"on", "off"} : SetAutoAdd(v)
  BY <1>16, AutoAddStep
<1> QED BY <1>1, <1>2, <1>3, <1>4, <1>5, <1>6, <1>7, <1>8, <1>9, <1>10, <1>11, <1>12, <1>13, <1>14, <1>15, <1>16 DEF MigrationNext

LEMMA MgKeeps == MgInv => MigrationKeeps
<1> SUFFICES ASSUME MgInv PROVE MigrationKeeps
  OBVIOUS
<1>1. MembersAreKept
  <2>1. CASE mgbolt # NoFile /\ ~sqliteHoldsData(mgsqlite)
    BY <2>1 DEF MgInv, BoltCounts, OldFile, MembersAreKept, NextReads
  <2>2. CASE ~(mgbolt # NoFile /\ ~sqliteHoldsData(mgsqlite))
    BY <2>2 DEF MgInv, SqliteCounts, Holds, MembersAreKept, NextReads
  <2> QED BY <2>1, <2>2
<1>2. ChoicesSurvive
  BY RunningFacts DEF ChoicesSurvive, ChoicesIn
<1>3. ManualMembersStayManual
  BY RunningFacts, DbFacts DEF ManualMembersStayManual, Holds, MgGroups
<1> QED BY <1>1, <1>2, <1>3 DEF MigrationKeeps, MgInv

(* What the user has is there after every start, whatever files are found,  *)
(* however often the process is killed between two writes and a backup is   *)
(* put back (db/migrate.go, db/schema.go, pre_database.go): the file the    *)
(* next start reads holds the members, the choices made since are not       *)
(* migrated again, and members chosen by hand stay so.                      *)
THEOREM MigrationIsSafe == MigrationSpec => []MigrationKeeps
<1>1. MgInv /\ [MigrationNext]_migrationVars => MgInv'
  BY MgNext
<1> QED BY <1>1, MgInit, MgKeeps, PTL DEF MigrationSpec
=============================================================================
