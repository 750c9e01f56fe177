------------------------------ MODULE GfwList ------------------------------
(***************************************************************************)
(* The GFWList database (asset/dat/gfwlist.go, asset/asset.go): a request, *)
(* the ticker and the check at startup download LoyalsoldierSite.dat, each *)
(* to the same ".new" beside it, verify it and rename it into place; then a *)
(* running core that routes by it is restarted.  Only the request holds the *)
(* mutation turn.  A file is an inode with its data and modification time, *)
(* because an updater that writes keeps its inode while another renames it. *)
(* Release r of the list is the number r and is published at time r; the   *)
(* clock shows the latest release.  os.Chtimes of a file just written      *)
(* succeeds.  Reloads that fail for a setting are in ConfigApply.           *)
(***************************************************************************)
EXTENDS Integers, FiniteSets

CONSTANTS Updaters,     \* "request", "ticker", "startup"
          MaxRelease,   \* releases that may be published
          Inodes,       \* 1..n, enough for every name and open file
          MaxUpdates,   \* updates begun in a behaviour
          MaxKillsG     \* kills of the service

ASSUME GfwListAssumption ==
    /\ Updaters \subseteq {"request", "ticker", "startup"}
    /\ {MaxRelease, MaxUpdates, MaxKillsG} \subseteq Nat /\ MaxRelease > 0
    /\ Inodes \subseteq Nat \ {0} /\ 1 \in Inodes

VARIABLES gwino,      \* inode -> [data, time]
          gwdat,      \* inode LoyalsoldierSite.dat names, 0 when there is none
          gwnew,      \* inode LoyalsoldierSite.dat.new names
          gwlatest,   \* latest release on the server
          gwcache,    \* g.Tag, and whether it was fetched within the hour
          gwup,       \* updater -> [pc, link, tag, fd, body]
          gwset,      \* setting: [transparent, rule]
          gwcore,     \* [on, list]: the core and the list it loaded
          gwfailed,   \* a reload after an update failed and left the old core
          gwoverlap,  \* two updates used ".new" at the same time
          gwcount     \* [updates, kills]

gfwVars == <<gwino, gwdat, gwnew, gwlatest, gwcache, gwup, gwset, gwcore, gwfailed, gwoverlap, gwcount>>
files == <<gwino, gwdat, gwnew>>
coreState == <<gwset, gwcore, gwfailed>>

Releases == 1..MaxRelease
Empty == 0      \* a truncated file
Custom == -1    \* a geosite database that is no release
Junk == -2      \* anything else: an error page, a damaged file
NoList == -3    \* the core's routing does not use the list
Data == Releases \cup {Empty, Custom, Junk}
Valid == Releases \cup {Custom}

Idle == [pc |-> "idle", link |-> FALSE, tag |-> 0, fd |-> 0, body |-> Empty]
UpdaterStates == [pc : {"idle", "check", "tag", "get", "write", "remote", "sum", "times", "valid", "rename", "restart", "reload"},
                  link : BOOLEAN, tag : 0..MaxRelease, fd : Inodes \cup {0}, body : Data]
\* The places at which an updater uses ".new".
Using == {"write", "remote", "sum", "times", "valid", "rename"}
GwModes == [transparent : {"close", "gfwlist", "pac"}, rule : {"gfwlist", "whitelist"}]

GfwInit ==
    /\ gwlatest = 1 /\ gwcache = [tag |-> 0, fresh |-> FALSE]
    /\ \/ gwdat = 0 /\ gwino = [i \in Inodes |-> [data |-> Empty, time |-> 0]]
       \/ gwdat = 1 /\ gwino = [i \in Inodes |-> [data |-> IF i = 1 THEN 1 ELSE Empty, time |-> IF i = 1 THEN 1 ELSE 0]]
    /\ gwnew = 0
    /\ gwup = [u \in Updaters |-> Idle]
    /\ gwset \in GwModes /\ gwcore = [on |-> FALSE, list |-> NoList]
    /\ gwfailed = FALSE /\ gwoverlap = FALSE /\ gwcount = [updates |-> 0, kills |-> 0]

-----------------------------------------------------------------------------
(* The release list on the server, behind gMutex.                          *)

\* GetRemoteGFWListUpdateTime: the cached tag, or a fetched one that is cached.
GetRemoteGFWListUpdateTime(tag) ==
    IF gwcache.tag # 0 /\ gwcache.fresh
    THEN tag = gwcache.tag /\ UNCHANGED gwcache
    ELSE tag = gwlatest /\ gwcache' = [tag |-> tag, fresh |-> TRUE]

\* No answer, no tag in it, or a tag that is no time.  A fresh cache asks nobody.
RemoteFails == ~(gwcache.tag # 0 /\ gwcache.fresh) /\ UNCHANGED gwcache

Published ==
    /\ gwlatest < MaxRelease /\ gwlatest' = gwlatest + 1
    /\ UNCHANGED <<files, gwcache, gwup, coreState, gwoverlap, gwcount>>

HourPasses ==
    /\ gwcache.fresh /\ gwcache' = [gwcache EXCEPT !.fresh = FALSE]
    /\ UNCHANGED <<files, gwlatest, gwup, coreState, gwoverlap, gwcount>>

-----------------------------------------------------------------------------
(* An update.                                                              *)

Goto(u, pc) == gwup' = [gwup EXCEPT ![u].pc = pc]
Ends(u) == gwup' = [gwup EXCEPT ![u] = Idle]

\* CheckAndUpdateGFWList: the ticker and the startup have no link.
CheckAndUpdateGFWList(u, link) ==
    /\ gwup[u].pc = "idle" /\ gwcount.updates < MaxUpdates /\ (link => u = "request")
    /\ gwup' = [gwup EXCEPT ![u] = [Idle EXCEPT !.pc = IF link THEN "get" ELSE "check", !.link = link]]
    /\ gwcount' = [gwcount EXCEPT !.updates = @ + 1]
    /\ UNCHANGED <<files, gwlatest, gwcache, coreState, gwoverlap>>

\* IsGFWListUpdate: the file is compared with the release by its time.
IsGFWListUpdate(u) ==
    /\ gwup[u].pc = "check"
    /\ \/ RemoteFails /\ Ends(u)
       \/ \E tag \in Releases :
            /\ GetRemoteGFWListUpdateTime(tag)
            /\ IF gwdat # 0 /\ gwino[gwdat].time >= tag THEN Ends(u) ELSE Goto(u, "tag")
    /\ UNCHANGED <<files, gwlatest, coreState, gwoverlap, gwcount>>

\* UpdateLocalGFWList asks for the tag again.
UpdateLocalGFWList(u) ==
    /\ gwup[u].pc = "tag"
    /\ \/ RemoteFails /\ Ends(u)
       \/ \E tag \in Releases :
            /\ GetRemoteGFWListUpdateTime(tag)
            /\ gwup' = [gwup EXCEPT ![u].pc = "get", ![u].tag = tag]
    /\ UNCHANGED <<files, gwlatest, coreState, gwoverlap, gwcount>>

\* asset.download: an error ends the update; otherwise the body, whatever it
\* is, goes to ".new", which WriteFile opens and truncates first.
FreeInodes == {i \in Inodes : i \notin {gwdat, gwnew} /\ \A u \in Updaters : i # gwup[u].fd}
NewFile == IF gwnew = 0 THEN CHOOSE i \in FreeInodes : TRUE ELSE gwnew
download(u) ==
    /\ gwup[u].pc = "get"
    /\ \/ Ends(u) /\ UNCHANGED <<gwino, gwnew, gwoverlap>>
       \/ /\ gwnew = 0 => FreeInodes # {}
          /\ gwnew' = NewFile
          /\ gwino' = [gwino EXCEPT ![NewFile] = [data |-> Empty, time |-> gwlatest]]
          /\ \E body \in {Junk, IF gwup[u].link THEN Custom ELSE gwup[u].tag} :
                gwup' = [gwup EXCEPT ![u].pc = "write", ![u].fd = NewFile, ![u].body = body]
          /\ gwoverlap' = (gwoverlap \/ \E v \in Updaters \ {u} : gwup[v].pc \in Using)
    /\ UNCHANGED <<gwdat, gwlatest, gwcache, coreState, gwcount>>

\* The write itself, which may fail on a full disk.
WriteFile(u) ==
    /\ gwup[u].pc = "write"
    /\ \/ Ends(u) /\ UNCHANGED gwino
       \/ /\ gwino' = [gwino EXCEPT ![gwup[u].fd] = [data |-> gwup[u].body, time |-> gwlatest]]
          /\ gwup' = [gwup EXCEPT ![u].pc = IF gwup[u].link THEN "remote" ELSE "sum", ![u].fd = 0, ![u].body = Empty]
    /\ UNCHANGED <<gwdat, gwnew, gwlatest, gwcache, coreState, gwoverlap, gwcount>>

\* A custom link is given the time of the latest release, when that is known.
CustomTime(u) ==
    /\ gwup[u].pc = "remote"
    /\ \/ RemoteFails /\ Goto(u, "valid")
       \/ \E tag \in Releases :
            GetRemoteGFWListUpdateTime(tag) /\ gwup' = [gwup EXCEPT ![u].pc = "times", ![u].tag = tag]
    /\ UNCHANGED <<files, gwlatest, coreState, gwoverlap, gwcount>>

\* Mutant: the sum is not compared.
checkSha256_Unread(u) ==
    /\ gwup[u].pc = "sum" /\ Goto(u, "times")
    /\ UNCHANGED <<files, gwlatest, gwcache, coreState, gwoverlap, gwcount>>

\* httpGet and checkSha256: the sum is that of the release, or cannot be had;
\* what ".new" holds now is compared with it.
checkSha256(u) ==
    /\ gwup[u].pc = "sum"
    /\ \/ Ends(u)
       \/ gwnew # 0 /\ gwino[gwnew].data = gwup[u].tag /\ Goto(u, "times")
    /\ UNCHANGED <<files, gwlatest, gwcache, coreState, gwoverlap, gwcount>>

\* os.Chtimes: its error, when ".new" is gone, is not looked at.
Chtimes(u) ==
    /\ gwup[u].pc = "times"
    /\ gwino' = IF gwnew = 0 THEN gwino ELSE [gwino EXCEPT ![gwnew].time = gwup[u].tag]
    /\ Goto(u, IF gwup[u].link THEN "valid" ELSE "rename")
    /\ UNCHANGED <<gwdat, gwnew, gwlatest, gwcache, coreState, gwoverlap, gwcount>>

\* installGeoSiteFile: it must be there, parse, and have entries.
installGeoSiteFile(u) ==
    /\ gwup[u].pc = "valid"
    /\ IF gwnew # 0 /\ gwino[gwnew].data \in Valid THEN Goto(u, "rename") ELSE Ends(u)
    /\ UNCHANGED <<files, gwlatest, gwcache, coreState, gwoverlap, gwcount>>

Rename(u) ==
    /\ gwup[u].pc = "rename"
    /\ IF gwnew = 0
       THEN Ends(u) /\ UNCHANGED files
       ELSE gwdat' = gwnew /\ gwnew' = 0 /\ UNCHANGED gwino /\ Goto(u, "restart")
    /\ UNCHANGED <<gwlatest, gwcache, coreState, gwoverlap, gwcount>>

-----------------------------------------------------------------------------
(* The core.                                                               *)

\* start refuses without the file in these modes; the core reads it in them.
NeedsList(s) == s.transparent = "gfwlist" \/ s.rule = "gfwlist"
Loads(s) == IF NeedsList(s) THEN gwino[gwdat].data ELSE NoList
CanLoad(s) == NeedsList(s) => gwdat # 0 /\ gwino[gwdat].data \in Valid
Off == [on |-> FALSE, list |-> NoList]
Starts(s) == gwcore' = [on |-> TRUE, list |-> Loads(s)] /\ gwfailed' = FALSE

\* The modes in which the update restarts a running core.
RestartsFor(s) == s.transparent = "gfwlist" \/ (s.transparent = "close" /\ s.rule = "gfwlist")

\* The end of CheckAndUpdateGFWList: the setting and Running().
TestRunning(u) ==
    /\ gwup[u].pc = "restart"
    /\ IF gwcore.on /\ RestartsFor(gwset) THEN Goto(u, "reload") ELSE Ends(u)
    /\ UNCHANGED <<files, gwlatest, gwcache, coreState, gwoverlap, gwcount>>

\* ReloadCore is UpdateV2RayConfig: it fails before the old core is stopped, or after.
ReloadCore(u) ==
    /\ gwup[u].pc = "reload" /\ Ends(u)
    /\ \/ CanLoad(gwset) /\ Starts(gwset)
       \/ gwcore' = gwcore /\ gwfailed' = gwcore.on
       \/ gwcore' = Off /\ gwfailed' = FALSE
    /\ UNCHANGED <<files, gwlatest, gwcache, gwset, gwoverlap, gwcount>>

\* The user's other requests; they wait for the mutation turn.
Turn == "request" \in Updaters => gwup["request"].pc = "idle"
NothingElse == UNCHANGED <<files, gwlatest, gwcache, gwup, gwoverlap, gwcount>>

StartCore == Turn /\ CanLoad(gwset) /\ Starts(gwset) /\ UNCHANGED gwset /\ NothingElse
StopCore == Turn /\ gwcore.on /\ gwcore' = Off /\ gwfailed' = FALSE /\ UNCHANGED gwset /\ NothingElse

\* UpdateSetting: refused for a list that is not there, otherwise stored and,
\* with a running core, applied.
UpdateSetting(s) ==
    /\ Turn /\ s # gwset /\ (NeedsList(s) => gwdat # 0)
    /\ gwset' = s
    /\ IF gwcore.on THEN CanLoad(s) /\ Starts(s) ELSE UNCHANGED <<gwcore, gwfailed>>
    /\ NothingElse

DeleteGFWList ==
    /\ Turn /\ gwdat' = 0
    /\ UNCHANGED <<gwino, gwnew, gwlatest, gwcache, gwup, coreState, gwoverlap, gwcount>>

\* The service is killed; ".new" stays as it is.
ServiceKilled ==
    /\ gwcount.kills < MaxKillsG /\ gwcount' = [gwcount EXCEPT !.kills = @ + 1]
    /\ gwup' = [u \in Updaters |-> Idle] /\ gwcache' = [tag |-> 0, fresh |-> FALSE]
    /\ gwcore' = Off /\ gwfailed' = FALSE
    /\ UNCHANGED <<files, gwlatest, gwset, gwoverlap>>

GfwNext ==
    \/ Published \/ HourPasses
    \/ \E u \in Updaters :
        \/ \E link \in BOOLEAN : CheckAndUpdateGFWList(u, link)
        \/ IsGFWListUpdate(u) \/ UpdateLocalGFWList(u) \/ download(u) \/ WriteFile(u) \/ CustomTime(u)
        \/ checkSha256(u) \/ Chtimes(u) \/ installGeoSiteFile(u) \/ Rename(u) \/ TestRunning(u) \/ ReloadCore(u)
    \/ StartCore \/ StopCore \/ DeleteGFWList \/ ServiceKilled
    \/ \E s \in GwModes : UpdateSetting(s)

GfwSpec == GfwInit /\ [][GfwNext]_gfwVars
-----------------------------------------------------------------------------
(* Properties.                                                             *)

GfwTypeOK ==
    /\ gwino \in [Inodes -> [data : Data, time : 0..MaxRelease]]
    /\ {gwdat, gwnew} \subseteq Inodes \cup {0} /\ (gwdat = gwnew => gwdat = 0)
    /\ gwlatest \in Releases /\ gwcache \in [tag : 0..MaxRelease, fresh : BOOLEAN]
    /\ gwup \in [Updaters -> UpdaterStates]
    /\ gwset \in GwModes /\ gwcore \in [on : BOOLEAN, list : Data \cup {NoList}]
    /\ gwfailed \in BOOLEAN /\ gwoverlap \in BOOLEAN

\* While no two updates use ".new" at once, LoyalsoldierSite.dat is a whole
\* database that was checked: no download that fails or is damaged, no failed
\* write and no kill at any step replaces it by anything else, and nobody
\* writes into it (UpdateLocalGFWList, installGeoSiteFile).
InstalledIsVerified ==
    ~gwoverlap /\ gwdat # 0 =>
        gwino[gwdat].data \in Valid /\ \A u \in Updaters : gwup[u].fd # gwdat

\* While no two updates use ".new" at once, a release that is installed carries
\* its own time, so that IsGFWListUpdate never calls the file up to date while
\* the server names a newer release.
NewerReleaseIsSeen ==
    ~gwoverlap /\ gwdat # 0 /\ gwino[gwdat].data \in Releases => gwino[gwdat].time = gwino[gwdat].data

\* A core that routes everything by the list (RestartsFor) has loaded the list
\* that is installed, once the update is over and unless it reported that the
\* restart failed: whoever starts, stops or reconfigures the core meanwhile.
CoreHasInstalled ==
    ~gwoverlap /\ gwcore.on /\ RestartsFor(gwset) /\ gwdat # 0 /\ ~gwfailed
        /\ (\A u \in Updaters : gwup[u].pc \notin {"restart", "reload"})
    => gwcore.list = gwino[gwdat].data

\* The list that is installed was verified and carries its release's time, and
\* a core that routes by it has loaded it.
GfwListSafe == GfwTypeOK /\ InstalledIsVerified /\ NewerReleaseIsSeen /\ CoreHasInstalled

\* Not so (README): InstalledIsVerified with two updates at once, one of which
\* renames what the other has just truncated.
InstalledAlwaysVerified == gwdat # 0 => gwino[gwdat].data \in Valid

\* Not so (README): CoreHasInstalled for every core that has loaded the list.
EveryUserHasInstalled ==
    ~gwoverlap /\ gwcore.on /\ NeedsList(gwset) /\ gwdat # 0 /\ ~gwfailed
        /\ (\A u \in Updaters : gwup[u].pc \notin {"restart", "reload"})
    => gwcore.list = gwino[gwdat].data

\* Not so (README): an update does not start a core that is stopped.
UpdateStartsNothing ==
    [][gwcore'.on /\ ~gwcore.on => \A u \in Updaters : gwup[u].pc # "reload" \/ gwup'[u].pc = "reload"]_gfwVars
=============================================================================
