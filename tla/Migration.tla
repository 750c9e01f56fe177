----------------------------- MODULE Migration -----------------------------
(***************************************************************************)
(* Opening the database at start: the Bolt file of older releases is turned *)
(* into SQLite (db/migrate.go), an existing SQLite file is brought up to    *)
(* date (db/schema.go, the two policy migrations) and a new one is filled   *)
(* (pre_database.go).  The files are the state; the process may be killed   *)
(* between any two of the steps that write one.                             *)
(***************************************************************************)
EXTENDS Integers, Sequences, FiniteSets

CONSTANTS Bolts,      \* the contents an old Bolt file may have, NoFile among them
          Databases,  \* the SQLite files a start may find, NoFile among them
          NoFile, Blank, MaxDbSubs, MaxBoots, MaxChoices

VARIABLES mgbolt, mgsqlite, mgbak,      \* bolt.db, v2raya.db, bolt.db.bak...
          mgpc, mgnew, mgmigrated,      \* the starting process; IsNewDB, migratedFromBoltDB
          mgtemp,                       \* the migrated database before it is published
          mgmembers, mgmode,            \* what the user last had: members of groups, update modes chosen
          mgrefused, mgboots, mgchoices
migrationVars == <<mgbolt, mgsqlite, mgbak, mgpc, mgnew, mgmigrated, mgtemp, mgmembers, mgmode, mgrefused, mgboots, mgchoices>>
-----------------------------------------------------------------------------
MgGroups == {"proxy", "second"}
\* sys: there are rows of the system bucket; refs, set: the keys of a group; legacy: rows of
\* the first migration's tables; marks: the migrations this database says are done
EmptyDatabase == [sys |-> FALSE, mode |-> "none", subs |-> <<>>, names |-> {}, legacy |-> {}, marks |-> {},
                  refs |-> [g \in MgGroups |-> "absent"], set |-> [g \in MgGroups |-> "absent"], auto |-> [g \in MgGroups |-> "unset"]]
DbModes == {"disabled", "on_start", "at_interval"}
Database == [sys : BOOLEAN, mode : {"none", "auto_update", "auto_update_at_intervals"},
             subs : Seq([auto : BOOLEAN, mode : DbModes]), names : SUBSET MgGroups, legacy : SUBSET MgGroups,
             marks : SUBSET {"policy", "auto"}, refs : [MgGroups -> {"absent", "empty", "automatic", "manual", "corrupt"}],
             set : [MgGroups -> {"absent", "45s", "60s", "300s"}], auto : [MgGroups -> {"unset", "on", "off"}]]
HasRows(f) == f \notin {NoFile, Blank}
sqliteHoldsData(f) == HasRows(f) /\ f.sys

(* subscription_update_migration.go *)
LegacyMode(mode) == CASE mode = "auto_update" -> "on_start" [] mode = "auto_update_at_intervals" -> "at_interval" [] OTHER -> "disabled"

migrateSubscriptionUpdatePolicy(d) ==
    IF "policy" \in d.marks THEN d
    ELSE [d EXCEPT !.subs = [i \in DOMAIN @ |-> IF @[i].mode = "disabled" THEN [@[i] EXCEPT !.mode = LegacyMode(d.mode)] ELSE @[i]],
                   !.mode = "none", !.marks = @ \union {"policy"}]

(* auto_select_group_migration.go *)
AutoSelects(d) == \E i \in DOMAIN d.subs : d.subs[i].auto

proxyHasManualMembers(d) == d.refs["proxy"] \notin {"absent", "automatic"}
MembersReadable(d) == ~AutoSelects(d) \/ "auto" \in d.marks \/ d.refs["proxy"] # "corrupt"
migrateAutoSelectToAutomaticGroup(d) ==
    IF "auto" \in d.marks THEN d
    ELSE IF ~AutoSelects(d) THEN [d EXCEPT !.marks = @ \union {"auto"}]
    ELSE [d EXCEPT !.set["proxy"] = IF @ = "absent" \/ (@ = "60s" /\ ~proxyHasManualMembers(d)) THEN "300s" ELSE @,
                   !.auto["proxy"] = IF proxyHasManualMembers(d) THEN "off" ELSE "on",
                   !.subs = [i \in DOMAIN @ |-> [@[i] EXCEPT !.auto = FALSE]],
                   !.marks = @ \union {"auto"}]

(* migrate.go *)
migrateSystemBucket(b, d) == [d EXCEPT !.sys = b.sys, !.mode = b.mode]
migrateTouchBucket(b, d) == [d EXCEPT !.subs = b.subs]
migrateOutboundsBucket(b, d) ==
    [d EXCEPT !.refs = b.refs, !.set = b.set, !.auto = b.auto,
              !.names = b.names \union {g \in MgGroups : b.refs[g] # "absent" \/ b.set[g] # "absent"}]
migrateBuckets(b) == migrateOutboundsBucket(b, migrateTouchBucket(b, migrateSystemBucket(b, EmptyDatabase)))
verifyMigration(b, d) ==
    /\ b.sys = d.sys /\ Len(b.subs) = Len(d.subs)
    /\ \A g \in MgGroups : /\ b.refs[g] # "absent" => d.refs[g] = b.refs[g] /\ b.refs[g] # "corrupt"
                           /\ b.set[g] # "absent" => d.set[g] = b.set[g] /\ d.auto[g] = b.auto[g]
Dies == mgpc' = "down" /\ mgtemp' = NoFile
Files == <<mgbolt, mgsqlite, mgbak>>
User == <<mgmembers, mgmode, mgchoices>>
MigrateFromBoltDB ==
    /\ mgpc = "migrate" /\ mgtemp = NoFile
    /\ IF sqliteHoldsData(mgsqlite)
       THEN /\ mgbak' = mgbak \union {mgbolt} /\ mgbolt' = NoFile /\ mgmigrated' = TRUE /\ mgpc' = "open"
            /\ UNCHANGED <<mgsqlite, mgtemp, mgrefused>>
       ELSE LET d == migrateAutoSelectToAutomaticGroup(migrateSubscriptionUpdatePolicy(migrateBuckets(mgbolt)))
            IN  /\ mgsqlite' = NoFile
                /\ IF MembersReadable(migrateBuckets(mgbolt)) /\ verifyMigration(mgbolt, d)
                   THEN mgtemp' = d /\ mgpc' = "publish" /\ UNCHANGED mgrefused
                   ELSE Dies /\ mgrefused' = TRUE
                /\ UNCHANGED <<mgbolt, mgbak, mgmigrated>>
    /\ UNCHANGED <<mgnew, mgboots, User>>
Publish == /\ mgpc = "publish" /\ mgsqlite' = mgtemp /\ mgtemp' = NoFile /\ mgpc' = "aside"
           /\ UNCHANGED <<mgbolt, mgbak, mgnew, mgmigrated, mgrefused, mgboots, User>>
moveBoltAside ==
    /\ mgpc = "aside"
    /\ mgbak' = mgbak \union {mgbolt} /\ mgbolt' = NoFile /\ mgmigrated' = TRUE /\ mgpc' = "open"
    /\ UNCHANGED <<mgsqlite, mgtemp, mgnew, mgrefused, mgboots, User>>
\* The published file is withdrawn; when even that fails both files stay
AsideFails == /\ mgpc = "aside" /\ mgsqlite' \in {NoFile, mgsqlite} /\ Dies
              /\ UNCHANGED <<mgbolt, mgbak, mgnew, mgmigrated, mgrefused, mgboots, User>>

(* sqlite.go *)
Open == /\ mgpc = "open"
        /\ IF mgbolt # NoFile THEN mgpc' = "migrate" /\ UNCHANGED <<mgsqlite, mgnew>>
           ELSE /\ mgnew' = (mgsqlite = NoFile) /\ mgpc' = "schema"
                /\ mgsqlite' = IF mgsqlite = NoFile THEN Blank ELSE mgsqlite
        /\ UNCHANGED <<mgbolt, mgbak, mgtemp, mgmigrated, mgrefused, mgboots, User>>
Writes(from, d, to) == /\ mgpc = from /\ mgsqlite' = d /\ mgpc' = to
                       /\ UNCHANGED <<mgbolt, mgbak, mgtemp, mgnew, mgmigrated, mgrefused, mgboots, User>>
InitSchema == Writes("schema", IF HasRows(mgsqlite) THEN mgsqlite ELSE EmptyDatabase, "legacy")

\* Mutant: a group without its key counts as recovered.
Recoverable_Empty(d, key) == {g \in d.legacy : d[key][g] \in {"absent", "empty"}}

\* The groups of the first migration's tables, members first, one key at a time, outside a transaction
Recoverable(d, key) == {g \in d.legacy : d[key][g] = "absent"}
migrateLegacyOutboundTables ==
    /\ mgpc = "legacy"
    /\ \/ \E g \in Recoverable(mgsqlite, "refs") : Writes("legacy", [mgsqlite EXCEPT !.refs[g] = "manual"], "legacy")
       \/ /\ Recoverable(mgsqlite, "refs") = {}
          /\ \/ \E g \in Recoverable(mgsqlite, "set") : Writes("legacy", [mgsqlite EXCEPT !.set[g] = "45s"], "legacy")
             \/ Recoverable(mgsqlite, "set") = {} /\ Writes("legacy", mgsqlite, "policies")
MigrateSchema ==
    /\ mgpc = "policies"
    /\ IF MembersReadable(mgsqlite)
       THEN Writes("policies", migrateAutoSelectToAutomaticGroup(migrateSubscriptionUpdatePolicy(mgsqlite)),
                   IF mgnew /\ ~mgmigrated THEN "fill" ELSE "finish")
       ELSE Dies /\ UNCHANGED <<Files, mgnew, mgmigrated, mgrefused, mgboots, User>>

(* pre_database.go *)
initDBValue == mgpc = "fill" /\ Writes("fill", [mgsqlite EXCEPT !.sys = TRUE], "finish")
\* InitDefaultOutbound and the white list, which is a row of the system bucket
initConfigure == mgpc = "finish" /\ Writes("finish", [mgsqlite EXCEPT !.sys = TRUE, !.names = @ \union {"proxy"}], "running")
Boot == /\ mgpc = "down" /\ mgboots < MaxBoots
        /\ mgpc' = "open" /\ mgboots' = mgboots + 1 /\ mgnew' = FALSE /\ mgmigrated' = FALSE
        /\ UNCHANGED <<Files, mgtemp, mgrefused, User>>
Killed == mgpc # "down" /\ Dies /\ UNCHANGED <<Files, mgnew, mgmigrated, mgrefused, mgboots, User>>
\* A backup is put back by hand
BoltReturns(b) == /\ mgpc = "down" /\ mgbolt = NoFile /\ b \in mgbak /\ mgbolt' = b
                  /\ UNCHANGED <<mgsqlite, mgbak, mgpc, mgnew, mgmigrated, mgtemp, mgrefused, mgboots, User>>
-----------------------------------------------------------------------------
(* What the running service stores for the user *)
Chooses(d) == /\ mgpc = "running" /\ mgchoices < MaxChoices /\ mgchoices' = mgchoices + 1 /\ mgsqlite' = d
              /\ UNCHANGED <<mgbolt, mgbak, mgpc, mgnew, mgmigrated, mgtemp, mgrefused, mgboots>>
ChooseMode(i, m) == /\ mgpc = "running" /\ i \in DOMAIN mgsqlite.subs
                    /\ Chooses([mgsqlite EXCEPT !.subs[i].mode = m])
                    /\ mgmode' = [mgmode EXCEPT ![i] = m] /\ UNCHANGED mgmembers
DisconnectNode(g) == /\ mgpc = "running" /\ g \in mgsqlite.names
                 /\ Chooses([mgsqlite EXCEPT !.refs[g] = "empty"])
                 /\ mgmembers' = [mgmembers EXCEPT ![g] = "none"] /\ UNCHANGED mgmode
RemoveOutbound(g) == /\ mgpc = "running" /\ g \in mgsqlite.names \ {"proxy"}
                     /\ Chooses([mgsqlite EXCEPT !.refs[g] = "absent", !.set[g] = "absent", !.auto[g] = "unset", !.names = @ \ {g}])
                     /\ mgmembers' = [mgmembers EXCEPT ![g] = "deleted"] /\ UNCHANGED mgmode
AddOutbound(g) == /\ mgpc = "running" /\ g \notin mgsqlite.names
                  /\ Chooses([mgsqlite EXCEPT !.set[g] = "60s", !.names = @ \union {g}]) /\ UNCHANGED <<mgmembers, mgmode>>
SetAutoAdd(v) == /\ mgpc = "running" /\ Chooses([mgsqlite EXCEPT !.auto["proxy"] = v, !.set["proxy"] = "60s"])
                 /\ mgmode' = [mgmode EXCEPT ![0] = v] /\ UNCHANGED mgmembers

\* The members a start on this file would give a group
MembersOf(d, g) ==
    IF ~HasRows(d) \/ (d.refs[g] \in {"absent", "empty", "corrupt"} /\ (d.refs[g] # "absent" \/ g \notin d.legacy)) THEN "none"
    ELSE IF d.refs[g] = "absent" THEN "manual" ELSE d.refs[g]
\* A file of an earlier version: Bolt has no tables of the first migration, and automatic
\* membership is not on for members chosen by hand
ASSUME MigrationAssumption ==
    /\ NoFile # Blank /\ NoFile \notin Database /\ Blank \notin Database
    /\ MaxDbSubs \in Nat /\ MaxBoots \in Nat /\ MaxChoices \in Nat
    /\ Bolts \subseteq Database \union {NoFile} /\ Databases \subseteq Database \union {NoFile, Blank}
    /\ \A b \in Bolts \ {NoFile} : b.legacy = {}
    /\ \A d \in (Bolts \union Databases) \ {NoFile, Blank} :
          Len(d.subs) <= MaxDbSubs /\ (d.auto["proxy"] = "on" => MembersOf(d, "proxy") # "manual")

MigrationInit ==
    /\ mgbolt \in Bolts /\ mgsqlite \in Databases /\ (mgbolt # NoFile => mgsqlite \in {NoFile, Blank})
    /\ mgbak = {} /\ mgtemp = NoFile /\ mgpc = "down" /\ mgnew = FALSE /\ mgmigrated = FALSE
    /\ mgmembers = [g \in MgGroups |-> MembersOf(IF mgbolt # NoFile THEN mgbolt ELSE mgsqlite, g)]
    /\ mgmode = [i \in 0..MaxDbSubs |-> ""] /\ mgrefused = FALSE /\ mgboots = 0 /\ mgchoices = 0
MigrationNext ==
    \/ MigrateFromBoltDB \/ Publish \/ moveBoltAside \/ AsideFails \/ Open \/ InitSchema \/ migrateLegacyOutboundTables
    \/ MigrateSchema \/ initDBValue \/ initConfigure \/ Boot \/ Killed \/ (\E b \in mgbak : BoltReturns(b))
    \/ (\E i \in 1..MaxDbSubs : \E m \in {"disabled", "at_interval"} : ChooseMode(i, m))
    \/ (\E g \in MgGroups : DisconnectNode(g) \/ RemoveOutbound(g) \/ AddOutbound(g))
    \/ (\E v \in {"on", "off"} : SetAutoAdd(v))
MigrationSpec == MigrationInit /\ [][MigrationNext]_migrationVars
-----------------------------------------------------------------------------
(* Type correctness of the files and of the starting process (sqlite.go,    *)
(* migrate.go): the service runs on a database with its schema.             *)
MigrationTypeOK ==
    /\ mgpc \in {"down", "open", "migrate", "publish", "aside", "schema", "legacy", "policies", "fill", "finish", "running"}
    /\ (mgpc \in {"legacy", "policies", "fill", "finish", "running"} => HasRows(mgsqlite) /\ mgbolt = NoFile)
    /\ (mgtemp # NoFile <=> mgpc = "publish")

(* The members the user has can always be found again: whatever was written *)
(* when the process died, the file the next start reads holds them.  The    *)
(* SQLite file counts once it has rows of the system bucket, the Bolt file  *)
(* before that (sqliteHoldsData, moveBoltAside).                            *)
NextReads == IF mgbolt # NoFile /\ ~sqliteHoldsData(mgsqlite) THEN mgbolt ELSE mgsqlite
MembersAreKept == \A g \in MgGroups : mgmembers[g] # "deleted" => MembersOf(NextReads, g) = mgmembers[g]

(* A choice of the user outlives every restart: the policy migrations run   *)
(* once per database, so an update mode set to disabled or an automatic     *)
(* group turned off is not set again (the two migration keys).              *)
ChoicesSurvive ==
    mgpc = "running" =>
        /\ \A i \in DOMAIN mgsqlite.subs : mgmode[i] # "" => mgsqlite.subs[i].mode = mgmode[i]
        /\ mgmode[0] # "" => mgsqlite.auto["proxy"] = mgmode[0]

(* A manual member keeps automatic membership off until the user asks for   *)
(* it (proxyHasManualMembers): an automatic group would replace it.         *)
ManualMembersStayManual ==
    mgpc = "running" /\ mgmembers["proxy"] = "manual" /\ mgmode[0] = "" => mgsqlite.auto["proxy"] # "on"

(* What the user had is there after every start, kill and migration: the     *)
(* members, the choices, and the manual groups as manual ones.               *)
MigrationKeeps == MigrationTypeOK /\ MembersAreKept /\ ChoicesSurvive /\ ManualMembersStayManual

(* "writes data to SQLite, verifies integrity, then renames bolt.db to a    *)
(* backup" (migrate.go): a Bolt file whose values can be read is migrated.  *)
ReadableBoltMigrates == mgrefused => \E g \in MgGroups : mgbolt.refs[g] = "corrupt"

(* "for outbounds that have no key yet.  A database ... whose keys were     *)
(* written since, is left alone" (schema.go): a group the user deletes and  *)
(* creates again starts without members.                                    *)
NewGroupIsEmpty ==
    mgpc = "running" => \A g \in mgsqlite.names : mgmembers[g] = "deleted" => mgsqlite.refs[g] = "absent"
=============================================================================
