------------------------------- MODULE MCData -------------------------------
(***************************************************************************)
(* The data behind the core, on small instances: the configuration made    *)
(* from the selected nodes (ConfigTemplate), the catalog those come from   *)
(* (Catalog), the database it is kept in (Migration), and the GFWList it   *)
(* routes by (GfwList).  A behaviour follows one of them (unit).           *)
(***************************************************************************)
EXTENDS ConfigTemplate, Catalog, Migration, GfwList

VARIABLE unit

-----------------------------------------------------------------------------
(* Settings and selections a template is made from.                        *)

Info(l, g) == [link |-> l, group |-> g]
St(kind, lists, out, ins) == [kind |-> kind, lists |-> lists, out |-> out, ins |-> ins]
MCInfos == { <<>>, <<Info("n1", "proxy")>>, <<Info("n1", "work")>>, <<Info("n1", "work"), Info("n2", "proxy")>>,
             <<Info("n1", "proxy"), Info("n2", "proxy")>>, <<Info("n1", "proxy"), Info("n1", "proxy")>>,
             <<Info("n1", "work"), Info("n1", "proxy"), Info("n2", "proxy"), Info("n3", "work")>> }
MCPrograms == { <<>>, <<St("rule", {"google"}, <<"work">>, {}), St("default", {}, <<"direct">>, {})>>,
                <<St("outbound", {}, <<"exit">>, {}), St("rule", {"cnip"}, <<"exit">>, {}),
                  St("rule", {"foreign"}, <<"block">>, {<<"http">>})>>,
                <<St("rule", {"missing"}, <<"direct">>, {})>> }
MCCustom == { <<>>, <<[tag |-> <<"mine">>, port |-> "socks", kind |-> "direct", out |-> <<"work">>, program |-> <<>>]>>,
              <<[tag |-> <<"mine">>, port |-> "mine", kind |-> "routingA", out |-> <<"proxy">>, program |-> <<St("rule", {"google"}, <<"proxy">>, {})>>]>> }
MCNames == [n1 |-> <<"A">>, n2 |-> <<"A">>, n3 |-> <<"A", 2>>]
Modes == {<<"whitelist", <<>>>>, <<"gfwlist", <<>>>>} \union {<<"routingA", p>> : p \in MCPrograms}
Transparents == {<<"close", "tproxy">>, <<"proxy", "redirect">>, <<"pac", "tproxy">>, <<"pac", "tun">>, <<"pac", "redirect">>,
                 <<"whitelist", "system_proxy">>, <<"gfwlist", "tun">>}
MCInputs ==
    {[infos |-> i, names |-> MCNames, plugins |-> IF mg = {} THEN {} ELSE {"n2"}, managed |-> mg, groups |-> <<"work">>,
      mode |-> m[1], routingA |-> m[2], transparent |-> t[1], ttype |-> t[2], custom |-> c, sharing |-> s, v6 |-> ~s \/ m[1] = "gfwlist",
      lite |-> c # <<>> /\ t[2] = "redirect", loyal |-> s, smallgeo |-> mg # {},
      ports |-> IF s THEN <<"socks", "http", "rule-http">> ELSE <<"rule-socks", "rule-http", "vmess">>] :
        i \in MCInfos, mg \in {{}, {"proxy"}, {"work"}}, m \in Modes, t \in Transparents, c \in MCCustom, s \in BOOLEAN}

-----------------------------------------------------------------------------
(* Nodes, feeds and first catalogs.                                        *)

Node(l, h, n) == [link |-> l, proto |-> "p", host |-> h, name |-> n, ok |-> TRUE]
A == Node("a", "E", "A")
B == Node("b", "E", "B")
C == Node("c", "F", "A")
MCNodes == {A, B, C}
MCFeeds == {<<A, B>>, <<B>>, <<B, A>>, <<C>>}
Members0 == {<<>>, <<Ref("server", 0, 1)>>, <<Ref("subscriptionServer", 1, 2), Ref("server", 0, 2)>>,
             <<Ref("subscriptionServer", 1, 1), Ref("subscriptionServer", 2, 1)>>,
             <<Ref("subscriptionServer", 1, 2), Ref("subscriptionServer", 1, 1)>>}
Settings0 == {DefaultOutboundSetting, [DefaultOutboundSetting EXCEPT !.auto = TRUE],
              [DefaultOutboundSetting EXCEPT !.keep = TRUE, !.sticky = "a"], [DefaultOutboundSetting EXCEPT !.selected = "b"]}
MCFirst == {[servers |-> <<C, A>>, subs |-> <<<<A, B>>, <<C>>>>, names |-> {"proxy", "work"},
             refs |-> [g \in CtGroups |-> IF g = "proxy" THEN m1 ELSE m2],
             set |-> [g \in CtGroups |-> IF g = "proxy" THEN s1 ELSE DefaultOutboundSetting]] :
                m1 \in Members0, m2 \in {<<>>, <<Ref("subscriptionServer", 1, 1), Ref("server", 0, 2)>>}, s1 \in Settings0}

-----------------------------------------------------------------------------
(* Databases of earlier versions.                                          *)

Sub(a, m) == [auto |-> a, mode |-> m]
Bolt(sys, mode, subs, rp, sp, rs) ==
    [EmptyDatabase EXCEPT !.sys = sys, !.mode = mode, !.subs = subs, !.names = {"proxy", "second"},
        !.refs = [g \in MgGroups |-> IF g = "proxy" THEN rp ELSE rs], !.set = [g \in MgGroups |-> IF g = "proxy" THEN sp ELSE "45s"]]
MCBolts == {NoFile} \union
    {Bolt(sys, mode, subs, rp, sp, rs) : sys \in BOOLEAN, mode \in {"none", "auto_update"},
        subs \in {<<>>, <<Sub(FALSE, "disabled")>>, <<Sub(TRUE, "disabled"), Sub(FALSE, "at_interval")>>},
        rp \in {"absent", "automatic", "manual", "corrupt"}, sp \in {"absent", "60s"}, rs \in {"absent", "manual"}}
Old(subs, legacy, rp, rs) == [Bolt(TRUE, "auto_update", subs, rp, "60s", rs) EXCEPT !.legacy = legacy]
MCDatabases == {NoFile, Blank} \union
    {Old(subs, l, rp, rs) : subs \in {<<Sub(FALSE, "disabled")>>, <<Sub(TRUE, "disabled"), Sub(FALSE, "at_interval")>>},
        l \in {{}, {"proxy", "second"}}, rp \in {"absent", "manual"}, rs \in {"absent", "empty"}}

-----------------------------------------------------------------------------

OneInput == CHOOSE i \in Inputs : TRUE
OneCatalog == CHOOSE c \in FirstCatalog : TRUE

DataInit ==
    /\ unit \in {"template", "catalog", "migration", "gfwlist"}
    /\ unit # "migration" => mgbolt = NoFile /\ mgsqlite = NoFile
    /\ MigrationInit
    /\ unit # "catalog" => ctcat = OneCatalog
    /\ CatalogInit
    /\ unit # "template" => tpin = OneInput
    /\ TemplateInit
    /\ (unit # "gfwlist" => gwdat = 0 /\ gwset = [transparent |-> "close", rule |-> "whitelist"]) /\ GfwInit

DataNext ==
    /\ UNCHANGED unit
    /\ \/ unit = "template" /\ TemplateNext /\ UNCHANGED <<catalogVars, migrationVars, gfwVars>>
       \/ unit = "catalog" /\ CatalogNext /\ UNCHANGED <<templateVars, migrationVars, gfwVars>>
       \/ unit = "migration" /\ MigrationNext /\ UNCHANGED <<templateVars, catalogVars, gfwVars>>
       \/ unit = "gfwlist" /\ GfwNext /\ UNCHANGED <<templateVars, catalogVars, migrationVars>>

DataSpec == DataInit /\ [][DataNext]_<<unit, templateVars, catalogVars, migrationVars, gfwVars>>
=============================================================================
