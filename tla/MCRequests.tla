----------------------------- MODULE MCRequests -----------------------------
(***************************************************************************)
(* The automation worker against the requests, and the requests against the *)
(* stored configuration and the core, side by side.  The two models share   *)
(* no state, so a behaviour follows one of them (unit) while the other      *)
(* stays where it began, and the state spaces add up.                       *)
(***************************************************************************)
EXTENDS Automation, ConfigApply

VARIABLE unit
CONSTANTS r1, r2, s1, s2, g1, a, b

MCMode == [s \in Subs |-> IF s = s1 THEN "interval_failsafe" ELSE "on_start"]

RequestsInit ==
    /\ unit \in {"automation", "config"}
    /\ AutomationInit
    /\ Init
    /\ unit # "config" => core = Off /\ store = [sel |-> NoServer, ver |-> 1]

RequestsNext ==
    /\ UNCHANGED unit
    /\ \/ unit = "automation" /\ AutomationNext /\ UNCHANGED vars
       \/ unit = "config" /\ Next /\ UNCHANGED automationVars

RequestsSpec == RequestsInit /\ [][RequestsNext]_<<unit, automationVars, vars>>
=============================================================================
