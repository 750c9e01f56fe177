-------------------------- MODULE HostInterception --------------------------
(***************************************************************************)
(* What the process manager promises the host's users: traffic is only     *)
(* ever diverted for the core process that is there to take it.  owner is  *)
(* the setting of the current core, installed the setting whose            *)
(* interception is on the host.                                            *)
(***************************************************************************)
CONSTANTS Settings, NoSetting

VARIABLES owner, installed

Init == owner = NoSetting /\ installed = NoSetting

\* A core process becomes current; no interception was waiting for it.
Adopt(s) ==
    /\ owner = NoSetting
    /\ installed = NoSetting
    /\ owner' = s
    /\ UNCHANGED installed

Install ==
    /\ owner # NoSetting
    /\ installed' = owner
    /\ UNCHANGED owner

Remove ==
    /\ installed' = NoSetting
    /\ UNCHANGED owner

\* The core process goes, and what diverts traffic to it goes in the same step.
Release ==
    /\ owner' = NoSetting
    /\ installed' = NoSetting

Next == (\E s \in Settings : Adopt(s)) \/ Install \/ Remove \/ Release

Spec == Init /\ [][Next]_<<owner, installed>>
=============================================================================
