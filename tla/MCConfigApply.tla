--------------------------- MODULE MCConfigApply ---------------------------
(* Model values for ConfigApply.                                           *)
EXTENDS ConfigApply

CONSTANTS a, b
=============================================================================
