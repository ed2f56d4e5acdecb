------------------------------- MODULE NoValue -------------------------------
(* null, or a field that is empty or missing: what several modules know as   *)
(* one and the same value.                                                   *)
CONSTANT NONE
=============================================================================
