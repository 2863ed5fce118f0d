--------------------------- MODULE MCWaitRegistry ---------------------------
(* Instances of WaitRegistry for TLC. *)
EXTENDS WaitRegistry

CONSTANTS a1, c1
=============================================================================
