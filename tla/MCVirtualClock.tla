--------------------------- MODULE MCVirtualClock ---------------------------
(* Instances of VirtualClock for TLC. *)
EXTENDS VirtualClock, TLC

CONSTANTS a1, a2, a3

Team == Permutations(Agents)
=============================================================================
