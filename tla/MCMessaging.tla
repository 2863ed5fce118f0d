---------------------------- MODULE MCMessaging ----------------------------
(* Instances of Messaging for TLC. *)
EXTENDS Messaging, TLC

CONSTANTS a1, a2, c1, d1, s1, s2

Symmetry == Permutations(Agents) \cup Permutations(Sends)
=============================================================================
