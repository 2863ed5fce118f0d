---------------------------- MODULE MCGameClock ----------------------------
(* Instances of GameClock for TLC. *)
EXTENDS GameClock, TLC

CONSTANTS a1, a2

Swap(a) == [kind |-> "swap_agent", agent |-> a]
Close == [kind |-> "set_postmortem"]
Inject == [kind |-> "inject_case"]

NoEvents == [r \in Rounds |-> <<>>]
SwapRound2 == [r \in Rounds |-> IF r = 2 THEN <<Swap(a1)>> ELSE <<>>]
CloseRound2 == [r \in Rounds |-> IF r = 2 THEN <<Close>> ELSE <<>>]
EveryKind == [r \in Rounds |-> IF r = 2 THEN <<Close, Swap(a1), Inject>> ELSE <<>>]

EveryRound == Agents \X Rounds
OnlyOne == {<<a1, r>> : r \in Rounds}
=============================================================================
