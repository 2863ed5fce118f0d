---------------------------- MODULE WaitContract ----------------------------
(***************************************************************************)
(* What a read_notifications call promises its agent, without queues,      *)
(* channels or timers: it returns once, for at least one reason; an agent  *)
(* told the run is over is not left waiting and every later call of its    *)
(* ends the run for it. wait_registry.py:1 and read_notifications_tool.py:1*)
(* state this; WaitRegistry implements it.                                 *)
(***************************************************************************)
CONSTANTS Agents, Reasons, Done

VARIABLES
    phase,  \* phase[a]: where the agent's call stands
    why,    \* why[a]: the reasons a woken call resumed for
    over,   \* over[a]: the agent has been told the run is over
    ended   \* agents whose runner was told to stop after this cycle

vars == <<phase, why, over, ended>>

Phases == {"acting", "waiting", "woken", "gone"}

TypeOK ==
    /\ phase \in [Agents -> Phases]
    /\ why \in [Agents -> SUBSET Reasons]
    /\ over \in [Agents -> BOOLEAN]
    /\ ended \subseteq Agents

Woken(a, reasons) ==
    /\ reasons # {}
    /\ phase' = [phase EXCEPT ![a] = "woken"]
    /\ why' = [why EXCEPT ![a] = reasons]

CallWaits(a) ==
    /\ phase[a] = "acting"
    /\ ~over[a]
    /\ phase' = [phase EXCEPT ![a] = "waiting"]
    /\ UNCHANGED <<why, over, ended>>

CallReturnsAtOnce(a) ==
    /\ phase[a] = "acting"
    /\ \E reasons \in SUBSET Reasons :
          Woken(a, reasons) /\ (over[a] => Done \in reasons)
    /\ UNCHANGED <<over, ended>>

Wake(a) ==
    /\ phase[a] = "waiting"
    /\ \E reasons \in SUBSET Reasons : Woken(a, reasons)
    /\ UNCHANGED <<over, ended>>

\* The run ends for the agent; a call under way returns with it.
End(a) ==
    /\ ~over[a]
    /\ over' = [over EXCEPT ![a] = TRUE]
    /\ \/ /\ phase[a] = "waiting"
          /\ \E reasons \in SUBSET Reasons : Woken(a, reasons) /\ Done \in reasons
       \/ phase[a] # "waiting" /\ UNCHANGED <<phase, why>>
    /\ UNCHANGED ended

Answer(a) ==
    /\ phase[a] = "woken"
    /\ phase' = [phase EXCEPT ![a] = "acting"]
    /\ why' = [why EXCEPT ![a] = {}]
    /\ ended' = IF Done \in why[a] THEN ended \cup {a} ELSE ended
    /\ UNCHANGED over

Leave(a) ==
    /\ phase[a] # "gone"
    /\ phase' = [phase EXCEPT ![a] = "gone"]
    /\ why' = [why EXCEPT ![a] = {}]
    /\ UNCHANGED <<over, ended>>

Init ==
    /\ phase = [a \in Agents |-> "acting"]
    /\ why = [a \in Agents |-> {}]
    /\ over = [a \in Agents |-> FALSE]
    /\ ended = {}

Next == \E a \in Agents :
    \/ CallWaits(a) \/ CallReturnsAtOnce(a) \/ Wake(a)
    \/ End(a) \/ Answer(a) \/ Leave(a)

Spec == Init /\ [][Next]_vars
=============================================================================
