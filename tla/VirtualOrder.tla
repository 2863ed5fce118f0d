---------------------------- MODULE VirtualOrder ----------------------------
(***************************************************************************)
(* What the simulated time of the shared workspace promises, without       *)
(* gates, phases or a scheduler's passes (virtual_clock.py:1): what the    *)
(* agents set in motion comes about one thing at a time, the earliest      *)
(* first, each at its own instant; and nobody sets anything in motion in   *)
(* the past. VirtualClock implements it.                                   *)
(***************************************************************************)
EXTENDS Naturals

CONSTANT Agents

VARIABLES
    time,    \* the present
    agenda,  \* what is to come, and when
    acting,  \* agents that have the turn
    over     \* the run is over: nothing is held any more

vars == <<time, agenda, acting, over>>

\* The end of a response or a craft gives its agent the turn, the end of a wait
\* resumes the agent, and what became of a cancelled craft is only an instant.
Entry == [kind : {"response", "craft", "wait", "dead"}, agent : Agents, at : Nat]
Of(a) == {e \in agenda : e.agent = a}

Occur(e) ==
    /\ e \in agenda /\ \A f \in agenda : e.at <= f.at
    /\ acting = {}
    /\ time' = e.at
    /\ agenda' = agenda \ {e}
    /\ acting' = IF e.kind \in {"response", "craft"} THEN {e.agent} ELSE {}

\* Something is set in motion, not in the past.
Plan(a, kinds) ==
    \E e \in agenda' \ agenda :
        /\ agenda' = agenda \cup {e}
        /\ e.agent = a /\ e.kind \in kinds /\ time <= e.at

\* A response is on its way, while others may act.
Hold(a) ==
    /\ a \notin acting
    /\ Plan(a, {"response"})
    /\ UNCHANGED <<time, acting>>

\* The agent gives its turn up until a craft or a wait is over.
Defer(a) ==
    /\ a \in acting
    /\ Plan(a, {"craft", "wait"})
    /\ acting' = acting \ {a}
    /\ UNCHANGED time

\* The agent gives its turn up, or what it waited for is not to come any more.
Yield(a) ==
    /\ agenda' \subseteq agenda
    /\ agenda \ agenda' \subseteq Of(a)
    /\ acting' = acting \ {a}
    /\ UNCHANGED time

\* The agent is cancelled: its wait is off, and its craft gives nobody a turn.
Abandon(a) ==
    /\ agenda' = {e \in agenda : e.agent = a => e.kind \in {"response", "dead"}}
                   \cup {[e EXCEPT !.kind = "dead"] : e \in {f \in Of(a) : f.kind = "craft"}}
    /\ UNCHANGED <<time, acting>>

\* The run is over once time has reached all that is let go.
Stop ==
    /\ agenda' \subseteq agenda
    /\ time <= time' /\ \A e \in agenda \ agenda' : e.at <= time'
    /\ over' = TRUE

TypeOK == time \in Nat /\ agenda \subseteq Entry /\ acting \subseteq Agents /\ over \in BOOLEAN

Init == time = 0 /\ agenda = {} /\ acting = {} /\ over = FALSE

Next ==
    \/ /\ ~over
       /\ \/ /\ \/ \E e \in agenda : Occur(e)
                \/ \E a \in Agents : Hold(a) \/ Defer(a) \/ Yield(a) \/ Abandon(a)
             /\ UNCHANGED over
          \/ Stop
    \/ over /\ over' /\ time <= time'

Spec == Init /\ [][Next]_vars
=============================================================================
