--------------------------- MODULE RoundLifecycle ---------------------------
(***************************************************************************)
(* What the event log of a run promises its readers: the order in which    *)
(* RoundAdvanced, RoundEnded, PostmortemStarted, PostmortemEnded and the   *)
(* closing SimulationEnded appear (models/event.py, round_end_trigger.py). *)
(* GameClock implements it.                                                *)
(***************************************************************************)
EXTENDS Naturals

CONSTANTS
    MaxRounds,       \* get_round_count
    SourceRounds,    \* rounds the cloned log of a fork already holds; 0 if fresh
    FinishesEarly,   \* whether the scenario may call itself finished
    MayReopen        \* whether a run may stop and be resumed

VARIABLE last        \* the last of those events in the log

Kinds == {"none", "advanced", "ended", "postmortem_started", "postmortem_ended", "complete"}
LifecycleEvents == [kind : Kinds, round : 0..MaxRounds]
Ev(kind, round) == [kind |-> kind, round |-> round]

\* The rounds of a fork's source are never opened again.
Reopenable == MayReopen /\ (SourceRounds > 0 => last.round > SourceRounds)

Init == last \in IF SourceRounds = 0 THEN {Ev("none", 0)}
                 ELSE {Ev("ended", SourceRounds), Ev("postmortem_ended", SourceRounds)}

Open ==
    /\ last.kind \in {"none", "ended", "postmortem_ended"}
    /\ last.round < MaxRounds
    /\ last' = Ev("advanced", last.round + 1)

\* A resumed run plays its last round again, whatever that round had reached.
End ==
    /\ last.kind = "advanced" \/ (Reopenable /\ last.kind # "complete")
    /\ last' = Ev("ended", last.round)

StartPostmortem ==
    /\ last.kind = "ended"
    /\ last' = Ev("postmortem_started", last.round)

EndPostmortem ==
    /\ last.kind = "postmortem_started"
    /\ last' = Ev("postmortem_ended", last.round)

\* After the last round and its postmortem, or when the scenario is finished:
\* that is not asked between a postmortem and the next round.
Complete ==
    /\ \/ last.kind \in {"ended", "postmortem_ended"} /\ last.round = MaxRounds
       \/ FinishesEarly /\ last.kind \in {"advanced", "ended", "postmortem_started"}
       \/ FinishesEarly /\ Reopenable /\ last.kind # "complete"
    /\ last' = Ev("complete", last.round)

Next == Open \/ End \/ StartPostmortem \/ EndPostmortem \/ Complete

Spec == Init /\ [][Next]_last
=============================================================================
