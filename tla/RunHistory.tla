----------------------------- MODULE RunHistory -----------------------------
(***************************************************************************)
(* An agent's part of the event log and what a resumed run rebuilds from   *)
(* it: build_rewind_state_from_log_end and the walk of message_rewind.py,  *)
(* and build_message_history (message_history_builder.py) as a plain       *)
(* --resume calls it, without filters or cutoff round.                     *)
(*                                                                         *)
(* What a model response says is a set of parts: <<r, 0>> is the text or   *)
(* thinking of response r and <<r, k>> its k-th tool call.                 *)
(***************************************************************************)
EXTENDS Naturals, Sequences

IsCall(part) == part[2] > 0

\* RoundAdvanced, ToolCallInvoked, ToolResultReceived, LLMResponseReceived and
\* AgentRunCycleFailed.
Kinds == {"advanced", "invoked", "result", "response", "failed"}

\* An event as it was created: at is its timestamp, parts what it speaks of, and
\* awaited says whether its runner waits for its log task before it returns.
Event == [kind : Kinds, at : Nat, round : Nat, parts : SUBSET (Nat \X Nat), awaited : BOOLEAN]

\* target_timestamp: the one of the last line, whatever event that is.
Target(log) == log[Len(log)].at

\* Bug: only responses that name the call count, so a call whose response was
\* never logged is gone.
Remembered_ParentedOnly(log) ==
    {part \in UNION {log[i].parts : i \in {j \in DOMAIN log : log[j].kind = "response"}} :
        IF IsCall(part)
        THEN \E i, j \in DOMAIN log :
                /\ log[i].kind = "invoked" /\ part \in log[i].parts /\ log[i].at <= Target(log)
                /\ log[j].kind = "result" /\ part \in log[j].parts
        ELSE TRUE}

\* The calls kept: invoked by the target and answered anywhere in the log. A call
\* no logged response names is kept as well, in the cycle of orphans.
KeptCalls(log) ==
    {part \in UNION {log[i].parts : i \in {j \in DOMAIN log :
                                       log[j].kind = "invoked" /\ log[j].at <= Target(log)}} :
        \E i \in DOMAIN log : log[i].kind = "result" /\ part \in log[i].parts}

\* The text and thinking kept: those of responses dated by the target.
KeptWords(log) ==
    {part \in UNION {log[i].parts : i \in {j \in DOMAIN log :
                                       log[j].kind = "response" /\ log[j].at <= Target(log)}} :
        ~IsCall(part)}

\* The parts a resumed agent is given back.
Remembered(log) == KeptCalls(log) \cup KeptWords(log)

\* The walk over the log stops at the first event dated past the target.
Walked(log) == {i \in DOMAIN log : \A j \in 1..i : log[j].at <= Target(log)}

\* The round a resumed run reopens: the last RoundAdvanced among lines, 0 with none.
LastAdvanced(log, lines) ==
    LET advances == {i \in lines : log[i].kind = "advanced"} IN
    IF advances = {} THEN 0
    ELSE log[CHOOSE i \in advances : \A j \in advances : j <= i].round
=============================================================================
