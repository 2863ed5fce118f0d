---------------------------- MODULE AgentRunner ----------------------------
(***************************************************************************)
(* One agent's runner (pydantic_ai_runner.py): cycles of model requests    *)
(* and tool calls, the attempts and checkpoints of a failing request, the  *)
(* response blocks it logs and the tasks that log them, beside a clock     *)
(* that advances the round, and a process that may stop at any moment and  *)
(* be resumed from its log (RunHistory).                                   *)
(*                                                                         *)
(* The agent graph of pydantic-ai is external: what its nodes ask for is   *)
(* modelled as _run_agent_call drives it. An action is the code between    *)
(* two awaits. Log tasks queue for the event log's lock in the order they  *)
(* are spawned, once the event loop has started them, and the clock, which *)
(* logs without a task, may queue before those not started. A line reaches *)
(* the disk at any time after that: lines holds every event in order, the  *)
(* first `started` are in the queue or through it, at least the first      *)
(* `written` are on disk, and a stop of the process decides how many of    *)
(* the others were.                                                        *)
(***************************************************************************)
EXTENDS RunHistory, FiniteSets

CONSTANTS
    MaxResponses,  \* bound: responses the model streams, over all attempts
    MaxCalls,      \* bound: tool calls of one response
    MaxRound,      \* bound: rounds the clock advances to
    Attempts,      \* AGENT_RUN_RETRY_ATTEMPTS
    MaxTurns,      \* max_turns
    MaxCrashes,    \* bound: stops of the process
    Modes          \* how responses may arrive: "streaming", or "whole" with
                   \* non_streaming_model_requests

ASSUME BoundsAssumption ==
    /\ MaxResponses \in Nat /\ MaxCalls \in Nat /\ MaxRound \in Nat
    /\ Attempts \in Nat \ {0} /\ MaxTurns \in Nat \ {0} /\ MaxCrashes \in Nat
    /\ Modes \subseteq {"streaming", "whole"}

VARIABLES
    lines,        \* every event logged or waiting to be, in order
    started,      \* how many of them are known to be in the queue for the lock
    written,      \* how many of them are known to be on disk
    now,          \* timestamps taken so far
    round,        \* runtime.current_round
    node,         \* where the run of the agent graph is
    current,      \* the response in hand: its number, parts, and whether it ends the run
    returned,     \* its tool calls that have returned
    context,      \* the parts the model is sent: agent_run.all_messages()
    checkpoint,   \* _RunCheckpoint.messages
    completed,    \* last_completed_history
    accumulated,  \* _StreamingState: what was said and not logged
    mark,         \* _attempt_mark: how much of it was there when the attempt began
    start,        \* response_round and response_started_at
    turns,        \* total_turns
    attempts,     \* attempts of this cycle that failed
    mode,         \* how this runner's responses arrive
    responses,    \* the last response's number
    crashes

logVars   == <<lines, started, written, now>>
cycleVars == <<turns, attempts, completed>>
stateVars == <<accumulated, mark, start>>
graphVars == <<node, current, returned, context, checkpoint>>
vars == <<logVars, round, graphVars, cycleVars, stateVars, mode, responses, crashes>>

Nodes == {"ready", "requesting", "gating", "tools", "failed", "ended", "leaving", "gone", "down"}

NoResponse == [number |-> 0, parts |-> {}, ends |-> FALSE]
NotStarted == [round |-> 0, at |-> 0]
Started == start # NotStarted

\* note_response_start: the first part of a response dates it.
NoteStart == IF Started THEN start ELSE [round |-> round, at |-> now + 1]

\* The clock after noting: a timestamp is taken only the first time.
NotedAt == IF Started THEN now ELSE now + 1

Calls(parts) == {part \in parts : IsCall(part)}

NewEvent(kind, at, parts, awaited) ==
    [kind |-> kind, at |-> at, round |-> round, parts |-> parts, awaited |-> awaited]

-----------------------------------------------------------------------------
(* The response block *)

\* Bug: the recorded start outlives the block it dates.
FlushResponse_KeepsStart(awaited) ==
    /\ IF accumulated = {}
       THEN UNCHANGED <<lines, now>>
       ELSE /\ lines' = Append(lines, [kind |-> "response", parts |-> accumulated,
                                       round |-> IF Started THEN start.round ELSE round,
                                       at |-> IF Started THEN start.at ELSE now + 1,
                                       awaited |-> awaited])
            /\ now' = NotedAt
    /\ accumulated' = {} /\ mark' = {}
    /\ UNCHANGED <<started, written, start>>

\* _flush_response_block: one LLMResponseReceived for all that is accumulated,
\* dated when the response began; nothing when nothing is.
FlushResponse(awaited) ==
    /\ IF accumulated = {}
       THEN UNCHANGED <<lines, now>>
       ELSE /\ lines' = Append(lines, [kind |-> "response", parts |-> accumulated,
                                       round |-> IF Started THEN start.round ELSE round,
                                       at |-> IF Started THEN start.at ELSE now + 1,
                                       awaited |-> awaited])
            /\ now' = NotedAt
    /\ accumulated' = {} /\ mark' = {}
    /\ start' = NotStarted
    /\ UNCHANGED <<started, written>>

\* discard_since_attempt_start
DiscardAttempt ==
    /\ accumulated' = accumulated \cap mark
    /\ start' = IF accumulated' = {} THEN NotStarted ELSE start

\* The response in hand is gone with the node that held it.
DropResponse == current' = NoResponse /\ returned' = {}

-----------------------------------------------------------------------------
(* The agent graph, as _run_agent_call drives it *)

\* Bug: the resume point stays where the cycle began.
IssueRequest_NoCheckpoint ==
    /\ node = "ready"
    /\ IF Calls(accumulated) # {} THEN FlushResponse(TRUE)
       ELSE UNCHANGED <<logVars, stateVars>>
    /\ node' = "requesting"
    /\ DropResponse
    /\ UNCHANGED <<checkpoint, round, context, cycleVars, responses, mode, crashes>>

\* Bug: a response is logged only once the next one has words in it.
IssueRequest_NoFlush ==
    /\ node = "ready"
    /\ checkpoint' = context
    /\ node' = "requesting"
    /\ DropResponse
    /\ UNCHANGED <<logVars, stateVars, round, context, cycleVars, responses, mode, crashes>>

\* A model request node: the previous response is logged if it had tool calls,
\* and the pending request becomes the resume point.
IssueRequest ==
    /\ node = "ready"
    /\ IF Calls(accumulated) # {} THEN FlushResponse(TRUE)
       ELSE UNCHANGED <<logVars, stateVars>>
    /\ checkpoint' = context
    /\ node' = "requesting"
    /\ DropResponse
    /\ UNCHANGED <<round, context, cycleVars, responses, mode, crashes>>

\* The response arrives; its words are accumulated as they stream, and date it,
\* or all at once from a provider that is not streamed. A response with neither
\* text nor calls does not end the run. The log tasks have started by then.
ResponseArrives(words, calls, ends) ==
    LET r == responses + 1
        said == IF words THEN {<<r, 0>>} ELSE {}
    IN
    /\ node = "requesting"
    /\ r <= MaxResponses
    /\ ends => words /\ calls = 0
    /\ current' = [number |-> r, parts |-> said \cup {<<r, k>> : k \in 1..calls}, ends |-> ends]
    /\ returned' = {}
    /\ responses' = r
    /\ accumulated' = accumulated \cup said
    /\ IF words /\ mode = "streaming" THEN start' = NoteStart /\ now' = NotedAt
       ELSE UNCHANGED <<start, now>>
    /\ node' = "gating"
    /\ started' = Len(lines)
    /\ UNCHANGED <<lines, written, round, context, checkpoint, mark, cycleVars, mode, crashes>>

\* The lines the calls of the response are announced with.
Announced ==
    [k \in 1..Cardinality(Calls(current.parts)) |->
        NewEvent("invoked", NotedAt + k, {<<current.number, k>>}, TRUE)]

\* gate_model_response has returned: the tool calls are announced, each accumulated
\* and logged as invoked, or the response is the conversation's next part.
PassGate ==
    LET n == Cardinality(Calls(current.parts)) IN
    /\ node = "gating"
    /\ \/ /\ n > 0
          /\ start' = NoteStart
          /\ accumulated' = accumulated \cup Calls(current.parts)
          /\ lines' = lines \o Announced
          /\ now' = NotedAt + n
          /\ node' = "tools"
          /\ UNCHANGED context
       \/ /\ n = 0
          /\ context' = context \cup current.parts
          /\ node' = IF current.ends THEN "ended" ELSE "ready"
          /\ UNCHANGED <<lines, now, start, accumulated>>
    /\ UNCHANGED <<started, written, round, current, returned, checkpoint, mark, cycleVars,
                   responses, mode, crashes>>

\* A tool call returns and its result is logged. With the last one the response
\* joins the conversation. The tools' tasks start behind the log tasks that
\* announced their calls.
ToolReturns(call) ==
    /\ node = "tools"
    /\ call \in Calls(current.parts) \ returned
    /\ returned' = returned \cup {call}
    /\ started' = IF returned = {} THEN Len(lines) ELSE started
    /\ lines' = Append(lines, NewEvent("result", now + 1, {call}, TRUE))
    /\ now' = now + 1
    /\ IF returned' = Calls(current.parts)
       THEN node' = "ready" /\ context' = context \cup current.parts
       ELSE UNCHANGED <<node, context>>
    /\ UNCHANGED <<written, round, current, checkpoint, cycleVars, stateVars, responses,
                   mode, crashes>>

\* The request, the gate, the handler or a tool raises: the attempt's share is dropped.
AttemptFails ==
    /\ node \in {"requesting", "gating", "tools"}
    /\ DiscardAttempt
    /\ attempts' = attempts + 1
    /\ node' = "failed"
    /\ DropResponse
    /\ UNCHANGED <<logVars, round, context, checkpoint, turns, completed,
                   mark, responses, mode, crashes>>

\* The next attempt starts from the checkpoint, after a pause the log tasks start in.
Retry ==
    /\ node = "failed"
    /\ attempts < Attempts
    /\ mark' = accumulated
    /\ context' = checkpoint
    /\ node' = "ready"
    /\ started' = Len(lines)
    /\ UNCHANGED <<lines, written, now, round, current, returned, checkpoint, cycleVars,
                   accumulated, start, responses, mode, crashes>>

-----------------------------------------------------------------------------
(* The cycles *)

\* The next cycle starts, or the runner leaves its loop.
NextCycle(history, leave) ==
    /\ turns' = turns + 1
    /\ attempts' = 0
    /\ context' = history
    /\ checkpoint' = history
    /\ DropResponse
    /\ node' = IF leave \/ turns' = MaxTurns THEN "leaving" ELSE "ready"

\* Every attempt failed: the failure is logged and the next cycle starts from the
\* last completed one, whose messages are all it knows.
CycleFails ==
    /\ node = "failed"
    /\ attempts = Attempts
    /\ lines' = Append(lines, NewEvent("failed", now + 1, {}, TRUE))
    /\ now' = now + 1
    /\ NextCycle(completed, FALSE)
    /\ accumulated' = {} /\ mark' = {} /\ start' = NotStarted
    /\ UNCHANGED <<started, written, round, completed, responses, mode, crashes>>

\* The run of the graph returned. The last block is logged by a task spawned after
\* the cycle's tasks were collected, so nobody awaits it. stop is
\* RunTermination.is_set, which a read_notifications call of the cycle may have set.
CycleEnds(stop) ==
    /\ node = "ended"
    /\ FlushResponse(FALSE)
    /\ completed' = context
    /\ NextCycle(context, stop)
    /\ UNCHANGED <<round, responses, mode, crashes>>

\* The runner's task is cancelled (swap, drain): what is accumulated is never logged.
CancelRunner ==
    /\ node \notin {"leaving", "gone", "down"}
    /\ node' = "leaving"
    /\ DropResponse
    /\ accumulated' = {} /\ mark' = {} /\ start' = NotStarted
    /\ checkpoint' = {} /\ completed' = {}
    /\ turns' = 0 /\ attempts' = 0
    /\ UNCHANGED <<logVars, round, context, responses, mode, crashes>>

\* The gather of start's finally is done: what it awaited is on disk, and the
\* conversation is nobody's any more.
Leave ==
    /\ node = "leaving"
    /\ written' \in {w \in written..Len(lines) :
          /\ \A i \in (w + 1)..Len(lines) : ~lines[i].awaited
          /\ w = written \/ lines[w].awaited}
    /\ started' = Len(lines)
    /\ node' = "gone"
    /\ context' = {} /\ checkpoint' = {} /\ completed' = {}
    /\ turns' = 0 /\ attempts' = 0
    /\ UNCHANGED <<lines, now, round, current, returned, stateVars, responses, mode, crashes>>

-----------------------------------------------------------------------------
(* The log, the clock and the process *)

\* The RoundAdvanced of the round that begins.
Advanced == [kind |-> "advanced", at |-> now + 1, round |-> round + 1,
             parts |-> {}, awaited |-> FALSE]

\* GameClock._advance_round, while the runner plays. The clock queues for the lock
\* itself: behind every log task that has started, before those that have not,
\* whose lines are dated earlier.
AdvanceRound ==
    /\ node \notin {"leaving", "gone", "down"}
    /\ round < MaxRound
    /\ round' = round + 1
    /\ \E k \in started..Len(lines) :
          lines' = Append(SubSeq(lines, 1, k), Advanced) \o SubSeq(lines, k + 1, Len(lines))
    /\ started' = Len(lines')
    /\ now' = now + 1
    /\ UNCHANGED <<written, graphVars, cycleVars, stateVars, responses, mode, crashes>>

\* The files the process may leave if it stops now.
Disks == {SubSeq(lines, 1, w) : w \in written..Len(lines)}

\* The latest timestamp of a log: time goes on from there.
Latest(log) == {t \in {log[i].at : i \in DOMAIN log} : \A i \in DOMAIN log : log[i].at <= t}

\* The process stops; the lines on disk are all that is left.
Crash ==
    /\ node # "down"
    /\ crashes < MaxCrashes
    /\ crashes' = crashes + 1
    /\ lines' \in Disks
    /\ started' = Len(lines') /\ written' = Len(lines')
    /\ node' = "down"
    /\ DropResponse
    /\ context' = {} /\ checkpoint' = {} /\ completed' = {}
    /\ accumulated' = {} /\ mark' = {} /\ start' = NotStarted
    /\ turns' = 0 /\ attempts' = 0
    /\ now' \in Latest(lines')
    /\ round' = 0
    /\ UNCHANGED <<mode, responses>>

\* --resume: the agent gets the rebuilt history, the clock the rewound round.
Resume ==
    /\ node = "down"
    /\ round' = LastAdvanced(lines, Walked(lines))
    /\ context' = Remembered(lines)
    /\ checkpoint' = Remembered(lines)
    /\ completed' = Remembered(lines)
    /\ node' = "ready"
    /\ UNCHANGED <<logVars, current, returned, turns, attempts, stateVars, responses,
                   mode, crashes>>

Init ==
    /\ lines = <<[kind |-> "advanced", at |-> 1, round |-> 1, parts |-> {}, awaited |-> FALSE]>>
    /\ started = 1 /\ written = 1
    /\ now = 1
    /\ round = 1
    /\ node = "ready"
    /\ current = NoResponse /\ returned = {}
    /\ context = {} /\ checkpoint = {} /\ completed = {}
    /\ accumulated = {} /\ mark = {} /\ start = NotStarted
    /\ turns = 0 /\ attempts = 0
    /\ mode \in Modes
    /\ responses = 0
    /\ crashes = 0

Respond == \E words \in BOOLEAN, calls \in 0..MaxCalls, ends \in BOOLEAN :
    ResponseArrives(words, calls, ends)

Return == \E call \in Calls(current.parts) : ToolReturns(call)

End == \E stop \in BOOLEAN : CycleEnds(stop)

Next ==
    \/ IssueRequest \/ Respond \/ PassGate \/ Return
    \/ AttemptFails \/ Retry \/ CycleFails \/ End
    \/ CancelRunner \/ Leave
    \/ AdvanceRound \/ Crash \/ Resume

Spec == Init /\ [][Next]_vars

-----------------------------------------------------------------------------
(* Properties *)

\* Every variable has its type.
TypeOK ==
    /\ lines \in Seq(Event)
    /\ started \in 0..Len(lines) /\ written \in 0..started
    /\ now \in Nat /\ round \in Nat
    /\ node \in Nodes
    /\ current \in [number : Nat, parts : SUBSET (Nat \X Nat), ends : BOOLEAN]
    /\ returned \in SUBSET (Nat \X Nat) /\ context \in SUBSET (Nat \X Nat)
    /\ checkpoint \in SUBSET (Nat \X Nat) /\ completed \in SUBSET (Nat \X Nat)
    /\ accumulated \in SUBSET (Nat \X Nat) /\ mark \in SUBSET (Nat \X Nat)
    /\ start \in [round : Nat, at : Nat]
    /\ turns \in 0..MaxTurns
    /\ attempts \in 0..Attempts
    /\ mode \in Modes
    /\ responses \in 0..MaxResponses
    /\ crashes \in 0..MaxCrashes

Responses == {i \in DOMAIN lines : lines[i].kind = "response"}

\* A response that calls tools is logged whole, in one line, once. The calls of a
\* line are the last thing in it and so one response's, they were invoked and
\* answered in the log before it, none that its responses made is missing, and no
\* other line repeats a part of it. Hence what else a line speaks of, before its
\* last response, are responses that called nothing. This is what lets the history
\* builder pair every call with its result (pydantic_ai_runner.py:361).
LoggedWhole ==
    \A i \in Responses :
        /\ \A c \in Calls(lines[i].parts), p \in lines[i].parts : p[1] <= c[1]
        /\ \A c \in Calls(lines[i].parts) :
              /\ \E j \in 1..i : lines[j].kind = "invoked" /\ c \in lines[j].parts
              /\ \E j \in 1..i : lines[j].kind = "result" /\ c \in lines[j].parts
        /\ \A j \in DOMAIN lines : lines[j].kind = "invoked" =>
              \A c \in lines[j].parts :
                  (\E p \in lines[i].parts : p[1] = c[1]) => c \in lines[i].parts
        /\ \A j \in Responses \ {i} : lines[i].parts \cap lines[j].parts = {}

\* What the docstring of _run_agent_call claims beyond that, "each model
\* response is one LLMResponseReceived" (pydantic_ai_runner.py:368). The code does
\* not hold to it: a response of thinking alone neither ends the run nor makes the
\* next request flush, so the next response's line speaks of both.
EachResponseItsLine ==
    \A i \in Responses : \A p, q \in lines[i].parts : p[1] = q[1]

\* A logged response carries the round and time it began in: not past the first of
\* its calls, however long they waited, and not before a result its request held.
LoggedWhenBegun ==
    \A i \in Responses : \A j \in DOMAIN lines :
        /\ lines[j].kind = "invoked" /\ lines[j].parts \subseteq lines[i].parts =>
              lines[i].at < lines[j].at /\ lines[i].round <= lines[j].round
        /\ lines[j].kind = "result" /\ (\E p \in lines[i].parts, q \in lines[j].parts :
                                           q[1] < p[1]) =>
              lines[j].at < lines[i].at

\* Within a cycle the conversation only grows: a retried request holds the result
\* of every call made before it, so the model has no reason to make one again.
RetriesForgetNothing ==
    [][turns' = turns /\ node' \notin {"gone", "down"} => context \subseteq context']_vars

\* Whenever the process stops, a resumed agent is given back every part of its
\* conversation whose lines are on disk, but at most for the calls of the response
\* the log ends with.
ResumeForgetsAtMostTheLast ==
    context # {} =>
    \A log \in Disks : \A part \in context \ (Remembered(log) \cup log[Len(log)].parts) :
        \E kind \in IF IsCall(part) THEN {"invoked", "result"} ELSE {"response"} :
            \A i \in DOMAIN log : log[i].kind = kind => part \notin log[i].parts

\* A resumed run reopens the round the log last advanced to
\* (message_rewind.py:452: "must retain clock, injection, and scenario events").
ResumesInLastRound ==
    \A log \in Disks : LastAdvanced(log, Walked(log)) = LastAdvanced(log, DOMAIN log)

\* Rounds are lost to a response: with any other line last, a resumed run reopens
\* the last round or the one before it, since the clock may log that round's start
\* ahead of a line dated earlier (message_rewind.py:448 cuts at the last line's time).
OnlyAResponseTurnsFarBack ==
    \A log \in Disks : log[Len(log)].kind # "response" =>
        \A i \in DOMAIN log \ Walked(log) : log[i].kind = "advanced" =>
            \A j \in DOMAIN log : log[j].kind = "advanced" => j <= i

\* A resumed run plays no round that comes before the one its log's last line is of.
NoRoundBeforeTheLastLine ==
    \A log \in Disks : log[Len(log)].round <= LastAdvanced(log, Walked(log))
=============================================================================
