---------------------------- MODULE WaitRegistry ----------------------------
(***************************************************************************)
(* Agents parked in read_notifications: WaitRegistry (wait_registry.py),   *)
(* the AgentSession state it reads (agent_session.py), the runner's side   *)
(* of the call (read_notifications_tool.py) and the two renderings of its  *)
(* result (notification_payload.py).                                       *)
(*                                                                         *)
(* The runtime is one asyncio event loop: an action is the code between    *)
(* two awaits. A call registers, awaits the WaitRegistered log, awaits the *)
(* wait's future, renders, awaits the AgentResumed log and returns; every  *)
(* push, timer, release or cancellation may fall between any two of those. *)
(***************************************************************************)
EXTENDS Notifications

CONSTANTS
    Agents,
    MaxMessages,    \* bound: messages stored per channel
    MaxPushes,      \* bound: notices queued per agent
    MaxReads,       \* bound: read_notifications calls per agent
    Renderings,     \* subset of {"notice", "bodies"}: what the scenario's hook does
    WipesHistory    \* whether the scenario clears channel histories mid-run

ASSUME BoundsAssumption ==
    /\ MaxMessages \in Nat
    /\ MaxPushes \in Nat
    /\ MaxReads \in Nat
    /\ Renderings \subseteq {"notice", "bodies"}
    /\ WipesHistory \in BOOLEAN

VARIABLES
    counts,      \* counts[c]: messages the router holds for channel c
    lastSeen,    \* lastSeen[a][c]: session._last_seen_counts
    queue,       \* queue[a]: session._queue
    terminated,  \* terminated[a]: session._terminated
    listening,   \* agents whose session has a notification listener
    installed,   \* agents with an entry in _waits_by_agent
    wait,        \* wait[a]: the RegisteredWait of a's current or last call
    seenParked,  \* agents between on_park and on_resume, as the scenario sees it
    pc,          \* where a's runner is
    stopping,    \* agents whose RunTermination is set
    shown,       \* shown[a]: the notices a's last call returned
    answer,      \* answer[a]: the kind of a's last result
    pushes,      \* pushes[a]: notices ever queued, and the next arrival stamp
    reads        \* reads[a]: calls made

session   == <<counts, lastSeen, queue, terminated, pushes>>
waitState == <<listening, installed, wait, seenParked>>
runner    == <<pc, stopping, shown, answer, reads>>
vars      == <<session, waitState, runner>>

Futures == {"pending", "set", "cancelled"}
Wait == [for : WaitKinds, deadline : BOOLEAN, future : Futures,
         reasons : SUBSET WakeReasons, timer : BOOLEAN, parked : BOOLEAN]
PCs == {"acting", "logging", "awaiting", "unwinding", "answering", "gone"}
Answers == {"none", "notice", "done", "released", "no_activity"}

\* pending_wait: the agent's wait that has not resumed yet.
Pending(a) == a \in installed /\ wait[a].future = "pending"

LiveQueue(a) == Live(queue[a], lastSeen[a], counts)

-----------------------------------------------------------------------------
(* Registry steps *)

\* Bug: the scenario is not told the agent resumed.
Resume_SkipsUnpark(a, reasons) ==
    /\ wait' = [wait EXCEPT ![a] = [@ EXCEPT !.future = "set", !.reasons = reasons,
                                             !.timer = FALSE, !.parked = FALSE]]
    /\ listening' = listening \ {a}
    /\ installed' = installed \ {a}
    /\ UNCHANGED seenParked

\* _resume: deliver the signal, detach listener and timer, drop the entry, unpark.
Resume(a, reasons) ==
    /\ wait' = [wait EXCEPT ![a] = [@ EXCEPT !.future = "set", !.reasons = reasons,
                                             !.timer = FALSE, !.parked = FALSE]]
    /\ listening' = listening \ {a}
    /\ installed' = installed \ {a}
    /\ seenParked' = seenParked \ {a}

\* WaitRegistry.cancel
CancelWait(a) ==
    /\ wait' = [wait EXCEPT ![a] = [@ EXCEPT !.future = "cancelled",
                                             !.timer = FALSE, !.parked = FALSE]]
    /\ listening' = listening \ {a}
    /\ installed' = installed \ {a}
    /\ seenParked' = seenParked \ {a}

\* What register puts in the future at once: a condition that already holds, a
\* scenario clock that fires the timer while it is armed, or a release from
\* inside on_park.
AtOnce(kind, deadline, held) ==
    IF held # {} THEN {held}
    ELSE {r \in {{"timeout"}, {"released"}} : r = {"timeout"} => deadline}

\* Bug: only a wait for anything gets a timer, whatever timeout_s asks.
RegisterParks_TimerForAnyOnly(a, kind, deadline) ==
    /\ wait' = [wait EXCEPT ![a] = [for |-> kind, deadline |-> deadline, future |-> "pending",
                                    reasons |-> {}, timer |-> deadline /\ kind = "any",
                                    parked |-> TRUE]]
    /\ listening' = listening \cup {a}
    /\ installed' = installed \cup {a}
    /\ seenParked' = seenParked \cup {a}

\* register finds no condition holding and the agent parks.
RegisterParks(a, kind, deadline) ==
    /\ wait' = [wait EXCEPT ![a] = [for |-> kind, deadline |-> deadline, future |-> "pending",
                                    reasons |-> {}, timer |-> deadline, parked |-> TRUE]]
    /\ listening' = listening \cup {a}
    /\ installed' = installed \cup {a}
    /\ seenParked' = seenParked \cup {a}

RegisterResumes(a, kind, deadline, reasons) ==
    /\ wait' = [wait EXCEPT ![a] = [for |-> kind, deadline |-> deadline, future |-> "set",
                                    reasons |-> reasons, timer |-> FALSE, parked |-> FALSE]]
    /\ listening' = listening \ {a}
    /\ installed' = installed \ {a}
    /\ UNCHANGED seenParked

\* Bug: an edge-triggered registration, deaf to what was queued before it.
Register_EdgeTriggered(a, kind, deadline) ==
    /\ pc[a] = "acting"
    /\ ~Pending(a)
    /\ reads[a] < MaxReads
    /\ RegisterParks(a, kind, deadline)
    /\ pc' = [pc EXCEPT ![a] = "logging"]
    /\ reads' = [reads EXCEPT ![a] = @ + 1]
    /\ UNCHANGED <<session, stopping, shown, answer>>

\* A read_notifications call on its own (a parallel one changes nothing):
\* register, then suspend in the WaitRegistered log.
Register(a, kind, deadline) ==
    LET held == Satisfied(kind, LiveQueue(a), terminated[a]) IN
    /\ pc[a] = "acting"
    /\ ~Pending(a)
    /\ reads[a] < MaxReads
    /\ queue' = [queue EXCEPT ![a] = LiveQueue(a)]
    /\ \/ held = {} /\ RegisterParks(a, kind, deadline)
       \/ \E r \in AtOnce(kind, deadline, held) : RegisterResumes(a, kind, deadline, r)
    /\ pc' = [pc EXCEPT ![a] = "logging"]
    /\ reads' = [reads EXCEPT ![a] = @ + 1]
    /\ UNCHANGED <<counts, lastSeen, terminated, pushes, stopping, shown, answer>>

\* The deadline's timer fires; a future already done makes _resume a no-op.
TimerFires(a) ==
    /\ wait[a].timer
    /\ \/ wait[a].future = "pending" /\ Resume(a, {"timeout"})
       \/ /\ wait[a].future # "pending"
          /\ wait' = [wait EXCEPT ![a].timer = FALSE]
          /\ UNCHANGED <<listening, installed, seenParked>>
    /\ UNCHANGED <<session, runner>>

\* WaitRegistry.release, called by a scenario's world or tools.
Release(a) ==
    /\ Pending(a)
    /\ Resume(a, {"released"})
    /\ UNCHANGED <<session, runner>>

-----------------------------------------------------------------------------
(* What happens around a wait: messages, notices, wipes, the agent's reads *)

\* publish_message appends to the channel; the notices follow after a log write.
StoreMessage(c) ==
    /\ counts[c] < MaxMessages
    /\ counts' = [counts EXCEPT ![c] = @ + 1]
    /\ UNCHANGED <<lastSeen, queue, terminated, pushes, waitState, runner>>

\* WorldContext.clear_channel_history
ClearHistory(c) ==
    /\ WipesHistory
    /\ counts[c] > 0
    /\ counts' = [counts EXCEPT ![c] = 0]
    /\ lastSeen' = [a \in Agents |-> [lastSeen[a] EXCEPT ![c] = 0]]
    /\ UNCHANGED <<queue, terminated, pushes, waitState, runner>>

\* push_notification, with the listener's re-evaluation of a pending wait
\* (_publish_to), which first discards what has gone stale.
Push(a, kind, channels) ==
    LET n     == [at |-> pushes[a], kind |-> kind, channels |-> channels]
        over  == terminated[a] \/ kind = "done"
        grown == queue[a] \cup {n}
        live  == Live(grown, lastSeen[a], counts)
        held  == Satisfied(wait[a].for, live, over)
    IN
    /\ pushes[a] < MaxPushes
    /\ kind = "done" => ~terminated[a]
    /\ terminated' = [terminated EXCEPT ![a] = over]
    /\ pushes' = [pushes EXCEPT ![a] = @ + 1]
    /\ \/ /\ a \in listening /\ wait[a].future = "pending"
          /\ queue' = [queue EXCEPT ![a] = live]
          /\ \/ held # {} /\ Resume(a, held)
             \/ held = {} /\ UNCHANGED waitState
       \/ /\ a \notin listening \/ wait[a].future # "pending"
          /\ queue' = [queue EXCEPT ![a] = grown]
          /\ UNCHANGED waitState
    /\ UNCHANGED <<counts, lastSeen, runner>>

\* read_channel: the agent has seen the whole channel.
ReadChannel(a, c) ==
    /\ pc[a] = "acting"
    /\ ~terminated[a]
    /\ lastSeen' = [lastSeen EXCEPT ![a][c] = counts[c]]
    /\ UNCHANGED <<counts, queue, terminated, pushes, waitState, runner>>

-----------------------------------------------------------------------------
(* The runner's side of the call *)

\* The WaitRegistered log is written; the runner awaits the future.
RegistrationLogged(a) ==
    /\ pc[a] = "logging"
    /\ pc' = [pc EXCEPT ![a] = "awaiting"]
    /\ UNCHANGED <<session, waitState, stopping, shown, answer, reads>>

\* What a result with nothing to deliver says (render_default_notification).
Fallback(a) == IF "done" \in wait[a].reasons THEN "done"
               ELSE IF "released" \in wait[a].reasons THEN "released"
               ELSE "no_activity"

\* Bug: the newest notice is taken first.
RenderNotice_Newest(a) ==
    \/ \E n \in LiveQueue(a) :
          /\ \A m \in LiveQueue(a) : m.at <= n.at
          /\ queue' = [queue EXCEPT ![a] = @ \ {n}]
          /\ lastSeen' = [lastSeen EXCEPT ![a] =
                             ReadUpTo(Fresh(n, lastSeen[a], counts), @, counts)]
          /\ shown' = [shown EXCEPT ![a] = {n}]
          /\ answer' = [answer EXCEPT ![a] = "notice"]
    \/ /\ LiveQueue(a) = {}
       /\ queue' = [queue EXCEPT ![a] = {}]
       /\ shown' = [shown EXCEPT ![a] = {}]
       /\ answer' = [answer EXCEPT ![a] = Fallback(a)]
       /\ UNCHANGED lastSeen

\* The default rendering: take_next on the session the agent has now.
RenderNotice(a) ==
    \/ \E n \in queue[a] :
          /\ IsOldest(n, LiveQueue(a))
          /\ queue' = [queue EXCEPT ![a] = Behind(n, @)]
          /\ lastSeen' = [lastSeen EXCEPT ![a] =
                             ReadUpTo(Fresh(n, lastSeen[a], counts), @, counts)]
          /\ shown' = [shown EXCEPT ![a] = {n}]
          /\ answer' = [answer EXCEPT ![a] = "notice"]
    \/ /\ LiveQueue(a) = {}
       /\ queue' = [queue EXCEPT ![a] = {}]
       /\ shown' = [shown EXCEPT ![a] = {}]
       /\ answer' = [answer EXCEPT ![a] = Fallback(a)]
       /\ UNCHANGED lastSeen

\* A scenario that delivers message bodies itself: drain_unread_channel_messages
\* and then take_lifecycle, which leaves the message notices queued.
RenderBodies(a) ==
    LET taken == {n \in queue[a] : n.kind # "messages"} IN
    /\ lastSeen' = [lastSeen EXCEPT ![a] = ReadUpTo(Channels, @, counts)]
    /\ queue' = [queue EXCEPT ![a] = @ \ taken]
    /\ shown' = [shown EXCEPT ![a] = taken]
    /\ answer' = [answer EXCEPT ![a] = "notice"]

Render(a) ==
    /\ pc[a] = "awaiting"
    /\ wait[a].future = "set"
    /\ \/ "notice" \in Renderings /\ RenderNotice(a)
       \/ "bodies" \in Renderings /\ RenderBodies(a)
    /\ pc' = [pc EXCEPT ![a] = "answering"]
    /\ UNCHANGED <<counts, terminated, pushes, waitState, stopping, reads>>

\* Bug: the RunTermination is never set.
Return_KeepsRunning(a) ==
    /\ pc[a] = "answering"
    /\ pc' = [pc EXCEPT ![a] = "acting"]
    /\ UNCHANGED <<session, waitState, stopping, shown, answer, reads>>

\* The AgentResumed log is written; a DONE wake sets the RunTermination.
Return(a) ==
    /\ pc[a] = "answering"
    /\ stopping' = IF "done" \in wait[a].reasons THEN stopping \cup {a} ELSE stopping
    /\ pc' = [pc EXCEPT ![a] = "acting"]
    /\ UNCHANGED <<session, waitState, shown, answer, reads>>

\* Outside the call nothing of the registry is held: the runner may leave its
\* cycle loop (terminated, out of turns), raise, or be cancelled.
RunnerReturns(a) ==
    /\ pc[a] \in {"acting", "answering"}
    /\ pc' = [pc EXCEPT ![a] = "gone"]
    /\ UNCHANGED <<session, waitState, stopping, shown, answer, reads>>

\* task.cancel() on the runner. Suspended on the future it cancels that future
\* at once; either way the finally block runs a loop iteration later.
CancelRunner(a) ==
    /\ pc[a] \in {"logging", "awaiting"}
    /\ pc' = [pc EXCEPT ![a] = "unwinding"]
    /\ \/ /\ pc[a] = "awaiting" /\ wait[a].future = "pending"
          /\ wait' = [wait EXCEPT ![a].future = "cancelled"]
       \/ /\ pc[a] = "logging" \/ wait[a].future # "pending"
          /\ UNCHANGED wait
    /\ UNCHANGED <<session, listening, installed, seenParked, stopping, shown, answer, reads>>

\* The finally block of _park_and_render.
Unwind(a) ==
    /\ pc[a] = "unwinding"
    /\ \/ wait[a].future \in {"pending", "cancelled"} /\ CancelWait(a)
       \/ wait[a].future = "set" /\ UNCHANGED waitState
    /\ pc' = [pc EXCEPT ![a] = "gone"]
    /\ UNCHANGED <<session, stopping, shown, answer, reads>>

-----------------------------------------------------------------------------
NoWait == [for |-> "any", deadline |-> FALSE, future |-> "set", reasons |-> {},
           timer |-> FALSE, parked |-> FALSE]

Init ==
    /\ counts = [c \in Channels |-> 0]
    /\ lastSeen = [a \in Agents |-> [c \in Channels |-> 0]]
    /\ queue = [a \in Agents |-> {}]
    /\ terminated = [a \in Agents |-> FALSE]
    /\ pushes = [a \in Agents |-> 0]
    /\ listening = {} /\ installed = {} /\ seenParked = {}
    /\ wait = [a \in Agents |-> NoWait]
    /\ pc = [a \in Agents |-> "acting"]
    /\ stopping = {}
    /\ shown = [a \in Agents |-> {}]
    /\ answer = [a \in Agents |-> "none"]
    /\ reads = [a \in Agents |-> 0]

\* An explicit timeout_s gives any kind of wait a deadline; ANY may also take
\* the scenario's default, or none (wait_deadline).
Call(a) == \E kind \in WaitKinds, deadline \in BOOLEAN : Register(a, kind, deadline)

Notified(a) ==
    \/ \E chans \in SUBSET Channels : chans # {} /\ Push(a, "messages", chans)
    \/ \E kind \in NoticeKinds \ {"messages"} : Push(a, kind, {})

RunnerStep(a) ==
    RegistrationLogged(a) \/ Render(a) \/ Return(a) \/ Unwind(a)

Next ==
    \/ \E c \in Channels : StoreMessage(c) \/ ClearHistory(c)
    \/ \E a \in Agents :
          \/ Call(a) \/ RunnerStep(a) \/ RunnerReturns(a) \/ CancelRunner(a)
          \/ TimerFires(a) \/ Release(a) \/ Notified(a)
          \/ \E c \in Channels : ReadChannel(a, c)

Spec == Init /\ [][Next]_vars

\* The event loop runs ready callbacks, writes complete and armed timers fire.
\* Nothing is assumed of teammates, of the world or of the model.
Fairness == \A a \in Agents : WF_vars(RunnerStep(a)) /\ WF_vars(TimerFires(a))

FairSpec == Spec /\ Fairness

-----------------------------------------------------------------------------
(* Properties *)

\* Every variable has its type: the states sessions, waits and runners can be in,
\* with no read position past what its channel ever held.
TypeOK ==
    /\ counts \in [Channels -> 0..MaxMessages]
    /\ lastSeen \in [Agents -> [Channels -> 0..MaxMessages]]
    /\ queue \in [Agents -> SUBSET Notice]
    /\ terminated \in [Agents -> BOOLEAN]
    /\ pushes \in [Agents -> 0..MaxPushes]
    /\ listening \subseteq Agents
    /\ installed \subseteq Agents
    /\ seenParked \subseteq Agents
    /\ wait \in [Agents -> Wait]
    /\ pc \in [Agents -> PCs]
    /\ stopping \subseteq Agents
    /\ shown \in [Agents -> SUBSET Notice]
    /\ answer \in [Agents -> Answers]
    /\ reads \in [Agents -> 0..MaxReads]

InCall(a) == pc[a] \in {"logging", "awaiting", "unwinding"}

\* No wake-up is lost: whatever the order of pushes, reads, wipes and
\* registrations, an agent with a pending wait holds no queued notice that
\* satisfies it and has not been told the run is over. This is what lets
\* GameClock take "pending" for "idle" (game_clock.py:118).
NoLostWakeup ==
    \A a \in Agents : Pending(a) => Satisfied(wait[a].for, queue[a], terminated[a]) = {}

\* Nothing a wait installs outlives it, and a suspended call can always be resumed:
\* the listener, the registry entry and the scenario's view of a parked agent
\* (on_park without on_resume yet) stand exactly while the agent's call is open,
\* under way and not answered; a timer belongs to an open call, so none can resume
\* the next one; and a cancelled future has its runner unwinding.
Open(a) == InCall(a) /\ wait[a].future # "set"

OpenCalls ==
    \A a \in Agents :
        /\ a \in listening <=> Open(a)
        /\ a \in installed <=> Open(a)
        /\ a \in seenParked <=> Open(a)
        /\ wait[a].timer => Open(a)
        /\ wait[a].future = "pending" => InCall(a)
        /\ wait[a].future = "cancelled" => pc[a] \in {"unwinding", "gone"}

\* A result that tells the agent nothing happened means its deadline passed
\* (render_default_notification, notification_payload.py:183).
NoActivityMeansTimeout ==
    \A a \in Agents :
        pc[a] = "answering" /\ answer[a] = "no_activity" => "timeout" \in wait[a].reasons

\* A parked call can still be ended: one with a deadline has its timer armed, and
\* nobody is parked who was told the run is over. The safety half of DeadlineAnswers
\* and DoneEndsTheCall.
ParkedCallsCanEnd ==
    \A a \in Agents : Pending(a) =>
        /\ wait[a].deadline => wait[a].timer
        /\ ~terminated[a]

\* A briefing, a world update or the done notice leaves the queue only in a
\* result handed to the agent: discarding stale message notices takes no other.
LifecycleNoticesAreDelivered ==
    [][\A a \in Agents : \A n \in queue[a] :
        n.kind # "messages" /\ n \notin queue'[a] => n \in shown'[a]]_vars

\* Notices are delivered oldest first: a result never overtakes a briefing,
\* world update or done notice queued before what it delivers.
DeliveredInOrder ==
    [][\A a \in Agents : \A n \in queue'[a] :
        n.kind # "messages" /\ shown'[a] # shown[a] =>
            \A m \in shown'[a] : m.at < n.at]_vars

\* A call with a deadline is answered, or its runner is gone, however quiet the
\* rest of the team is.
DeadlineAnswers ==
    \A a \in Agents :
        (InCall(a) /\ wait[a].deadline) ~> ~InCall(a)

\* Telling an agent the run is over ends any call it has in flight, so the
\* supervisor's and the swap's drains do not wait on a parked agent.
DoneEndsTheCall ==
    \A a \in Agents : terminated[a] ~> ~InCall(a)

-----------------------------------------------------------------------------
(* Refinement *)

\* A runner being unwound takes no result: for its agent the call is over.
PhaseOf(a) ==
    CASE pc[a] \in {"unwinding", "gone"} -> "gone"
      [] pc[a] = "acting" -> "acting"
      [] pc[a] = "answering" -> "woken"
      [] pc[a] \in {"logging", "awaiting"} /\ wait[a].future = "set" -> "woken"
      [] OTHER -> "waiting"

Contract == INSTANCE WaitContract WITH
    Reasons <- WakeReasons,
    Done    <- "done",
    phase   <- [a \in Agents |-> PhaseOf(a)],
    why     <- [a \in Agents |-> IF PhaseOf(a) = "woken" THEN wait[a].reasons ELSE {}],
    over    <- terminated,
    ended   <- stopping

\* The registry and the runner's side of the call keep the promise of a
\* read_notifications call.
KeepsContract == Contract!Spec
=============================================================================
