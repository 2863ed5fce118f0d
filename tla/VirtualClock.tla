---------------------------- MODULE VirtualClock ----------------------------
(***************************************************************************)
(* Simulated time in the shared workspace (virtual_clock.py), driven by    *)
(* the hooks of its scenario (scenario.py) from each agent's runner and    *)
(* from the wait registry.                                                 *)
(*                                                                         *)
(* A conservative discrete-event scheduler: a finished response is held    *)
(* behind a gate until no request still in flight could finish earlier.    *)
(* Every operation ends in _advance, which runs without an await. Here it  *)
(* is the flag `advancing` and the steps that follow it; all other actions *)
(* wait for it to fall. A call of _advance from inside it (a timer waking  *)
(* an agent) asks for one more pass, which the loop's own next pass is.    *)
(***************************************************************************)
EXTENDS Integers, FiniteSets

CONSTANTS
    Agents,
    BaseLatency,    \* base_latency_s, the least any request takes
    Generations,    \* the time a response's tokens add to it
    Deadlines,      \* the timeouts a wait is registered with
    CraftDuration,  \* craft_duration_s, 0 for untimed acts
    MaxTurns,       \* bound: requests and crafts per runner
    MaxSwaps,       \* bound: runners replaced
    CancelsGated    \* whether a runner may be cancelled while its response is held

ASSUME ClockAssumption ==
    /\ BaseLatency \in Nat
    /\ Generations \subseteq Nat
    /\ Deadlines \subseteq Nat
    /\ CraftDuration \in Nat
    /\ MaxTurns \in Nat
    /\ MaxSwaps \in Nat
    /\ CancelsGated \in BOOLEAN

VARIABLES
    phase,      \* phase[a]: _AgentState.phase
    startedAt,  \* startedAt[a]: when a's request started
    readyAt,    \* readyAt[a]: when the response held, or the craft, is over
    gate,       \* gate[a]: the future a held response or a craft awaits
    now,        \* _now
    timers,     \* _timers without the cancelled ones
    stopped,    \* _stopped
    advancing,  \* _advancing
    pc,         \* where a's runner is
    turns,      \* turns[a]: requests and crafts of a's runner
    swaps,      \* runners replaced so far
    busyUntil   \* history: the end of the last response or craft of a's runner

clock  == <<phase, startedAt, readyAt, gate, now, timers, stopped, advancing>>
vars   == <<clock, pc, turns, swaps, busyUntil>>

Phases == {"inferring", "pending", "executing", "parked", "retired"}
Gates  == {"none", "open", "set", "cancelled"}
PCs    == {"request", "gated", "tools", "waiting", "woken", "crafting",
           "unwinding", "gone"}
\* A wait's timer resumes the wait; a craft's gives its agent the turn back; a
\* craft's timer whose gate is done moves the time and does nothing else.
Timer  == [at : Nat, agent : Agents, kind : {"wait", "craft", "dead"}]

Later(s, t) == IF s < t THEN t ELSE s

InPhase(p) == {a \in Agents : phase[a] = p}
TimersOf(a, kind) == {t \in timers : t.agent = a /\ t.kind = kind}

\* The timers left when a's runner goes: its wait's is cancelled, its craft's stays.
WithoutRunner(a) ==
    (timers \ (TimersOf(a, "wait") \cup TimersOf(a, "craft")))
        \cup {[t EXCEPT !.kind = "dead"] : t \in TimersOf(a, "craft")}

-----------------------------------------------------------------------------
(* _advance *)

\* Bug: a request in flight is taken for one that starts now.
Certain_FromNow(t) == InPhase("inferring") # {} => t <= now + BaseLatency

\* No request in flight can end before t.
Certain(t) == \A a \in InPhase("inferring") : t <= startedAt[a] + BaseLatency

Earliest(t) == /\ \A a \in InPhase("pending") : t <= readyAt[a]
               /\ \A u \in timers : t <= u.at

\* Bug: the next event is taken while a released agent is still acting.
Comes_Overlapping(t) == ~stopped /\ Earliest(t) /\ Certain(t)

\* t is the instant of the next event, and nothing can come before it.
Comes(t) == ~stopped /\ InPhase("executing") = {} /\ Earliest(t) /\ Certain(t)

\* Bug: the interval ends without giving the agent its turn back.
FireTimer_LeavesParked(t) ==
    /\ advancing
    /\ Comes(t.at)
    /\ now' = Later(now, t.at)
    /\ timers' = timers \ {t}
    /\ IF t.kind = "wait"
       THEN /\ phase' = [phase EXCEPT ![t.agent] = "inferring"]
            /\ startedAt' = [startedAt EXCEPT ![t.agent] = now']
            /\ pc' = [pc EXCEPT ![t.agent] = "woken"]
            /\ UNCHANGED gate
       ELSE UNCHANGED <<phase, gate, startedAt, pc>>
    /\ UNCHANGED <<readyAt, stopped, advancing, turns, swaps, busyUntil>>

\* The head of the timers: a wait's resumes the wait, a craft's opens its gate.
FireTimer(t) ==
    /\ advancing
    /\ Comes(t.at)
    /\ now' = Later(now, t.at)
    /\ timers' = timers \ {t}
    /\ \/ /\ t.kind = "wait"
          /\ phase' = [phase EXCEPT ![t.agent] = "inferring"]
          /\ startedAt' = [startedAt EXCEPT ![t.agent] = now']
          /\ pc' = [pc EXCEPT ![t.agent] = "woken"]
          /\ UNCHANGED gate
       \/ /\ t.kind = "craft"
          /\ phase' = [phase EXCEPT ![t.agent] = "executing"]
          /\ gate' = [gate EXCEPT ![t.agent] = "set"]
          /\ UNCHANGED <<startedAt, pc>>
       \/ /\ t.kind = "dead"
          /\ UNCHANGED <<phase, gate, startedAt, pc>>
    /\ UNCHANGED <<readyAt, stopped, advancing, turns, swaps, busyUntil>>

\* The earliest response, unless a timer comes at the same instant. A gate whose
\* runner was cancelled is not opened: set_result raises out of the pass.
Release(a) ==
    /\ advancing
    /\ phase[a] = "pending"
    /\ Comes(readyAt[a])
    /\ \A t \in timers : t.at # readyAt[a]
    /\ now' = Later(now, readyAt[a])
    /\ phase' = [phase EXCEPT ![a] = "executing"]
    /\ gate' = [gate EXCEPT ![a] = IF @ = "open" THEN "set" ELSE @]
    /\ advancing' = FALSE
    /\ UNCHANGED <<startedAt, readyAt, timers, stopped, pc, turns, swaps, busyUntil>>

Rest ==
    /\ advancing
    /\ \A t \in timers : ~Comes(t.at)
    /\ \A a \in InPhase("pending") : ~Comes(readyAt[a])
    /\ advancing' = FALSE
    /\ UNCHANGED <<phase, startedAt, readyAt, gate, now, timers, stopped, pc, turns, swaps, busyUntil>>

Advance == Rest \/ (\E t \in timers : FireTimer(t)) \/ (\E a \in Agents : Release(a))

-----------------------------------------------------------------------------
(* The runner of an agent *)

\* Bug: a request sent again after a failure is charged from the second attempt.
BeginInference_Restarts(a) ==
    /\ phase' = [phase EXCEPT ![a] = "inferring"]
    /\ startedAt' = [startedAt EXCEPT ![a] = now]
    /\ advancing' = ~stopped

\* begin_inference: a request in flight keeps its start.
BeginInference(a) ==
    /\ phase' = [phase EXCEPT ![a] = "inferring"]
    /\ startedAt' = [startedAt EXCEPT ![a] = IF phase[a] = "inferring" THEN @ ELSE now]
    /\ advancing' = (phase[a] # "inferring" /\ ~stopped)

\* on_model_request_started, after tools or a wait, and again when the request or
\* what its response asked for failed and the runner sends a request anew.
Request(a) ==
    /\ ~advancing
    /\ pc[a] \in {"request", "tools", "woken"}
    /\ turns[a] < MaxTurns
    /\ BeginInference(a)
    /\ pc' = [pc EXCEPT ![a] = "request"]
    /\ turns' = [turns EXCEPT ![a] = @ + 1]
    /\ UNCHANGED <<readyAt, gate, now, timers, stopped, swaps, busyUntil>>

\* complete_inference: the response is back and is held, or passes at once when
\* the run is over.
Respond(a, generation) ==
    /\ ~advancing
    /\ pc[a] = "request"
    /\ busyUntil' = [busyUntil EXCEPT ![a] = startedAt[a] + BaseLatency + generation]
    /\ \/ /\ stopped
          /\ now' = Later(now, busyUntil'[a])
          /\ phase' = [phase EXCEPT ![a] = "executing"]
          /\ pc' = [pc EXCEPT ![a] = "tools"]
          /\ UNCHANGED <<readyAt, gate, advancing>>
       \/ /\ ~stopped
          /\ phase' = [phase EXCEPT ![a] = "pending"]
          /\ readyAt' = [readyAt EXCEPT ![a] = busyUntil'[a]]
          /\ gate' = [gate EXCEPT ![a] = "open"]
          /\ pc' = [pc EXCEPT ![a] = "gated"]
          /\ advancing' = TRUE
          /\ UNCHANGED now
    /\ UNCHANGED <<startedAt, timers, stopped, turns, swaps>>

\* The runner goes on once its gate is open, to the tools of the response or out
\* of the craft.
PassGate(a) ==
    /\ ~advancing
    /\ pc[a] \in {"gated", "crafting"}
    /\ gate[a] = "set"
    /\ pc' = [pc EXCEPT ![a] = "tools"]
    /\ UNCHANGED <<clock, turns, swaps, busyUntil>>

\* Bug: a parked agent is taken out of the bound and nobody looks again.
Park_NoAdvance(a, due) ==
    /\ ~advancing
    /\ pc[a] = "tools"
    /\ timers' = timers \cup {[at |-> now + d, agent |-> a, kind |-> "wait"] : d \in due}
    /\ phase' = [phase EXCEPT ![a] = "parked"]
    /\ pc' = [pc EXCEPT ![a] = "waiting"]
    /\ UNCHANGED <<startedAt, readyAt, gate, now, stopped, advancing, turns, swaps, busyUntil>>

\* read_notifications suspends the agent, with a deadline or without.
Park(a, due) ==
    /\ ~advancing
    /\ pc[a] = "tools"
    /\ timers' = timers \cup {[at |-> now + d, agent |-> a, kind |-> "wait"] : d \in due}
    /\ phase' = [phase EXCEPT ![a] = "parked"]
    /\ pc' = [pc EXCEPT ![a] = "waiting"]
    /\ advancing' = ~stopped
    /\ UNCHANGED <<startedAt, readyAt, gate, now, stopped, turns, swaps, busyUntil>>

\* A message, a world notice, a release or the end of the run resumes the wait;
\* its timer is cancelled.
Wake(a) ==
    /\ ~advancing
    /\ pc[a] = "waiting"
    /\ timers' = timers \ TimersOf(a, "wait")
    /\ phase' = [phase EXCEPT ![a] = "inferring"]
    /\ startedAt' = [startedAt EXCEPT ![a] = now]
    /\ pc' = [pc EXCEPT ![a] = "woken"]
    /\ advancing' = ~stopped
    /\ UNCHANGED <<readyAt, gate, now, stopped, turns, swaps, busyUntil>>

\* occupy: a craft takes its time while teammates act.
Occupy(a) ==
    /\ ~advancing
    /\ pc[a] = "tools"
    /\ CraftDuration > 0
    /\ ~stopped
    /\ turns[a] < MaxTurns
    /\ turns' = [turns EXCEPT ![a] = @ + 1]
    /\ phase' = [phase EXCEPT ![a] = "parked"]
    /\ readyAt' = [readyAt EXCEPT ![a] = now + CraftDuration]
    /\ busyUntil' = [busyUntil EXCEPT ![a] = now + CraftDuration]
    /\ gate' = [gate EXCEPT ![a] = "open"]
    /\ timers' = timers \cup {[at |-> now + CraftDuration, agent |-> a, kind |-> "craft"]}
    /\ pc' = [pc EXCEPT ![a] = "crafting"]
    /\ advancing' = TRUE
    /\ UNCHANGED <<startedAt, now, stopped, swaps>>

\* A swap out of patience, or the end of the drain, cancels the runner: the future
\* it awaits is cancelled, and a wait is taken out of the registry.
Cancel(a) ==
    /\ ~advancing
    /\ pc[a] \notin {"unwinding", "gone"}
    /\ pc[a] = "gated" /\ gate[a] = "open" => CancelsGated
    /\ pc' = [pc EXCEPT ![a] = "unwinding"]
    /\ gate' = [gate EXCEPT ![a] = IF @ = "open" THEN "cancelled" ELSE @]
    /\ timers' = WithoutRunner(a)
    /\ \/ /\ pc[a] = "waiting"
          /\ phase' = [phase EXCEPT ![a] = "inferring"]
          /\ startedAt' = [startedAt EXCEPT ![a] = now]
          /\ advancing' = ~stopped
       \/ /\ pc[a] # "waiting"
          /\ UNCHANGED <<phase, startedAt, advancing>>
    /\ UNCHANGED <<readyAt, now, stopped, turns, swaps, busyUntil>>

\* Bug: the clock still counts on an agent whose runner has returned.
Retire_StaysInFlight(a) ==
    /\ ~advancing
    /\ pc[a] \in {"request", "tools", "woken", "unwinding"}
    /\ phase' = [phase EXCEPT ![a] = "inferring"]
    /\ gate' = [gate EXCEPT ![a] = IF @ = "open" THEN "set" ELSE @]
    /\ pc' = [pc EXCEPT ![a] = "gone"]
    /\ advancing' = ~stopped
    /\ UNCHANGED <<startedAt, readyAt, now, timers, stopped, turns, swaps, busyUntil>>

\* The runner returns, its last request failed or its work done, and retires.
Retire(a) ==
    /\ ~advancing
    /\ pc[a] \in {"request", "tools", "woken", "unwinding"}
    /\ phase' = [phase EXCEPT ![a] = "retired"]
    /\ gate' = [gate EXCEPT ![a] = IF @ = "open" THEN "set" ELSE @]
    /\ pc' = [pc EXCEPT ![a] = "gone"]
    /\ advancing' = ~stopped
    /\ UNCHANGED <<startedAt, readyAt, now, timers, stopped, turns, swaps, busyUntil>>

\* enlist: a swap puts a new runner on the seat.
Enlist(a) ==
    /\ ~advancing
    /\ pc[a] = "gone"
    /\ ~stopped
    /\ swaps < MaxSwaps
    /\ swaps' = swaps + 1
    /\ phase' = [phase EXCEPT ![a] = "inferring"]
    /\ startedAt' = [startedAt EXCEPT ![a] = now]
    /\ gate' = [gate EXCEPT ![a] = "none"]
    /\ busyUntil' = [busyUntil EXCEPT ![a] = now]
    /\ pc' = [pc EXCEPT ![a] = "woken"]
    /\ turns' = [turns EXCEPT ![a] = 0]
    /\ advancing' = TRUE
    /\ UNCHANGED <<readyAt, now, timers, stopped>>

Held == {a \in Agents : gate[a] = "open"}

\* Bug: the gates are opened and the time stays where it was.
Stop_KeepsTime ==
    /\ ~advancing
    /\ ~stopped
    /\ stopped' = TRUE
    /\ phase' = [a \in Agents |-> IF a \in Held THEN "executing" ELSE phase[a]]
    /\ gate' = [a \in Agents |-> IF a \in Held THEN "set" ELSE gate[a]]
    /\ UNCHANGED <<startedAt, readyAt, now, timers, advancing, pc, turns, swaps, busyUntil>>

\* stop: the run is over, every gate is opened and time moves to the last of them.
Stop ==
    /\ ~advancing
    /\ ~stopped
    /\ stopped' = TRUE
    /\ phase' = [a \in Agents |-> IF a \in Held THEN "executing" ELSE phase[a]]
    /\ gate' = [a \in Agents |-> IF a \in Held THEN "set" ELSE gate[a]]
    /\ now' \in {now} \cup {readyAt[a] : a \in Held}
    /\ now' >= now /\ \A a \in Held : now' >= readyAt[a]
    /\ UNCHANGED <<startedAt, readyAt, timers, advancing, pc, turns, swaps, busyUntil>>

-----------------------------------------------------------------------------

\* Every runner starts by issuing a request at time zero.
Init ==
    /\ phase = [a \in Agents |-> "inferring"]
    /\ startedAt = [a \in Agents |-> 0]
    /\ readyAt = [a \in Agents |-> 0]
    /\ gate = [a \in Agents |-> "none"]
    /\ now = 0
    /\ timers = {}
    /\ stopped = FALSE
    /\ advancing = FALSE
    /\ pc = [a \in Agents |-> "woken"]
    /\ turns = [a \in Agents |-> 0]
    /\ swaps = 0
    /\ busyUntil = [a \in Agents |-> 0]

\* What an agent does with its turn, and with the request it is about to make.
Act(a) ==
    \/ Request(a)
    \/ Park(a, {})
    \/ \E d \in Deadlines : Park(a, {d})
    \/ Occupy(a)
    \/ Retire(a)

Next ==
    \/ Advance
    \/ \E a \in Agents :
          \/ Act(a)
          \/ \E g \in Generations : Respond(a, g)
          \/ PassGate(a)
          \/ Wake(a)
          \/ Cancel(a)
          \/ Enlist(a)
    \/ Stop

Spec == Init /\ [][Next]_vars

\* The event loop runs what is ready, model requests are answered, and tools and
\* an unwinding runner come to an end. Nobody has to wake anybody.
Fairness ==
    /\ WF_vars(Advance)
    /\ \A a \in Agents :
          /\ WF_vars(\E g \in Generations : Respond(a, g))
          /\ WF_vars(PassGate(a))
          /\ WF_vars(Act(a))

FairSpec == Spec /\ Fairness

-----------------------------------------------------------------------------
(* Properties *)

\* The types of the clock's fields and of the runners that drive it.
TypeOK ==
    /\ phase \in [Agents -> Phases]
    /\ startedAt \in [Agents -> Nat]
    /\ readyAt \in [Agents -> Nat]
    /\ gate \in [Agents -> Gates]
    /\ now \in Nat
    /\ timers \subseteq Timer
    /\ stopped \in BOOLEAN
    /\ advancing \in BOOLEAN
    /\ pc \in [Agents -> PCs]
    /\ turns \in [Agents -> 0 .. MaxTurns]
    /\ swaps \in 0 .. MaxSwaps
    /\ busyUntil \in [Agents -> Nat]

\* At most one released agent executes at a time while the run lasts, whichever
\* of a release, the end of a craft, a retry or a swap gave it the turn.
OneActs == ~stopped => \A a, b \in Agents : pc[a] = "tools" /\ pc[b] = "tools" => a = b

\* No response, timer or request in flight lies in the past: the bound under which
\* time moves is a true one, so no agent ever acts later than its own request said.
NothingOverdue ==
    ~stopped => /\ \A a \in InPhase("pending") : now <= readyAt[a]
                /\ \A a \in InPhase("inferring") : now <= startedAt[a] + BaseLatency
                /\ \A t \in timers : now <= t.at

\* Effects come in virtual order: an agent gets its turn at the very instant its
\* response or its craft is over, and a request that is sent again keeps its start.
OnTime ==
    [][\A a \in Agents :
        /\ gate[a] = "open" /\ gate'[a] = "set" /\ ~stopped' => now' = readyAt[a]
        /\ pc[a] = "request" /\ pc'[a] = "request" => startedAt'[a] = startedAt[a]]_vars

\* Whoever is held back is held back by somebody: at rest, with nobody acting, each
\* held response or timer lies beyond what a request in flight may still do. A
\* park, a retirement or a cancelled runner that does not let the clock go on
\* would leave the team waiting for each other.
HeldForAReason ==
    ~advancing /\ ~stopped /\ InPhase("executing") = {} =>
        /\ \A a \in InPhase("pending") : ~Certain(readyAt[a])
        /\ \A t \in timers : ~Certain(t.at)

\* No agent's next request starts before its own previous response or craft ended,
\* also when stop opens all gates at once.
OwnTimelineInOrder ==
    [][\A a \in Agents :
        pc[a] \in {"tools", "waiting"} /\ startedAt'[a] # startedAt[a]
            => busyUntil[a] <= startedAt'[a]]_vars

\* Every held response and every craft comes to its turn, whoever retires or parks
\* meanwhile.
GatesOpen == \A a \in Agents : pc[a] \in {"gated", "crafting"} ~> pc[a] \notin {"gated", "crafting"}

\* What is to come: the responses held and the timers.
Agenda ==
    {[kind |-> "response", agent |-> a, at |-> readyAt[a]] : a \in InPhase("pending")}
        \cup timers

Order == INSTANCE VirtualOrder
             WITH time <- now, agenda <- Agenda, acting <- InPhase("executing"), over <- stopped

\* What the agents set in motion comes about as VirtualOrder promises.
OrderKept == Order!Spec

=============================================================================
