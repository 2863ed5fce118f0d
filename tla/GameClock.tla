----------------------------- MODULE GameClock -----------------------------
(***************************************************************************)
(* Rounds: the game clock (game_clock.py) with what it calls (the boundary *)
(* scheduler, the runtime's injections, the seats of the agents) and the   *)
(* supervisor that starts, stops and resumes it.                           *)
(*                                                                         *)
(* The clock is one task of the event loop: an action is its code between  *)
(* two awaits, and agents, timers and time run in between. A write to the  *)
(* event log is an await, so what precedes it and what follows it are two  *)
(* steps, and the process may stop between them. Only the log survives.    *)
(***************************************************************************)
EXTENDS Naturals, Sequences, FiniteSets

CONSTANTS
    Agents,
    MaxRounds,         \* get_round_count
    SourceRounds,      \* rounds the cloned log of a fork already holds; 0 if fresh
    Briefings,         \* the <<agent, round>> get_injection has a text for
    Postmortems,       \* the <<agent, round>> get_postmortem_injection has one for
    Schedule,          \* Schedule[r]: the scheduled events of round r, as declared
    WaitingEndsRound,  \* ends_round_when_all_agents_waiting
    ScenarioEndsRound, \* whether get_early_round_end_trigger may answer
    FinishesEarly,     \* whether is_finished_early may answer true
    MinQuiet,          \* MIN_ROUND_DURATION_SECONDS, in ticks
    RoundLimit,        \* get_max_round_duration_seconds, in ticks
    PostmortemLimit,   \* get_max_postmortem_duration_seconds, in ticks
    MaxCrashes         \* bound: times the process stops and is resumed

Rounds == 1..MaxRounds
ScheduledEvents ==
    [kind : {"swap_agent"}, agent : Agents] \cup [kind : {"set_postmortem", "inject_case"}]

\* A schedule names rounds from 2 on (at_round is at least 2).
ASSUME ConfigAssumption ==
    /\ MaxRounds \in Nat \ {0}
    /\ SourceRounds \in 0..(MaxRounds - 1)
    /\ Briefings \subseteq Agents \X Rounds
    /\ Postmortems \subseteq Agents \X Rounds
    /\ Schedule \in [Rounds -> Seq(ScheduledEvents)]
    /\ Schedule[1] = <<>>
    /\ WaitingEndsRound \in BOOLEAN
    /\ ScenarioEndsRound \in BOOLEAN
    /\ FinishesEarly \in BOOLEAN
    /\ MinQuiet \in Nat /\ RoundLimit \in Nat /\ PostmortemLimit \in Nat
    /\ MaxCrashes \in Nat

VARIABLES
    pc,             \* where the supervisor or its clock is
    round,          \* runtime.current_round
    inPostmortem,   \* the clock's _in_postmortem
    worldOpen,      \* the world's in_postmortem
    closed,         \* the world's _postmortem_globally_disabled
    trigger,        \* why the last phase ended
    phaseAge,       \* time since _round_start_time
    quiet,          \* time since _last_message_time
    resuming,       \* whether this process continues a log
    completed,      \* the scheduler's _completed_event_count_by_round
    injected,       \* injected[a]: the rounds _last_injected_rounds stands for
    due,            \* agents whose postmortem injection is still to be pushed
    toLog,          \* agents whose pushed injection is still to be logged
    seat,           \* seat[a]: what the runner in a's seat is doing
    finished,       \* finished[a]: the seat's session has runner_finished set
    inbox,          \* inbox[a]: injections queued in the seat's session
    told,           \* told[a]: the seat's session was sent done
    unlogged,       \* unlogged[a]: injections returned, whose result is not in the log
    lastEvent,      \* log: the last event of RoundLifecycle
    endedRounds,    \* log: the rounds with a RoundEnded
    fired,          \* log: fired[r], the scheduled events recorded for round r
    delivered,      \* log: the <<agent, injection>> with an InjectionDelivered
    read,           \* log: the <<agent, injection>> a logged result contains
    crashes

clockVars == <<pc, round, inPostmortem, worldOpen, closed, trigger, phaseAge, quiet>>
startVars == <<resuming, completed, injected>>
sendVars  == <<due, toLog>>
seatVars  == <<seat, finished, inbox, told, unlogged>>
logVars   == <<lastEvent, endedRounds, fired, delivered, read>>
vars      == <<clockVars, startVars, sendVars, seatVars, logVars, crashes>>

\* A parked agent has a deadline, waits for anything without one, or waits for
\* the next round without one.
Parked == {"timed", "waiting", "next_round"}
Seats  == {"absent", "turn", "gone"} \cup Parked

Injection(kind, r) == [kind |-> kind, round |-> r]
Injections == [kind : {"briefing", "postmortem"}, round : Rounds]

\* Notifications are returned oldest first.
Before(i, j) ==
    \/ i.round < j.round
    \/ i.round = j.round /\ i.kind = "briefing" /\ j.kind = "postmortem"

Lifecycle == INSTANCE RoundLifecycle
                 WITH last <- lastEvent, MayReopen <- MaxCrashes > 0

EventsOf(r) == IF r \in Rounds THEN Schedule[r] ELSE <<>>
CompletedOf(r) == IF r \in Rounds THEN completed[r] ELSE 0

-----------------------------------------------------------------------------
(* Agents *)

\* push_notification: the session's listener resumes a parked agent, since an
\* injection satisfies every kind of wait.
Push(agents, i) ==
    /\ inbox' = [a \in Agents |-> IF a \in agents THEN inbox[a] \cup {i} ELSE inbox[a]]
    /\ seat' = [a \in Agents |-> IF a \in agents /\ seat[a] \in Parked THEN "turn" ELSE seat[a]]

\* push_notification of a DoneNotification.
PushDone(agents) ==
    /\ told' = [a \in Agents |-> a \in agents \/ told[a]]
    /\ seat' = [a \in Agents |-> IF a \in agents /\ seat[a] \in Parked THEN "turn" ELSE seat[a]]

\* read_notifications returns the oldest injection.
TakeNotice(a) ==
    /\ seat[a] = "turn"
    /\ unlogged[a] = {}
    /\ \E i \in inbox[a] :
          /\ \A j \in inbox[a] : ~Before(j, i)
          /\ inbox' = [inbox EXCEPT ![a] = @ \ {i}]
          /\ unlogged' = [unlogged EXCEPT ![a] = {i}]
    /\ UNCHANGED <<clockVars, startVars, sendVars, seat, finished, told, logVars, crashes>>

\* ToolResultReceived is written. A result logged in a later round than its
\* injection's no longer matches it, but that round is never entered again.
LogRead(a) ==
    /\ unlogged[a] # {}
    /\ read' = read \cup ({a} \X unlogged[a])
    /\ unlogged' = [unlogged EXCEPT ![a] = {}]
    /\ UNCHANGED <<clockVars, startVars, sendVars, seat, finished, inbox, told,
                   lastEvent, endedRounds, fired, delivered, crashes>>

\* read_notifications with nothing queued that satisfies it.
Park(a, how) ==
    /\ seat[a] = "turn"
    /\ unlogged[a] = {}
    /\ inbox[a] = {}
    /\ ~told[a]
    /\ seat' = [seat EXCEPT ![a] = how]
    /\ UNCHANGED <<clockVars, startVars, sendVars, finished, inbox, told, unlogged, logVars, crashes>>

\* A message, a world notice, a deadline or a release resumes a parked agent;
\* a resumed run's wake-up notices are such messages.
Wake(a) ==
    /\ seat[a] \in Parked
    /\ seat' = [seat EXCEPT ![a] = "turn"]
    /\ UNCHANGED <<clockVars, startVars, sendVars, finished, inbox, told, unlogged, logVars, crashes>>

\* on_message_sent
SendMessage(a) ==
    /\ seat[a] = "turn"
    /\ quiet' = 0
    /\ UNCHANGED <<pc, round, inPostmortem, worldOpen, closed, trigger, phaseAge,
                   startVars, sendVars, seatVars, logVars, crashes>>

\* The runner returns: told to, at max_turns, or because it failed.
Return(a) ==
    /\ seat[a] = "turn"
    /\ unlogged[a] = {}
    /\ seat' = [seat EXCEPT ![a] = "gone"]
    /\ UNCHANGED <<clockVars, startVars, sendVars, finished, inbox, told, unlogged, logVars, crashes>>

\* mark_runner_finished, a done callback of the runner's task.
MarkFinished(a) ==
    /\ seat[a] = "gone"
    /\ ~finished[a]
    /\ finished' = [finished EXCEPT ![a] = TRUE]
    /\ UNCHANGED <<clockVars, startVars, sendVars, seat, inbox, told, unlogged, logVars, crashes>>

AgentStep ==
    \E a \in Agents :
        \/ TakeNotice(a) \/ LogRead(a) \/ Wake(a) \/ SendMessage(a) \/ Return(a)
        \/ MarkFinished(a)
        \/ \E how \in Parked : Park(a, how)

-----------------------------------------------------------------------------
(* Opening a round *)

Unlaunched == \A a \in Agents : seat[a] = "absent"

\* The first half of _advance_round, up to its log.
StartAdvance ==
    /\ round' = round + 1
    /\ phaseAge' = 0
    /\ quiet' = 0
    /\ pc' = "log_advance"

\* RoundAdvanced is written. A resumed run has no runners yet and launches them
\* before the boundary hook; otherwise the hook runs now.
LogRoundAdvanced ==
    /\ pc = "log_advance"
    /\ lastEvent' = Lifecycle!Ev("advanced", round)
    /\ pc' = IF resuming /\ Unlaunched THEN "launch" ELSE "boundary"
    /\ UNCHANGED <<round, inPostmortem, worldOpen, closed, trigger, phaseAge, quiet, startVars,
                   sendVars, seatVars, endedRounds, fired, delivered, read, crashes>>

\* Bug: a resumed run skips the boundary hook of the round it enters.
LaunchRunner_SkipsBoundary(a) ==
    /\ pc = "launch"
    /\ seat[a] = "absent"
    /\ seat' = [seat EXCEPT ![a] = "turn"]
    /\ pc' = IF \E b \in Agents \ {a} : seat[b] = "absent" THEN pc
             ELSE IF resuming THEN "brief" ELSE "poll"
    /\ UNCHANGED <<round, inPostmortem, worldOpen, closed, trigger, phaseAge, quiet, startVars,
                   sendVars, finished, inbox, told, unlogged, logVars, crashes>>

\* _run_simulation starts a runner, then awaits the AgentConnected log.
LaunchRunner(a) ==
    /\ pc = "launch"
    /\ seat[a] = "absent"
    /\ seat' = [seat EXCEPT ![a] = "turn"]
    /\ pc' = IF \E b \in Agents \ {a} : seat[b] = "absent" THEN pc
             ELSE IF resuming THEN "boundary" ELSE "poll"
    /\ UNCHANGED <<round, inPostmortem, worldOpen, closed, trigger, phaseAge, quiet, startVars,
                   sendVars, finished, inbox, told, unlogged, logVars, crashes>>

\* RoundBoundaryScheduler.dispatch: the first event not completed. A swap first
\* tells the outgoing runner to stop.
NextEvent == EventsOf(round)[CompletedOf(round) + 1]

DispatchEvent ==
    /\ pc = "boundary"
    /\ CompletedOf(round) < Len(EventsOf(round))
    /\ \/ /\ NextEvent.kind = "swap_agent"
          /\ PushDone({NextEvent.agent})
          /\ pc' = "swap"
          /\ UNCHANGED closed
       \/ /\ NextEvent.kind = "set_postmortem"
          /\ closed' = TRUE
          /\ pc' = "log_event"
          /\ UNCHANGED <<told, seat>>
       \/ /\ NextEvent.kind = "inject_case"
          /\ pc' = "log_event"
          /\ UNCHANGED <<closed, told, seat>>
    /\ UNCHANGED <<round, inPostmortem, worldOpen, trigger, phaseAge, quiet, startVars, sendVars,
                   finished, inbox, unlogged, logVars, crashes>>

\* Bug: the outgoing runner's done callback looks the session up by agent id.
InstallSwap_LateCallback ==
    /\ pc = "swap"
    /\ LET a == NextEvent.agent IN
          /\ seat' = [seat EXCEPT ![a] = "turn"]
          /\ finished' = [finished EXCEPT ![a] = TRUE]
          /\ inbox' = [inbox EXCEPT ![a] = {}]
          /\ told' = [told EXCEPT ![a] = FALSE]
          /\ unlogged' = [unlogged EXCEPT ![a] = {}]
    /\ pc' = "log_event"
    /\ UNCHANGED <<round, inPostmortem, worldOpen, closed, trigger, phaseAge, quiet, startVars,
                   sendVars, logVars, crashes>>

\* The outgoing runner has returned, or its grace period is over and it is
\* cancelled; a new session and a new runner take the seat.
InstallSwap ==
    /\ pc = "swap"
    /\ LET a == NextEvent.agent IN
          /\ seat' = [seat EXCEPT ![a] = "turn"]
          /\ finished' = [finished EXCEPT ![a] = FALSE]
          /\ inbox' = [inbox EXCEPT ![a] = {}]
          /\ told' = [told EXCEPT ![a] = FALSE]
          /\ unlogged' = [unlogged EXCEPT ![a] = {}]
    /\ pc' = "log_event"
    /\ UNCHANGED <<round, inPostmortem, worldOpen, closed, trigger, phaseAge, quiet, startVars,
                   sendVars, logVars, crashes>>

\* AgentSwappedMidRun, PostmortemDisabledMidRun or CaseInjectedMidRun is written
\* and the scheduler counts the event.
LogEvent ==
    /\ pc = "log_event"
    /\ fired' = [fired EXCEPT ![round] = @ + 1]
    /\ completed' = [completed EXCEPT ![round] = @ + 1]
    /\ pc' = "boundary"
    /\ UNCHANGED <<round, inPostmortem, worldOpen, closed, trigger, phaseAge, quiet, resuming,
                   injected, sendVars, seatVars, lastEvent, endedRounds, delivered, read, crashes>>

\* The hook is done.
EndBoundary ==
    /\ pc = "boundary"
    /\ CompletedOf(round) >= Len(EventsOf(round))
    /\ pc' = "brief"
    /\ UNCHANGED <<round, inPostmortem, worldOpen, closed, trigger, phaseAge, quiet, startVars,
                   sendVars, seatVars, logVars, crashes>>

Covered(a) == round = 0 \/ \E r \in injected[a] : round <= r
Briefed == {a \in Agents : <<a, round>> \in Briefings /\ ~Covered(a)}

AfterBriefing == IF Unlaunched THEN "launch" ELSE "poll"

\* Bug: the world stays in its postmortem.
DeliverBriefings_WorldStays ==
    /\ pc = "brief"
    /\ Push(Briefed, Injection("briefing", round))
    /\ toLog' = Briefed
    /\ pc' = IF Briefed = {} THEN AfterBriefing ELSE "log_brief"
    /\ UNCHANGED <<round, inPostmortem, worldOpen, closed, trigger, phaseAge, quiet, startVars,
                   due, finished, told, unlogged, logVars, crashes>>

\* exit_postmortem, on_round_advanced and the pushes of deliver_round_injections.
\* (A resumed run makes the first two calls earlier, on a world not in one.)
DeliverBriefings ==
    /\ pc = "brief"
    /\ worldOpen' = FALSE
    /\ Push(Briefed, Injection("briefing", round))
    /\ toLog' = Briefed
    /\ pc' = IF Briefed = {} THEN AfterBriefing ELSE "log_brief"
    /\ UNCHANGED <<round, inPostmortem, closed, trigger, phaseAge, quiet, startVars,
                   due, finished, told, unlogged, logVars, crashes>>

\* The InjectionDelivered of one agent after another, in any order.
LogBriefing(a) ==
    /\ pc = "log_brief"
    /\ a \in toLog
    /\ delivered' = delivered \cup {<<a, Injection("briefing", round)>>}
    /\ toLog' = toLog \ {a}
    /\ pc' = IF toLog = {a} THEN AfterBriefing ELSE pc
    /\ UNCHANGED <<round, inPostmortem, worldOpen, closed, trigger, phaseAge, quiet, startVars,
                   due, seatVars, lastEvent, endedRounds, fired, read, crashes>>

-----------------------------------------------------------------------------
(* Ending a phase *)

Live == {a \in Agents : ~finished[a]}

AllIdle == \A a \in Live : seat[a] \in Parked
ParkedForGood == \A a \in Live : seat[a] \in Parked \ {"timed"}
ParkedTrigger == IF Live # {} /\ \A a \in Live : seat[a] = "next_round"
                 THEN "all_agents_finished" ELSE "all_agents_waiting"

WaitingEnds == WaitingEndsRound /\ ~inPostmortem /\ ParkedForGood
IdleEnds    == AllIdle /\ quiet >= MinQuiet

\* Bug: the limit of a round also bounds its postmortem.
PhaseTimedOut_NoPostmortem == ~inPostmortem /\ phaseAge >= RoundLimit

\* _phase_timed_out: measured from the start of the phase, not the last message.
PhaseTimedOut == phaseAge >= IF inPostmortem THEN PostmortemLimit ELSE RoundLimit

\* The clock's own verdict on the phase; a scenario's trigger goes before it.
ClockEnds(t) ==
    \/ WaitingEnds /\ t = ParkedTrigger
    \/ ~WaitingEnds /\ IdleEnds /\ t = "all_agents_idle"
    \/ /\ ~WaitingEnds /\ ~IdleEnds /\ PhaseTimedOut
       /\ t = IF inPostmortem THEN "postmortem_timeout" ELSE "round_timeout"

Triggers == {"none", "scenario", "all_agents_finished", "all_agents_waiting",
             "all_agents_idle", "round_timeout", "postmortem_timeout"}

\* A poll that ends the phase: up to the log of RoundEnded or PostmortemEnded.
EndPhase ==
    /\ pc = "poll"
    /\ \E t \in Triggers :
          /\ ClockEnds(t) \/ (ScenarioEndsRound /\ ~inPostmortem /\ t = "scenario")
          /\ trigger' = t
    /\ pc' = IF inPostmortem THEN "log_postmortem_end" ELSE "log_end"
    /\ inPostmortem' = FALSE
    /\ UNCHANGED <<round, worldOpen, closed, phaseAge, quiet, startVars, sendVars, seatVars,
                   logVars, crashes>>

\* A poll that finds is_finished_early.
PollFinished ==
    /\ pc = "poll"
    /\ FinishesEarly
    /\ pc' = "stop"
    /\ UNCHANGED <<round, inPostmortem, worldOpen, closed, trigger, phaseAge, quiet, startVars,
                   sendVars, seatVars, logVars, crashes>>

LogRoundEnded ==
    /\ pc = "log_end"
    /\ lastEvent' = Lifecycle!Ev("ended", round)
    /\ endedRounds' = endedRounds \cup {round}
    /\ pc' = "judge"
    /\ UNCHANGED <<round, inPostmortem, worldOpen, closed, trigger, phaseAge, quiet, startVars,
                   sendVars, seatVars, fired, delivered, read, crashes>>

PostmortemAgents == {a \in Agents : ~closed /\ <<a, round>> \in Postmortems}

\* on_round_ended and the judge's results are done: a postmortem, the end of the
\* run, or the next round.
JudgeRound ==
    /\ pc = "judge"
    /\ \/ /\ PostmortemAgents # {}
          /\ inPostmortem' = TRUE
          /\ phaseAge' = 0
          /\ quiet' = 0
          /\ pc' = "log_postmortem"
          /\ UNCHANGED round
       \/ /\ PostmortemAgents = {}
          /\ round >= MaxRounds \/ FinishesEarly
          /\ pc' = "stop"
          /\ UNCHANGED <<round, inPostmortem, phaseAge, quiet>>
       \/ /\ PostmortemAgents = {}
          /\ round < MaxRounds
          /\ StartAdvance
          /\ UNCHANGED inPostmortem
    /\ UNCHANGED <<worldOpen, closed, trigger, startVars, sendVars, seatVars, logVars, crashes>>

\* deliver_postmortem_injections: PostmortemStarted is written, the world enters
\* its postmortem, and each agent is pushed its injection, which is then logged.
LogPostmortemStarted ==
    /\ pc = "log_postmortem"
    /\ lastEvent' = Lifecycle!Ev("postmortem_started", round)
    /\ worldOpen' = TRUE
    /\ due' = PostmortemAgents
    /\ pc' = "debrief"
    /\ UNCHANGED <<round, inPostmortem, closed, trigger, phaseAge, quiet, startVars, toLog,
                   seatVars, endedRounds, fired, delivered, read, crashes>>

PushPostmortem(a) ==
    /\ pc = "debrief"
    /\ a \in due
    /\ toLog = {}
    /\ Push({a}, Injection("postmortem", round))
    /\ due' = due \ {a}
    /\ toLog' = {a}
    /\ UNCHANGED <<clockVars, startVars, finished, told, unlogged, logVars, crashes>>

LogPostmortem(a) ==
    /\ pc = "debrief"
    /\ a \in toLog
    /\ delivered' = delivered \cup {<<a, Injection("postmortem", round)>>}
    /\ toLog' = {}
    /\ pc' = IF due = {} THEN "poll" ELSE pc
    /\ UNCHANGED <<round, inPostmortem, worldOpen, closed, trigger, phaseAge, quiet, startVars,
                   due, seatVars, lastEvent, endedRounds, fired, read, crashes>>

\* Bug: the run goes on after the postmortem of its last round.
LogPostmortemEnded_PlaysOn ==
    /\ pc = "log_postmortem_end"
    /\ lastEvent' = Lifecycle!Ev("postmortem_ended", round)
    /\ StartAdvance
    /\ UNCHANGED <<inPostmortem, worldOpen, closed, trigger, startVars, sendVars, seatVars,
                   endedRounds, fired, delivered, read, crashes>>

\* PostmortemEnded is written: the end of the run, or the next round.
LogPostmortemEnded ==
    /\ pc = "log_postmortem_end"
    /\ lastEvent' = Lifecycle!Ev("postmortem_ended", round)
    /\ \/ /\ round >= MaxRounds
          /\ pc' = "stop"
          /\ UNCHANGED <<round, phaseAge, quiet>>
       \/ /\ round < MaxRounds
          /\ StartAdvance
    /\ UNCHANGED <<inPostmortem, worldOpen, closed, trigger, startVars, sendVars, seatVars,
                   endedRounds, fired, delivered, read, crashes>>

-----------------------------------------------------------------------------
(* The end of the run *)

BroadcastDone ==
    /\ pc = "stop"
    /\ PushDone(Agents)
    /\ pc' = "drain"
    /\ UNCHANGED <<round, inPostmortem, worldOpen, closed, trigger, phaseAge, quiet, startVars,
                   sendVars, finished, inbox, unlogged, logVars, crashes>>

\* Bug: the runners that miss the deadline are left running.
DrainRunners_LeavesLate ==
    /\ pc = "drain"
    /\ pc' = "log_complete"
    /\ UNCHANGED <<round, inPostmortem, worldOpen, closed, trigger, phaseAge, quiet, startVars,
                   sendVars, seatVars, logVars, crashes>>

\* Every runner has returned, or the deadline has passed and the rest are cancelled.
DrainRunners ==
    /\ pc = "drain"
    /\ seat' = [a \in Agents |-> "gone"]
    /\ finished' = [a \in Agents |-> TRUE]
    /\ unlogged' = [a \in Agents |-> {}]
    /\ pc' = "log_complete"
    /\ UNCHANGED <<round, inPostmortem, worldOpen, closed, trigger, phaseAge, quiet, startVars,
                   sendVars, inbox, told, logVars, crashes>>

\* SimulationEnded is written.
LogComplete ==
    /\ pc = "log_complete"
    /\ lastEvent' = Lifecycle!Ev("complete", round)
    /\ pc' = "over"
    /\ UNCHANGED <<round, inPostmortem, worldOpen, closed, trigger, phaseAge, quiet, startVars,
                   sendVars, seatVars, endedRounds, fired, delivered, read, crashes>>

-----------------------------------------------------------------------------
(* The process stops and is resumed; time *)

\* The process is killed, or fails: nothing reads back the SimulationEnded that
\* the failure path logs. What was in memory is gone.
Crash ==
    /\ pc \notin {"down", "over"}
    /\ crashes < MaxCrashes
    /\ crashes' = crashes + 1
    /\ pc' = "down"
    /\ round' = 0
    /\ inPostmortem' = FALSE /\ worldOpen' = FALSE /\ closed' = FALSE
    /\ trigger' = "none"
    /\ phaseAge' = 0 /\ quiet' = 0
    /\ resuming' = TRUE
    /\ completed' = [r \in Rounds |-> 0]
    /\ injected' = [a \in Agents |-> {}]
    /\ due' = {} /\ toLog' = {}
    /\ seat' = [a \in Agents |-> "absent"]
    /\ finished' = [a \in Agents |-> FALSE]
    /\ inbox' = [a \in Agents |-> {}]
    /\ told' = [a \in Agents |-> FALSE]
    /\ unlogged' = [a \in Agents |-> {}]
    /\ UNCHANGED logVars

\* The cloned log of a fork ends with its last round completed.
EntersByAdvancing == SourceRounds > 0 /\ lastEvent.round = SourceRounds

\* Bug: a delivery counts as read.
CoveredBy_Delivered(a) == {i.round : i \in {j \in Injections : <<a, j>> \in delivered}}

\* Bug: every briefing of the reopened round is sent again.
CoveredBy_Nothing(a) == {}

\* injected_rounds: a delivery counts once a logged result contains its text.
CoveredBy(a) == {i.round : i \in {j \in Injections : <<a, j>> \in delivered \cap read}}

\* Bug: the scheduler starts every round from its first event.
Resume_FiresAgain ==
    /\ pc = "down"
    /\ round' = lastEvent.round + IF EntersByAdvancing THEN 1 ELSE 0
    /\ pc' = IF EntersByAdvancing THEN "log_advance" ELSE "launch"
    /\ injected' = [a \in Agents |-> CoveredBy(a)]
    /\ UNCHANGED <<inPostmortem, worldOpen, closed, trigger, phaseAge, quiet, resuming,
                   completed, sendVars, seatVars, logVars, crashes>>

\* Bug: the resumed run opens the round after the last.
Resume_NextRound ==
    /\ pc = "down"
    /\ round' = lastEvent.round + IF lastEvent.round < MaxRounds THEN 1 ELSE 0
    /\ pc' = IF lastEvent.round < MaxRounds THEN "log_advance" ELSE "launch"
    /\ completed' = fired
    /\ injected' = [a \in Agents |-> CoveredBy(a)]
    /\ UNCHANGED <<inPostmortem, worldOpen, closed, trigger, phaseAge, quiet, resuming,
                   sendVars, seatVars, logVars, crashes>>

\* Bug: a fork's last source round is opened again.
Resume_SourceRound ==
    /\ pc = "down"
    /\ round' = lastEvent.round
    /\ pc' = "launch"
    /\ completed' = fired
    /\ injected' = [a \in Agents |-> CoveredBy(a)]
    /\ UNCHANGED <<inPostmortem, worldOpen, closed, trigger, phaseAge, quiet, resuming,
                   sendVars, seatVars, logVars, crashes>>

\* A new process rebuilds its state from the log and opens the last round again.
Resume ==
    /\ pc = "down"
    /\ round' = lastEvent.round + IF EntersByAdvancing THEN 1 ELSE 0
    /\ pc' = IF EntersByAdvancing THEN "log_advance" ELSE "launch"
    /\ completed' = fired
    /\ injected' = [a \in Agents |-> CoveredBy(a)]
    /\ UNCHANGED <<inPostmortem, worldOpen, closed, trigger, phaseAge, quiet, resuming,
                   sendVars, seatVars, logVars, crashes>>

\* Bound: time stops mattering after the longest of the three.
Horizon == CHOOSE n \in {MinQuiet, RoundLimit, PostmortemLimit} :
               \A m \in {MinQuiet, RoundLimit, PostmortemLimit} : n >= m

Tick ==
    /\ pc \notin {"down", "over"}
    /\ phaseAge < Horizon \/ quiet < Horizon
    /\ phaseAge' = IF phaseAge < Horizon THEN phaseAge + 1 ELSE phaseAge
    /\ quiet' = IF quiet < Horizon THEN quiet + 1 ELSE quiet
    /\ UNCHANGED <<pc, round, inPostmortem, worldOpen, closed, trigger,
                   startVars, sendVars, seatVars, logVars, crashes>>

-----------------------------------------------------------------------------
Init ==
    /\ pc = "log_advance"
    /\ round = SourceRounds + 1
    /\ inPostmortem = FALSE /\ worldOpen = FALSE /\ closed = FALSE
    /\ trigger = "none"
    /\ phaseAge = 0 /\ quiet = 0
    /\ resuming = (SourceRounds > 0)
    /\ injected = [a \in Agents |-> {}]
    /\ due = {} /\ toLog = {}
    /\ seat = [a \in Agents |-> "absent"]
    /\ finished = [a \in Agents |-> FALSE]
    /\ inbox = [a \in Agents |-> {}]
    /\ told = [a \in Agents |-> FALSE]
    /\ unlogged = [a \in Agents |-> {}]
    /\ Lifecycle!Init
    /\ endedRounds = 1..SourceRounds
    /\ fired = [r \in Rounds |-> IF r <= SourceRounds THEN Len(Schedule[r]) ELSE 0]
    /\ completed = fired
    /\ delivered = {} /\ read = {}
    /\ crashes = 0

\* What the supervisor and the clock run by themselves.
ClockStep ==
    \/ LogRoundAdvanced \/ DispatchEvent \/ InstallSwap \/ LogEvent \/ EndBoundary
    \/ DeliverBriefings
    \/ EndPhase \/ PollFinished \/ LogRoundEnded \/ JudgeRound
    \/ LogPostmortemStarted \/ LogPostmortemEnded
    \/ BroadcastDone \/ DrainRunners \/ LogComplete
    \/ \E a \in Agents :
          LaunchRunner(a) \/ LogBriefing(a) \/ PushPostmortem(a) \/ LogPostmortem(a)

Next == ClockStep \/ AgentStep \/ Tick \/ Crash \/ Resume

Spec == Init /\ [][Next]_vars

\* The scenario ends a phase, or the run, before the clock would.
ScenarioEnds == pc = "poll" /\ (pc' = "stop" \/ trigger' = "scenario")

\* The event loop runs the clock's task whenever it is ready, and time passes.
\* A scenario need never end anything.
FairSpec == Spec /\ WF_vars(ClockStep /\ ~ScenarioEnds) /\ WF_vars(Tick)

-----------------------------------------------------------------------------
(* Properties *)

PCs == {"log_advance", "launch", "boundary", "swap", "log_event", "brief", "log_brief",
        "poll", "log_end", "judge", "log_postmortem", "debrief", "log_postmortem_end",
        "stop", "drain", "log_complete", "over", "down"}

\* Every variable of the model has its type: the states the clock and the log of
\* a run can be in.
TypeOK ==
    /\ pc \in PCs
    /\ round \in 0..MaxRounds
    /\ inPostmortem \in BOOLEAN /\ worldOpen \in BOOLEAN /\ closed \in BOOLEAN
    /\ trigger \in Triggers
    /\ phaseAge \in Nat /\ quiet \in Nat
    /\ resuming \in BOOLEAN
    /\ completed \in [Rounds -> Nat]
    /\ injected \in [Agents -> SUBSET Rounds]
    /\ due \subseteq Agents /\ toLog \subseteq Agents
    /\ seat \in [Agents -> Seats]
    /\ finished \in [Agents -> BOOLEAN]
    /\ inbox \in [Agents -> SUBSET Injections]
    /\ told \in [Agents -> BOOLEAN]
    /\ unlogged \in [Agents -> SUBSET Injections]
    /\ lastEvent \in Lifecycle!LifecycleEvents
    /\ endedRounds \subseteq 0..MaxRounds
    /\ fired \in [Rounds -> Nat]
    /\ delivered \subseteq Agents \X Injections
    /\ read \subseteq Agents \X Injections
    /\ crashes \in 0..MaxCrashes

PhaseEnds == pc = "poll" /\ pc' \in {"log_end", "log_postmortem_end"}
NoticeOf(a) == inbox'[a] \ inbox[a]

\* A phase that ends because every agent is idle or waiting ends with nothing
\* unread: each agent still running is parked, and had the phase's injection.
IdleEndsBriefed ==
    [][PhaseEnds /\ trigger' \in {"all_agents_idle", "all_agents_waiting", "all_agents_finished"} =>
          \A a \in Agents : seat[a] # "gone" => seat[a] \in Parked /\ inbox[a] = {}]_vars

\* While a round is played, each agent with a briefing for it has it: queued for
\* whoever holds the seat, being returned, or in a logged result. Neither a swap
\* at the boundary nor a restart at any point loses it.
NoBriefingLost ==
    pc = "poll" =>
        \A a \in Agents : <<a, round>> \in Briefings =>
            LET i == Injection("briefing", round) IN
                i \in inbox[a] \cup unlogged[a] \/ <<a, i>> \in read

\* A briefing whose delivery and reading are both in the log is not sent again.
BriefedOnce ==
    [][\A a \in Agents : \A i \in NoticeOf(a) :
          i.kind = "briefing" => <<a, i>> \notin delivered \cap read]_vars

\* Every scheduled event of a round has fired, and been recorded, exactly once by
\* the time the round is played, wherever the run was stopped and resumed.
EventsFireOnce ==
    /\ \A r \in Rounds : fired[r] <= Len(Schedule[r])
    /\ pc = "poll" /\ round \in Rounds => fired[round] = Len(Schedule[round])

\* When the clock polls, the world's phase is the clock's: the task channel is
\* open in a round and the discussion channel in a postmortem.
PhaseAgreement == pc = "poll" => worldOpen = inPostmortem

\* SimulationEnded is the last word of the log: no runner is left to write.
NothingAfterEnd == [][lastEvent.kind # "complete"]_logVars

\* The log keeps the order of events RoundLifecycle promises.
LifecycleKept == Lifecycle!Spec

\* A run with a time limit on its phases comes to an end.
RunEnds == <>(pc = "over")

\* The clock reopens the last round the log recorded, the one that never
\* finished (docs/running-simulations.md:294).
ReopensUnfinished == [][pc = "down" /\ pc' # "down" => round' \notin endedRounds]_vars

\* After set_postmortem, postmortem injections and phases are skipped for the
\* rest of the run (scheduled_events.py:107).
ClosedStaysClosed ==
    [][pc = "log_postmortem" /\ pc' = "debrief" =>
          \A r \in Rounds : \A k \in 1..fired[r] : Schedule[r][k].kind # "set_postmortem"]_vars

\* Until the run is stopped for the first time they are: no postmortem starts after a
\* set_postmortem that this process fired.
ClosedUntilResumed ==
    [][crashes = 0 /\ pc = "log_postmortem" /\ pc' = "debrief" =>
          \A r \in Rounds : r > SourceRounds =>
              \A k \in 1..fired[r] : Schedule[r][k].kind # "set_postmortem"]_vars

=============================================================================
