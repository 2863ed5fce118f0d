# A verification development for GlossoGen

GlossoGen runs teams of LLM agents that talk over channels while a game clock
takes them through rounds. One process, one asyncio event loop: agents, the
clock, the world, timers and the event log interleave at every `await`; a run
that is stopped is continued from its log alone, and new runs are made by
cutting the logs of old ones. The modules here model that core:
`src/src/glossogen/runtime/`, the runner and its tools, `run_replay/`,
`run_derivation/`, and the simulated clock of the shared workspace. They are
checked with TLC on small instances and, where stated, proved with TLAPS for
every value of the constants.

Paths below are relative to `src/src/glossogen/` unless they begin with `docs/`
or name a file at the root of the repository.

Reading order: `Notifications`, `WaitContract`, `WaitRegistry`, `Messaging`,
`RoundLifecycle`, `GameClock`, `VirtualOrder`, `VirtualClock`, `EventLog`, `RunHistory`,
`AgentRunner`, `Lineage`, then the proof modules.

## 1. The system

### Components, state, operations

| Component | State it keeps | Operations that change it | Module |
|---|---|---|---|
| Agent session (`runtime/agent_session.py`) | queued notices, read positions, terminated and runner-finished flags, one listener | push, take, discard stale, record a read | `Notifications`, `WaitRegistry` |
| Wait registry (`runtime/wait_registry.py`) | one pending wait per agent, with future, deadline timer and listener | register, resume, release, cancel, timer | `WaitRegistry` |
| `read_notifications` (`runners/read_notifications_tool.py`, `runtime/notification_payload.py`) | the call in flight; whether the runner is to stop | park, render, return, unwind | `WaitRegistry` |
| Channels (`runtime/channel_router.py`) | members, messages, join indices | append, change members, clear, open a direct channel, set visibility | `Messaging` |
| Runtime (`runtime/simulation_state.py`) | channel locks, round, message counts at each round's start, briefings already read | send, announce, drain, snapshot, inject, broadcast done | `Messaging`, `GameClock` |
| World context (`runtime/scenario_world.py`) | phase flag, postmortems disabled | enter and leave a postmortem, disable it, move members, clear a history | `Messaging`, `GameClock` |
| Game clock (`runtime/game_clock.py`) | phase, start of phase, time of the last message | start, poll, end a phase, advance | `GameClock` |
| Boundary scheduler (`runtime/scheduler.py`) | events done per round | dispatch | `GameClock` |
| Virtual clock (`scenarios/textcraft_shared_workspace/virtual_clock.py`) | phase and gate per agent, timers, simulated time | begin, complete, park, wake, occupy, retire, stop | `VirtualClock` |
| Event log and bus (`runtime/event_logger.py`, `runtime/event_bus.py`) | file, write lock, subscriber queues | log, publish, subscribe, close | `EventLog` |
| Agent runner (`runners/pydantic_ai_runner.py`) | history checkpoint, response accumulators, log tasks | cycle, request, retry, checkpoint, flush, close | `AgentRunner` |
| Replay (`run_replay/`) | none: a function of the log | rewind a log into a resume state, rebuild and filter histories | `RunHistory`, `GameClock`, `Lineage` |
| Run derivation (`run_derivation/`) | the clone's log and a manifest | fork, replace, import; refuse | `Lineage` |
| Agent swap (`runtime/agent_swap.py`) | none of its own | drain, rebuild, install, log | `GameClock` (seat), `Messaging` (channels), `VirtualClock` (clock state), `Lineage` (history) |
| Supervisor (`runtime/autonomous_supervisor.py`) | runner tasks, costs | launch, hook, drain, finish, fail | `GameClock`, `EventLog` (partly) |
| Scenario engine (`engine/`) | characters used, thresholds claimed, outcomes | charge, claim, begin a round, record | not modelled, see section 8 |
| Scenarios, evaluation, analysis, exports, server, database, CLI, frontend, telemetry | files, tables, requests | | not modelled, see section 8 |

### How they interact

A scenario's `get_injection` becomes a notice in the agent's queue. A push calls
the session's listener, which is the registry; it resumes the agent's wait if
the queue now satisfies it. The runner renders the oldest live notice, and the
result is logged by a background task. A message goes through the channel's lock
into the router and the log, then to the queues of the members of that moment.
The clock polls every half second: it reads waits and sessions, ends a phase,
asks the scenario for results, opens a postmortem or the next round. A boundary
hook runs between the log of the new round and its briefings; it may replace an
agent, close postmortems or inject a case. In the shared workspace a simulated
clock holds each model response at a gate until virtual time reaches it. When
the run is over everybody is told, runners are drained under a deadline, and
`SimulationEnded` closes the log. A stopped run is rebuilt from that log; a
derived run starts from a cut copy of it and a manifest.

### What is hard

* **Every `await` is a switch.** A send counts tokens, waits for a lock and
  writes the log; each time others may move members, clear the channel, read,
  send, or replace the sender. A parked call can be woken, released, timed out
  and cancelled in one loop iteration.
* **State is checked before an await and used after it**: membership before the
  token count, the queue at the wake and again at the rendering, the round number
  before `RoundAdvanced` is written.
* **Effects and their records are two steps.** A stop between them leaves a log
  without the effect's record, or with the record and no effect. Resuming reads
  records only, and log lines are written by background tasks that queue for a
  lock and can be cancelled before, in and after their write.
* **The order of a boundary** (hook, then briefings) has to be the same on a
  fresh start, at each round, on resume and in a fork, by three different call
  sequences.
* **Quiet is a global predicate** read from a registry that changes with every
  push: the clock trusts that a pending wait means nothing to do. The virtual
  clock decides from a similar predicate whom to let act.
* **Read positions and join indices** are two offsets into one list, reset by
  different operations.
* **A seat is a name.** Agents that follow each other on a seat share it in the
  log; whose words are whose depends on manifests, cuts and refusals in several
  files.

The hazards, each at its line with the property that would catch it, are in
`PROJECT.json`.

### What makes each component correct

* Waiting: no wake-up is lost; a wait resumes once; nothing of a wait outlives
  it; an agent told the run is over does not wait again; results come in order.
* Messaging: no message is stored by a sender that did not see the channel, or
  is no longer on it; nobody is left behind without a notice; a position never
  covers what was not told; what a swap hides stays hidden; the lock is passed on.
* Game clock: phases end only when they may; each event fires once; no briefing
  is lost or repeated; world and clock agree; the log keeps its order and has a
  last word; the run ends.
* Virtual clock: one agent acts at a time, in virtual order, at the instant its
  own request implies; nothing is held for no reason; every gate opens.
* Event log: streams follow the file; the end comes last; every call returns.
* Runner and history: a response that calls tools is logged whole and once, and
  every response is dated as it began;
  neither a retry nor a resume forgets a call that was made.
* Derivation: an agent that comes back has its own history and nobody else's; a
  crash does not change what it may see; each round is played once; nobody who
  plays remembers the end.

## 2. Modules

| Module | What it is |
|---|---|
| `Notifications` | Notices, staleness, what satisfies a wait: the pure rules shared by the next two |
| `WaitContract` | Abstract: what a `read_notifications` call promises |
| `WaitRegistry` | Registry, session and runner side of the call; implements `WaitContract` |
| `Messaging` | Channels, sends, reads, membership, swaps of visibility |
| `RoundLifecycle` | Abstract: the order of lifecycle events in a log |
| `GameClock` | Clock, scheduler, injections, seats, start, stop and resume; implements `RoundLifecycle` |
| `VirtualOrder` | Abstract: what happens in simulated time happens one thing at a time, earliest first |
| `VirtualClock` | The conservative scheduler of the shared workspace; implements `VirtualOrder` |
| `EventLog` | Logger, bus, streams, and the end of a run |
| `RunHistory` | Log lines of one agent and the history a resume rebuilds from them: pure operators |
| `AgentRunner` | Cycles, attempts, checkpoints, log tasks, a stop and a resume; uses `RunHistory` |
| `Lineage` | Runs made from runs: forks, replacements, imports, swaps, crashes, launches |
| `MC...` | Instances for TLC |
| `...Proofs` | Theorems: a module for each of the seven state machines, and for `Lineage` two, `LineageProofs` and `LineageCutProofs` |

Definitions with a comment `Mutant:` or `Bug:` and a name `X_Something` are
plausible mistakes in the code for `X`. They are used by no specification;
`PROJECT.json` pairs each with the property that notices it.

The state machines are separate on purpose. What one takes from another is
stated in the other:

* `GameClock` takes a parked agent for one with nothing to do. `NoLostWakeup` of
  `WaitRegistry` is why it may.
* `GameClock` takes a push for a wake-up of a parked agent (`Push`). That is
  `KeepsContract` together with the fact that an injection satisfies every wait.
* `WaitRegistry` and `Messaging` share the queue rules through `Notifications`.
  In `Messaging` a reader may take a notice at any time; `WaitRegistry` says when.
* In `Messaging` rounds advance at any time and a swap may come at every
  boundary; `GameClock` says when.
* `Lineage` takes the log for a sequence of lines written in order and a `said` line
  for one response; that is `StreamFollowsTheLog`, and `LoggedWhole` for responses
  that call tools. A response that calls nothing may share the line of the one
  after it (`EachResponseItsLine` does not hold); both are one agent's, so nothing
  `Lineage` tells apart depends on it.
* `Lineage` orders lines by position; `RunHistory` and `AgentRunner` say where
  timestamps differ from it.

### WaitRegistry

One action is the code between two awaits. `Call` covers the request, its
deadline and `register` up to the `WaitRegistered` log (`RegisterParks`) or an
immediate answer (`RegisterResumes`); `RegistrationLogged` and `Render` and
`Return` are the steps of `_park_and_render`; `TimerFires`, `Release` and `Push`
may come between any two of them, and `CancelRunner`/`Unwind` are a cancellation
and its `finally`. Stamps (`at`) give the queue its order. A scenario's hook
renders a result in one of two ways (`Renderings`): the platform's single notice,
or lifecycle bodies plus a drain.

### Messaging

A send is a record in `op`, moving idle → counting → waiting → logging. `Refuse`
stands for a lost membership, a torn-down sender and the scenario's own
rejection, so it may happen at any time under the lock. `Store` is everything up
to the log write, `Announce` everything behind it. `lock[c]` is the holder
followed by the waiters, first come first served, as `asyncio.Lock` is.
`CancelSend` cancels at any of the three awaits; `CancelsMidLog` says whether the
last of them is included. `told`, `withheld` and `floor` are history variables
for the properties. `told` counts everything `read_channel` could reach, whatever
`last_n` was: the code moves the read position past it all. A channel the world
has globally disabled counts as one the swap hides.

### GameClock

`pc` walks through the supervisor and the clock: launch, boundary, swap, brief,
poll, end, judge, debrief, stop, drain. Each log write ends a step. Seats
abstract runners to what the clock can see: in a turn, parked in one of three
ways, gone. A `Wake` is a message, a world notice, a deadline or a release;
`TakeNotice` and `LogRead` are separate because the tool result is logged by a
task of its own. `seat = "gone"` and `finished` are separate because the done
callback runs later.

`lastEvent`, `endedRounds`, `fired`, `delivered` and `read` are the log; all else
is memory. `Crash` loses memory at any step, `Resume` rebuilds it as the rewind
does: the round of the last `RoundAdvanced`, the events on record, the briefings
delivered and read. A fork starts with `SourceRounds` rounds in its log and
enters the next one by advancing. A failure inside the run is a `Crash`: the
`SimulationEnded(ERROR)` that its path logs is read back by nothing.

Time is `phaseAge` and `quiet`, in ticks up to `Horizon`. Grace periods and the
drain deadline may be over at any step, so no property depends on their length.

### VirtualClock

Instants are whole numbers and responses due at the same instant are released in
any order. `_advance` is called from every operation and may release a gate whose
agent runs later; the release and the agent's going on are two steps. Agents
request, fail, park with and without a deadline, craft, retire and are swapped.
`BaseLatency` must be positive in a run that checks `GatesOpen`: with 0 the code
can release and request for ever at one instant. `CancelsGated` says whether a
runner can be cancelled while it is held; then `set_result` on its cancelled gate
raises `InvalidStateError` (`virtual_clock.py:321`) and the release does not
happen, which is why the run sets it FALSE and the theorems of this module are
about the states before that. What is to come (`Agenda`: the responses held and the
timers) and who acts is all that `VirtualOrder` knows of it; a timer of a craft
whose agent was cancelled stays on the agenda and gives nobody the turn.

### EventLog

A call of `log` waits for the lock, writes in the executor and publishes. It can
be cancelled in each of these: while it waits it leaves the queue, while it
writes the write still ends, and it publishes only if it was not cancelled. Calls
nobody awaits (background tasks) are calls too. A subscriber's queue drops its
oldest event when it is full; it leaves and comes back. The failed path of the
supervisor logs its end and closes the file while runners, world and tasks may
still log; the finished path drains them first.

### RunHistory and AgentRunner

A response has calls; lines are `call`, `result`, `said`, with the time they
carry and the time they were written. `RunHistory` rebuilds a conversation from
the lines on disk as `build_message_history` does, grouping calls by the response
line that follows them, and an orphan cycle at the end. `AgentRunner` is one
runner: requests, streamed or whole responses, tools, a retry from the
checkpoint, background log tasks, cancellation, and a stop of the process with
any prefix of the lines of pending tasks on disk (`Disks`).

Left out: compaction summaries, the closing prompt's own log lines, costs, and
the history cleanup that rewrites what a model is sent. A second cancellation
during the final gather is not modelled.

A log task queues for the lock when the event loop first runs it; the clock awaits
the log itself and may take a free lock before a task that was spawned in the same
iteration. `started` counts the lines known to be in the queue, and `AdvanceRound`
puts its line at any place behind those, so `RoundAdvanced` can stand before calls
and results that are dated earlier.

### Lineage

A run is its log and its manifest; a process is at most one of them, brought up
and down by `Start`, `Launch`, `End` and `Stop`. A line is `[at, kind, seat, chan,
round, by]`, where `by` names the agent that wrote it. The code has no such
field; no action reads it. A derivation cuts a source at `Boundary` (the first
line of the next round, or what `GameOver` finds before the closing wakes), drops
its ends and writes a manifest; a launch rebuilds what each agent remembers
(`History`) and what it may read (`JoinIndex`). A tool call is one line, from its
invocation to its result; a parked call that is answered by a swap or by the end
of the run is the line `relieved` or `over`.

`Avoided` names four things the code does that make a property fail (section 3);
a configuration leaves them out by listing them, and `lineage_resume` leaves one
of them in.

## 3. Runs

All runs use few actors and small bounds, and every constant in a configuration
is a bound named in its module. Passing runs:

| Run | Shows |
|---|---|
| `wait_calls` | Successive calls of one agent through every timer, release, push, wipe and cancellation: what a wait installs stays tied to the open call, no wake-up is lost, briefings are kept, results come in order, deadlines and the end of the run are answered, `WaitContract` is implemented |
| `msg_sends` | Two sends, readers, wipes, members moved: `ReadMeansTold`, `UnreadIsAnnounced`, `NoBlindSend` |
| `msg_swaps` | Two cancellable sends on a direct channel, a swap with every kind of visibility, wipes: `WithheldIsNeverTold`, and under fairness `SendsFinish` |
| `clock_rounds` | Every way a phase ends, with postmortems and a swap; under fairness the run ends (`RunEnds`) |
| `clock_resume` | A fork with three events at its entry boundary, stopped twice at any step |
| `vclock_turns` | Two agents under the simulated clock with deadlines, crafts and a swap: one acts, on time, held for a reason, no agent before its own past, `VirtualOrder` is implemented; under fairness every gate opens |
| `runner_turns` | Two cycles, two attempts, failures and one stop anywhere: responses that call tools whole, every response dated, neither retry nor resume forgets a call |
| `log_stream` | Three calls, one stream that falls behind and comes back, both ends of a run: `StreamFollowsTheLog`, `TheEndIsLast`, and under fairness `LogCallsReturn` |
| `lineage_forks` | Three runs made by every kind of derivation, a swap, stops and launches: `EachGetsItsHistoryBack`, `KeepsItsView`, `PlaysEachRoundOnce`, `EndIsForgotten` |

Runs that show a disagreement, each with one property quoted from the code or docs:

| Run | What the code does |
|---|---|
| `clock_closed` | `set_postmortem` does not survive a restart |
| `runner_rewind` | A response line is dated when the response began; as the last line of a log it ends the resume walk early, and the run reopens an older round. Without calls (`MaxCalls = 0`), so that this is the way found; the other is a call or result that the clock overtook, which turns back one round at most |
| `lineage_resume` | A run resumed after a swap gives the new agent its predecessor's words |

### Other disagreements met while modelling

Not kept as runs. Where a name in code font follows, the property can be stated
on the module and TLC finds the violation within seconds.

* A history wiped between wake and rendering makes a woken call report
  `no_activity`, which the result's description reserves for a timeout
  (`NoActivityMeansTimeout` with `WipesHistory = TRUE`).
* A message stored while `RoundAdvanced` is written belongs to the new round but
  lies before its snapshot, so a `from_round` window misses it
  (`runtime/game_clock.py:184`; `WindowIsComplete`).
* The snapshots of message counts (`runtime/simulation_state.py:189`) outlive a wipe
  of the history they counted (`runtime/scenario_world.py:159`). A window opened at
  such a snapshot hides messages sent after the wipe, those of later rounds too
  (`LaterRoundsAreShown` with `World = {"clear"}` and three rounds).
* A send cancelled in its log write leaves a message nobody is told of
  (`UnreadIsAnnounced` with `CancelsMidLog = TRUE`).
* A run stopped after `RoundEnded` plays the finished round again, and its
  boundary hook takes the round's message counts anew
  (`runtime/simulation_state.py:189`).
* A run stopped before its first `RoundAdvanced` is resumed in round 0
  (`run_replay/message_rewind.py:270`); `runtime/game_clock.py:215` excludes
  events of round 0.
* `ChannelHistoryCleared` and `ChannelMembershipChanged` are not replayed by the
  rewind (`run_replay/message_rewind.py:322`).
* Architecture.md:101 gives an idle agent an empty queue. Its wait may leave
  there what it does not ask for (a message during a `next_round` wait).
* Architecture.md:102 measures the round limit from the last message. The code
  measures it from the start of the phase (`runtime/game_clock.py:175`).
* `runtime/simulation_state.py:300` promises the unseen messages with a
  `conflict`. An agent swapped in with its history hidden starts at position 0
  and gets a conflict with none.
* `runtime/simulation_state.py:551` says a briefing that was read is not sent
  again on resume. It is when the process stopped before its delivery was logged.
* A replacement's channel that the manifest names neither visible nor blocked is
  left fully readable, against docs/agent-swaps.md:235-237 and
  Architecture.md:365, 371 (`JoinIndex` keeps what the code does).
* The ending can leak into a fork (docs/agent-swaps.md:166-168,
  Architecture.md:448), in three ways, each an element of `Avoided` whose removal
  violates `EndIsForgotten`: a call refused because the run is over, logged by an
  agent in mid-turn before the first closing wake (`late_calls`); a process that
  stops between the done notices and `SimulationEnded` and is resumed
  (`late_stops`); an agent imported with the other run's last round as its end,
  which is the default (`import_endings`).
* Wake-up notices of a resume can be stale when they arrive
  (`runtime/autonomous_supervisor.py:357-375`), against the comment there.
* A swap's seed keeps the predecessor's parked `read_notifications` with the
  `agent_swap` done result.
* The comment on `apply_fork_boundary` speaks of a join index of zero for a
  missing snapshot; `compute_per_channel_join_index` raises `ValueError`.
* `_build_orphan_cycle` says its calls "are the most recent calls before resume",
  which is false after a second resume or a failed attempt.
* A response of thinking alone is merged into the next response line, and is lost
  if the following request of the same attempt fails, against the docstring of
  `_run_agent_call` (`runners/pydantic_ai_runner.py:368`, "each model response is
  one `LLMResponseReceived`"). `EachResponseItsLine` states the claim; TLC finds it
  violated on the bounds of `runner_turns`. `LoggedWhole` says what holds.
* docs/running-simulations.md:407 has a run's spend "on its last event:
  simulation_ended". On the failed path other lines can follow it; a cancelled
  writer's line can land after later ones; a late subscriber never sees the end.

### Bounds, and why they are enough

* *Waiting.* Agents share nothing in the registry but the channel counts, which
  messages move in the one-agent instance too; the theorems hold for any number
  of agents. Two messages, three notices and two calls let a notice go stale, be
  overtaken, wake one call and be found by the next.
* *Messaging.* Two agents and two calls are the smallest race for a lock and a
  position; two messages let one be seen and one not. One channel, since channels
  share no state but queues and the wake-up notice of a swap. Two rounds and one
  swap give every `from_round` window that differs.
* *Game clock.* Two rounds: the first opens by another path than the second, the
  second is the last. One agent with a postmortem and one without, one swapped.
  Two stops: the second may hit the recovery from the first. `MinQuiet = 0` in
  the restart run only adds behaviours. A fresh run stopped in round 1 is in no
  run, it is covered by the theorems.
* *Virtual clock.* Two agents, two turns each, latencies 0 and 2 on a base of 1,
  deadlines and crafts that end before, with and after a response.
* *Runner.* Two responses of up to two calls, in two attempts and two cycles, one
  crash: what the first leaves on disk, the second must not spoil.
  A response that is not streamed makes at most one call here
  (`OneCallUnlessStreamed`, a constraint of the run): the two modes differ in when a
  response is dated, not in how its calls are logged. The theorems have no such bound.
* *Log.* Three calls: one holding the lock, one waiting, one behind. A queue of
  two overflows with three events.
* *Lineage.* Three runs let a run be made from a made run, and two sources meet
  in an import. Source runs play one round; a derived run plays to round 3, so
  that it can be forked behind rounds of its own. The swap comes in round 3, the
  one call is made anywhere; starts, launches, stops and derivations are at most
  five: enough for a run to stop and come back. One window (the visible channel
  from round 2 on). One seat: seats share the log and the cut, not a history;
  that another seat passes through a replacement unharmed is in the theorem.

Symmetry is used in the messaging safety run, where agents and call slots are
interchangeable, and nowhere a liveness property is checked.
`CHECK_DEADLOCK FALSE` is set throughout: bounded instances run out of messages,
calls or rounds, and a finished run stops.

### Fairness

* `WaitRegistry!FairSpec`: a runner that can go on goes on, and a due timer
  fires. That is the event loop. No fairness on pushes, releases, calls.
* `Messaging!FairSpec`: the holder of a lock runs and a log write completes. None
  on token counting (a provider may not answer) or on any agent.
* `GameClock!FairSpec`: the clock's task runs when ready, and time passes. None
  on agents, nor on a scenario's early ends: `RunEnds` holds though agents never
  park, return or speak, because phases have a limit and drains a deadline.
  `clock_rounds` has no restarts: a run stopped again and again need not end.
* `VirtualClock!FairSpec`: the clock's own advance happens when its state asks for
  it; for each agent, a request that was sent is answered or fails, a gate that was
  opened is passed, and an agent that acts parks, requests again or retires.
* `EventLog!FairSpec`: for each call, a lock that was passed on is taken, a write
  in the executor ends, and the call goes on behind it. None on new calls,
  cancellations or streams.

## 4. What is proved

TLAPS checks the eight proof modules to the last leaf. Every safety invariant,
action property and refinement that a passing run checks is a theorem there, for
all values of the constants that the named assumptions allow
(`BoundsAssumption`, `MessagingAssumption`, `ConfigAssumption`,
`ClockAssumption`, `AvoidedAssumption`, `LineageAssumption`). These give the
constants their types and say what the configuration validators enforce: a fork
starts before the last round, a schedule names rounds from 2 on, swaps come after
round 1. The sets of agents, seats, channels and streams need not be finite.

Seven theorems have a hypothesis besides, and each hypothesis is needed: without it
TLC finds a violation (sections 3 and 5).

| Theorem | Hypothesis |
|---|---|
| `UnreadAlwaysAnnounced` | no call is cancelled inside its log write (`~CancelsMidLog`) |
| `NoActivityComesOfATimeout` | no history is wiped (`~WipesHistory`) |
| `WindowsShowLaterRounds` | no history is wiped (`"clear" \notin World`) |
| `NoRoundComesBeforeTheLastLine` | the run is stopped at most once (`MaxCrashes <= 1`) |
| `HistoriesComeBack`, `ViewsAreKept` | no run is resumed after a swap within it |
| `EndsAreForgotten` | no call is logged after the end, no process stops before its end is logged, no agent is imported with its ending |

Proved and in no run, each stated in its module or next to its proof and checked
with TLC before it was proved:

* `TypeOK` of `VirtualClock`, `AgentRunner`, `EventLog` and `Lineage`,
  `PostersAreCurrent`, `NothingOverdue`, and `NoActivityMeansTimeout` and
  `LaterRoundsAreShown`, under the hypotheses in the table above;
* the safety halves of liveness properties, that whoever waits can still be served:
  `ParkedCallsCanEnd` (of `DeadlineAnswers` and `DoneEndsTheCall`), `HolderGoesOn`
  of `Messaging` (of `SendsFinish`) and of `EventLog` (of `LogCallsReturn`); for
  `GatesOpen` it is `HeldForAReason`, which a run checks too;
* what remains true of the two properties the code violates at a restart.
  `OnlyAResponseTurnsFarBack` and `NoRoundBeforeTheLastLine`: with any other last line
  than a response a resume leaves out at most the last `RoundAdvanced`, one the clock
  may have logged ahead of that line, and a first resume never reopens a round before
  the one its last line is of. A log that has been turned back once has rounds that no
  longer rise, so a second resume can. `ClosedUntilResumed`: in a process that was
  not resumed, `set_postmortem` holds.

### The arguments

**WaitRegistryProofs.** One invariant gives the three state properties: types,
`OpenCalls` and `NoLostWakeup`. `NoLostWakeup` is not inductive alone: that a
push reaches a parked agent needs that a pending wait has a listener, which is
`OpenCalls`. `LifecycleNoticesAreDelivered` and `DeliveredInOrder` need that
stamps differ (`Stamped`): then what a rendering takes out of the queue is what it
shows, and a notice left behind is younger. `ContractIsKept` is the refinement:
each action of the registry is a step of `WaitContract` or leaves its variables.
`CallsCanAlwaysEnd` adds that only a wait that is over loses its timer
(`DeadlinesArmed`); that nobody told of the end is parked is `NoLostWakeup` again.
For `NoActivityComesOfATimeout` each due result has its cause (`CausesStand`): an
event in its reasons, or a live notice in the queue, which stays live because
histories only grow and its agent reads nothing before the result.

**MessagingProofs.** `ReadMeansTold` is threatened only by `Announce`, which sets
a position after an await. It survives because the lock keeps the history from
growing meanwhile (`LogHoldsLock`, `OneHolder`) and the sender found itself up to
date before (`UpToDateSenderKnows`); `SeenWithinHistory` carries it across wipes.
`NoBlindSend` and `PostersAreCurrent` are read off the same invariant at the step
that stores. `UnreadIsAnnounced` needs besides that stamps differ, so that taking
one notice does not take another. For `WithheldIsNeverTold` the snapshots of
message counts must divide each channel by round (`CountsDivideRounds`): a window
opened at a snapshot then holds nothing of an earlier round, and
`WindowsHide` is kept by every later re-join and swap of the same seat.
`WindowsShowLaterRounds` is the other side: what the snapshot of a round counts is
of that round or an earlier one and still there (`CountsLast`), so a window opened at
it hides nothing later; only a wipe can leave a snapshot counting what is gone.
`LocksGoOn` needs that the queue of a lock is exactly the calls of its channel that
are waiting or in their log write, each once (`LocksAreQueued`).

**GameClockProofs.**

* *Events.* What the scheduler counts in memory is what the log holds whenever a
  process is up (`EventsInv`); a fork's source rounds are complete.
* *Idle ends.* A parked seat has an empty queue and is not gone; a finished one
  is gone (`IdleInv`).
* *Lifecycle.* `pc` determines the last event of the log up to the round
  (`LogInv`), except in a reopened round, where any event of that round may be
  last; a fork's first advance is the only step that starts from its source's.
* *Briefings.* Not lost: a round is covered for an agent only if the reading is
  on record (`CoverInv`), and an uncovered one is pushed to the seat that plays
  it, since no swap follows in that round (`OrderInv`, `HeldInv`). Not repeated:
  `injected` holds every briefing on record when the process came up (`DownInv`,
  `ResumedInv`), and one recorded later was pushed in this process's present
  round, which briefs once (`FreshInv`).
* *Postmortems.* In a first process the world is closed from the step that fires
  `set_postmortem`, before it is on record (`ClosingInv`); a resume rebuilds the world
  open.

**VirtualClockProofs.** What the clock holds of an agent follows from where its
runner is (`Seats`). With it, one agent has the turn (`OneTurn`), timers belong to
the present wait or craft (`Timers`), and nothing that could still happen lies
before `now` (`NothingOverdue`). That `_advance` has a first instant to go to, for
any number of agents, rests on the well-foundedness of the naturals. `Timeline` gives
`OwnTimelineInOrder` across a swap and a stop. `OrderIsKept` is the refinement: one
step of the clock is one entry of the agenda occurring, one being planned or
dropped, or a stutter, and the invariants say that what occurs is the earliest.

**AgentRunnerProofs.** The accumulators are the problem: what is accumulated has
not been logged, its calls are those of the last response, each invoked, and
answered if it returned, and none invoked is missing (`Pending`, `Complete`); the counters and checkpoint follow from the
place in the graph (`Shape`); no line speaks of a response to come (`Numbered`);
the block in hand was begun after all the log holds but its own calls (`Dates`).
`LoggedWhole` and `LoggedWhenBegun` are inductive with these, and
`RetriesForgetNothing` is read off them at each step, for the checkpoint is the
context from the request on. `ResumeForgetsAtMostTheLast` needs that timestamps
follow the log except where a response is dated before rounds and calls of its own
(`Ordered`, `Follows`): then sorting by time gives back every response of which
the disk has all lines, unless it is the last. The clock's line comes
in behind what has started, so the places of the lines after it move by one and
every invariant on the log is shown to survive that. A line that is no response is
overtaken by one line of the clock at most (`Overtaking`): the next is written
behind it. The two theorems about the reopened
round need this and `Ordered`, and that each line is of a round the log had advanced to by the
time it carries (`Rounds`, with `Rising` until the first stop).

**EventLogProofs.** Calls queue in the order they were made, the first of them
holds the lock, and the executor works for it or for one that was cancelled
(`Locked`). What is published is on disk, and what is about to be comes behind it
(`OnDisk`). The end is one call, the last of a run that did not fail (`EndsOnce`).
A stream's queue and what it has sent are parts of what was published. What is being
written is in the executor (`Working`), which with `Locked` gives `LockGoesOn`.

**LineageProofs.** Each log is good (`GoodLog`): rounds come one by one, what is
remembered up to the cut is of rounds before the entry round, words are those of
the agent that sits there, and lines and agents are named after the run they
come from. Manifests point to the past (`GoodManifest`), so that a derivation
cannot find words of its own agent in another's log. `RunsExist`,
`RelievedBySwaps` and `InTheRound` hold whatever is avoided; only
`EachGetsItsHistoryBack` needs the hypothesis, at `Launch`, where a resume reads
a manifest that knows nothing of the swap.

**LineageCutProofs.** Three more invariants on top of the first.

* *Rounds.* A log plays its rounds in order, each closed before the next; a
  derived log was cut between two of them (`CutAfterARound`); the process that is
  up adds its line at the end of a log that is not complete
  (`AtTheEndOfItsLog`). No hypothesis.
* *Ends.* The notices of the end lie behind the last round and before the line
  that completes the log, which is then not resumed; so the first of them is
  behind every cut (`EndInv`).
* *Views.* What an agent was given of its predecessor is a function of the lines
  before the cut, the manifest and the first sitters (`CutGift`). A launch tells
  it from the whole log: the lines behind the cut add nothing, since a seat's
  words there are its sitter's own (`MemoryIsTheSitters`), and channel counts are
  taken at the entry or at a snapshot before the cut (`JoinsOfTheCut`).

## 5. What is only model-checked

* Liveness: `DeadlineAnswers`, `DoneEndsTheCall`, `SendsFinish`, `RunEnds`,
  `GatesOpen`, `LogCallsReturn`. The prover has no rule for fairness and
  `ENABLED`. What makes them true step by step is proved (section 4), except for
  `RunEnds`, whose limit on each phase is time passing.
* The three disagreements of section 3, by their counterexamples.
* That the hypotheses of the theorems in the table above are needed:
  `CancelsMidLog = TRUE`, `WipesHistory = TRUE`, `"clear"` in `World`, a second stop,
  and `Avoided` without one of its elements.

## 6. Abstractions that a reader should know

* Texts, prompts, costs, token amounts and reaction delays are left out.
* A scenario is a set of choices: texts it has (`Briefings`, `Postmortems`),
  triggers, early ends, refusals, wipes, membership changes.
* `InjectionDelivered` of one batch are logged in any order of agents; runners
  start in any order.
* A tool result logged in a later round than its injection would not match it in
  the rewind; the round in question is never entered again, so `read` keeps it.
* `GameClock` resumes the clock, `AgentRunner` one conversation, `Lineage`
  histories and views. What a resumed run finds in its channels, and the read
  positions it rebuilds, are in none of them.
* `Lineage`: only the newest run is launched; a derivation is one step, so a
  source that is still being written is read at one moment; a seat is swapped once
  per round; a line dropped by a cut keeps its place as a line nobody remembers;
  `read_channel` and a message's arrival are not told apart. A swap's
  `from_round` window in a running process is in `Messaging`, not here. Channels
  of an import that the first run does not know are left out.
* The bounds `Max...` are guards of actions. They cap counters and are named in
  each module; the theorems hold for every value of them.

## 7. Plan

1. `ResumeState`: channels, positions and snapshots rebuilt from a log, composed
   with `Messaging`: wiped histories, moved members, direct channels, the second
   snapshot of a reopened round. Abstract specification: the state before the
   stop, restricted to what the log keeps.
2. `RoundBudget`: charging, threshold claims and outcomes of `engine/`.
3. `Simulation`: the supervisor around `GameClock`, with the failure path, the world
   task and a swap's drain, against the contract of `WaitRegistry`.
4. `Lineage` with swaps' windows and without the bound to the newest run.
5. Proofs: of `ResumeState` against its specification; and for `RunEnds`, that
   wherever the clock waits, a poll, a limit or a deadline can move it on.

## 8. Not modelled, and why

* **Scenario engine.** Charging and claims are sequential code on one object,
  reached from the world between two awaits; planned, see section 7.
* **Scenarios' task rules, prompts, evaluation, analysis and exports** are
  sequential transformations of data, with no interleaving to explore.
* **Web server, database, CLI, frontend, production sync** are requests over files
  and tables of finished or running runs; they change no run in progress, and
  their transactions are the database's.
* **LLM providers and telemetry** are external services; where one is awaited
  inside the core (the token counter) the await is modelled.
* Two hazards of the core are in no model: what an injected case changes in the
  world before its event is on record (`runtime/autonomous_supervisor.py:168`), and
  the round's clock, which runs while the boundary hook does
  (`runtime/game_clock.py:200`).
