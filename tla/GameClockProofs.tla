-------------------------- MODULE GameClockProofs --------------------------
(***************************************************************************)
(* Theorems about GameClock, for any agents, schedule, briefings and       *)
(* number of restarts.                                                     *)
(***************************************************************************)
EXTENDS GameClock, TLAPS

\* The event about to fire exists and is a scheduled event.
LEMMA NextEventType ==
    ASSUME TypeOK, pc \in {"boundary", "swap"}, CompletedOf(round) < Len(EventsOf(round))
    PROVE  round \in Rounds /\ NextEvent \in ScheduledEvents
  <1>1. round \in Rounds
    BY DEF TypeOK, CompletedOf, EventsOf
  <1>2. Schedule[round] \in Seq(ScheduledEvents)
    BY <1>1, ConfigAssumption
  <1>3. completed[round] + 1 \in 1..Len(Schedule[round])
    BY <1>1, <1>2 DEF TypeOK, CompletedOf, EventsOf
  <1>. QED  BY <1>1, <1>2, <1>3 DEF NextEvent, CompletedOf, EventsOf

LEMMA ScheduleLengths == \A r \in Rounds : Len(Schedule[r]) \in Nat
  BY ConfigAssumption

\* Bookkeeping of the scheduler: what is counted is what is recorded, an event
\* under way is one the round still has, and a round is briefed only when none
\* is left.
Playing == {"brief", "log_brief", "poll", "log_end", "judge", "log_postmortem", "debrief"}

AllFired(r) == r \in Rounds => fired[r] = Len(Schedule[r])

EventsInv ==
    /\ pc # "down" => completed = fired
    /\ \A r \in Rounds : fired[r] <= Len(Schedule[r])
    /\ pc \in {"swap", "log_event"} => round \in Rounds /\ fired[round] < Len(Schedule[round])
    /\ pc \in Playing => AllFired(round)
    /\ pc = "launch" /\ ~resuming => AllFired(round)
    /\ pc = "down" => resuming

\* Injections are sent in the round they are for.
SendsInv ==
    /\ toLog # {} \/ due # {} => round \in Rounds
    /\ pc = "down" => toLog = {} /\ due = {}

TypeInv == TypeOK /\ SendsInv

Inv1 == TypeInv /\ EventsInv

LEMMA InitInv1 == Init => Inv1
  <1>. SUFFICES ASSUME Init PROVE Inv1
    OBVIOUS
  <1>0. /\ MaxRounds \in Nat /\ SourceRounds \in Nat
        /\ SourceRounds <= MaxRounds
        /\ SourceRounds + 1 \in 0..MaxRounds
    BY ConfigAssumption
  <1>a. lastEvent \in Lifecycle!LifecycleEvents
    BY <1>0 DEF Init, Lifecycle!Init, Lifecycle!Ev, Lifecycle!LifecycleEvents, Lifecycle!Kinds
  <1>b. fired \in [Rounds -> Nat]
    BY ScheduleLengths DEF Init
  <1>c. endedRounds \subseteq 0..MaxRounds
    BY <1>0 DEF Init
  <1>d. resuming \in BOOLEAN
    BY DEF Init
  <1>e. crashes \in 0..MaxCrashes
    BY ConfigAssumption DEF Init
  <1>f. /\ inbox \in [Agents -> SUBSET Injections] /\ unlogged \in [Agents -> SUBSET Injections]
        /\ injected \in [Agents -> SUBSET Rounds]
        /\ delivered \subseteq Agents \X Injections /\ read \subseteq Agents \X Injections
    BY DEF Init
  <1>1. TypeOK
    BY <1>0, <1>d, <1>e, <1>f, <1>a, <1>b, <1>c DEF Init, TypeOK, PCs, Triggers, Seats
  <1>2. EventsInv
    BY ConfigAssumption, ScheduleLengths DEF Init, EventsInv, Playing, AllFired
  <1>3. SendsInv
    BY DEF Init, SendsInv
  <1>. QED  BY <1>1, <1>2, <1>3 DEF Inv1, TypeInv

LEMMA RoundFacts ==
    /\ MaxRounds \in Nat \ {0} /\ SourceRounds \in 0..(MaxRounds - 1)
    /\ Rounds = 1..MaxRounds
  BY ConfigAssumption DEF Rounds

\* Only a round of the run has injections.
LEMMA InRound ==
    /\ Briefed # {} => round \in Rounds
    /\ PostmortemAgents # {} => round \in Rounds
  BY ConfigAssumption DEF Briefed, PostmortemAgents

\* What a push does to the sessions and seats.
LEMMA PushType ==
    ASSUME TypeOK, NEW S, NEW i, S # {} => i \in Injections, Push(S, i)
    PROVE  inbox' \in [Agents -> SUBSET Injections] /\ seat' \in [Agents -> Seats]
  BY DEF Push, TypeOK, Seats

LEMMA TypeStep == TypeInv /\ [Next]_vars => TypeInv'
  <1>. SUFFICES ASSUME TypeOK, SendsInv, [Next]_vars PROVE TypeInv'
    BY DEF TypeInv
  <1>. USE DEF TypeInv, TypeOK, SendsInv, PCs, Seats, Parked, Lifecycle!Ev,
           Lifecycle!LifecycleEvents, Lifecycle!Kinds,
           clockVars, startVars, sendVars, seatVars, logVars
  <1>1. ASSUME LogRoundAdvanced PROVE TypeInv'
    <2>1. lastEvent' \in Lifecycle!LifecycleEvents
      BY <1>1 DEF LogRoundAdvanced
    <2>2. pc' \in PCs
      BY <1>1 DEF LogRoundAdvanced
    <2>3. QED BY <1>1, <2>1, <2>2 DEF LogRoundAdvanced
  <1>2. ASSUME DispatchEvent PROVE TypeInv'
    <2>1. closed' \in BOOLEAN /\ pc' \in {"swap", "log_event"}
          /\ ((\E agents : PushDone(agents)) \/ UNCHANGED <<told, seat>>)
      BY <1>2 DEF DispatchEvent
    <2>3. told' \in [Agents -> BOOLEAN] /\ seat' \in [Agents -> Seats]
      <3>1. ASSUME NEW agents, PushDone(agents) PROVE told' \in [Agents -> BOOLEAN]
        BY <3>1 DEF PushDone
      <3>2. ASSUME NEW agents, PushDone(agents) PROVE seat' \in [Agents -> Seats]
        BY <3>2 DEF PushDone
      <3>. QED  BY <2>1, <3>1, <3>2
    <2>2. UNCHANGED <<round, inPostmortem, worldOpen, trigger, phaseAge, quiet, startVars, sendVars,
                      finished, inbox, unlogged, logVars, crashes>>
      BY <1>2 DEF DispatchEvent
    <2>. QED  BY <2>1, <2>2, <2>3
  <1>3. ASSUME InstallSwap PROVE TypeInv'
    BY <1>3 DEF InstallSwap
  <1>4. ASSUME LogEvent PROVE TypeInv'
    <2>1. fired' \in [Rounds -> Nat] /\ completed' \in [Rounds -> Nat]
      <3>1. CASE round \in Rounds
        <4>1. fired[round] + 1 \in Nat /\ completed[round] + 1 \in Nat
          BY <3>1
        <4>. QED  BY <1>4, <4>1 DEF LogEvent
      <3>2. CASE round \notin Rounds
        BY <1>4, <3>2 DEF LogEvent
      <3>. QED  BY <3>1, <3>2
    <2>2. TypeOK'
      BY <1>4, <2>1 DEF LogEvent
    <2>. QED  BY <1>4, <2>2 DEF LogEvent
  <1>5. ASSUME EndBoundary PROVE TypeInv'
    BY <1>5 DEF EndBoundary
  <1>6. ASSUME DeliverBriefings PROVE TypeInv'
    <2>1. Briefed # {} => round \in Rounds
      BY InRound
    <2>2. Briefed # {} => Injection("briefing", round) \in Injections
      BY <2>1 DEF Injection, Injections
    <2>3. inbox' \in [Agents -> SUBSET Injections] /\ seat' \in [Agents -> Seats]
      BY <1>6, <2>2, PushType DEF DeliverBriefings
    <2>4. TypeOK'
      BY <1>6, <2>3 DEF DeliverBriefings, AfterBriefing, Briefed
    <2>. QED  BY <1>6, <2>1, <2>4 DEF DeliverBriefings, AfterBriefing
  <1>7. ASSUME EndPhase PROVE TypeInv'
    BY <1>7 DEF EndPhase
  <1>8. ASSUME PollFinished PROVE TypeInv'
    BY <1>8 DEF PollFinished
  <1>9. ASSUME LogRoundEnded PROVE TypeInv'
    BY <1>9, RoundFacts DEF LogRoundEnded
  <1>10. ASSUME JudgeRound PROVE TypeInv'
    <2>1. round' \in 0..MaxRounds /\ (round' # round => round' \in Rounds)
      BY <1>10, RoundFacts DEF JudgeRound, StartAdvance
    <2>2. pc' \in PCs
      BY <1>10 DEF JudgeRound, StartAdvance
    <2>3. phaseAge' \in Nat /\ quiet' \in Nat
      BY <1>10 DEF JudgeRound, StartAdvance
    <2>4. inPostmortem' \in BOOLEAN
      BY <1>10, Zenon DEF JudgeRound, StartAdvance
    <2>5. /\ UNCHANGED <<worldOpen, closed, trigger, startVars, sendVars, seatVars, logVars, crashes>>
          /\ pc' # "down"
      BY <1>10 DEF JudgeRound, StartAdvance
    <2>6. TypeOK'
      BY <2>1, <2>2, <2>3, <2>4, <2>5
    <2>. QED  BY <2>1, <2>5, <2>6
  <1>11. ASSUME LogPostmortemStarted PROVE TypeInv'
    <2>1. due' \subseteq Agents /\ (due' # {} => round \in Rounds)
      BY <1>11, InRound DEF LogPostmortemStarted, PostmortemAgents
    <2>. QED  BY <1>11, <2>1 DEF LogPostmortemStarted
  <1>12. ASSUME LogPostmortemEnded PROVE TypeInv'
    <2>1. round' \in 0..MaxRounds /\ (round' # round => round' \in Rounds)
      BY <1>12, RoundFacts DEF LogPostmortemEnded, StartAdvance
    <2>2. lastEvent' \in Lifecycle!LifecycleEvents
      BY <1>12 DEF LogPostmortemEnded
    <2>3. TypeOK'
      BY <1>12, <2>1, <2>2 DEF LogPostmortemEnded, StartAdvance
    <2>. QED  BY <1>12, <2>1, <2>3 DEF LogPostmortemEnded, StartAdvance
  <1>13. ASSUME BroadcastDone PROVE TypeInv'
    BY <1>13 DEF BroadcastDone, PushDone
  <1>14. ASSUME DrainRunners PROVE TypeInv'
    BY <1>14 DEF DrainRunners
  <1>15. ASSUME LogComplete PROVE TypeInv'
    BY <1>15 DEF LogComplete
  <1>16. ASSUME NEW a \in Agents, LaunchRunner(a) PROVE TypeInv'
    BY <1>16 DEF LaunchRunner
  <1>17. ASSUME NEW a \in Agents, LogBriefing(a) PROVE TypeInv'
    <2>1. round \in Rounds
      BY <1>17 DEF LogBriefing
    <2>2. delivered' \subseteq Agents \X Injections
      BY <1>17, <2>1 DEF LogBriefing, Injection, Injections
    <2>3. TypeOK'
      BY <1>17, <2>2 DEF LogBriefing, AfterBriefing
    <2>. QED  BY <1>17, <2>1, <2>3 DEF LogBriefing, AfterBriefing
  <1>18. ASSUME NEW a \in Agents, PushPostmortem(a) PROVE TypeInv'
    <2>1. round \in Rounds
      BY <1>18 DEF PushPostmortem
    <2>2. Injection("postmortem", round) \in Injections
      BY <2>1 DEF Injection, Injections
    <2>3. inbox' \in [Agents -> SUBSET Injections] /\ seat' \in [Agents -> Seats]
      BY <1>18, <2>2, PushType DEF PushPostmortem
    <2>4. TypeOK'
      BY <1>18, <2>3 DEF PushPostmortem
    <2>. QED  BY <1>18, <2>1, <2>4 DEF PushPostmortem
  <1>19. ASSUME NEW a \in Agents, LogPostmortem(a) PROVE TypeInv'
    <2>1. round \in Rounds
      BY <1>19 DEF LogPostmortem
    <2>2. delivered' \subseteq Agents \X Injections
      BY <1>19, <2>1 DEF LogPostmortem, Injection, Injections
    <2>3. TypeOK'
      BY <1>19, <2>2 DEF LogPostmortem
    <2>. QED  BY <1>19, <2>1, <2>3 DEF LogPostmortem
  <1>20. ASSUME NEW a \in Agents, TakeNotice(a) PROVE TypeInv'
    <2>1. PICK i \in inbox[a] : /\ inbox' = [inbox EXCEPT ![a] = @ \ {i}]
                               /\ unlogged' = [unlogged EXCEPT ![a] = {i}]
      BY <1>20 DEF TakeNotice
    <2>2. inbox' \in [Agents -> SUBSET Injections] /\ unlogged' \in [Agents -> SUBSET Injections]
      BY <2>1
    <2>3. TypeOK'
      BY <1>20, <2>2 DEF TakeNotice
    <2>. QED  BY <1>20, <2>3 DEF TakeNotice
  <1>21. ASSUME NEW a \in Agents, LogRead(a) PROVE TypeInv'
    BY <1>21 DEF LogRead
  <1>22. ASSUME NEW a \in Agents, NEW how \in Parked, Park(a, how) PROVE TypeInv'
    BY <1>22 DEF Park
  <1>23. ASSUME NEW a \in Agents, Wake(a) PROVE TypeInv'
    BY <1>23 DEF Wake
  <1>24. ASSUME NEW a \in Agents, SendMessage(a) PROVE TypeInv'
    BY <1>24 DEF SendMessage
  <1>25. ASSUME NEW a \in Agents, Return(a) PROVE TypeInv'
    BY <1>25 DEF Return
  <1>26. ASSUME NEW a \in Agents, MarkFinished(a) PROVE TypeInv'
    BY <1>26 DEF MarkFinished
  <1>27. ASSUME Tick PROVE TypeInv'
    <2>1. phaseAge' \in Nat /\ quiet' \in Nat
      BY <1>27 DEF Tick
    <2>2. TypeOK'
      BY <1>27, <2>1 DEF Tick
    <2>. QED  BY <1>27, <2>2 DEF Tick
  <1>28. ASSUME Crash PROVE TypeInv'
    <2>1. crashes' \in 0..MaxCrashes
      BY <1>28, ConfigAssumption DEF Crash
    <2>2. /\ inbox' \in [Agents -> SUBSET Injections] /\ unlogged' \in [Agents -> SUBSET Injections]
          /\ injected' \in [Agents -> SUBSET Rounds] /\ completed' \in [Rounds -> Nat]
      BY <1>28 DEF Crash
    <2>3. /\ round' \in 0..MaxRounds /\ pc' \in PCs /\ trigger' \in Triggers
          /\ seat' \in [Agents -> Seats]
      BY <1>28, RoundFacts DEF Crash, Triggers
    <2>4. TypeOK'
      BY <1>28, <2>1, <2>2, <2>3 DEF Crash
    <2>. QED  BY <1>28, <2>4 DEF Crash
  <1>29. ASSUME Resume PROVE TypeInv'
    <2>1. round' \in 0..MaxRounds
      BY <1>29, RoundFacts DEF Resume, EntersByAdvancing
    <2>2. \A a \in Agents : CoveredBy(a) \subseteq Rounds
      BY DEF CoveredBy, Injections
    <2>3. TypeOK'
      BY <1>29, <2>1, <2>2 DEF Resume
    <2>. QED  BY <1>29, <2>3 DEF Resume
  <1>30. CASE UNCHANGED vars
    BY <1>30 DEF vars
  <1>. QED
    BY <1>1, <1>2, <1>3, <1>4, <1>5, <1>6, <1>7, <1>8, <1>9, <1>10, <1>11, <1>12, <1>13,
       <1>14, <1>15, <1>16, <1>17, <1>18, <1>19, <1>20, <1>21, <1>22, <1>23, <1>24, <1>25,
       <1>26, <1>27, <1>28, <1>29, <1>30 DEF Next, ClockStep, AgentStep

\* Every variable of the clock and of its log keeps its type.
THEOREM TypeAlways == Spec => []TypeOK
  <1>1. Init => TypeInv
    BY InitInv1 DEF Inv1
  <1>2. TypeInv => TypeOK
    BY DEF TypeInv
  <1>. QED  BY <1>1, <1>2, TypeStep, PTL DEF Spec

-----------------------------------------------------------------------------
(* Scheduled events *)

LEMMA EventsStep == Inv1 /\ [Next]_vars => EventsInv'
  <1>. SUFFICES ASSUME TypeOK, EventsInv, [Next]_vars PROVE EventsInv'
    BY DEF Inv1, TypeInv
  <1>0. \A r \in Rounds : Len(Schedule[r]) \in Nat /\ fired[r] \in Nat /\ completed[r] \in Nat
    BY ScheduleLengths DEF TypeOK
  <1>. USE DEF EventsInv, Playing, AllFired, clockVars, startVars, sendVars, seatVars, logVars
  <1>1. CASE LogRoundAdvanced
    BY <1>1 DEF LogRoundAdvanced
  <1>2. CASE DispatchEvent
    <2>1. round \in Rounds /\ fired[round] < Len(Schedule[round])
      BY <1>0, <1>2 DEF DispatchEvent, CompletedOf, EventsOf
    <2>. QED  BY <1>2, <2>1 DEF DispatchEvent
  <1>3. CASE InstallSwap
    BY <1>3 DEF InstallSwap
  <1>4. CASE LogEvent
    <2>1. round \in Rounds /\ fired[round] < Len(Schedule[round]) /\ completed = fired
      BY <1>4 DEF LogEvent
    <2>2. \A r \in Rounds : fired'[r] <= Len(Schedule[r])
      BY <1>0, <1>4, <2>1 DEF LogEvent, TypeOK
    <2>. QED  BY <1>4, <2>1, <2>2 DEF LogEvent
  <1>5. CASE EndBoundary
    <2>1. round \in Rounds => fired[round] = Len(Schedule[round])
      BY <1>0, <1>5 DEF EndBoundary, CompletedOf, EventsOf
    <2>. QED  BY <1>5, <2>1 DEF EndBoundary
  <1>6. CASE DeliverBriefings
    BY <1>6 DEF DeliverBriefings, AfterBriefing
  <1>7. CASE EndPhase
    BY <1>7 DEF EndPhase
  <1>8. CASE PollFinished
    BY <1>8 DEF PollFinished
  <1>9. CASE LogRoundEnded
    BY <1>9 DEF LogRoundEnded
  <1>10. CASE JudgeRound
    <2>1. /\ pc' \in {"log_postmortem", "stop", "log_advance"}
          /\ pc' = "log_postmortem" => round' = round
          /\ pc \in Playing /\ pc # "down"
      BY <1>10 DEF JudgeRound, StartAdvance
    <2>2. UNCHANGED <<startVars, logVars>>
      BY <1>10 DEF JudgeRound
    <2>. QED  BY <2>1, <2>2
  <1>11. CASE LogPostmortemStarted
    BY <1>11 DEF LogPostmortemStarted
  <1>12. CASE LogPostmortemEnded
    <2>1. pc' \in {"stop", "log_advance"} /\ pc # "down"
      BY <1>12 DEF LogPostmortemEnded, StartAdvance
    <2>2. UNCHANGED <<startVars, fired>>
      BY <1>12 DEF LogPostmortemEnded
    <2>. QED  BY <2>1, <2>2
  <1>13. CASE BroadcastDone
    BY <1>13 DEF BroadcastDone
  <1>14. CASE DrainRunners
    BY <1>14 DEF DrainRunners
  <1>15. CASE LogComplete
    BY <1>15 DEF LogComplete
  <1>16. ASSUME NEW a \in Agents, LaunchRunner(a) PROVE EventsInv'
    BY <1>16 DEF LaunchRunner
  <1>17. ASSUME NEW a \in Agents, LogBriefing(a) PROVE EventsInv'
    BY <1>17 DEF LogBriefing, AfterBriefing
  <1>18. ASSUME NEW a \in Agents, PushPostmortem(a) \/ LogPostmortem(a) PROVE EventsInv'
    BY <1>18 DEF PushPostmortem, LogPostmortem
  <1>19. CASE AgentStep
    <2>1. UNCHANGED <<pc, round, startVars, fired>>
      BY <1>19 DEF AgentStep, TakeNotice, LogRead, Park, Wake, SendMessage, Return, MarkFinished
    <2>. QED  BY <2>1
  <1>20. CASE Tick
    BY <1>20 DEF Tick
  <1>21. CASE Crash
    BY <1>21 DEF Crash
  <1>22. CASE Resume
    BY <1>22 DEF Resume
  <1>23. CASE UNCHANGED vars
    BY <1>23 DEF vars
  <1>. QED
    BY <1>1, <1>2, <1>3, <1>4, <1>5, <1>6, <1>7, <1>8, <1>9, <1>10, <1>11, <1>12, <1>13,
       <1>14, <1>15, <1>16, <1>17, <1>18, <1>19, <1>20, <1>21, <1>22, <1>23 DEF Next, ClockStep

\* Each scheduled event of a round has fired, and been recorded, exactly once
\* when the round is played, wherever the run was stopped and resumed.
THEOREM EventsAlwaysFireOnce == Spec => []EventsFireOnce
  <1>1. Inv1 => EventsFireOnce
    BY DEF Inv1, EventsInv, EventsFireOnce, Playing, AllFired
  <1>2. Inv1 /\ [Next]_vars => Inv1'
    BY TypeStep, EventsStep DEF Inv1
  <1>. QED  BY <1>1, <1>2, InitInv1, PTL DEF Spec

-----------------------------------------------------------------------------
(* The end of a phase *)

\* A parked agent has nothing queued, and a session marked finished belongs to a
\* runner that has returned.
IdleInv ==
    \A a \in Agents :
        /\ seat[a] \in Parked => inbox[a] = {}
        /\ finished[a] => seat[a] = "gone"

LEMMA IdleStep == TypeOK /\ IdleInv /\ [Next]_vars => IdleInv'
  <1>. SUFFICES ASSUME TypeOK, IdleInv, [Next]_vars, NEW a \in Agents
                PROVE  /\ seat'[a] \in Parked => inbox'[a] = {}
                       /\ finished'[a] => seat'[a] = "gone"
    BY DEF IdleInv
  <1>. USE DEF IdleInv, Parked, TypeOK, seatVars
  <1>. DEFINE Kept == /\ seat'[a] \in Parked => inbox'[a] = {}
                      /\ finished'[a] => seat'[a] = "gone"
  <1>1. CASE UNCHANGED seatVars
    BY <1>1
  <1>2. CASE DispatchEvent
    BY <1>2 DEF DispatchEvent, PushDone
  <1>3. CASE InstallSwap
    BY <1>3 DEF InstallSwap
  <1>4. CASE DeliverBriefings
    BY <1>4 DEF DeliverBriefings, Push
  <1>5. CASE BroadcastDone
    BY <1>5 DEF BroadcastDone, PushDone
  <1>6. CASE DrainRunners
    BY <1>6 DEF DrainRunners
  <1>7. ASSUME NEW b \in Agents, LaunchRunner(b) PROVE Kept
    BY <1>7 DEF LaunchRunner
  <1>8. ASSUME NEW b \in Agents, PushPostmortem(b) PROVE Kept
    BY <1>8 DEF PushPostmortem, Push
  <1>9. ASSUME NEW b \in Agents, TakeNotice(b) PROVE Kept
    BY <1>9 DEF TakeNotice
  <1>10. ASSUME NEW b \in Agents, LogRead(b) PROVE Kept
    BY <1>10 DEF LogRead
  <1>11. ASSUME NEW b \in Agents, NEW how \in Parked, Park(b, how) PROVE Kept
    BY <1>11 DEF Park
  <1>12. ASSUME NEW b \in Agents, Wake(b) PROVE Kept
    BY <1>12 DEF Wake
  <1>13. ASSUME NEW b \in Agents, Return(b) PROVE Kept
    BY <1>13 DEF Return
  <1>14. ASSUME NEW b \in Agents, MarkFinished(b) PROVE Kept
    BY <1>14 DEF MarkFinished
  <1>15. CASE Crash
    BY <1>15 DEF Crash
  <1>16. ASSUME ~DispatchEvent, ~InstallSwap, ~DeliverBriefings, ~BroadcastDone, ~DrainRunners,
                ~Crash, ClockStep \/ Tick \/ Resume \/ UNCHANGED vars,
                \A b \in Agents : ~LaunchRunner(b) /\ ~PushPostmortem(b)
         PROVE  UNCHANGED seatVars
    BY <1>16 DEF ClockStep, Tick, Resume, vars, LogRoundAdvanced, LogEvent, EndBoundary, EndPhase,
                 PollFinished, LogRoundEnded, JudgeRound, LogPostmortemStarted,
                 LogPostmortemEnded, LogComplete, LogBriefing, LogPostmortem
  <1>17. ASSUME NEW b \in Agents, SendMessage(b) PROVE UNCHANGED seatVars
    BY <1>17 DEF SendMessage
  <1>. QED
    BY <1>1, <1>2, <1>3, <1>4, <1>5, <1>6, <1>7, <1>8, <1>9, <1>10, <1>11, <1>12, <1>13,
       <1>14, <1>15, <1>16, <1>17 DEF Next, AgentStep

\* A phase that ends because the agents are idle or waiting ends with every
\* agent whose runner goes on parked and with no injection unread.
THEOREM IdleEndsAlwaysBriefed == Spec => IdleEndsBriefed
  <1>1. Init => TypeOK /\ IdleInv
    <2>1. Init => IdleInv
      BY DEF Init, IdleInv, Parked
    <2>. QED  BY <2>1, InitInv1 DEF Inv1, TypeInv
  <1>2. ASSUME TypeOK, IdleInv, [Next]_vars, PhaseEnds, NEW a \in Agents, seat[a] # "gone",
               trigger' \in {"all_agents_idle", "all_agents_waiting", "all_agents_finished"}
        PROVE  seat[a] \in Parked /\ inbox[a] = {}
    <2>1. EndPhase
      <3>. USE DEF PhaseEnds, clockVars
      <3>1. ~(UNCHANGED vars) /\ ~AgentStep /\ ~Tick /\ ~Crash /\ ~Resume
        BY <1>2 DEF vars, AgentStep, TakeNotice, LogRead, Park, Wake, SendMessage, Return,
                    MarkFinished, Tick, Crash, Resume
      <3>2. \A b \in Agents : /\ ~LaunchRunner(b) /\ ~LogBriefing(b)
                              /\ ~PushPostmortem(b) /\ ~LogPostmortem(b)
        BY <1>2 DEF LaunchRunner, LogBriefing, PushPostmortem, LogPostmortem
      <3>3. EndPhase \/ PollFinished
        BY <1>2, <3>1, <3>2
           DEF Next, ClockStep, LogRoundAdvanced, DispatchEvent, InstallSwap, LogEvent, EndBoundary,
               DeliverBriefings, LogRoundEnded, JudgeRound, LogPostmortemStarted,
               LogPostmortemEnded, BroadcastDone, DrainRunners, LogComplete
      <3>. QED  BY <1>2, <3>3 DEF PollFinished
    <2>2. PICK t \in Triggers : /\ ClockEnds(t) \/ t = "scenario"
                              /\ trigger' = t
      BY <2>1 DEF EndPhase
    <2>3. WaitingEnds \/ IdleEnds
      BY <1>2, <2>2 DEF ClockEnds
    <2>4. ~finished[a]
      BY <1>2 DEF IdleInv
    <2>5. seat[a] \in Parked
      BY <2>3, <2>4 DEF WaitingEnds, IdleEnds, ParkedForGood, AllIdle, Live
    <2>. QED  BY <2>5, <1>2 DEF IdleInv
  <1>3. TypeOK /\ IdleInv /\ [Next]_vars
          => [PhaseEnds /\ trigger' \in {"all_agents_idle", "all_agents_waiting", "all_agents_finished"} =>
                 \A a \in Agents : seat[a] # "gone" => seat[a] \in Parked /\ inbox[a] = {}]_vars
    BY <1>2
  <1>. QED  BY <1>1, <1>3, IdleStep, TypeAlways, PTL DEF Spec, IdleEndsBriefed

-----------------------------------------------------------------------------
(* The log implements RoundLifecycle *)

Opened == {"launch", "boundary", "swap", "log_event", "brief", "log_brief", "poll", "log_end"}

\* The guards of the abstract End and Complete.
Endable   == \/ lastEvent.kind = "advanced"
             \/ Lifecycle!Reopenable /\ lastEvent.kind # "complete"
Closeable == \/ lastEvent.kind \in {"ended", "postmortem_ended"} /\ lastEvent.round = MaxRounds
             \/ FinishesEarly /\ lastEvent.kind \in {"advanced", "ended", "postmortem_started"}
             \/ FinishesEarly /\ Lifecycle!Reopenable /\ lastEvent.kind # "complete"

\* A fork never goes back to a round of its source.
SourceInv ==
    SourceRounds > 0 =>
        /\ pc # "down" => round > SourceRounds
        /\ \/ lastEvent.round > SourceRounds
           \/ lastEvent.round = SourceRounds /\ lastEvent.kind \in {"ended", "postmortem_ended"}

\* What the log's last event is, at each place of the clock.
LogInv ==
    /\ pc = "log_advance" => /\ lastEvent.kind \in {"none", "ended", "postmortem_ended"}
                             /\ round = lastEvent.round + 1
    /\ pc \in Opened /\ ~inPostmortem => round = lastEvent.round /\ Endable
    /\ pc = "poll" /\ inPostmortem => lastEvent = Lifecycle!Ev("postmortem_started", round)
    /\ pc \in {"debrief", "log_postmortem_end"}
          => lastEvent = Lifecycle!Ev("postmortem_started", round)
    /\ pc \in {"judge", "log_postmortem"} => lastEvent = Lifecycle!Ev("ended", round)
    /\ pc \in {"stop", "drain", "log_complete"} => round = lastEvent.round /\ Closeable
    /\ pc = "over" => lastEvent.kind = "complete"
    /\ pc = "down" => MaxCrashes > 0 /\ lastEvent.kind # "complete"

\* The clock is in a postmortem from the verdict on a round to the end of it.
PostmortemInv ==
    /\ pc \in {"log_postmortem", "debrief"} => inPostmortem
    /\ inPostmortem => pc \in {"log_postmortem", "debrief", "poll", "stop", "drain",
                               "log_complete", "over"}

LifeInv == SourceInv /\ LogInv /\ PostmortemInv

LEMMA InitLifeInv == Init => LifeInv
  <1>. SUFFICES ASSUME Init PROVE LifeInv
    OBVIOUS
  <1>1. /\ lastEvent.round = SourceRounds
        /\ \/ lastEvent.kind = "none" /\ SourceRounds = 0
           \/ lastEvent.kind \in {"ended", "postmortem_ended"}
    BY DEF Init, Lifecycle!Init, Lifecycle!Ev
  <1>2. SourceInv
    BY <1>1, RoundFacts DEF Init, SourceInv
  <1>3. LogInv
    BY <1>1 DEF Init, LogInv, Opened
  <1>4. PostmortemInv
    BY DEF Init, PostmortemInv
  <1>. QED  BY <1>2, <1>3, <1>4 DEF LifeInv

\* Only LogComplete writes the closing event.
LEMMA CompleteOnlyAtEnd ==
    ASSUME TypeOK, LogInv, PostmortemInv, pc # "over"
    PROVE  lastEvent.kind # "complete"
  <1>1. lastEvent = Lifecycle!Ev("postmortem_started", round) => lastEvent.kind = "postmortem_started"
    BY DEF Lifecycle!Ev
  <1>2. lastEvent = Lifecycle!Ev("ended", round) => lastEvent.kind = "ended"
    BY DEF Lifecycle!Ev
  <1>3. pc \in PCs /\ inPostmortem \in BOOLEAN
    BY DEF TypeOK
  <1>4. CASE pc \in Opened
    BY <1>1, <1>3, <1>4 DEF LogInv, PostmortemInv, Endable, Opened
  <1>. QED  BY <1>1, <1>2, <1>3, <1>4 DEF LogInv, PCs, Opened, Closeable

\* Each step keeps the invariant and is a step of RoundLifecycle, or none.
LEMMA LifeStep ==
    TypeOK /\ LifeInv /\ [Next]_vars => LifeInv' /\ [Lifecycle!Next]_lastEvent
  <1>. SUFFICES ASSUME TypeOK, LifeInv, [Next]_vars
                PROVE  LifeInv' /\ [Lifecycle!Next]_lastEvent
    OBVIOUS
  <1>0. /\ MaxRounds \in Nat \ {0} /\ SourceRounds \in Nat /\ SourceRounds < MaxRounds
        /\ round \in Nat /\ round <= MaxRounds
        /\ lastEvent.round \in Nat /\ lastEvent.round <= MaxRounds
        /\ lastEvent \in Lifecycle!LifecycleEvents
        /\ inPostmortem \in BOOLEAN
    BY RoundFacts DEF TypeOK, Lifecycle!LifecycleEvents
  <1>. USE <1>0 DEF LifeInv, SourceInv, LogInv, PostmortemInv, Opened
  <1>1. CASE LogRoundAdvanced
    <2>1. Lifecycle!Open
      BY <1>1 DEF LogRoundAdvanced, Lifecycle!Open, Lifecycle!Ev
    <2>2. LifeInv'
      BY <1>1 DEF LogRoundAdvanced, Endable, Lifecycle!Ev
    <2>. QED  BY <2>1, <2>2 DEF Lifecycle!Next
  <1>. DEFINE Goal == LifeInv' /\ [Lifecycle!Next]_lastEvent
  <1>2. ASSUME UNCHANGED <<pc, round, inPostmortem, lastEvent>> PROVE Goal
    BY <1>2 DEF Endable, Closeable, Lifecycle!Reopenable
  <1>3. ASSUME UNCHANGED <<round, inPostmortem, lastEvent>>, pc \in Opened \ {"poll"},
               pc' \in Opened
        PROVE  Goal
    BY <1>3 DEF Endable, Lifecycle!Reopenable
  <1>4. CASE DispatchEvent \/ InstallSwap \/ LogEvent \/ EndBoundary \/ DeliverBriefings
    <2>1. UNCHANGED <<round, inPostmortem, lastEvent>> /\ pc \in Opened \ {"poll"} /\ pc' \in Opened
      BY <1>4 DEF DispatchEvent, InstallSwap, LogEvent, EndBoundary, DeliverBriefings, AfterBriefing,
                  logVars
    <2>. QED  BY <2>1, <1>3
  <1>5. ASSUME NEW a \in Agents, LaunchRunner(a) \/ LogBriefing(a) PROVE Goal
    <2>1. UNCHANGED <<round, inPostmortem, lastEvent>> /\ pc \in Opened \ {"poll"} /\ pc' \in Opened
      BY <1>5 DEF LaunchRunner, LogBriefing, AfterBriefing, logVars
    <2>. QED  BY <2>1, <1>3
  <1>6. CASE EndPhase
    <2>1. /\ pc = "poll" /\ ~inPostmortem'
          /\ pc' = IF inPostmortem THEN "log_postmortem_end" ELSE "log_end"
          /\ UNCHANGED <<round, lastEvent>>
      BY <1>6 DEF EndPhase, logVars
    <2>. QED  BY <2>1 DEF Endable, Lifecycle!Reopenable
  <1>7. CASE PollFinished
    <2>1. pc = "poll" /\ FinishesEarly /\ pc' = "stop" /\ UNCHANGED <<round, inPostmortem, lastEvent>>
      BY <1>7 DEF PollFinished, logVars
    <2>2. round = lastEvent.round /\ Closeable
      BY <2>1 DEF Closeable, Endable, Lifecycle!Ev
    <2>. QED  BY <2>1, <2>2 DEF Closeable, Lifecycle!Reopenable
  <1>8. CASE LogRoundEnded
    <2>1. /\ pc = "log_end" /\ pc' = "judge" /\ UNCHANGED <<round, inPostmortem>>
          /\ lastEvent' = Lifecycle!Ev("ended", round)
      BY <1>8 DEF LogRoundEnded
    <2>2. Lifecycle!End
      BY <2>1 DEF Lifecycle!End, Endable
    <2>. QED  BY <2>1, <2>2 DEF Lifecycle!Next, Lifecycle!Ev
  <1>9. CASE JudgeRound
    <2>1. pc = "judge" /\ UNCHANGED lastEvent /\ lastEvent = Lifecycle!Ev("ended", round)
      BY <1>9 DEF JudgeRound, logVars
    <2>2. \/ pc' = "log_postmortem" /\ inPostmortem' /\ round' = round
          \/ /\ pc' = "stop" /\ UNCHANGED <<round, inPostmortem>>
             /\ round >= MaxRounds \/ FinishesEarly
          \/ pc' = "log_advance" /\ round' = round + 1 /\ UNCHANGED inPostmortem
      BY <1>9 DEF JudgeRound, StartAdvance
    <2>3. ~inPostmortem
      BY <2>1
    <2>4. CASE pc' = "log_postmortem" /\ inPostmortem' /\ round' = round
      BY <2>1, <2>4
    <2>5. CASE pc' = "stop" /\ UNCHANGED <<round, inPostmortem>> /\ (round >= MaxRounds \/ FinishesEarly)
      BY <2>1, <2>3, <2>5 DEF Closeable, Lifecycle!Ev
    <2>6. CASE pc' = "log_advance" /\ round' = round + 1 /\ UNCHANGED inPostmortem
      BY <2>1, <2>3, <2>6 DEF Lifecycle!Ev
    <2>. QED  BY <2>2, <2>4, <2>5, <2>6
  <1>10. CASE LogPostmortemStarted
    <2>1. /\ pc = "log_postmortem" /\ pc' = "debrief" /\ UNCHANGED <<round, inPostmortem>>
          /\ lastEvent' = Lifecycle!Ev("postmortem_started", round)
      BY <1>10 DEF LogPostmortemStarted
    <2>2. Lifecycle!StartPostmortem
      BY <2>1 DEF Lifecycle!StartPostmortem, Lifecycle!Ev
    <2>. QED  BY <2>1, <2>2 DEF Lifecycle!Next, Lifecycle!Ev
  <1>11. ASSUME NEW a \in Agents, PushPostmortem(a) PROVE Goal
    BY <1>2, <1>11 DEF PushPostmortem, clockVars, logVars
  <1>12. ASSUME NEW a \in Agents, LogPostmortem(a) PROVE Goal
    BY <1>12 DEF LogPostmortem
  <1>13. CASE LogPostmortemEnded
    <2>1. /\ pc = "log_postmortem_end" /\ UNCHANGED inPostmortem /\ ~inPostmortem
          /\ lastEvent' = Lifecycle!Ev("postmortem_ended", round)
      BY <1>13 DEF LogPostmortemEnded
    <2>2. \/ pc' = "stop" /\ round' = round /\ round >= MaxRounds
          \/ pc' = "log_advance" /\ round' = round + 1
      BY <1>13 DEF LogPostmortemEnded, StartAdvance
    <2>3. Lifecycle!EndPostmortem
      BY <2>1 DEF Lifecycle!EndPostmortem, Lifecycle!Ev
    <2>. QED  BY <2>1, <2>2, <2>3 DEF Lifecycle!Next, Lifecycle!Ev, Closeable
  <1>14. CASE BroadcastDone \/ DrainRunners
    <2>1. /\ pc \in {"stop", "drain"} /\ pc' \in {"drain", "log_complete"}
          /\ UNCHANGED <<round, inPostmortem, lastEvent>>
      BY <1>14 DEF BroadcastDone, DrainRunners, logVars
    <2>. QED  BY <2>1 DEF Closeable, Lifecycle!Reopenable
  <1>15. CASE LogComplete
    <2>1. /\ pc = "log_complete" /\ pc' = "over" /\ UNCHANGED <<round, inPostmortem>>
          /\ lastEvent' = Lifecycle!Ev("complete", round)
      BY <1>15 DEF LogComplete
    <2>2. Lifecycle!Complete
      BY <2>1 DEF Lifecycle!Complete, Closeable
    <2>. QED  BY <2>1, <2>2 DEF Lifecycle!Next, Lifecycle!Ev
  <1>16. CASE AgentStep
    <2>1. UNCHANGED <<pc, round, inPostmortem, lastEvent>>
      BY <1>16 DEF AgentStep, TakeNotice, LogRead, Park, Wake, SendMessage, Return, MarkFinished,
                   clockVars, logVars
    <2>. QED  BY <2>1, <1>2
  <1>17. CASE Tick \/ UNCHANGED vars
    <2>1. UNCHANGED <<pc, round, inPostmortem, lastEvent>>
      BY <1>17 DEF Tick, vars, clockVars, logVars
    <2>. QED  BY <2>1, <1>2
  <1>18. CASE Crash
    <2>1. pc' = "down" /\ ~inPostmortem' /\ UNCHANGED lastEvent /\ pc # "over"
      BY <1>18 DEF Crash, logVars
    <2>2. MaxCrashes > 0
      BY <1>18, ConfigAssumption DEF Crash, TypeOK
    <2>. QED  BY <2>1, <2>2, CompleteOnlyAtEnd
  <1>19. CASE Resume
    <2>1. pc = "down" /\ UNCHANGED <<inPostmortem, lastEvent>>
      BY <1>19 DEF Resume, logVars
    <2>2. CASE EntersByAdvancing
      <3>1. pc' = "log_advance" /\ round' = lastEvent.round + 1
        BY <1>19, <2>2 DEF Resume
      <3>. QED  BY <2>1, <2>2, <3>1 DEF EntersByAdvancing
    <2>3. CASE ~EntersByAdvancing
      <3>1. pc' = "launch" /\ round' = lastEvent.round
        BY <1>19, <2>3 DEF Resume
      <3>2. Lifecycle!Reopenable /\ lastEvent.kind # "complete"
        BY <2>1, <2>3 DEF EntersByAdvancing, Lifecycle!Reopenable
      <3>. QED  BY <2>1, <2>3, <3>1, <3>2 DEF Endable, EntersByAdvancing, Lifecycle!Reopenable
    <2>. QED  BY <2>2, <2>3
  <1>. QED
    BY <1>1, <1>4, <1>5, <1>6, <1>7, <1>8, <1>9, <1>10, <1>11, <1>12, <1>13, <1>14, <1>15,
       <1>16, <1>17, <1>18, <1>19 DEF Next, ClockStep

\* The log keeps the order of events its readers rely on: rounds are opened one
\* by one and each is closed, by a verdict, before the next; a postmortem follows
\* its round's end; nothing follows the close of the run. Only a restart repeats
\* a round, and never one a fork inherited.
THEOREM LifecycleAlwaysKept == Spec => LifecycleKept
  <1>1. Init => Lifecycle!Init
    BY DEF Init
  <1>2. Init => TypeOK /\ LifeInv
    BY InitInv1, InitLifeInv DEF Inv1, TypeInv
  <1>. QED
    BY <1>1, <1>2, LifeStep, TypeAlways, PTL DEF Spec, LifecycleKept, Lifecycle!Spec

-----------------------------------------------------------------------------
(* The world's phase *)

Launched == {"poll", "log_end", "judge", "log_postmortem", "debrief"}

\* The world is in its postmortem when the clock is, from the first briefing of a
\* process on; the runners are launched before that.
PhaseInv ==
    /\ pc = "poll" => worldOpen = inPostmortem
    /\ pc = "debrief" => worldOpen
    /\ pc \in {"launch", "log_brief", "down"} => ~worldOpen
    /\ Unlaunched => ~worldOpen
    /\ pc \in Launched => ~Unlaunched

\* Only a stop of the process takes the runners away.
LEMMA StaysLaunched ==
    ASSUME TypeOK, [Next]_vars, ~Crash, Unlaunched'
    PROVE  Unlaunched /\ \A a \in Agents : ~LaunchRunner(a)
  <1>. USE DEF Unlaunched, TypeOK, Seats, Parked, seatVars
  <1>1. ASSUME NEW a \in Agents, LaunchRunner(a) PROVE FALSE
    BY <1>1 DEF LaunchRunner
  <1>2. CASE UNCHANGED seat
    BY <1>1, <1>2
  <1>3. CASE DispatchEvent \/ BroadcastDone
    BY <1>1, <1>3 DEF DispatchEvent, BroadcastDone, PushDone
  <1>4. CASE InstallSwap
    BY <1>1, <1>4 DEF InstallSwap
  <1>5. CASE DeliverBriefings
    BY <1>1, <1>5 DEF DeliverBriefings, Push
  <1>6. ASSUME NEW b \in Agents, PushPostmortem(b) PROVE Unlaunched
    BY <1>6 DEF PushPostmortem, Push
  <1>7. CASE DrainRunners
    BY <1>1, <1>7 DEF DrainRunners
  <1>8. CASE AgentStep
    <2>1. \A a \in Agents : seat'[a] = "absent" => seat[a] = "absent"
      BY <1>8 DEF AgentStep, TakeNotice, LogRead, Park, Wake, SendMessage, Return, MarkFinished
    <2>. QED  BY <1>1, <2>1
  <1>9. ASSUME NEW b \in Agents, LogBriefing(b) \/ LogPostmortem(b) PROVE UNCHANGED seat
    BY <1>9 DEF LogBriefing, LogPostmortem
  <1>10. ASSUME \/ LogRoundAdvanced \/ LogEvent \/ EndBoundary \/ EndPhase \/ PollFinished
                \/ LogRoundEnded \/ JudgeRound \/ LogPostmortemStarted \/ LogPostmortemEnded
                \/ LogComplete \/ Tick \/ Resume \/ UNCHANGED vars
         PROVE  UNCHANGED seat
    BY <1>10 DEF LogRoundAdvanced, LogEvent, EndBoundary, EndPhase, PollFinished, LogRoundEnded,
                 JudgeRound, LogPostmortemStarted, LogPostmortemEnded, LogComplete, Tick, Resume, vars
  <1>. QED
    BY <1>1, <1>2, <1>3, <1>4, <1>5, <1>6, <1>7, <1>8, <1>9, <1>10 DEF Next, ClockStep

LEMMA PhaseStep == TypeOK /\ PostmortemInv /\ PhaseInv /\ [Next]_vars => PhaseInv'
  <1>. SUFFICES ASSUME TypeOK, PostmortemInv, PhaseInv, [Next]_vars PROVE PhaseInv'
    OBVIOUS
  <1>0. inPostmortem \in BOOLEAN /\ worldOpen \in BOOLEAN
    BY DEF TypeOK
  <1>. USE <1>0 DEF PhaseInv, PostmortemInv, Launched
  <1>1. CASE Crash
    BY <1>1 DEF Crash
  <1>2. CASE UNCHANGED <<pc, inPostmortem, worldOpen>>
    BY <1>1, <1>2, StaysLaunched
  <1>3. CASE LogRoundAdvanced
    BY <1>3 DEF LogRoundAdvanced, seatVars, Unlaunched
  <1>4. ASSUME NEW a \in Agents, LaunchRunner(a) PROVE PhaseInv'
    <2>1. /\ UNCHANGED <<inPostmortem, worldOpen>> /\ pc = "launch"
          /\ pc' \in {"launch", "boundary", "poll"}
      BY <1>4 DEF LaunchRunner
    <2>2. ~Unlaunched'
      BY <1>4 DEF LaunchRunner, Unlaunched, TypeOK
    <2>. QED  BY <2>1, <2>2
  <1>5. CASE DispatchEvent \/ InstallSwap \/ LogEvent \/ EndBoundary
    <2>1. /\ UNCHANGED worldOpen /\ pc' \in {"swap", "log_event", "boundary", "brief"}
          /\ ~Crash
      BY <1>5 DEF DispatchEvent, InstallSwap, LogEvent, EndBoundary, Crash
    <2>. QED  BY <2>1, StaysLaunched
  <1>6. CASE DeliverBriefings
    <2>1. /\ worldOpen' = FALSE /\ UNCHANGED inPostmortem /\ pc = "brief"
          /\ pc' \in {"log_brief", "launch", "poll"} /\ (pc' = "poll" => ~Unlaunched) /\ ~Crash
      BY <1>6 DEF DeliverBriefings, AfterBriefing, Crash
    <2>2. inPostmortem' = FALSE
      BY <2>1
    <2>. QED  BY <2>1, <2>2, StaysLaunched
  <1>7. ASSUME NEW a \in Agents, LogBriefing(a) PROVE PhaseInv'
    <2>1. /\ UNCHANGED <<worldOpen, inPostmortem, seat>> /\ pc = "log_brief"
          /\ pc' \in {"log_brief", "launch", "poll"} /\ (pc' = "poll" => ~Unlaunched)
      BY <1>7 DEF LogBriefing, AfterBriefing, seatVars
    <2>. QED  BY <2>1 DEF Unlaunched
  <1>8. CASE EndPhase \/ PollFinished \/ LogRoundEnded
    <2>1. /\ UNCHANGED <<worldOpen, seat>> /\ pc \in Launched
          /\ pc' \in {"log_end", "log_postmortem_end", "stop", "judge"}
      BY <1>8 DEF EndPhase, PollFinished, LogRoundEnded, seatVars
    <2>. QED  BY <2>1 DEF Unlaunched
  <1>9. CASE JudgeRound
    <2>1. /\ UNCHANGED <<worldOpen, seat>> /\ pc = "judge"
          /\ pc' \in {"log_postmortem", "stop", "log_advance"}
      BY <1>9 DEF JudgeRound, StartAdvance, seatVars
    <2>. QED  BY <2>1 DEF Unlaunched
  <1>10. CASE LogPostmortemStarted
    <2>1. worldOpen' /\ UNCHANGED seat /\ pc = "log_postmortem" /\ pc' = "debrief"
      BY <1>10 DEF LogPostmortemStarted, seatVars
    <2>. QED  BY <2>1 DEF Unlaunched
  <1>11. ASSUME NEW a \in Agents, PushPostmortem(a) PROVE PhaseInv'
    BY <1>1, <1>2, <1>11 DEF PushPostmortem, clockVars
  <1>12. ASSUME NEW a \in Agents, LogPostmortem(a) PROVE PhaseInv'
    <2>1. /\ UNCHANGED <<worldOpen, inPostmortem, seat>> /\ pc = "debrief"
          /\ pc' \in {"debrief", "poll"}
      BY <1>12 DEF LogPostmortem, seatVars
    <2>. QED  BY <2>1 DEF Unlaunched
  <1>13. CASE LogPostmortemEnded \/ LogComplete
    <2>1. /\ UNCHANGED <<worldOpen, seat>> /\ pc' \in {"stop", "log_advance", "over"}
      BY <1>13 DEF LogPostmortemEnded, LogComplete, StartAdvance, seatVars
    <2>. QED  BY <2>1 DEF Unlaunched
  <1>14. CASE BroadcastDone \/ DrainRunners
    <2>1. UNCHANGED worldOpen /\ pc' \in {"drain", "log_complete"} /\ ~Crash
      BY <1>14 DEF BroadcastDone, DrainRunners, Crash
    <2>. QED  BY <2>1, StaysLaunched
  <1>15. CASE AgentStep \/ Tick \/ UNCHANGED vars
    <2>1. UNCHANGED <<pc, inPostmortem, worldOpen>>
      BY <1>15 DEF AgentStep, TakeNotice, LogRead, Park, Wake, SendMessage, Return, MarkFinished,
                   Tick, vars, clockVars
    <2>. QED  BY <2>1, <1>2
  <1>16. CASE Resume
    <2>1. UNCHANGED <<worldOpen, seat>> /\ pc' \in {"log_advance", "launch"} /\ ~worldOpen
      BY <1>16 DEF Resume, seatVars
    <2>. QED  BY <2>1 DEF Unlaunched
  <1>. QED
    BY <1>1, <1>3, <1>4, <1>5, <1>6, <1>7, <1>8, <1>9, <1>10, <1>11, <1>12, <1>13, <1>14,
       <1>15, <1>16 DEF Next, ClockStep

\* When the clock polls, the world's phase is the clock's, whatever was resumed,
\* swapped or closed on the way.
THEOREM PhaseAlwaysAgrees == Spec => []PhaseAgreement
  <1>1. Init => TypeOK /\ LifeInv /\ PhaseInv
    <2>1. Init => PhaseInv
      BY DEF Init, PhaseInv, Launched
    <2>. QED  BY <2>1, InitInv1, InitLifeInv DEF Inv1, TypeInv
  <1>2. LifeInv => PostmortemInv
    BY DEF LifeInv
  <1>3. PhaseInv => PhaseAgreement
    BY DEF PhaseInv, PhaseAgreement
  <1>. QED  BY <1>1, <1>2, <1>3, LifeStep, PhaseStep, TypeAlways, PTL DEF Spec

-----------------------------------------------------------------------------
(* The end of the log *)

\* Once drained, no runner is left, and none has a result to log.
DrainedInv ==
    pc \in {"log_complete", "over"} => \A a \in Agents : seat[a] = "gone" /\ unlogged[a] = {}

LEMMA DrainedStep == TypeOK /\ DrainedInv /\ [Next]_vars => DrainedInv'
  <1>. SUFFICES ASSUME TypeOK, DrainedInv, [Next]_vars, pc' \in {"log_complete", "over"},
                       NEW a \in Agents
                PROVE  seat'[a] = "gone" /\ unlogged'[a] = {}
    BY DEF DrainedInv
  <1>1. CASE DrainRunners
    BY <1>1 DEF DrainRunners
  <1>2. CASE LogComplete
    BY <1>2 DEF LogComplete, DrainedInv, seatVars
  <1>3. CASE AgentStep \/ Tick \/ UNCHANGED vars
    <2>1. pc \in {"log_complete", "over"}
      BY <1>3 DEF AgentStep, TakeNotice, LogRead, Park, Wake, SendMessage, Return, MarkFinished,
                  Tick, vars, clockVars
    <2>2. \A b \in Agents : seat[b] = "gone" /\ unlogged[b] = {}
      BY <2>1 DEF DrainedInv
    <2>3. UNCHANGED <<seat, unlogged>>
      BY <1>3, <2>2 DEF AgentStep, TakeNotice, LogRead, Park, Wake, SendMessage, Return,
                        MarkFinished, Parked, Tick, vars, seatVars
    <2>. QED  BY <2>2, <2>3
  <1>4. ASSUME NEW b \in Agents,
               LaunchRunner(b) \/ LogBriefing(b) \/ PushPostmortem(b) \/ LogPostmortem(b)
        PROVE  FALSE
    BY <1>4 DEF LaunchRunner, LogBriefing, PushPostmortem, LogPostmortem, AfterBriefing, clockVars
  <1>. QED
    BY <1>1, <1>2, <1>3, <1>4
       DEF Next, ClockStep, LogRoundAdvanced, DispatchEvent, InstallSwap, LogEvent, EndBoundary,
           DeliverBriefings, AfterBriefing, EndPhase, PollFinished, LogRoundEnded, JudgeRound,
           LogPostmortemStarted, LogPostmortemEnded, StartAdvance, BroadcastDone, Crash, Resume

\* SimulationEnded is the last word of the log of a completed run.
THEOREM NothingIsLoggedAfterEnd == Spec => NothingAfterEnd
  <1>1. Init => TypeOK /\ LifeInv /\ DrainedInv
    <2>1. Init => DrainedInv
      BY DEF Init, DrainedInv
    <2>. QED  BY <2>1, InitInv1, InitLifeInv DEF Inv1, TypeInv
  <1>2. TypeOK /\ LifeInv /\ DrainedInv /\ [Next]_vars => [lastEvent.kind # "complete"]_logVars
    <2>. SUFFICES ASSUME TypeOK, LifeInv, DrainedInv, [Next]_vars, lastEvent.kind = "complete"
                  PROVE  UNCHANGED logVars
      OBVIOUS
    <2>1. pc = "over"
      BY CompleteOnlyAtEnd DEF LifeInv
    <2>2. \A a \in Agents : seat[a] = "gone" /\ unlogged[a] = {}
      BY <2>1 DEF DrainedInv
    <2>3. ~ClockStep /\ ~Crash /\ ~Resume
      BY <2>1 DEF ClockStep, LogRoundAdvanced, DispatchEvent, InstallSwap, LogEvent, EndBoundary,
                  DeliverBriefings, EndPhase, PollFinished, LogRoundEnded, JudgeRound,
                  LogPostmortemStarted, LogPostmortemEnded, BroadcastDone, DrainRunners,
                  LogComplete, LaunchRunner, LogBriefing, PushPostmortem, LogPostmortem,
                  Crash, Resume
    <2>4. AgentStep => UNCHANGED logVars
      BY <2>2 DEF AgentStep, TakeNotice, LogRead, Park, Wake, SendMessage, Return, MarkFinished,
                  Parked
    <2>. QED  BY <2>3, <2>4 DEF Next, Tick, vars
  <1>. QED
    BY <1>1, <1>2, LifeStep, DrainedStep, TypeAlways, PTL DEF Spec, NothingAfterEnd

-----------------------------------------------------------------------------
(* Briefings *)

\* a has, or has had and logged, what i stands for.
Got(a, i) == i \in inbox[a] \cup unlogged[a] \/ <<a, i>> \in read

Known(a) == inbox[a] \cup unlogged[a] \cup {i \in Injections : <<a, i>> \in read}

\* One result is under way at a time, and nobody knows of a later round than the
\* log's.
ReadInv ==
    \A a \in Agents :
        /\ \A i, j \in unlogged[a] : i = j
        /\ \A i \in Known(a) : i.round <= lastEvent.round

\* Injections are returned oldest first: a postmortem does not overtake the
\* briefing of its round, until the runners are gone.
OrderInv ==
    \A a \in Agents, r \in Rounds : <<a, r>> \in Briefings =>
        LET b == Injection("briefing", r)
            p == Injection("postmortem", r)
        IN  /\ p \in inbox[a] /\ pc \notin {"log_complete", "over"} => Got(a, b)
            /\ p \in unlogged[a] \/ <<a, p>> \in read => <<a, b>> \in read

\* What a resumed run counts as injected has been read.
CoverInv ==
    \A a \in Agents : \A r \in injected[a] :
        \E i \in Injections : i.round = r /\ <<a, i>> \in read

\* From its delivery on, a briefing is not lost.
HeldInv ==
    pc \in Launched \cup {"log_brief"} \/ (pc = "launch" /\ ~resuming) =>
        \A a \in Agents : <<a, round>> \in Briefings => Got(a, Injection("briefing", round))

BriefInv == ReadInv /\ OrderInv /\ CoverInv /\ HeldInv

LEMMA InitBriefInv == Init => BriefInv
  BY DEF Init, BriefInv, ReadInv, OrderInv, CoverInv, HeldInv, Known, Got, Launched

\* The rounds of the log do not go back.
LEMMA LastGrows ==
    ASSUME TypeOK, TypeOK', [Lifecycle!Next]_lastEvent
    PROVE  /\ lastEvent.round \in Nat /\ lastEvent'.round \in Nat
           /\ lastEvent.round <= lastEvent'.round
  <1>1. lastEvent.round \in Nat /\ lastEvent'.round \in Nat
    BY RoundFacts DEF TypeOK, Lifecycle!LifecycleEvents
  <1>. QED
    BY <1>1 DEF Lifecycle!Next, Lifecycle!Open, Lifecycle!End, Lifecycle!StartPostmortem,
                Lifecycle!EndPostmortem, Lifecycle!Complete, Lifecycle!Ev

\* While injections are sent the log is in the clock's round.
LEMMA SendRound ==
    ASSUME TypeOK, LifeInv, pc \in {"brief", "debrief"}
    PROVE  lastEvent.round = round
  BY DEF LifeInv, LogInv, PostmortemInv, Opened, Lifecycle!Ev, TypeOK

LEMMA ReadStep ==
    TypeInv /\ TypeInv' /\ LifeInv /\ ReadInv /\ [Next]_vars => ReadInv'
  <1>. SUFFICES ASSUME TypeOK, TypeOK', SendsInv, LifeInv, ReadInv, [Next]_vars, NEW a \in Agents
                PROVE  /\ \A i, j \in unlogged'[a] : i = j
                       /\ \A i \in Known(a)' : i.round <= lastEvent'.round
    BY DEF ReadInv, TypeInv
  <1>0. /\ lastEvent.round \in Nat /\ lastEvent'.round \in Nat
        /\ lastEvent.round <= lastEvent'.round
    BY LastGrows, LifeStep
  <1>a. \A i \in Injections : i.round \in Nat
    BY RoundFacts DEF Injections
  <1>b. Known(a) \subseteq Injections
    BY DEF Known, TypeOK
  <1>. DEFINE Kept == /\ \A i, j \in unlogged'[a] : i = j
                      /\ \A i \in Known(a)' : i.round <= lastEvent'.round
  <1>1. ASSUME Known(a)' \subseteq Known(a), \A i, j \in unlogged'[a] : i = j PROVE Kept
    BY <1>0, <1>1, <1>a, <1>b DEF ReadInv
  <1>2. ASSUME UNCHANGED <<inbox, unlogged, read>> PROVE Kept
    BY <1>1, <1>2 DEF Known, ReadInv
  <1>3. ASSUME NEW i, i.round = round, Known(a)' \subseteq Known(a) \cup {i},
               UNCHANGED <<unlogged, lastEvent>>, pc \in {"brief", "debrief"}
        PROVE  Kept
    BY <1>0, <1>3, <1>a, <1>b, SendRound DEF ReadInv
  <1>4. CASE DeliverBriefings
    <2>1. Known(a)' \subseteq Known(a) \cup {Injection("briefing", round)}
      BY <1>4 DEF DeliverBriefings, Push, Known, logVars
    <2>2. pc = "brief" /\ UNCHANGED <<unlogged, lastEvent>>
      BY <1>4 DEF DeliverBriefings, logVars
    <2>3. Injection("briefing", round).round = round
      BY DEF Injection
    <2>. QED  BY <1>3, <2>1, <2>2, <2>3
  <1>5. ASSUME NEW b \in Agents, PushPostmortem(b) PROVE Kept
    <2>1. Known(a)' \subseteq Known(a) \cup {Injection("postmortem", round)}
      BY <1>5 DEF PushPostmortem, Push, Known, logVars
    <2>2. pc = "debrief" /\ UNCHANGED <<unlogged, lastEvent>>
      BY <1>5 DEF PushPostmortem, logVars
    <2>3. Injection("postmortem", round).round = round
      BY DEF Injection
    <2>. QED  BY <1>3, <2>1, <2>2, <2>3
  <1>6. ASSUME NEW b \in Agents, TakeNotice(b) PROVE Kept
    <2>1. PICK i \in inbox[b] : /\ inbox' = [inbox EXCEPT ![b] = @ \ {i}]
                               /\ unlogged' = [unlogged EXCEPT ![b] = {i}]
      BY <1>6 DEF TakeNotice
    <2>2. UNCHANGED read
      BY <1>6 DEF TakeNotice, logVars
    <2>3. Known(a)' \subseteq Known(a)
      BY <2>1, <2>2 DEF Known, TypeOK
    <2>4. \A j, k \in unlogged'[a] : j = k
      BY <2>1 DEF TypeOK, ReadInv
    <2>. QED  BY <1>1, <2>3, <2>4
  <1>7. ASSUME NEW b \in Agents, LogRead(b) PROVE Kept
    <2>1. Known(a)' \subseteq Known(a)
      BY <1>7 DEF LogRead, Known, TypeOK
    <2>2. \A j, k \in unlogged'[a] : j = k
      BY <1>7 DEF LogRead, TypeOK, ReadInv
    <2>. QED  BY <1>1, <2>1, <2>2
  <1>8. CASE InstallSwap
    <2>1. Known(a)' \subseteq Known(a)
      BY <1>8 DEF InstallSwap, Known, TypeOK, logVars
    <2>2. \A j, k \in unlogged'[a] : j = k
      BY <1>8 DEF InstallSwap, TypeOK, ReadInv
    <2>. QED  BY <1>1, <2>1, <2>2
  <1>9. CASE DrainRunners
    BY <1>1, <1>9 DEF DrainRunners, Known, logVars
  <1>10. CASE Crash
    BY <1>1, <1>10 DEF Crash, Known, logVars
  <1>11. ASSUME NEW b \in Agents, LaunchRunner(b) \/ LogBriefing(b) \/ LogPostmortem(b) PROVE Kept
    BY <1>2, <1>11 DEF LaunchRunner, LogBriefing, LogPostmortem, seatVars, logVars
  <1>12. ASSUME NEW b \in Agents, \/ Wake(b) \/ SendMessage(b) \/ Return(b) \/ MarkFinished(b)
                                 \/ \E how \in Parked : Park(b, how)
         PROVE  Kept
    BY <1>2, <1>12 DEF Wake, SendMessage, Return, MarkFinished, Park, seatVars, logVars
  <1>13. ASSUME \/ LogRoundAdvanced \/ DispatchEvent \/ LogEvent \/ EndBoundary \/ EndPhase
                \/ PollFinished \/ LogRoundEnded \/ JudgeRound \/ LogPostmortemStarted
                \/ LogPostmortemEnded \/ BroadcastDone \/ LogComplete \/ Tick \/ Resume
                \/ UNCHANGED vars
         PROVE  UNCHANGED <<inbox, unlogged, read>>
    BY <1>13 DEF LogRoundAdvanced, DispatchEvent, LogEvent, EndBoundary, EndPhase, PollFinished,
                 LogRoundEnded, JudgeRound, LogPostmortemStarted, LogPostmortemEnded,
                 BroadcastDone, LogComplete, Tick, Resume, vars, seatVars, logVars
  <1>. QED
    BY <1>2, <1>4, <1>5, <1>6, <1>7, <1>8, <1>9, <1>10, <1>11, <1>12, <1>13
       DEF Next, ClockStep, AgentStep

\* What the log says was read, it keeps.
LEMMA ReadGrows ==
    ASSUME [Next]_vars
    PROVE  read \subseteq read'
  <1>1. ASSUME NEW a \in Agents,
               \/ LaunchRunner(a) \/ LogBriefing(a) \/ PushPostmortem(a) \/ LogPostmortem(a)
               \/ TakeNotice(a) \/ LogRead(a) \/ Wake(a) \/ SendMessage(a) \/ Return(a)
               \/ MarkFinished(a) \/ \E how \in Parked : Park(a, how)
        PROVE  read \subseteq read'
    BY <1>1 DEF LaunchRunner, LogBriefing, PushPostmortem, LogPostmortem, TakeNotice, LogRead,
                Wake, SendMessage, Return, MarkFinished, Park, logVars
  <1>. QED
    BY <1>1 DEF Next, ClockStep, AgentStep, LogRoundAdvanced, DispatchEvent, InstallSwap, LogEvent,
                EndBoundary, DeliverBriefings, EndPhase, PollFinished, LogRoundEnded, JudgeRound,
                LogPostmortemStarted, LogPostmortemEnded, BroadcastDone, DrainRunners, LogComplete,
                Tick, Crash, Resume, vars, logVars

LEMMA CoverStep == CoverInv /\ [Next]_vars => CoverInv'
  <1>. SUFFICES ASSUME CoverInv, [Next]_vars, NEW a \in Agents, NEW r \in injected'[a]
                PROVE  \E i \in Injections : i.round = r /\ <<a, i>> \in read'
    BY DEF CoverInv
  <1>1. CASE Resume
    <2>1. r \in CoveredBy(a)
      BY <1>1 DEF Resume
    <2>. QED  BY <2>1, ReadGrows DEF CoveredBy
  <1>2. CASE Crash
    BY <1>2 DEF Crash
  <1>3. CASE UNCHANGED injected
    BY <1>3, ReadGrows DEF CoverInv
  <1>4. ASSUME NEW b \in Agents,
               \/ LaunchRunner(b) \/ LogBriefing(b) \/ PushPostmortem(b) \/ LogPostmortem(b)
               \/ TakeNotice(b) \/ LogRead(b) \/ Wake(b) \/ SendMessage(b) \/ Return(b)
               \/ MarkFinished(b) \/ \E how \in Parked : Park(b, how)
        PROVE  UNCHANGED injected
    BY <1>4 DEF LaunchRunner, LogBriefing, PushPostmortem, LogPostmortem, TakeNotice, LogRead,
                Wake, SendMessage, Return, MarkFinished, Park, startVars
  <1>. QED
    BY <1>1, <1>2, <1>3, <1>4
       DEF Next, ClockStep, AgentStep, LogRoundAdvanced, DispatchEvent, InstallSwap, LogEvent,
           EndBoundary, DeliverBriefings, EndPhase, PollFinished, LogRoundEnded, JudgeRound,
           LogPostmortemStarted, LogPostmortemEnded, BroadcastDone, DrainRunners, LogComplete,
           Tick, vars, startVars

\* The steps that leave the sessions' injections alone.
LEMMA SessionsKeep ==
    ASSUME [Next]_vars, ~InstallSwap, ~DrainRunners, ~Crash, ~DeliverBriefings,
           \A a \in Agents : ~PushPostmortem(a) /\ ~TakeNotice(a) /\ ~LogRead(a)
    PROVE  UNCHANGED <<inbox, unlogged, read>>
  <1>1. ASSUME NEW a \in Agents,
               \/ LaunchRunner(a) \/ LogBriefing(a) \/ LogPostmortem(a)
               \/ Wake(a) \/ SendMessage(a) \/ Return(a)
               \/ MarkFinished(a) \/ \E how \in Parked : Park(a, how)
        PROVE  UNCHANGED <<inbox, unlogged, read>>
    BY <1>1 DEF LaunchRunner, LogBriefing, LogPostmortem, Wake, SendMessage, Return, MarkFinished,
                Park, logVars, seatVars
  <1>. QED
    BY <1>1 DEF Next, ClockStep, AgentStep, LogRoundAdvanced, DispatchEvent, LogEvent, EndBoundary,
                EndPhase, PollFinished, LogRoundEnded, JudgeRound, LogPostmortemStarted,
                LogPostmortemEnded, BroadcastDone, LogComplete, Tick, Resume, vars, logVars, seatVars

Closed == {"log_complete", "over"}

LEMMA ClosedForGood == [Next]_vars /\ pc \in Closed => pc' \in Closed \cup {"down"}
  BY DEF Closed, Next, ClockStep, AgentStep, LogRoundAdvanced, DispatchEvent, InstallSwap, LogEvent,
         EndBoundary, DeliverBriefings, EndPhase, PollFinished, LogRoundEnded, JudgeRound,
         LogPostmortemStarted, LogPostmortemEnded, BroadcastDone, DrainRunners, LogComplete, Tick,
         Crash, Resume, vars, clockVars, LaunchRunner, LogBriefing, PushPostmortem, LogPostmortem,
         TakeNotice, LogRead, Wake, SendMessage, Return, MarkFinished, Park

LEMMA OrderStep ==
    TypeOK /\ DrainedInv /\ OrderInv /\ HeldInv /\ [Next]_vars => OrderInv'
  <1>. SUFFICES ASSUME TypeOK, DrainedInv, OrderInv, HeldInv, [Next]_vars,
                       NEW a \in Agents, NEW r \in Rounds, <<a, r>> \in Briefings
                PROVE  LET b == Injection("briefing", r)
                           p == Injection("postmortem", r)
                       IN  /\ p \in inbox'[a] /\ pc' \notin Closed => Got(a, b)'
                           /\ p \in unlogged'[a] \/ <<a, p>> \in read' => <<a, b>> \in read'
    BY DEF OrderInv, Closed
  <1>. DEFINE b == Injection("briefing", r)
              p == Injection("postmortem", r)
              Kept == /\ p \in inbox'[a] /\ pc' \notin Closed => Got(a, b)'
                      /\ p \in unlogged'[a] \/ <<a, p>> \in read' => <<a, b>> \in read'
  <1>0. /\ p \in inbox[a] /\ pc \notin Closed => Got(a, b)
        /\ p \in unlogged[a] \/ <<a, p>> \in read => <<a, b>> \in read
    BY DEF OrderInv, Closed
  <1>a. b # p
    BY DEF Injection
  <1>b. pc' \notin Closed /\ ~Crash => pc \notin Closed
    <2>1. pc' = "down" => Crash \/ pc = "down"
      BY DEF Next, ClockStep, AgentStep, LogRoundAdvanced, DispatchEvent, InstallSwap, LogEvent,
             EndBoundary, DeliverBriefings, EndPhase, PollFinished, LogRoundEnded, JudgeRound,
             StartAdvance, AfterBriefing, LogPostmortemStarted, LogPostmortemEnded, BroadcastDone,
             DrainRunners, LogComplete, Tick, Resume, vars, clockVars, LaunchRunner, LogBriefing,
             PushPostmortem, LogPostmortem, TakeNotice, LogRead, Wake, SendMessage, Return,
             MarkFinished, Park
    <2>. QED  BY <2>1, ClosedForGood DEF Closed
  <1>1. ASSUME UNCHANGED <<inbox, unlogged, read>>, ~Crash PROVE Kept
    BY <1>0, <1>1, <1>b DEF Got
  <1>2. CASE DeliverBriefings
    <2>1. /\ inbox[a] \subseteq inbox'[a]
          /\ p \in inbox'[a] => p \in inbox[a]
      BY <1>2 DEF DeliverBriefings, Push, Injection
    <2>2. UNCHANGED <<unlogged, read>> /\ ~Crash
      BY <1>2 DEF DeliverBriefings, AfterBriefing, logVars, Crash
    <2>. QED  BY <1>0, <1>b, <2>1, <2>2 DEF Got
  <1>3. ASSUME NEW c \in Agents, PushPostmortem(c) PROVE Kept
    <2>1. /\ inbox[a] \subseteq inbox'[a]
          /\ p \in inbox'[a] => p \in inbox[a] \/ r = round
      BY <1>3 DEF PushPostmortem, Push, Injection
    <2>2. UNCHANGED <<unlogged, read>> /\ pc = "debrief"
      BY <1>3 DEF PushPostmortem, logVars
    <2>3. r = round => Got(a, b)
      BY <2>2 DEF HeldInv, Launched
    <2>. QED  BY <1>0, <2>1, <2>2, <2>3 DEF Got, Closed
  <1>4. ASSUME NEW c \in Agents, TakeNotice(c) PROVE Kept
    <2>1. /\ pc \notin Closed /\ ~Crash /\ UNCHANGED <<read, pc>>
      BY <1>4 DEF TakeNotice, DrainedInv, Closed, Crash, logVars, clockVars
    <2>2. CASE c # a
      <3>1. inbox'[a] = inbox[a] /\ unlogged'[a] = unlogged[a]
        BY <1>4, <2>2 DEF TakeNotice, TypeOK
      <3>. QED  BY <1>0, <2>1, <3>1 DEF Got
    <2>3. CASE c = a
      <3>1. PICK i \in inbox[a] : /\ \A j \in inbox[a] : ~Before(j, i)
                                 /\ inbox' = [inbox EXCEPT ![a] = @ \ {i}]
                                 /\ unlogged' = [unlogged EXCEPT ![a] = {i}]
        BY <1>4, <2>3 DEF TakeNotice
      <3>2. unlogged[a] = {} /\ inbox'[a] = inbox[a] \ {i} /\ unlogged'[a] = {i}
        BY <1>4, <2>3, <3>1 DEF TakeNotice, TypeOK
      <3>3. p \in inbox[a] => b \in inbox[a] \/ <<a, b>> \in read
        BY <1>0, <2>1, <3>2 DEF Got
      <3>4. i = p => b \notin inbox[a]
        BY <3>1 DEF Before, Injection
      <3>. QED  BY <1>0, <2>1, <3>2, <3>3, <3>4 DEF Got
    <2>. QED  BY <2>2, <2>3
  <1>5. ASSUME NEW c \in Agents, LogRead(c) PROVE Kept
    <2>1. UNCHANGED inbox /\ read \subseteq read' /\ ~Crash
      BY <1>5 DEF LogRead, Crash, clockVars
    <2>2. CASE c # a
      <3>1. /\ unlogged'[a] = unlogged[a]
            /\ \A i : <<a, i>> \in read' => <<a, i>> \in read
        BY <1>5, <2>2 DEF LogRead, TypeOK
      <3>. QED  BY <1>0, <1>b, <2>1, <3>1 DEF Got
    <2>3. CASE c = a
      <3>1. /\ unlogged'[a] = {}
            /\ \A i : <<a, i>> \in read' <=> <<a, i>> \in read \/ i \in unlogged[a]
        BY <1>5, <2>3 DEF LogRead, TypeOK
      <3>. QED  BY <1>0, <1>b, <2>1, <3>1 DEF Got
    <2>. QED  BY <2>2, <2>3
  <1>6. CASE InstallSwap
    <2>1. \/ inbox'[a] = {} /\ unlogged'[a] = {}
          \/ inbox'[a] = inbox[a] /\ unlogged'[a] = unlogged[a]
      BY <1>6 DEF InstallSwap, TypeOK
    <2>2. UNCHANGED read /\ ~Crash
      BY <1>6 DEF InstallSwap, Crash, logVars
    <2>. QED  BY <1>0, <1>b, <2>1, <2>2 DEF Got
  <1>7. CASE DrainRunners
    BY <1>0, <1>7 DEF DrainRunners, Closed, logVars
  <1>8. CASE Crash
    BY <1>0, <1>8 DEF Crash, logVars
  <1>. QED
    BY <1>1, <1>2, <1>3, <1>4, <1>5, <1>6, <1>7, <1>8, SessionsKeep

LEMMA HeldStep ==
    TypeOK /\ LifeInv /\ BriefInv /\ (pc = "down" => resuming) /\ [Next]_vars => HeldInv'
  <1>. SUFFICES ASSUME TypeOK, LifeInv, BriefInv, pc = "down" => resuming, [Next]_vars,
                       pc' \in Launched \cup {"log_brief"} \/ (pc' = "launch" /\ ~resuming'),
                       NEW a \in Agents, <<a, round'>> \in Briefings
                PROVE  Got(a, Injection("briefing", round))'
    BY DEF HeldInv
  <1>. DEFINE b == Injection("briefing", round)
              Holding == pc \in Launched \cup {"log_brief"} \/ (pc = "launch" /\ ~resuming)
  <1>0. Holding /\ round' = round => Got(a, b)
    BY DEF BriefInv, HeldInv
  <1>1. ASSUME UNCHANGED <<round, inbox, unlogged, read>>, Holding PROVE Got(a, Injection("briefing", round))'
    BY <1>0, <1>1 DEF Got
  <1>2. CASE DeliverBriefings
    <2>1. UNCHANGED <<round, unlogged, read>> /\ pc = "brief"
      BY <1>2 DEF DeliverBriefings, logVars
    <2>2. CASE a \in Briefed
      BY <1>2, <2>1, <2>2 DEF DeliverBriefings, Push, Got
    <2>3. CASE a \notin Briefed
      <3>1. round \in Rounds /\ round # 0
        BY <2>1, RoundFacts, ConfigAssumption
      <3>2. PICK r \in injected[a] : round <= r
        BY <2>1, <2>3, <3>1 DEF Briefed, Covered
      <3>3. PICK i \in Injections : i.round = r /\ <<a, i>> \in read
        BY <3>2 DEF BriefInv, CoverInv
      <3>4. i.round <= round
        BY <2>1, <3>3, SendRound DEF BriefInv, ReadInv, Known
      <3>5. i.round = round
        BY <3>1, <3>2, <3>3, <3>4, RoundFacts DEF Injections
      <3>6. i = b \/ i = Injection("postmortem", round)
        BY <3>5 DEF Injections, Injection
      <3>7. <<a, b>> \in read
        BY <2>1, <3>1, <3>3, <3>6 DEF BriefInv, OrderInv
      <3>. QED  BY <2>1, <3>7 DEF Got
    <2>. QED  BY <2>2, <2>3
  <1>3. ASSUME NEW c \in Agents, PushPostmortem(c) PROVE Got(a, Injection("briefing", round))'
    <2>1. /\ UNCHANGED <<round, unlogged, read>> /\ pc = "debrief"
          /\ inbox[a] \subseteq inbox'[a]
      BY <1>3 DEF PushPostmortem, Push, clockVars, logVars
    <2>. QED  BY <1>0, <2>1 DEF Got, Launched
  <1>4. ASSUME NEW c \in Agents, TakeNotice(c) \/ LogRead(c)
        PROVE  Got(a, Injection("briefing", round))'
    <2>1. UNCHANGED <<round, pc, resuming>>
      BY <1>4 DEF TakeNotice, LogRead, clockVars, startVars
    <2>2. Got(a, b)
      BY <1>0, <2>1
    <2>3. TakeNotice(c) => Got(a, b)'
      BY <2>1, <2>2 DEF TakeNotice, Got, TypeOK, logVars
    <2>4. LogRead(c) => Got(a, b)'
      BY <2>1, <2>2 DEF LogRead, Got, TypeOK
    <2>. QED  BY <1>4, <2>1, <2>3, <2>4
  <1>5. ASSUME \/ LogRoundAdvanced \/ DispatchEvent \/ InstallSwap \/ LogEvent \/ EndBoundary
               \/ PollFinished \/ LogPostmortemEnded \/ BroadcastDone \/ DrainRunners
               \/ LogComplete \/ Crash \/ Resume
        PROVE  FALSE
    BY <1>5 DEF LogRoundAdvanced, DispatchEvent, InstallSwap, LogEvent, EndBoundary, PollFinished,
                LogPostmortemEnded, StartAdvance, BroadcastDone, DrainRunners, LogComplete, Crash,
                Resume, Launched, startVars
  <1>6. ASSUME EndPhase \/ LogRoundEnded \/ JudgeRound \/ LogPostmortemStarted
        PROVE  UNCHANGED round /\ Holding
    BY <1>6 DEF EndPhase, LogRoundEnded, JudgeRound, StartAdvance, LogPostmortemStarted, Launched
  <1>7. ASSUME NEW c \in Agents, LaunchRunner(c) \/ LogBriefing(c) \/ LogPostmortem(c)
        PROVE  UNCHANGED round /\ Holding
    BY <1>7 DEF LaunchRunner, LogBriefing, LogPostmortem, Launched, startVars
  <1>8. ASSUME \/ Tick \/ UNCHANGED vars
               \/ \E c \in Agents : \/ Wake(c) \/ SendMessage(c) \/ Return(c) \/ MarkFinished(c)
                                  \/ \E how \in Parked : Park(c, how)
        PROVE  UNCHANGED round /\ Holding
    BY <1>8 DEF Tick, vars, Wake, SendMessage, Return, MarkFinished, Park, clockVars, startVars
  <1>9. ASSUME ~InstallSwap, ~DrainRunners, ~Crash, ~DeliverBriefings,
               \A c \in Agents : ~PushPostmortem(c) /\ ~TakeNotice(c) /\ ~LogRead(c)
        PROVE  Got(a, Injection("briefing", round))'
    <2>1. UNCHANGED <<inbox, unlogged, read>>
      BY <1>9, SessionsKeep
    <2>2. UNCHANGED round /\ Holding
      BY <1>5, <1>6, <1>7, <1>8, <1>9 DEF Next, ClockStep, AgentStep
    <2>. QED  BY <1>1, <2>1, <2>2
  <1>. QED  BY <1>2, <1>3, <1>4, <1>5, <1>9

\* The inductive invariant of what the agents know.
KnowInv == Inv1 /\ LifeInv /\ DrainedInv /\ BriefInv

LEMMA KnowAlways == Spec => []KnowInv
  <1>1. Init => KnowInv
    <2>1. Init => DrainedInv
      BY DEF Init, DrainedInv
    <2>. QED  BY <2>1, InitInv1, InitLifeInv, InitBriefInv DEF KnowInv
  <1>2. KnowInv /\ [Next]_vars => KnowInv'
    <2>. SUFFICES ASSUME KnowInv, [Next]_vars PROVE KnowInv'
      OBVIOUS
    <2>1. Inv1 /\ LifeInv /\ DrainedInv /\ TypeOK /\ BriefInv /\ (pc = "down" => resuming)
      BY DEF KnowInv, Inv1, TypeInv, EventsInv
    <2>2. Inv1' /\ LifeInv' /\ DrainedInv'
      BY <2>1, TypeStep, EventsStep, LifeStep, DrainedStep DEF Inv1
    <2>3. BriefInv'
      BY <2>1, <2>2, ReadStep, OrderStep, CoverStep, HeldStep DEF BriefInv, Inv1
    <2>. QED  BY <2>2, <2>3 DEF KnowInv
  <1>. QED  BY <1>1, <1>2, PTL DEF Spec

\* While a round is played, each agent with a briefing for it has it, or has had it
\* and the log says so: neither a swap nor a stop of the process loses it.
THEOREM NoBriefingIsEverLost == Spec => []NoBriefingLost
  <1>1. KnowInv => NoBriefingLost
    BY DEF KnowInv, BriefInv, HeldInv, Launched, Got, NoBriefingLost
  <1>. QED  BY <1>1, KnowAlways, PTL

\* A process that is down holds nothing.
DownInv == pc = "down" => \A a \in Agents : inbox[a] = {} /\ unlogged[a] = {}

\* A resumed run launches its runners before the boundary hook.
ResumedInv == resuming /\ Agents # {} /\ pc \notin {"down", "log_advance", "launch"} => ~Unlaunched

\* Until the clock sends the briefings of its round, nobody is being told of them,
\* and whoever was, by an earlier process, is not to be told again.
Unbriefed == pc \in {"log_advance", "boundary", "swap", "log_event", "brief"}
             \/ (pc = "launch" /\ resuming)

FreshInv ==
    Unbriefed => \A a \in Agents :
        LET b == Injection("briefing", round)
        IN  /\ b \notin inbox[a] \cup unlogged[a]
            /\ <<a, b>> \in delivered \cap read => round \in injected[a]

LEMMA DownStep == DownInv /\ [Next]_vars => DownInv'
  <1>. SUFFICES ASSUME DownInv, [Next]_vars, pc' = "down", NEW a \in Agents
                PROVE  inbox'[a] = {} /\ unlogged'[a] = {}
    BY DEF DownInv
  <1>1. CASE Crash
    BY <1>1 DEF Crash
  <1>2. CASE AgentStep \/ Tick \/ UNCHANGED vars
    <2>1. pc = "down"
      BY <1>2 DEF AgentStep, TakeNotice, LogRead, Park, Wake, SendMessage, Return, MarkFinished,
                  Tick, vars, clockVars
    <2>2. \A c \in Agents : inbox[c] = {} /\ unlogged[c] = {}
      BY <2>1 DEF DownInv
    <2>3. UNCHANGED <<inbox, unlogged>>
      BY <1>2, <2>2 DEF AgentStep, TakeNotice, LogRead, Park, Wake, SendMessage, Return,
                        MarkFinished, Tick, vars, seatVars
    <2>. QED  BY <2>2, <2>3
  <1>3. ~Resume /\ ~ClockStep
    BY DEF Resume, ClockStep, LogRoundAdvanced, DispatchEvent, InstallSwap, LogEvent, EndBoundary,
           DeliverBriefings, AfterBriefing, EndPhase, PollFinished, LogRoundEnded, JudgeRound,
           StartAdvance, LogPostmortemStarted, LogPostmortemEnded, BroadcastDone, DrainRunners,
           LogComplete, LaunchRunner, LogBriefing, PushPostmortem, LogPostmortem, clockVars
  <1>. QED  BY <1>1, <1>2, <1>3 DEF Next

LEMMA ResumedStep == TypeOK /\ ResumedInv /\ [Next]_vars => ResumedInv'
  <1>. SUFFICES ASSUME TypeOK, ResumedInv, [Next]_vars, resuming', Agents # {},
                       pc' \notin {"down", "log_advance", "launch"}, Unlaunched'
                PROVE  FALSE
    BY DEF ResumedInv
  <1>1. ~Crash
    BY DEF Crash
  <1>2. Unlaunched /\ \A a \in Agents : ~LaunchRunner(a)
    BY <1>1, StaysLaunched
  <1>3. ~Resume
    BY DEF Resume
  <1>4. pc \in {"down", "log_advance", "launch"} \/ ~resuming
    BY <1>2 DEF ResumedInv
  <1>5. ~LogRoundAdvanced
    BY <1>2 DEF LogRoundAdvanced, startVars
  <1>6. ~ClockStep
    BY <1>2, <1>4, <1>5
       DEF ClockStep, DispatchEvent, InstallSwap, LogEvent, EndBoundary, DeliverBriefings,
           EndPhase, PollFinished, LogRoundEnded, JudgeRound, LogPostmortemStarted,
           LogPostmortemEnded, BroadcastDone, DrainRunners, LogComplete, LogBriefing,
           PushPostmortem, LogPostmortem, startVars
  <1>7. ~AgentStep /\ ~Tick /\ ~(UNCHANGED vars)
    BY <1>4 DEF AgentStep, TakeNotice, LogRead, Park, Wake, SendMessage, Return, MarkFinished,
                Tick, vars, clockVars, startVars
  <1>. QED  BY <1>1, <1>3, <1>6, <1>7 DEF Next

LEMMA FreshStep ==
    /\ TypeOK /\ DownInv /\ ResumedInv /\ FreshInv /\ [Next]_vars
    /\ LifeInv' /\ ReadInv' /\ TypeOK'
    => FreshInv'
  <1>. SUFFICES ASSUME TypeOK, DownInv, ResumedInv, FreshInv, [Next]_vars,
                       LifeInv', ReadInv', TypeOK', Unbriefed', NEW a \in Agents
                PROVE  (LET b == Injection("briefing", round)
                        IN  /\ b \notin inbox[a] \cup unlogged[a]
                            /\ <<a, b>> \in delivered \cap read => round \in injected[a])'
    BY DEF FreshInv
  <1>. DEFINE b == Injection("briefing", round)
              Fresh == /\ b \notin inbox[a] \cup unlogged[a]
                       /\ <<a, b>> \in delivered \cap read => round \in injected[a]
  <1>0. Unbriefed => Fresh
    BY DEF FreshInv
  <1>1. CASE pc' = "log_advance"
    <2>1. round' = lastEvent'.round + 1 /\ lastEvent'.round \in Nat
      BY <1>1, RoundFacts DEF LifeInv, LogInv, TypeOK, Lifecycle!LifecycleEvents
    <2>2. \A i \in Known(a)' : i.round <= lastEvent'.round
      BY DEF ReadInv
    <2>3. b' \notin Known(a)'
      <3>1. b'.round = lastEvent'.round + 1
        BY <2>1 DEF Injection
      <3>. QED  BY <2>1, <2>2, <3>1
    <2>4. <<a, b'>> \in read' => b' \in Known(a)'
      BY DEF Known, TypeOK
    <2>. QED  BY <2>3, <2>4 DEF Known
  <1>2. ASSUME Unbriefed, UNCHANGED <<round, injected, delivered>>,
               inbox'[a] \cup unlogged'[a] \subseteq inbox[a] \cup unlogged[a],
               \A i : <<a, i>> \in read' => <<a, i>> \in read \/ i \in unlogged[a]
        PROVE  Fresh'
    BY <1>0, <1>2
  <1>3. CASE Resume
    <2>1. /\ inbox'[a] = {} /\ unlogged'[a] = {}
          /\ UNCHANGED <<delivered, read>> /\ injected'[a] = CoveredBy(a)
      BY <1>3 DEF Resume, DownInv, seatVars, logVars
    <2>2. <<a, b'>> \in delivered \cap read => b'.round \in CoveredBy(a)
      BY DEF CoveredBy, TypeOK
    <2>. QED  BY <2>1, <2>2 DEF Injection
  <1>4. ASSUME \/ LogRoundAdvanced \/ DispatchEvent \/ LogEvent \/ EndBoundary
               \/ (\E c \in Agents : LaunchRunner(c)) \/ Tick \/ UNCHANGED vars
               \/ \E c \in Agents : \/ Wake(c) \/ SendMessage(c) \/ Return(c) \/ MarkFinished(c)
                                  \/ \E how \in Parked : Park(c, how)
        PROVE  Fresh'
    <2>1. UNCHANGED <<round, injected, resuming, delivered, inbox, unlogged, read>>
      BY <1>4 DEF LogRoundAdvanced, DispatchEvent, LogEvent, EndBoundary, LaunchRunner, Tick, vars,
                  Wake, SendMessage, Return, MarkFinished, Park, clockVars, startVars, seatVars,
                  logVars
    <2>2. Unbriefed
      BY <1>4, <2>1 DEF Unbriefed, LogRoundAdvanced, DispatchEvent, LogEvent, EndBoundary,
                        LaunchRunner, Tick, vars, Wake, SendMessage, Return, MarkFinished, Park,
                        clockVars
    <2>. QED  BY <1>2, <2>1, <2>2
  <1>5. CASE InstallSwap
    <2>1. UNCHANGED <<round, injected, delivered, read>> /\ Unbriefed
      BY <1>5 DEF InstallSwap, startVars, logVars, Unbriefed
    <2>2. inbox'[a] \cup unlogged'[a] \subseteq inbox[a] \cup unlogged[a]
      BY <1>5 DEF InstallSwap, TypeOK
    <2>. QED  BY <1>2, <2>1, <2>2
  <1>6. ASSUME NEW c \in Agents, TakeNotice(c) \/ LogRead(c) PROVE Fresh'
    <2>1. UNCHANGED <<round, injected, delivered>> /\ Unbriefed
      BY <1>6 DEF TakeNotice, LogRead, clockVars, startVars, logVars, Unbriefed
    <2>2. inbox'[a] \cup unlogged'[a] \subseteq inbox[a] \cup unlogged[a]
      BY <1>6 DEF TakeNotice, LogRead, TypeOK
    <2>3. \A i : <<a, i>> \in read' => <<a, i>> \in read \/ i \in unlogged[a]
      BY <1>6 DEF TakeNotice, LogRead, logVars
    <2>. QED  BY <1>2, <2>1, <2>2, <2>3
  <1>7. ASSUME DeliverBriefings \/ \E c \in Agents : LogBriefing(c) PROVE FALSE
    <2>1. ~resuming \/ ~Unlaunched
      BY <1>7 DEF ResumedInv, DeliverBriefings, LogBriefing
    <2>. QED  BY <1>7, <2>1 DEF DeliverBriefings, LogBriefing, AfterBriefing, Unbriefed, startVars
  <1>8. ASSUME \/ EndPhase \/ PollFinished \/ LogRoundEnded \/ LogPostmortemStarted \/ BroadcastDone
               \/ DrainRunners \/ LogComplete \/ Crash
               \/ \E c \in Agents : PushPostmortem(c) \/ LogPostmortem(c)
        PROVE  FALSE
    BY <1>8 DEF EndPhase, PollFinished, LogRoundEnded, LogPostmortemStarted, BroadcastDone,
                DrainRunners, LogComplete, Crash, PushPostmortem, LogPostmortem, Unbriefed, clockVars
  <1>9. ASSUME JudgeRound \/ LogPostmortemEnded PROVE pc' = "log_advance"
    BY <1>9 DEF JudgeRound, LogPostmortemEnded, StartAdvance, Unbriefed
  <1>. QED
    BY <1>1, <1>3, <1>4, <1>5, <1>6, <1>7, <1>8, <1>9 DEF Next, ClockStep, AgentStep

\* A briefing whose delivery and reading are both in the log is not sent again.
THEOREM BriefedAtMostOnce == Spec => BriefedOnce
  <1>. DEFINE J == DownInv /\ ResumedInv /\ FreshInv
              Once == \A a \in Agents : \A i \in NoticeOf(a) :
                         i.kind = "briefing" => <<a, i>> \notin delivered \cap read
  <1>1. Init => J
    BY DEF Init, DownInv, ResumedInv, FreshInv
  <1>2. KnowInv /\ KnowInv' /\ J /\ [Next]_vars => J'
    BY DownStep, ResumedStep, FreshStep DEF KnowInv, Inv1, TypeInv, BriefInv
  <1>3. TypeOK /\ J /\ [Next]_vars => [Once]_vars
    <2>. SUFFICES ASSUME TypeOK, FreshInv, [Next]_vars, NEW a \in Agents, NEW i \in NoticeOf(a),
                         i.kind = "briefing"
                  PROVE  <<a, i>> \notin delivered \cap read
      BY Zenon
    <2>1. CASE DeliverBriefings
      <3>1. a \in Briefed /\ i = Injection("briefing", round) /\ Unbriefed
        <4>1. i \in inbox'[a] /\ i \notin inbox[a]
          BY DEF NoticeOf
        <4>2. inbox'[a] = IF a \in Briefed THEN inbox[a] \cup {Injection("briefing", round)}
                          ELSE inbox[a]
          BY <2>1 DEF DeliverBriefings, Push
        <4>3. pc = "brief"
          BY <2>1 DEF DeliverBriefings
        <4>. QED  BY <4>1, <4>2, <4>3 DEF Unbriefed
      <3>2. round \notin injected[a]
        BY <3>1, RoundFacts DEF Briefed, Covered, TypeOK
      <3>. QED  BY <3>1, <3>2 DEF FreshInv
    <2>2. ASSUME NEW c \in Agents, PushPostmortem(c) PROVE FALSE
      BY <2>2 DEF PushPostmortem, Push, NoticeOf, Injection
    <2>3. ASSUME NEW c \in Agents, TakeNotice(c) \/ LogRead(c) PROVE FALSE
      BY <2>3 DEF TakeNotice, LogRead, NoticeOf, TypeOK
    <2>4. CASE InstallSwap \/ DrainRunners \/ Crash
      BY <2>4 DEF InstallSwap, DrainRunners, Crash, NoticeOf, TypeOK
    <2>5. ASSUME UNCHANGED inbox PROVE FALSE
      BY <2>5 DEF NoticeOf
    <2>. QED  BY <2>1, <2>2, <2>3, <2>4, <2>5, SessionsKeep
  <1>4. KnowInv => TypeOK
    BY DEF KnowInv, Inv1, TypeInv
  <1>. QED  BY <1>1, <1>2, <1>3, <1>4, KnowAlways, PTL DEF Spec, BriefedOnce


-----------------------------------------------------------------------------
(* Postmortems that were turned off *)

\* In the first process of a run: a set_postmortem recorded since the run began, or
\* about to be, has closed the world, and a postmortem starts in an open one.
ClosingInv ==
    /\ pc = "swap" => NextEvent.kind = "swap_agent"
    /\ crashes = 0 =>
          /\ \A r \in Rounds : r > SourceRounds =>
                \A k \in 1..fired[r] : Schedule[r][k].kind = "set_postmortem" => closed
          /\ pc = "log_event" /\ NextEvent.kind = "set_postmortem" => closed
          /\ pc = "log_postmortem" => ~closed

LEMMA ClosingStep == Inv1 /\ ClosingInv /\ [Next]_vars => ClosingInv'
  <1>. SUFFICES ASSUME Inv1, ClosingInv, [Next]_vars PROVE ClosingInv'
    OBVIOUS
  <1>. USE DEF ClosingInv, NextEvent, EventsOf, CompletedOf, clockVars, startVars, sendVars,
               seatVars, logVars
  <1>1. CASE LogRoundAdvanced
    BY <1>1 DEF LogRoundAdvanced
  <1>2. CASE DispatchEvent
    <2>1. \/ pc' = "swap" /\ NextEvent.kind = "swap_agent" /\ UNCHANGED closed
          \/ pc' = "log_event" /\ NextEvent.kind = "set_postmortem" /\ closed'
          \/ pc' = "log_event" /\ NextEvent.kind = "inject_case" /\ UNCHANGED closed
      BY <1>2 DEF DispatchEvent
    <2>2. UNCHANGED <<round, completed, fired, crashes>> /\ pc = "boundary"
      BY <1>2 DEF DispatchEvent
    <2>. QED  BY <2>1, <2>2
  <1>3. CASE InstallSwap
    BY <1>3 DEF InstallSwap
  <1>4. CASE LogEvent
    <2>1. /\ fired' = [fired EXCEPT ![round] = @ + 1] /\ pc = "log_event" /\ pc' = "boundary"
          /\ UNCHANGED <<crashes, closed>>
      BY <1>4 DEF LogEvent
    <2>2. completed = fired /\ round \in Rounds /\ fired \in [Rounds -> Nat]
      BY <2>1 DEF Inv1, TypeInv, TypeOK, EventsInv
    <2>3. NextEvent = Schedule[round][fired[round] + 1]
      BY <2>2
    <2>4. ASSUME NEW r \in Rounds, r > SourceRounds, NEW k \in 1..fired'[r], crashes = 0,
                 Schedule[r][k].kind = "set_postmortem"
          PROVE  closed
      <3>1. CASE k \in 1..fired[r]
        BY <2>4, <3>1
      <3>2. CASE k \notin 1..fired[r]
        <4>1. r = round /\ k = fired[round] + 1
          BY <2>1, <2>2, <3>2
        <4>. QED  BY <2>1, <2>3, <2>4, <4>1
      <3>. QED  BY <3>1, <3>2
    <2>. QED  BY <2>1, <2>4
  <1>5. CASE EndBoundary
    BY <1>5 DEF EndBoundary
  <1>6. CASE DeliverBriefings
    BY <1>6 DEF DeliverBriefings, AfterBriefing
  <1>7. CASE EndPhase
    BY <1>7 DEF EndPhase
  <1>8. CASE PollFinished
    BY <1>8 DEF PollFinished
  <1>9. CASE LogRoundEnded
    BY <1>9 DEF LogRoundEnded
  <1>10. CASE JudgeRound
    BY <1>10 DEF JudgeRound, StartAdvance, PostmortemAgents
  <1>11. CASE LogPostmortemStarted
    BY <1>11 DEF LogPostmortemStarted
  <1>12. CASE LogPostmortemEnded
    BY <1>12 DEF LogPostmortemEnded, StartAdvance
  <1>13. CASE BroadcastDone
    BY <1>13 DEF BroadcastDone
  <1>14. CASE DrainRunners
    BY <1>14 DEF DrainRunners
  <1>15. CASE LogComplete
    BY <1>15 DEF LogComplete
  <1>16. ASSUME NEW a \in Agents, LaunchRunner(a) PROVE ClosingInv'
    BY <1>16 DEF LaunchRunner
  <1>17. ASSUME NEW a \in Agents, LogBriefing(a) PROVE ClosingInv'
    BY <1>17 DEF LogBriefing, AfterBriefing
  <1>18. ASSUME NEW a \in Agents, PushPostmortem(a) \/ LogPostmortem(a) PROVE ClosingInv'
    BY <1>18 DEF PushPostmortem, LogPostmortem
  <1>19. CASE AgentStep
    <2>1. UNCHANGED <<pc, round, closed, completed, fired, crashes>>
      BY <1>19 DEF AgentStep, TakeNotice, LogRead, Park, Wake, SendMessage, Return, MarkFinished
    <2>. QED  BY <2>1
  <1>20. CASE Tick
    BY <1>20 DEF Tick
  <1>21. CASE Crash
    <2>1. pc' = "down" /\ crashes' # 0
      BY <1>21 DEF Crash, Inv1, TypeInv, TypeOK
    <2>. QED  BY <2>1
  <1>22. CASE Resume
    BY <1>22 DEF Resume
  <1>23. CASE UNCHANGED vars
    BY <1>23 DEF vars
  <1>. QED
    BY <1>1, <1>2, <1>3, <1>4, <1>5, <1>6, <1>7, <1>8, <1>9, <1>10, <1>11, <1>12, <1>13,
       <1>14, <1>15, <1>16, <1>17, <1>18, <1>19, <1>20, <1>21, <1>22, <1>23 DEF Next, ClockStep

\* What was turned off stays off in the process that turned it off: only a resume,
\* which rebuilds the world, can start a postmortem after a set_postmortem.
THEOREM PostmortemsStayOff == Spec => ClosedUntilResumed
  <1>. DEFINE Off == \A r \in Rounds : r > SourceRounds =>
                        \A k \in 1..fired[r] : Schedule[r][k].kind # "set_postmortem"
  <1>1. ClosingInv => [crashes = 0 /\ pc = "log_postmortem" /\ pc' = "debrief" => Off]_vars
    BY DEF ClosingInv
  <1>2. Init => ClosingInv
    <2>. SUFFICES ASSUME Init PROVE ClosingInv
      OBVIOUS
    <2>1. \A r \in Rounds : r > SourceRounds => fired[r] = 0
      BY ConfigAssumption DEF Init, Rounds
    <2>2. pc = "log_advance"
      BY DEF Init
    <2>. QED  BY <2>1, <2>2 DEF ClosingInv
  <1>3. Spec => []Inv1
    BY InitInv1, TypeStep, EventsStep, PTL DEF Spec, Inv1
  <1>4. Spec => []ClosingInv
    BY <1>2, <1>3, ClosingStep, PTL DEF Spec
  <1>. QED  BY <1>1, <1>4, PTL DEF ClosedUntilResumed
=============================================================================
