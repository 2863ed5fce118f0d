------------------------- MODULE WaitRegistryProofs -------------------------
(***************************************************************************)
(* Invariants of WaitRegistry, proved for every set of agents and channels *)
(* and every bound. OpenCalls is the strengthening: what a call installs   *)
(* stands exactly while the call is open. NoLostWakeup is inductive beside *)
(* it, since only an open call is re-evaluated by a push.                  *)
(***************************************************************************)
EXTENDS WaitRegistry, TLAPS

IInv == TypeOK /\ OpenCalls /\ NoLostWakeup

\* Satisfied reports wake reasons only.
LEMMA SatisfiedType ==
    ASSUME NEW waitFor, NEW queued, NEW over
    PROVE  Satisfied(waitFor, queued, over) \in SUBSET WakeReasons
BY DEF Satisfied, SatisfiedByQueue, WakeReasons

\* What register may answer at once is a set of wake reasons.
LEMMA AtOnceType ==
    ASSUME NEW kind, NEW deadline, NEW held \in SUBSET WakeReasons,
           NEW reasons \in AtOnce(kind, deadline, held)
    PROVE  reasons \in SUBSET WakeReasons
BY DEF AtOnce, WakeReasons

\* Discarding stale notices leaves a subset of the queue.
LEMMA LiveSubset ==
    ASSUME NEW q, NEW seen, NEW cnt
    PROVE  Live(q, seen, cnt) \subseteq q
BY DEF Live

\* Read positions stay within the bounds of the histories they come from.
LEMMA ReadUpToType ==
    ASSUME NEW chans, NEW seen \in [Channels -> 0..MaxMessages],
           NEW cnt \in [Channels -> 0..MaxMessages]
    PROVE  ReadUpTo(chans, seen, cnt) \in [Channels -> 0..MaxMessages]
BY DEF ReadUpTo

\* The initial state has no call and nothing installed.
LEMMA InitEstablishes == Init => IInv
<1> SUFFICES ASSUME Init PROVE IInv
  OBVIOUS
<1> USE BoundsAssumption
<1>1. TypeOK
  BY DEF Init, TypeOK, NoWait, Wait, WaitKinds, Futures, PCs, Answers
<1>2. OpenCalls
  BY DEF Init, OpenCalls, Open, InCall, NoWait
<1>3. NoLostWakeup
  BY DEF Init, NoLostWakeup, Pending
<1>4. QED BY <1>1, <1>2, <1>3 DEF IInv

\* Resuming an open call for some reasons closes it and takes down all it installed.
LEMMA ResumeCloses ==
    ASSUME IInv, NEW a \in Agents, NEW reasons \in SUBSET WakeReasons,
           Resume(a, reasons)
    PROVE  /\ wait' \in [Agents -> Wait]
           /\ listening' \subseteq Agents /\ installed' \subseteq Agents
           /\ seenParked' \subseteq Agents
           /\ a \notin listening' /\ a \notin installed' /\ a \notin seenParked'
           /\ wait'[a].future = "set" /\ wait'[a].timer = FALSE /\ wait'[a].reasons = reasons
           /\ \A b \in Agents \ {a} :
                /\ wait'[b] = wait[b]
                /\ b \in listening' <=> b \in listening
                /\ b \in installed' <=> b \in installed
                /\ b \in seenParked' <=> b \in seenParked
<1> DEFINE w == [wait[a] EXCEPT !.future = "set", !.reasons = reasons, !.timer = FALSE,
                               !.parked = FALSE]
<1>1. wait \in [Agents -> Wait] /\ listening \subseteq Agents /\ installed \subseteq Agents
      /\ seenParked \subseteq Agents
  BY DEF IInv, TypeOK
<1>2. /\ wait' = [wait EXCEPT ![a] = w]
      /\ listening' = listening \ {a} /\ installed' = installed \ {a}
      /\ seenParked' = seenParked \ {a}
  BY <1>1 DEF Resume
<1>3. w \in Wait /\ w.future = "set" /\ w.timer = FALSE /\ w.reasons = reasons
  BY <1>1 DEF Wait, Futures
<1> HIDE DEF w
<1>4. QED BY <1>1, <1>2, <1>3

\* A step that touches neither calls, nor queues, nor terminations keeps the
\* two structural invariants.
LEMMA CallsUntouched ==
    ASSUME IInv, UNCHANGED <<listening, installed, wait, seenParked, pc, queue, terminated>>
    PROVE  OpenCalls' /\ NoLostWakeup'
BY DEF IInv, OpenCalls, NoLostWakeup, Open, InCall, Pending

\* A step that resumes a pending wait and changes nothing else keeps the invariant.
LEMMA ResumeKeeps ==
    ASSUME IInv, NEW a \in Agents, NEW reasons \in SUBSET WakeReasons,
           Resume(a, reasons), UNCHANGED <<session, runner>>
    PROVE  IInv'
<1> USE ResumeCloses
<1>1. TypeOK'
  BY DEF IInv, TypeOK, session, runner
<1>2. OpenCalls'
  BY DEF IInv, OpenCalls, Open, InCall, runner
<1>3. NoLostWakeup'
  BY DEF IInv, NoLostWakeup, Pending, session
<1>4. QED BY <1>1, <1>2, <1>3 DEF IInv

\* push_notification keeps the invariant: either it resumes the pending wait, or
\* the re-evaluation found nothing that satisfies it, or no wait was pending.
LEMMA PushKeeps ==
    ASSUME IInv, NEW a \in Agents, NEW kind \in NoticeKinds, NEW chans \in SUBSET Channels,
           Push(a, kind, chans)
    PROVE  IInv'
<1> USE BoundsAssumption
<1> DEFINE n     == [at |-> pushes[a], kind |-> kind, channels |-> chans]
           over  == terminated[a] \/ kind = "done"
           grown == queue[a] \cup {n}
           live  == Live(grown, lastSeen[a], counts)
           held  == Satisfied(wait[a].for, live, over)
<1>1. /\ terminated' = [terminated EXCEPT ![a] = over]
      /\ pushes[a] < MaxPushes /\ pushes' = [pushes EXCEPT ![a] = @ + 1]
      /\ UNCHANGED <<counts, lastSeen, runner>>
  BY DEF Push
<1>2. n \in Notice /\ grown \in SUBSET Notice /\ live \in SUBSET Notice
  <2>1. n \in Notice
    BY DEF IInv, TypeOK, Notice
  <2>2. grown \in SUBSET Notice
    BY <2>1 DEF IInv, TypeOK
  <2>3. live \subseteq grown
    BY LiveSubset
  <2>4. QED BY <2>1, <2>2, <2>3
<1>3. held \in SUBSET WakeReasons
  BY SatisfiedType
<1>4. over \in BOOLEAN
  BY DEF IInv, TypeOK
<1>5. terminated' \in [Agents -> BOOLEAN] /\ pushes' \in [Agents -> 0..MaxPushes]
  <2>1. terminated \in [Agents -> BOOLEAN] /\ pushes \in [Agents -> 0..MaxPushes]
    BY DEF IInv, TypeOK
  <2>2. terminated' \in [Agents -> BOOLEAN]
    BY <1>1, <1>4, <2>1
  <2>3. pushes' \in [Agents -> 0..MaxPushes]
    BY <1>1, <2>1
  <2>4. QED BY <2>2, <2>3
<1>6. CASE a \in listening /\ wait[a].future = "pending" /\ held # {}
  <2>1. queue' = [queue EXCEPT ![a] = live] /\ Resume(a, held)
    BY <1>6 DEF Push
  <2> HIDE DEF live, held
  <2>2. TypeOK'
    BY <1>1, <1>2, <1>3, <1>5, <2>1, ResumeCloses DEF IInv, TypeOK, runner
  <2>3. OpenCalls'
    BY <1>1, <1>3, <2>1, ResumeCloses DEF IInv, OpenCalls, Open, InCall, runner
  <2>4. NoLostWakeup'
    BY <1>1, <1>3, <2>1, ResumeCloses DEF IInv, TypeOK, NoLostWakeup, Pending
  <2>5. QED BY <2>2, <2>3, <2>4 DEF IInv
<1>7. CASE a \in listening /\ wait[a].future = "pending" /\ held = {}
  <2>1. queue' = [queue EXCEPT ![a] = live] /\ UNCHANGED waitState
    BY <1>7 DEF Push
  <2>2. TypeOK'
    BY <1>1, <1>2, <1>5, <2>1 DEF IInv, TypeOK, runner, waitState
  <2>3. OpenCalls'
    BY <1>1, <2>1 DEF IInv, OpenCalls, Open, InCall, runner, waitState
  <2>4. NoLostWakeup'
    BY <1>1, <1>7, <2>1 DEF IInv, TypeOK, NoLostWakeup, Pending, waitState
  <2>5. QED BY <2>2, <2>3, <2>4 DEF IInv
<1>8. CASE a \notin listening \/ wait[a].future # "pending"
  <2>1. queue' = [queue EXCEPT ![a] = grown] /\ UNCHANGED waitState
    BY <1>8 DEF Push
  <2>2. TypeOK'
    BY <1>1, <1>2, <1>5, <2>1 DEF IInv, TypeOK, runner, waitState
  <2>3. OpenCalls'
    BY <1>1, <2>1 DEF IInv, OpenCalls, Open, InCall, runner, waitState
  <2>4. ~Pending(a)
    BY <1>8 DEF IInv, OpenCalls, Open, Pending
  <2>5. NoLostWakeup'
    BY <1>1, <2>1, <2>4 DEF IInv, TypeOK, NoLostWakeup, Pending, waitState
  <2>6. QED BY <2>2, <2>3, <2>5 DEF IInv
<1>9. QED BY <1>6, <1>7, <1>8

\* Rendering happens after the signal: no wait of the agent is pending, and it
\* only removes notices and moves read positions up to the histories' ends.
LEMMA RenderKeeps ==
    ASSUME IInv, NEW a \in Agents, Render(a)
    PROVE  IInv'
<1> USE BoundsAssumption
<1>1. /\ pc[a] = "awaiting" /\ wait[a].future = "set"
      /\ pc' = [pc EXCEPT ![a] = "answering"]
      /\ UNCHANGED <<counts, terminated, pushes, waitState, stopping, reads>>
  BY DEF Render
<1>2. /\ queue' \in [Agents -> SUBSET Notice]
      /\ \A b \in Agents \ {a} : queue'[b] = queue[b]
      /\ lastSeen' \in [Agents -> [Channels -> 0..MaxMessages]]
      /\ shown' \in [Agents -> SUBSET Notice]
      /\ answer' \in [Agents -> Answers]
  <2>1. CASE RenderNotice(a)
    <3>1. CASE LiveQueue(a) = {} /\ queue' = [queue EXCEPT ![a] = {}]
               /\ shown' = [shown EXCEPT ![a] = {}]
               /\ answer' = [answer EXCEPT ![a] = Fallback(a)] /\ UNCHANGED lastSeen
      BY <3>1 DEF IInv, TypeOK, Fallback, Answers
    <3>2. CASE \E n \in queue[a] :
                 /\ queue' = [queue EXCEPT ![a] = Behind(n, @)]
                 /\ lastSeen' = [lastSeen EXCEPT ![a] =
                                    ReadUpTo(Fresh(n, lastSeen[a], counts), @, counts)]
                 /\ shown' = [shown EXCEPT ![a] = {n}]
                 /\ answer' = [answer EXCEPT ![a] = "notice"]
      <4>1. PICK n \in queue[a] :
                 /\ queue' = [queue EXCEPT ![a] = Behind(n, @)]
                 /\ lastSeen' = [lastSeen EXCEPT ![a] =
                                    ReadUpTo(Fresh(n, lastSeen[a], counts), @, counts)]
                 /\ shown' = [shown EXCEPT ![a] = {n}]
                 /\ answer' = [answer EXCEPT ![a] = "notice"]
        BY <3>2
      <4>2. ReadUpTo(Fresh(n, lastSeen[a], counts), lastSeen[a], counts)
              \in [Channels -> 0..MaxMessages]
        BY ReadUpToType DEF IInv, TypeOK
      <4>3. Behind(n, queue[a]) \in SUBSET Notice /\ {n} \in SUBSET Notice
        BY DEF IInv, TypeOK, Behind
      <4>4. QED BY <4>1, <4>2, <4>3 DEF IInv, TypeOK, Answers
    <3>3. QED BY <2>1, <3>1, <3>2 DEF RenderNotice
  <2>2. CASE RenderBodies(a)
    <3>1. ReadUpTo(Channels, lastSeen[a], counts) \in [Channels -> 0..MaxMessages]
      BY ReadUpToType DEF IInv, TypeOK
    <3>2. QED BY <2>2, <3>1 DEF RenderBodies, IInv, TypeOK, Answers
  <2>3. QED BY <2>1, <2>2 DEF Render
<1>3. TypeOK'
  BY <1>1, <1>2 DEF IInv, TypeOK, PCs, waitState
<1>4. OpenCalls'
  BY <1>1 DEF IInv, TypeOK, OpenCalls, Open, InCall, waitState
<1>5. NoLostWakeup'
  BY <1>1, <1>2 DEF IInv, TypeOK, NoLostWakeup, Pending, waitState
<1>6. QED BY <1>3, <1>4, <1>5 DEF IInv

\* The finally block of a cancelled call takes down what the call installed.
LEMMA UnwindKeeps ==
    ASSUME IInv, NEW a \in Agents, Unwind(a)
    PROVE  IInv'
<1>1. /\ pc[a] = "unwinding" /\ pc' = [pc EXCEPT ![a] = "gone"]
      /\ UNCHANGED <<session, stopping, shown, answer, reads>>
  BY DEF Unwind
<1>2. CASE wait[a].future \in {"pending", "cancelled"} /\ CancelWait(a)
  <2>1. /\ wait' \in [Agents -> Wait]
        /\ wait'[a].future = "cancelled" /\ wait'[a].timer = FALSE
        /\ \A b \in Agents \ {a} : wait'[b] = wait[b]
        /\ listening' = listening \ {a} /\ installed' = installed \ {a}
        /\ seenParked' = seenParked \ {a}
    <3> DEFINE w == [wait[a] EXCEPT !.future = "cancelled", !.timer = FALSE, !.parked = FALSE]
    <3>1. wait \in [Agents -> Wait]
      BY DEF IInv, TypeOK
    <3>2. w \in Wait /\ w.future = "cancelled" /\ w.timer = FALSE
      BY <3>1 DEF Wait, Futures
    <3>3. /\ wait' = [wait EXCEPT ![a] = w]
          /\ listening' = listening \ {a} /\ installed' = installed \ {a}
          /\ seenParked' = seenParked \ {a}
      BY <1>2, <3>1 DEF CancelWait
    <3> HIDE DEF w
    <3>4. QED BY <3>1, <3>2, <3>3
  <2>2. TypeOK'
    BY <1>1, <2>1 DEF IInv, TypeOK, PCs, session
  <2>3. OpenCalls'
    BY <1>1, <2>1 DEF IInv, TypeOK, OpenCalls, Open, InCall
  <2>4. NoLostWakeup'
    BY <1>1, <2>1 DEF IInv, NoLostWakeup, Pending, session
  <2>5. QED BY <2>2, <2>3, <2>4 DEF IInv
<1>3. CASE wait[a].future = "set" /\ UNCHANGED waitState
  BY <1>1, <1>3 DEF IInv, TypeOK, PCs, session, waitState, OpenCalls, Open, InCall,
                    NoLostWakeup, Pending
<1>4. QED BY <1>2, <1>3 DEF Unwind

\* One step per action: each keeps the inductive invariant.
LEMMA StepPreserves == IInv /\ [Next]_vars => IInv'
<1> SUFFICES ASSUME IInv, [Next]_vars PROVE IInv'
  OBVIOUS
<1> USE BoundsAssumption
<1>1. ASSUME NEW c \in Channels, StoreMessage(c) PROVE IInv'
  <2>1. TypeOK'
    BY <1>1 DEF IInv, TypeOK, StoreMessage, waitState, runner
  <2>2. OpenCalls' /\ NoLostWakeup'
    BY <1>1, CallsUntouched DEF StoreMessage, waitState, runner
  <2>3. QED BY <2>1, <2>2 DEF IInv
<1>2. ASSUME NEW c \in Channels, ClearHistory(c) PROVE IInv'
  <2>1. TypeOK'
    BY <1>2 DEF IInv, TypeOK, ClearHistory, waitState, runner
  <2>2. OpenCalls' /\ NoLostWakeup'
    BY <1>2, CallsUntouched DEF ClearHistory, waitState, runner
  <2>3. QED BY <2>1, <2>2 DEF IInv
<1>3. ASSUME NEW a \in Agents, NEW c \in Channels, ReadChannel(a, c) PROVE IInv'
  <2>1. TypeOK'
    BY <1>3 DEF IInv, TypeOK, ReadChannel, waitState, runner
  <2>2. OpenCalls' /\ NoLostWakeup'
    BY <1>3, CallsUntouched DEF ReadChannel, waitState, runner
  <2>3. QED BY <2>1, <2>2 DEF IInv
<1>4. ASSUME NEW a \in Agents, Call(a) PROVE IInv'
  <2>1. PICK kind \in WaitKinds, deadline \in BOOLEAN : Register(a, kind, deadline)
    BY <1>4 DEF Call
  <2> DEFINE held == Satisfied(kind, LiveQueue(a), terminated[a])
  <2>2. held \in SUBSET WakeReasons
    BY SatisfiedType
  <2>3. LiveQueue(a) \subseteq queue[a]
    BY LiveSubset DEF LiveQueue
  <2>4. CASE held = {} /\ RegisterParks(a, kind, deadline)
    <3>1. TypeOK'
      BY <2>1, <2>3, <2>4 DEF IInv, TypeOK, Register, RegisterParks, Wait, Futures, PCs
    <3>2. OpenCalls'
      BY <2>1, <2>4 DEF IInv, TypeOK, Register, RegisterParks, OpenCalls, Open, InCall
    <3>3. NoLostWakeup'
      BY <2>1, <2>4 DEF IInv, TypeOK, Register, RegisterParks, NoLostWakeup, Pending
    <3>4. QED BY <3>1, <3>2, <3>3 DEF IInv
  <2>5. CASE \E r \in AtOnce(kind, deadline, held) : RegisterResumes(a, kind, deadline, r)
    <3>1. PICK r \in AtOnce(kind, deadline, held) : RegisterResumes(a, kind, deadline, r)
      BY <2>5
    <3>2. r \in SUBSET WakeReasons
      BY <2>2, <3>1, AtOnceType
    <3>3. TypeOK'
      BY <2>1, <2>3, <3>1, <3>2 DEF IInv, TypeOK, Register, RegisterResumes, Wait, Futures, PCs
    <3>4. a \notin seenParked
      BY <2>1 DEF IInv, OpenCalls, Open, InCall, Register
    <3>5. OpenCalls'
      BY <2>1, <3>1, <3>4 DEF IInv, TypeOK, Register, RegisterResumes, OpenCalls, Open, InCall
    <3>6. NoLostWakeup'
      BY <2>1, <3>1 DEF IInv, TypeOK, Register, RegisterResumes, NoLostWakeup, Pending
    <3>7. QED BY <3>3, <3>5, <3>6 DEF IInv
  <2>6. QED BY <2>1, <2>4, <2>5 DEF Register
<1>5. ASSUME NEW a \in Agents, TimerFires(a) PROVE IInv'
  <2>1. CASE wait[a].future = "pending" /\ Resume(a, {"timeout"})
    <3>1. {"timeout"} \in SUBSET WakeReasons
      BY DEF WakeReasons
    <3>2. QED BY <1>5, <2>1, <3>1, ResumeKeeps DEF TimerFires
  <2>2. CASE wait[a].future # "pending"
    <3>1. /\ wait' = [wait EXCEPT ![a].timer = FALSE]
          /\ UNCHANGED <<listening, installed, seenParked>>
      BY <1>5, <2>2 DEF TimerFires
    <3>2. UNCHANGED <<session, runner>>
      BY <1>5 DEF TimerFires
    <3>3. /\ wait' \in [Agents -> Wait]
          /\ wait'[a].future = wait[a].future /\ wait'[a].for = wait[a].for /\ ~wait'[a].timer
          /\ \A b \in Agents \ {a} : wait'[b] = wait[b]
      <4> DEFINE w == [wait[a] EXCEPT !.timer = FALSE]
      <4>1. wait \in [Agents -> Wait]
        BY DEF IInv, TypeOK
      <4>2. w \in Wait /\ w.future = wait[a].future /\ w.for = wait[a].for /\ w.timer = FALSE
        BY <4>1 DEF Wait
      <4>3. wait' = [wait EXCEPT ![a] = w]
        BY <3>1, <4>1
      <4> HIDE DEF w
      <4>4. QED BY <4>1, <4>2, <4>3
    <3>4. TypeOK'
      BY <3>1, <3>2, <3>3 DEF IInv, TypeOK, session, runner
    <3>5. OpenCalls'
      BY <3>1, <3>2, <3>3 DEF IInv, session, runner, OpenCalls, Open, InCall
    <3>6. NoLostWakeup'
      <4>1. \A b \in Agents : Pending(b)' => Pending(b) /\ wait'[b].for = wait[b].for
        BY <3>1, <3>3 DEF Pending
      <4>2. QED BY <3>2, <4>1 DEF IInv, NoLostWakeup, session
    <3>7. QED BY <3>4, <3>5, <3>6 DEF IInv
  <2>3. QED BY <1>5, <2>1, <2>2 DEF TimerFires
<1>6. ASSUME NEW a \in Agents, Release(a) PROVE IInv'
  <2>1. {"released"} \in SUBSET WakeReasons
    BY DEF WakeReasons
  <2>2. QED BY <1>6, <2>1, ResumeKeeps DEF Release
<1>7. ASSUME NEW a \in Agents, Notified(a) PROVE IInv'
  <2>1. PICK kind \in NoticeKinds, chans \in SUBSET Channels : Push(a, kind, chans)
    BY <1>7 DEF Notified, NoticeKinds
  <2>2. QED BY <2>1, PushKeeps
<1>8. ASSUME NEW a \in Agents, RunnerStep(a) PROVE IInv'
  <2>1. CASE RegistrationLogged(a)
    BY <2>1 DEF IInv, TypeOK, PCs, RegistrationLogged, session, waitState, OpenCalls, Open,
                InCall, NoLostWakeup, Pending
  <2>2. CASE Render(a)
    BY <2>2, RenderKeeps
  <2>3. CASE Return(a)
    BY <2>3 DEF IInv, TypeOK, PCs, Return, session, waitState, OpenCalls, Open,
                InCall, NoLostWakeup, Pending
  <2>4. CASE Unwind(a)
    BY <2>4, UnwindKeeps
  <2>5. QED BY <1>8, <2>1, <2>2, <2>3, <2>4 DEF RunnerStep
<1>9. ASSUME NEW a \in Agents, RunnerReturns(a) PROVE IInv'
  BY <1>9 DEF IInv, TypeOK, PCs, RunnerReturns, session, waitState, OpenCalls, Open,
              InCall, NoLostWakeup, Pending
<1>10. ASSUME NEW a \in Agents, CancelRunner(a) PROVE IInv'
  <2>1. TypeOK'
    <3>1. wait' \in [Agents -> Wait]
      <4>1. CASE wait' = [wait EXCEPT ![a].future = "cancelled"]
        <5>1. wait \in [Agents -> Wait] /\ "cancelled" \in Futures
          BY DEF IInv, TypeOK, Futures
        <5>2. QED BY <4>1, <5>1 DEF Wait
      <4>2. QED BY <1>10, <4>1 DEF IInv, TypeOK, CancelRunner
    <3>2. pc' \in [Agents -> PCs]
      BY <1>10 DEF IInv, TypeOK, PCs, CancelRunner
    <3>3. QED BY <1>10, <3>1, <3>2 DEF IInv, TypeOK, CancelRunner, session
  <2>2. OpenCalls'
    BY <1>10 DEF IInv, TypeOK, CancelRunner, Wait, OpenCalls, Open, InCall
  <2>3. NoLostWakeup'
    <3>1. UNCHANGED <<installed, queue, terminated>>
      BY <1>10 DEF CancelRunner, session
    <3>2. \A b \in Agents : Pending(b)' => Pending(b) /\ wait'[b].for = wait[b].for
      <4>1. CASE wait' = wait
        BY <3>1, <4>1 DEF Pending
      <4>2. CASE wait' = [wait EXCEPT ![a].future = "cancelled"]
        <5>1. wait \in [Agents -> Wait]
          BY DEF IInv, TypeOK
        <5>2. wait'[a].future = "cancelled" /\ \A b \in Agents \ {a} : wait'[b] = wait[b]
          BY <4>2, <5>1 DEF Wait
        <5>3. QED BY <3>1, <5>2 DEF Pending
      <4>3. QED BY <1>10, <4>1, <4>2 DEF CancelRunner
    <3>3. QED BY <3>1, <3>2 DEF IInv, NoLostWakeup
  <2>4. QED BY <2>1, <2>2, <2>3 DEF IInv
<1>11. CASE UNCHANGED vars
  BY <1>11 DEF IInv, vars, session, waitState, runner, TypeOK, OpenCalls, Open, InCall,
               NoLostWakeup, Pending
<1>12. QED
  BY <1>1, <1>2, <1>3, <1>4, <1>5, <1>6, <1>7, <1>8, <1>9, <1>10, <1>11 DEF Next

\* TypeOK holds in every reachable state.
THEOREM TypeCorrect == Spec => []TypeOK
<1>1. IInv => TypeOK
  BY DEF IInv
<1>2. QED BY InitEstablishes, StepPreserves, <1>1, PTL DEF Spec

\* No order of pushes, reads, wipes, timers and cancellations loses a wake-up,
\* for any number of agents, channels, messages and notices.
THEOREM WakeupsAreNotLost == Spec => []NoLostWakeup
<1>1. IInv => NoLostWakeup
  BY DEF IInv
<1>2. QED BY InitEstablishes, StepPreserves, <1>1, PTL DEF Spec

\* Listener, entry, timer and the scenario's view stand exactly while a call is open.
THEOREM CallsAreBracketed == Spec => []OpenCalls
<1>1. IInv => OpenCalls
  BY DEF IInv
<1>2. QED BY InitEstablishes, StepPreserves, <1>1, PTL DEF Spec

-----------------------------------------------------------------------------
(* A parked call can still be ended *)

\* A wait with a deadline keeps its timer until it is resumed or cancelled.
DeadlinesArmed ==
    \A a \in Agents : wait[a].future = "pending" /\ wait[a].deadline => wait[a].timer

\* What a step may do to a wait and keep its deadline armed.
KeepsArmed(a) ==
    \/ wait'[a] = wait[a]
    \/ wait'[a].future # "pending"
    \/ wait'[a].deadline = wait'[a].timer

\* A wait that is resumed or cancelled is pending no more.
LEMMA EndedWaits ==
    ASSUME IInv, NEW a \in Agents, NEW reasons,
           Resume(a, reasons) \/ CancelWait(a)
           \/ (\E k \in WaitKinds, d \in BOOLEAN : RegisterResumes(a, k, d, reasons))
    PROVE  wait'[a].future # "pending" /\ \A b \in Agents \ {a} : wait'[b] = wait[b]
<1>1. wait \in [Agents -> Wait]
  BY DEF IInv, TypeOK
<1>2. CASE Resume(a, reasons)
  <2>1. wait' = [wait EXCEPT ![a] = [@ EXCEPT !.future = "set", !.reasons = reasons,
                                             !.timer = FALSE, !.parked = FALSE]]
    BY <1>2 DEF Resume
  <2>2. QED BY <1>1, <2>1 DEF Wait
<1>3. CASE CancelWait(a)
  <2>1. wait' = [wait EXCEPT ![a] = [@ EXCEPT !.future = "cancelled",
                                             !.timer = FALSE, !.parked = FALSE]]
    BY <1>3 DEF CancelWait
  <2>2. QED BY <1>1, <2>1 DEF Wait
<1>4. CASE \E k \in WaitKinds, d \in BOOLEAN : RegisterResumes(a, k, d, reasons)
  BY <1>1, <1>4 DEF RegisterResumes
<1>5. QED BY <1>2, <1>3, <1>4

\* One case per step that writes a wait: only an ended one loses its timer.
LEMMA StepKeepsArmed == IInv /\ [Next]_vars => \A a \in Agents : KeepsArmed(a)
<1> SUFFICES ASSUME IInv, [Next]_vars PROVE \A a \in Agents : KeepsArmed(a)
  OBVIOUS
<1>1. wait \in [Agents -> Wait]
  BY DEF IInv, TypeOK
<1>2. CASE UNCHANGED wait
  BY <1>2 DEF KeepsArmed
<1>3. ASSUME NEW c \in Channels, StoreMessage(c) \/ ClearHistory(c) PROVE UNCHANGED wait
  BY <1>3 DEF StoreMessage, ClearHistory, waitState
<1>4. ASSUME NEW a \in Agents, Call(a) PROVE \A b \in Agents : KeepsArmed(b)
  <2>1. PICK kind \in WaitKinds, deadline \in BOOLEAN : Register(a, kind, deadline)
    BY <1>4 DEF Call
  <2>2. CASE RegisterParks(a, kind, deadline)
    <3>1. wait' = [wait EXCEPT ![a] = [for |-> kind, deadline |-> deadline,
                      future |-> "pending", reasons |-> {}, timer |-> deadline, parked |-> TRUE]]
      BY <2>2 DEF RegisterParks
    <3>2. wait'[a].deadline = wait'[a].timer
      BY <1>1, <3>1
    <3>3. \A b \in Agents \ {a} : wait'[b] = wait[b]
      BY <1>1, <3>1
    <3>4. QED BY <3>2, <3>3 DEF KeepsArmed
  <2>3. CASE \E r : RegisterResumes(a, kind, deadline, r)
    BY <2>3, EndedWaits DEF KeepsArmed
  <2>4. QED BY <2>1, <2>2, <2>3 DEF Register
<1>5. ASSUME NEW a \in Agents, NEW reasons, Resume(a, reasons) PROVE \A b \in Agents : KeepsArmed(b)
  BY <1>5, EndedWaits DEF KeepsArmed
<1>6. ASSUME NEW a \in Agents, TimerFires(a) PROVE \A b \in Agents : KeepsArmed(b)
  <2>1. CASE Resume(a, {"timeout"})
    BY <1>5, <2>1
  <2>2. CASE wait[a].future # "pending" /\ wait' = [wait EXCEPT ![a].timer = FALSE]
    <3>1. wait'[a].future = wait[a].future /\ \A b \in Agents \ {a} : wait'[b] = wait[b]
      BY <1>1, <2>2 DEF Wait
    <3>2. QED BY <2>2, <3>1 DEF KeepsArmed
  <2>3. QED BY <1>6, <2>1, <2>2 DEF TimerFires
<1>7. ASSUME NEW a \in Agents, Notified(a) PROVE \A b \in Agents : KeepsArmed(b)
  <2>1. PICK kind \in NoticeKinds, chans \in SUBSET Channels : Push(a, kind, chans)
    BY <1>7 DEF Notified, NoticeKinds
  <2>2. UNCHANGED waitState \/ \E held : Resume(a, held)
    BY <2>1 DEF Push
  <2>3. QED BY <1>2, <1>5, <2>2 DEF waitState
<1>8. ASSUME NEW a \in Agents, RunnerStep(a) PROVE \A b \in Agents : KeepsArmed(b)
  <2>1. UNCHANGED waitState \/ CancelWait(a)
    BY <1>8 DEF RunnerStep, RegistrationLogged, Render, Return, Unwind
  <2>2. CASE CancelWait(a)
    BY <2>2, EndedWaits DEF KeepsArmed
  <2>3. QED BY <1>2, <2>1, <2>2 DEF waitState
<1>9. ASSUME NEW a \in Agents, CancelRunner(a) PROVE \A b \in Agents : KeepsArmed(b)
  <2>1. CASE wait' = [wait EXCEPT ![a].future = "cancelled"]
    <3>1. wait'[a].future = "cancelled" /\ \A b \in Agents \ {a} : wait'[b] = wait[b]
      BY <1>1, <2>1 DEF Wait
    <3>2. QED BY <3>1 DEF KeepsArmed
  <2>2. QED BY <1>2, <1>9, <2>1 DEF CancelRunner
<1>10. ASSUME NEW a \in Agents, NEW c \in Channels, ReadChannel(a, c) PROVE UNCHANGED wait
  BY <1>10 DEF ReadChannel, waitState
<1>11. ASSUME NEW a \in Agents, RunnerReturns(a) \/ Release(a) PROVE \A b \in Agents : KeepsArmed(b)
  <2>1. UNCHANGED waitState \/ Resume(a, {"released"})
    BY <1>11 DEF RunnerReturns, Release
  <2>2. QED BY <1>2, <1>5, <2>1 DEF waitState
<1>12. CASE UNCHANGED vars
  BY <1>2, <1>12 DEF vars, waitState
<1>13. QED
  BY <1>2, <1>3, <1>4, <1>6, <1>7, <1>8, <1>9, <1>10, <1>11, <1>12 DEF Next

\* A deadline always stands behind a timer that can fire, and being told the run is
\* over leaves nobody parked: what the drains of the supervisor and of a swap rest on.
THEOREM CallsCanAlwaysEnd == Spec => []ParkedCallsCanEnd
<1> DEFINE J == IInv /\ DeadlinesArmed
<1>1. Init => J
  BY InitEstablishes DEF Init, DeadlinesArmed, NoWait
<1>2. J /\ [Next]_vars => J'
  <2> SUFFICES ASSUME J, [Next]_vars PROVE J'
    OBVIOUS
  <2>1. IInv'
    BY StepPreserves
  <2>2. \A a \in Agents : KeepsArmed(a)
    BY StepKeepsArmed
  <2>3. wait' \in [Agents -> Wait]
    BY <2>1 DEF IInv, TypeOK
  <2>4. ASSUME NEW a \in Agents, wait'[a].future = "pending", wait'[a].deadline
        PROVE  wait'[a].timer
    <3>1. CASE wait'[a] = wait[a]
      BY <2>4, <3>1 DEF DeadlinesArmed
    <3>2. CASE wait'[a].deadline = wait'[a].timer
      BY <2>4, <3>2
    <3>3. QED BY <2>2, <2>4, <3>1, <3>2 DEF KeepsArmed
  <2>5. DeadlinesArmed'
    BY <2>4 DEF DeadlinesArmed
  <2>6. QED BY <2>1, <2>5
<1>3. J => ParkedCallsCanEnd
  <2> SUFFICES ASSUME J, NEW a \in Agents, Pending(a)
               PROVE  (wait[a].deadline => wait[a].timer) /\ ~terminated[a]
    BY DEF ParkedCallsCanEnd
  <2>1. wait[a].deadline => wait[a].timer
    BY DEF DeadlinesArmed, Pending
  <2>2. Satisfied(wait[a].for, queue[a], terminated[a]) = {}
    BY DEF IInv, NoLostWakeup
  <2>3. terminated[a] => "done" \in Satisfied(wait[a].for, queue[a], terminated[a])
    BY DEF Satisfied
  <2>4. QED BY <2>1, <2>2, <2>3
<1>4. QED BY <1>1, <1>2, <1>3, PTL DEF Spec

-----------------------------------------------------------------------------
(* What a result with nothing in it means *)

\* What woke a call still stands while its result is due: an event that is not in
\* the queue, or a notice that is.
Cause(a) ==
    \/ wait[a].reasons \cap {"timeout", "released", "done"} # {}
    \/ LiveQueue(a) # {}

Due(a) == pc[a] \in {"logging", "awaiting"} /\ wait[a].future = "set"

CausesStand == \A a \in Agents : Due(a) => Cause(a)

\* A step that leaves a due result due, and what woke it where it was.
Carries(a) ==
    /\ Due(a) /\ wait'[a].reasons = wait[a].reasons
    /\ LiveQueue(a) \subseteq queue'[a]
    /\ lastSeen'[a] = lastSeen[a]
    /\ \A c \in Channels : counts[c] <= counts'[c]

\* A step that renders no result for the agent.
KeepsAnswer(a) ==
    pc'[a] = "answering" => /\ pc[a] = "answering" /\ answer'[a] = answer[a]
                            /\ wait'[a].reasons = wait[a].reasons

Explains(a) == (Due(a)' => Cause(a)' \/ Carries(a)) /\ KeepsAnswer(a)

\* A condition that holds is the end of the run or rests on a queued notice.
LEMMA HeldHasACause ==
    ASSUME NEW waitFor, NEW queued, NEW over, Satisfied(waitFor, queued, over) # {}
    PROVE  "done" \in Satisfied(waitFor, queued, over) \/ queued # {}
BY DEF Satisfied, SatisfiedByQueue

\* Discarding twice discards nothing more.
LEMMA LiveStaysLive ==
    ASSUME NEW q, NEW seen, NEW cnt
    PROVE  Live(Live(q, seen, cnt), seen, cnt) = Live(q, seen, cnt)
BY DEF Live

\* A live notice stays live while histories only grow and the agent reads nothing.
LEMMA GrowthKeepsLive ==
    ASSUME NEW q \in SUBSET Notice, NEW q2, NEW seen \in [Channels -> Nat],
           NEW cnt \in [Channels -> Nat], NEW cnt2 \in [Channels -> Nat],
           \A c \in Channels : cnt[c] <= cnt2[c],
           Live(q, seen, cnt) \subseteq q2, Live(q, seen, cnt) # {}
    PROVE  Live(q2, seen, cnt2) # {}
<1>1. PICK n \in q : ~IsStale(n, seen, cnt)
  BY DEF Live
<1>2. n \in q2
  BY <1>1 DEF Live
<1>3. n.channels \subseteq Channels
  BY DEF Notice
<1>4. \A c \in n.channels : cnt[c] > seen[c] => cnt2[c] > seen[c]
  BY <1>3
<1>5. Fresh(n, seen, cnt) \subseteq Fresh(n, seen, cnt2)
  BY <1>4 DEF Fresh
<1>6. ~IsStale(n, seen, cnt2)
  BY <1>1, <1>5 DEF IsStale
<1>7. QED BY <1>2, <1>6 DEF Live

LEMMA CauseCarried ==
    ASSUME TypeOK, TypeOK', NEW a \in Agents, Carries(a), Cause(a)
    PROVE  Cause(a)'
<1>1. CASE wait[a].reasons \cap {"timeout", "released", "done"} # {}
  BY <1>1 DEF Carries, Cause
<1>2. CASE LiveQueue(a) # {}
  <2>1. /\ queue[a] \in SUBSET Notice /\ lastSeen[a] \in [Channels -> 0..MaxMessages]
        /\ counts \in [Channels -> 0..MaxMessages] /\ counts' \in [Channels -> 0..MaxMessages]
    BY DEF TypeOK
  <2>2. /\ lastSeen[a] \in [Channels -> Nat]
        /\ counts \in [Channels -> Nat] /\ counts' \in [Channels -> Nat]
    BY <2>1
  <2>3. /\ Live(queue[a], lastSeen[a], counts) # {}
        /\ Live(queue[a], lastSeen[a], counts) \subseteq queue'[a]
        /\ lastSeen'[a] = lastSeen[a]
        /\ \A c \in Channels : counts[c] <= counts'[c]
    BY <1>2 DEF Carries, LiveQueue
  <2>4. Live(queue'[a], lastSeen[a], counts') # {}
    BY <2>1, <2>2, <2>3, GrowthKeepsLive
  <2>5. QED BY <2>3, <2>4 DEF Cause, LiveQueue
<1>3. QED BY <1>1, <1>2 DEF Cause

\* A step that moves neither histories, nor reads, nor a queue or answer, and leaves
\* every wait that is set as it was.
LEMMA NothingToExplain ==
    ASSUME IInv, UNCHANGED <<counts, lastSeen, queue, answer>>, NEW a \in Agents,
           pc'[a] \in {"logging", "awaiting"} => pc[a] \in {"logging", "awaiting"},
           pc'[a] = "answering" => pc[a] = "answering",
           wait'[a].future = "set" =>
               wait[a].future = "set" /\ wait'[a].reasons = wait[a].reasons,
           pc[a] = "answering" => wait'[a].reasons = wait[a].reasons
    PROVE  Explains(a)
<1>1. LiveQueue(a) \subseteq queue[a]
  BY LiveSubset DEF LiveQueue
<1>2. \A c \in Channels : counts[c] <= counts[c]
  <2>1. \A c \in Channels : counts[c] \in Nat
    BY BoundsAssumption DEF IInv, TypeOK
  <2>2. QED BY <2>1
<1>3. Due(a)' => Carries(a)
  BY <1>1, <1>2 DEF Due, Carries
<1>4. KeepsAnswer(a)
  BY DEF KeepsAnswer
<1>5. QED BY <1>3, <1>4 DEF Explains

\* A resumption gives its call a cause, and no agent with an answer is resumed.
LEMMA ResumeExplains ==
    ASSUME IInv, NEW a \in Agents, NEW reasons \in SUBSET WakeReasons, Resume(a, reasons),
           wait[a].future = "pending", UNCHANGED <<session, runner>>,
           reasons \cap {"timeout", "released", "done"} # {}
    PROVE  \A b \in Agents : Explains(b)
<1> SUFFICES ASSUME NEW b \in Agents PROVE Explains(b)
  OBVIOUS
<1>1. UNCHANGED <<counts, lastSeen, queue, answer, pc>>
  BY DEF session, runner
<1>2. pc[a] # "answering"
  BY DEF IInv, OpenCalls, InCall
<1>3. CASE b = a
  <2>1. Cause(a)'
    BY ResumeCloses DEF Cause
  <2>2. KeepsAnswer(a)
    BY <1>1, <1>2 DEF KeepsAnswer
  <2>3. QED BY <1>3, <2>1, <2>2 DEF Explains
<1>4. CASE b # a
  <2>1. wait'[b] = wait[b]
    BY <1>4, ResumeCloses
  <2>2. QED BY <1>1, <2>1, NothingToExplain
<1>5. QED BY <1>3, <1>4

\* A push that resumes a call leaves what it resumed it for: the notices it found
\* live, or the end of the run.
LEMMA PushExplains ==
    ASSUME IInv, IInv', NEW a \in Agents, NEW kind \in NoticeKinds,
           NEW chans \in SUBSET Channels, Push(a, kind, chans)
    PROVE  \A b \in Agents : Explains(b)
<1> SUFFICES ASSUME NEW b \in Agents PROVE Explains(b)
  OBVIOUS
<1> DEFINE n     == [at |-> pushes[a], kind |-> kind, channels |-> chans]
           over  == terminated[a] \/ kind = "done"
           grown == queue[a] \cup {n}
           live  == Live(grown, lastSeen[a], counts)
           held  == Satisfied(wait[a].for, live, over)
<1>1. UNCHANGED <<counts, lastSeen, answer, pc>>
  BY DEF Push, runner
<1>2. \A c \in Channels : counts[c] <= counts[c]
  <2>1. \A c \in Channels : counts[c] \in Nat
    BY BoundsAssumption DEF IInv, TypeOK
  <2>2. QED BY <2>1
<1>3. LiveQueue(a) \subseteq live /\ LiveQueue(a) \subseteq grown
  BY DEF LiveQueue, Live
<1>4. queue \in [Agents -> SUBSET Notice]
  BY DEF IInv, TypeOK
<1>5. held \in SUBSET WakeReasons
  BY SatisfiedType
<1>6. CASE UNCHANGED waitState
  <2>1. queue' = [queue EXCEPT ![a] = live] \/ queue' = [queue EXCEPT ![a] = grown]
    BY DEF Push
  <2>2. LiveQueue(b) \subseteq queue[b]
    BY LiveSubset DEF LiveQueue
  <2> HIDE DEF live, grown, held
  <2>3. LiveQueue(b) \subseteq queue'[b]
    BY <1>3, <1>4, <2>1, <2>2
  <2>4. UNCHANGED wait
    BY <1>6 DEF waitState
  <2>5. QED BY <1>1, <1>2, <2>3, <2>4 DEF Explains, Due, Carries, KeepsAnswer
<1>7. CASE /\ a \in listening /\ wait[a].future = "pending" /\ held # {}
           /\ queue' = [queue EXCEPT ![a] = live] /\ Resume(a, held)
  <2>1. "done" \in held \/ live # {}
    BY <1>7, HeldHasACause
  <2>2. Live(live, lastSeen[a], counts) = live
    BY LiveStaysLive
  <2> HIDE DEF live, held
  <2>3. pc[a] # "answering"
    BY <1>7 DEF IInv, OpenCalls, InCall
  <2>4. CASE b = a
    <3>1. wait'[a].reasons = held /\ queue'[a] = live
      BY <1>4, <1>5, <1>7, ResumeCloses
    <3>2. Cause(a)'
      BY <1>1, <2>1, <2>2, <3>1 DEF Cause, LiveQueue
    <3>3. KeepsAnswer(a)
      BY <1>1, <2>3 DEF KeepsAnswer
    <3>4. QED BY <2>4, <3>2, <3>3 DEF Explains
  <2>5. CASE b # a
    <3>1. wait'[b] = wait[b] /\ queue'[b] = queue[b]
      BY <1>4, <1>5, <1>7, <2>5, ResumeCloses
    <3>2. LiveQueue(b) \subseteq queue'[b]
      BY <3>1, LiveSubset DEF LiveQueue
    <3>3. QED BY <1>1, <1>2, <3>1, <3>2 DEF Explains, Due, Carries, KeepsAnswer
  <2>6. QED BY <2>4, <2>5
<1>8. QED BY <1>6, <1>7 DEF Push

\* A registration answered at once has its cause in the queue it has just pruned.
LEMMA RegisterExplains ==
    ASSUME IInv, NEW a \in Agents, Call(a)
    PROVE  \A b \in Agents : Explains(b)
<1> SUFFICES ASSUME NEW b \in Agents PROVE Explains(b)
  OBVIOUS
<1>1. PICK kind \in WaitKinds, deadline \in BOOLEAN : Register(a, kind, deadline)
  BY DEF Call
<1> DEFINE live == LiveQueue(a)
           held == Satisfied(kind, live, terminated[a])
<1>2. /\ queue' = [queue EXCEPT ![a] = live] /\ pc' = [pc EXCEPT ![a] = "logging"]
      /\ pc[a] = "acting" /\ UNCHANGED <<counts, lastSeen, answer>>
  BY <1>1 DEF Register
<1>3. /\ queue \in [Agents -> SUBSET Notice] /\ pc \in [Agents -> PCs]
      /\ wait \in [Agents -> Wait] /\ \A c \in Channels : counts[c] <= counts[c]
  <2>1. \A c \in Channels : counts[c] \in Nat
    BY BoundsAssumption DEF IInv, TypeOK
  <2>2. QED BY <2>1 DEF IInv, TypeOK
<1>4. Live(live, lastSeen[a], counts) = live
  BY LiveStaysLive DEF LiveQueue
<1>5. held # {} => "done" \in held \/ live # {}
  BY HeldHasACause
<1>6. \/ RegisterParks(a, kind, deadline)
      \/ \E r \in AtOnce(kind, deadline, held) : RegisterResumes(a, kind, deadline, r)
  BY <1>1 DEF Register
<1> HIDE DEF live, held
<1>7. CASE b = a
  <2>1. pc'[a] = "logging" /\ queue'[a] = live
    BY <1>2, <1>3
  <2>2. KeepsAnswer(a)
    BY <2>1 DEF KeepsAnswer
  <2>3. CASE RegisterParks(a, kind, deadline)
    <3>1. wait'[a].future = "pending"
      BY <1>3, <2>3 DEF RegisterParks
    <3>2. QED BY <1>7, <2>2, <3>1 DEF Explains, Due
  <2>4. ASSUME NEW r \in AtOnce(kind, deadline, held), RegisterResumes(a, kind, deadline, r)
        PROVE  Explains(b)
    <3>1. wait'[a].reasons = r
      BY <1>3, <2>4 DEF RegisterResumes
    <3>2. (r = held /\ held # {}) \/ r = {"timeout"} \/ r = {"released"}
      BY DEF AtOnce
    <3>3. Cause(a)'
      BY <1>2, <1>4, <1>5, <2>1, <3>1, <3>2 DEF Cause, LiveQueue
    <3>4. QED BY <1>7, <2>2, <3>3 DEF Explains
  <2>5. QED BY <1>6, <2>3, <2>4
<1>8. CASE b # a
  <2>1. wait'[b] = wait[b]
    BY <1>3, <1>6, <1>8 DEF RegisterParks, RegisterResumes
  <2>2. pc'[b] = pc[b] /\ queue'[b] = queue[b]
    BY <1>2, <1>3, <1>8
  <2>3. LiveQueue(b) \subseteq queue'[b]
    BY <2>2, LiveSubset DEF LiveQueue
  <2>4. QED BY <1>2, <1>3, <2>1, <2>2, <2>3 DEF Explains, Due, Carries, KeepsAnswer
<1>9. QED BY <1>7, <1>8

\* Every step but a rendering, while no history is wiped.
LEMMA StepExplains ==
    ASSUME ~WipesHistory, IInv, IInv', [Next]_vars, \A a \in Agents : ~Render(a)
    PROVE  \A b \in Agents : Explains(b)
<1> SUFFICES ASSUME NEW b \in Agents PROVE Explains(b)
  OBVIOUS
<1> USE BoundsAssumption
<1>1. /\ counts \in [Channels -> 0..MaxMessages]
      /\ lastSeen \in [Agents -> [Channels -> 0..MaxMessages]]
      /\ pc \in [Agents -> PCs] /\ wait \in [Agents -> Wait]
      /\ \A c \in Channels : counts[c] \in Nat /\ counts[c] <= counts[c]
  BY DEF IInv, TypeOK
<1>2. LiveQueue(b) \subseteq queue[b]
  BY LiveSubset DEF LiveQueue
<1>3. ASSUME NEW c \in Channels, StoreMessage(c) PROVE Explains(b)
  <2>1. UNCHANGED <<lastSeen, queue, wait, pc, answer>>
    BY <1>3 DEF StoreMessage, waitState, runner
  <2>2. \A d \in Channels : counts[d] <= counts'[d]
    BY <1>1, <1>3 DEF StoreMessage
  <2>3. QED BY <1>2, <2>1, <2>2 DEF Explains, Due, Carries, KeepsAnswer
<1>4. ASSUME NEW c \in Channels, ClearHistory(c) PROVE Explains(b)
  BY <1>4 DEF ClearHistory
<1>5. ASSUME NEW a \in Agents, NEW c \in Channels, ReadChannel(a, c) PROVE Explains(b)
  <2>1. pc[a] = "acting" /\ UNCHANGED <<counts, queue, wait, pc, answer>>
    BY <1>5 DEF ReadChannel, waitState, runner
  <2>2. CASE b = a
    BY <2>1, <2>2 DEF Explains, Due, KeepsAnswer
  <2>3. CASE b # a
    <3>1. lastSeen'[b] = lastSeen[b]
      BY <1>1, <1>5, <2>3 DEF ReadChannel
    <3>2. QED BY <1>1, <1>2, <2>1, <3>1 DEF Explains, Due, Carries, KeepsAnswer
  <2>4. QED BY <2>2, <2>3
<1>6. ASSUME NEW a \in Agents, Call(a) PROVE Explains(b)
  BY <1>6, RegisterExplains
<1>7. ASSUME NEW a \in Agents, TimerFires(a) PROVE Explains(b)
  <2>1. UNCHANGED <<session, runner>>
    BY <1>7 DEF TimerFires
  <2>2. CASE wait[a].future = "pending" /\ Resume(a, {"timeout"})
    BY <2>1, <2>2, ResumeExplains DEF WakeReasons
  <2>3. CASE wait' = [wait EXCEPT ![a].timer = FALSE]
    <3>1. wait'[b].future = wait[b].future /\ wait'[b].reasons = wait[b].reasons
      BY <1>1, <2>3 DEF Wait
    <3>2. QED BY <2>1, <3>1, NothingToExplain DEF session, runner
  <2>4. QED BY <1>7, <2>2, <2>3 DEF TimerFires
<1>8. ASSUME NEW a \in Agents, Release(a) PROVE Explains(b)
  <2>1. wait[a].future = "pending" /\ Resume(a, {"released"}) /\ UNCHANGED <<session, runner>>
    BY <1>8 DEF Release, Pending
  <2>2. QED BY <2>1, ResumeExplains DEF WakeReasons
<1>9. ASSUME NEW a \in Agents, Notified(a) PROVE Explains(b)
  <2>1. PICK kind \in NoticeKinds, chans \in SUBSET Channels : Push(a, kind, chans)
    BY <1>9 DEF Notified, NoticeKinds
  <2>2. QED BY <2>1, PushExplains
<1>10. ASSUME NEW a \in Agents, RegistrationLogged(a) \/ Return(a) \/ RunnerReturns(a)
       PROVE  Explains(b)
  <2>1. UNCHANGED <<counts, lastSeen, queue, answer, wait>>
    BY <1>10 DEF RegistrationLogged, Return, RunnerReturns, session, waitState
  <2>2. /\ pc'[b] \in {"logging", "awaiting"} => pc[b] \in {"logging", "awaiting"}
        /\ pc'[b] = "answering" => pc[b] = "answering"
    BY <1>1, <1>10 DEF RegistrationLogged, Return, RunnerReturns
  <2>3. QED BY <2>1, <2>2, NothingToExplain
<1>11. ASSUME NEW a \in Agents, Unwind(a) PROVE Explains(b)
  <2>1. UNCHANGED <<counts, lastSeen, queue, answer>> /\ pc[a] = "unwinding"
        /\ pc' = [pc EXCEPT ![a] = "gone"]
    BY <1>11 DEF Unwind, session
  <2>2. UNCHANGED waitState \/ CancelWait(a)
    BY <1>11 DEF Unwind
  <2>3. wait'[b] = wait[b] \/ (b = a /\ wait'[b].future # "set")
    <3>1. CASE CancelWait(a)
      <4>1. wait' = [wait EXCEPT ![a] = [@ EXCEPT !.future = "cancelled",
                                                 !.timer = FALSE, !.parked = FALSE]]
        BY <3>1 DEF CancelWait
      <4>2. QED BY <1>1, <4>1 DEF Wait
    <3>2. QED BY <2>2, <3>1 DEF waitState
  <2>4. pc'[b] = pc[b] \/ (b = a /\ pc'[b] = "gone")
    BY <1>1, <2>1
  <2>5. QED BY <2>1, <2>3, <2>4, NothingToExplain
<1>12. ASSUME NEW a \in Agents, CancelRunner(a) PROVE Explains(b)
  <2>1. UNCHANGED <<counts, lastSeen, queue, answer>> /\ pc[a] \in {"logging", "awaiting"}
        /\ pc' = [pc EXCEPT ![a] = "unwinding"]
    BY <1>12 DEF CancelRunner, session
  <2>2. pc'[b] = pc[b] \/ (b = a /\ pc'[b] = "unwinding")
    BY <1>1, <2>1
  <2>3. wait'[b] = wait[b] \/ (b = a /\ wait'[b].future # "set")
    <3>1. CASE wait' = [wait EXCEPT ![a].future = "cancelled"]
      BY <1>1, <3>1 DEF Wait
    <3>2. QED BY <1>12, <3>1 DEF CancelRunner
  <2>4. QED BY <2>1, <2>2, <2>3, NothingToExplain
<1>13. CASE UNCHANGED vars
  BY <1>13, NothingToExplain DEF vars, session, waitState, runner
<1>14. QED
  BY <1>3, <1>4, <1>5, <1>6, <1>7, <1>8, <1>9, <1>10, <1>11, <1>12, <1>13 DEF Next, RunnerStep

\* The rendering of a due result says "no activity" of nothing but a timeout.
LEMMA RenderSaysWhy ==
    ASSUME IInv, CausesStand, NoActivityMeansTimeout, NEW a \in Agents, Render(a)
    PROVE  CausesStand' /\ NoActivityMeansTimeout'
<1>1. /\ pc[a] = "awaiting" /\ wait[a].future = "set"
      /\ pc' = [pc EXCEPT ![a] = "answering"] /\ UNCHANGED <<counts, wait>>
  BY DEF Render, waitState
<1>2. /\ pc \in [Agents -> PCs] /\ queue \in [Agents -> SUBSET Notice]
      /\ lastSeen \in [Agents -> [Channels -> 0..MaxMessages]]
      /\ answer \in [Agents -> Answers]
  BY DEF IInv, TypeOK
<1>3. Cause(a)
  BY <1>1 DEF CausesStand, Due
<1>4. \A b \in Agents \ {a} : /\ pc'[b] = pc[b] /\ queue'[b] = queue[b]
                              /\ lastSeen'[b] = lastSeen[b] /\ answer'[b] = answer[b]
  <2>1. CASE RenderNotice(a)
    BY <1>1, <1>2, <2>1 DEF RenderNotice
  <2>2. CASE RenderBodies(a)
    BY <1>1, <1>2, <2>2 DEF RenderBodies
  <2>3. QED BY <2>1, <2>2 DEF Render
<1>5. pc'[a] = "answering"
  BY <1>1, <1>2
<1>6. CausesStand'
  BY <1>1, <1>4, <1>5 DEF CausesStand, Due, Cause, LiveQueue
<1>7. answer'[a] = "no_activity" => "timeout" \in wait[a].reasons
  <2>1. CASE LiveQueue(a) = {} /\ answer' = [answer EXCEPT ![a] = Fallback(a)]
    BY <1>2, <1>3, <2>1 DEF Cause, Fallback
  <2>2. CASE answer' = [answer EXCEPT ![a] = "notice"]
    BY <1>2, <2>2
  <2>3. QED BY <2>1, <2>2 DEF Render, RenderNotice, RenderBodies
<1>8. NoActivityMeansTimeout'
  BY <1>1, <1>4, <1>7 DEF NoActivityMeansTimeout
<1>9. QED BY <1>6, <1>8

\* Where no history is wiped, a result that tells the agent nothing happened means
\* that its deadline passed, whatever was pushed, released or cancelled in between.
THEOREM NoActivityComesOfATimeout ==
    ASSUME ~WipesHistory PROVE Spec => []NoActivityMeansTimeout
<1> DEFINE J == IInv /\ CausesStand /\ NoActivityMeansTimeout
<1>1. Init => J
  BY InitEstablishes DEF Init, CausesStand, Due, NoActivityMeansTimeout
<1>2. J /\ [Next]_vars => J'
  <2> SUFFICES ASSUME J, [Next]_vars PROVE J'
    OBVIOUS
  <2>1. IInv'
    BY StepPreserves
  <2>2. CASE \E a \in Agents : Render(a)
    BY <2>1, <2>2, RenderSaysWhy
  <2>3. CASE \A a \in Agents : ~Render(a)
    <3>1. \A b \in Agents : Explains(b)
      BY <2>1, <2>3, StepExplains
    <3>2. CausesStand'
      <4> SUFFICES ASSUME NEW b \in Agents, Due(b)' PROVE Cause(b)'
        BY DEF CausesStand
      <4>1. CASE Carries(b)
        <5>1. Cause(b)
          BY <4>1 DEF Carries, CausesStand
        <5>2. QED BY <2>1, <4>1, <5>1, CauseCarried DEF IInv
      <4>2. QED BY <3>1, <4>1 DEF Explains
    <3>3. NoActivityMeansTimeout'
      BY <3>1 DEF NoActivityMeansTimeout, Explains, KeepsAnswer
    <3>4. QED BY <2>1, <3>2, <3>3
  <2>4. QED BY <2>2, <2>3
<1>3. J => NoActivityMeansTimeout
  OBVIOUS
<1>4. QED BY <1>1, <1>2, <1>3, PTL DEF Spec

-----------------------------------------------------------------------------
(* What leaves a queue *)

\* A queue's stamps are all different, and older than the next one.
Stamped == \A a \in Agents : \A n \in queue[a] :
               n.at < pushes[a] /\ \A m \in queue[a] : m.at = n.at => m = n

OnlyStaleLeave == \A a \in Agents : \A n \in queue[a] : n \notin queue'[a] => n.kind = "messages"

\* A step that queues and shows nothing.
Quiet == /\ UNCHANGED <<shown, pushes>> /\ OnlyStaleLeave
         /\ \A a \in Agents : queue'[a] \subseteq queue[a]

\* A step that queues one notice, stamped with its arrival.
Queued(a, n) ==
    /\ UNCHANGED shown /\ OnlyStaleLeave
    /\ n.at = pushes[a] /\ pushes' = [pushes EXCEPT ![a] = @ + 1]
    /\ queue'[a] \subseteq queue[a] \cup {n}
    /\ \A b \in Agents \ {a} : queue'[b] = queue[b]

\* A result: the oldest live notice with all that was stale before it, nothing, or all
\* but the message notices.
Taken(a) ==
    /\ UNCHANGED pushes
    /\ \A b \in Agents \ {a} : queue'[b] = queue[b] /\ shown'[b] = shown[b]
    /\ \/ \E n \in queue[a] : /\ IsOldest(n, LiveQueue(a))
                             /\ queue'[a] = Behind(n, queue[a]) /\ shown'[a] = {n}
       \/ LiveQueue(a) = {} /\ queue'[a] = {} /\ shown'[a] = {}
       \/ LET taken == {n \in queue[a] : n.kind # "messages"} IN
          queue'[a] = queue[a] \ taken /\ shown'[a] = taken

LEMMA RenderTakes == ASSUME TypeOK, NEW a \in Agents, Render(a) PROVE Taken(a)
<1>1. UNCHANGED pushes
  BY DEF Render
<1>2. CASE RenderNotice(a)
  BY <1>1, <1>2 DEF TypeOK, RenderNotice, Taken
<1>3. CASE RenderBodies(a)
  BY <1>1, <1>3 DEF TypeOK, RenderBodies, Taken
<1>4. QED BY <1>2, <1>3 DEF Render

LEMMA QueueMoves ==
    ASSUME TypeOK, [Next]_vars
    PROVE  Quiet \/ (\E a \in Agents, n \in Notice : Queued(a, n)) \/ (\E a \in Agents : Taken(a))
<1>1. UNCHANGED <<queue, pushes, shown>> => Quiet
  BY DEF Quiet, OnlyStaleLeave
<1>2. ASSUME NEW c \in Channels, StoreMessage(c) \/ ClearHistory(c) PROVE Quiet
  BY <1>1, <1>2 DEF StoreMessage, ClearHistory, runner
<1>3. ASSUME NEW a \in Agents, NEW c \in Channels, ReadChannel(a, c) PROVE Quiet
  BY <1>1, <1>3 DEF ReadChannel, runner
<1>4. ASSUME NEW a \in Agents, TimerFires(a) \/ Release(a) PROVE Quiet
  BY <1>1, <1>4 DEF TimerFires, Release, session, runner
<1>5. ASSUME NEW a \in Agents, RunnerReturns(a) \/ CancelRunner(a) PROVE Quiet
  BY <1>1, <1>5 DEF RunnerReturns, CancelRunner, session
<1>6. ASSUME NEW a \in Agents, Call(a) PROVE Quiet
  <2>1. queue' = [queue EXCEPT ![a] = LiveQueue(a)] /\ UNCHANGED <<shown, pushes>>
    BY <1>6 DEF Call, Register
  <2>2. LiveQueue(a) \subseteq queue[a]
        /\ \A n \in queue[a] : n \notin LiveQueue(a) => n.kind = "messages"
    BY DEF LiveQueue, Live, IsStale
  <2>3. QED BY <2>1, <2>2 DEF TypeOK, Quiet, OnlyStaleLeave
<1>7. ASSUME NEW a \in Agents, Notified(a) PROVE \E n \in Notice : Queued(a, n)
  <2>1. PICK kind \in NoticeKinds, chans \in SUBSET Channels : Push(a, kind, chans)
    BY <1>7 DEF Notified, NoticeKinds
  <2> DEFINE n == [at |-> pushes[a], kind |-> kind, channels |-> chans]
             grown == queue[a] \cup {n}
             live == Live(grown, lastSeen[a], counts)
  <2>2. n \in Notice /\ n.at = pushes[a]
    BY DEF TypeOK, Notice
  <2>3. live \subseteq grown /\ \A m \in grown : m \notin live => m.kind = "messages"
    BY DEF Live, IsStale
  <2>4. /\ queue' = [queue EXCEPT ![a] = live] \/ queue' = [queue EXCEPT ![a] = grown]
        /\ pushes' = [pushes EXCEPT ![a] = @ + 1] /\ UNCHANGED shown
    BY <2>1 DEF Push, runner
  <2> HIDE DEF live
  <2>5. /\ queue'[a] \subseteq grown /\ \A m \in queue[a] : m \notin queue'[a] => m.kind = "messages"
        /\ \A b \in Agents \ {a} : queue'[b] = queue[b]
    BY <2>3, <2>4 DEF TypeOK
  <2> HIDE DEF n
  <2>6. OnlyStaleLeave
    BY <2>5 DEF OnlyStaleLeave
  <2>7. Queued(a, n)
    BY <2>2, <2>4, <2>5, <2>6 DEF Queued
  <2>8. QED BY <2>2, <2>7
<1>8. ASSUME NEW a \in Agents, RunnerStep(a) PROVE Quiet \/ Taken(a)
  <2>1. CASE Render(a)
    BY <2>1, RenderTakes
  <2>2. CASE RegistrationLogged(a) \/ Return(a) \/ Unwind(a)
    BY <1>1, <2>2 DEF RegistrationLogged, Return, Unwind, session
  <2>3. QED BY <1>8, <2>1, <2>2 DEF RunnerStep
<1>9. CASE UNCHANGED vars
  BY <1>1, <1>9 DEF vars, session, runner
<1>10. QED BY <1>2, <1>3, <1>4, <1>5, <1>6, <1>7, <1>8, <1>9 DEF Next

LEMMA StampsKept == TypeOK /\ Stamped /\ [Next]_vars => Stamped'
<1> SUFFICES ASSUME TypeOK, Stamped, [Next]_vars PROVE Stamped'
  OBVIOUS
<1>1. \A a \in Agents : pushes[a] \in Nat /\ \A n \in queue[a] : n.at \in Nat
  BY DEF TypeOK, Notice
<1>2. CASE Quiet
  BY <1>2 DEF Quiet, Stamped
<1>3. ASSUME NEW a \in Agents, NEW n \in Notice, Queued(a, n) PROVE Stamped'
  <2> SUFFICES ASSUME NEW b \in Agents, NEW x \in queue'[b]
               PROVE  x.at < pushes'[b] /\ \A y \in queue'[b] : y.at = x.at => y = x
    BY DEF Stamped
  <2>1. CASE b = a
    <3>1. pushes'[a] = pushes[a] + 1 /\ pushes[a] \in Nat /\ n.at = pushes[a]
      BY <1>3 DEF TypeOK, Queued
    <3>2. \A y \in queue'[a] : (y \in queue[a] /\ y.at < pushes[a] /\ y.at \in Nat) \/ y = n
      BY <1>1, <1>3 DEF Queued, Stamped
    <3>3. \A y, z \in queue[a] : y.at = z.at => y = z
      BY DEF Stamped
    <3>4. x.at < pushes'[a]
      BY <2>1, <3>1, <3>2
    <3>5. \A y \in queue'[a] : y.at = x.at => y = x
      BY <2>1, <3>1, <3>2, <3>3
    <3>6. QED BY <2>1, <3>4, <3>5
  <2>2. CASE b # a
    BY <1>3, <2>2 DEF TypeOK, Queued, Stamped
  <2>3. QED BY <2>1, <2>2
<1>4. ASSUME NEW a \in Agents, Taken(a) PROVE Stamped'
  <2>1. \A b \in Agents : queue'[b] \subseteq queue[b]
    BY <1>4 DEF Taken, Behind
  <2>2. UNCHANGED pushes
    BY <1>4 DEF Taken
  <2>3. QED BY <2>1, <2>2 DEF Stamped
<1>5. QED BY <1>2, <1>3, <1>4, QueueMoves

\* A briefing, a world update or the done notice leaves the queue only in a result: the
\* stamps are what keeps a result from dropping one with the stale notices before it.
THEOREM LifecycleNoticesAlwaysDelivered == Spec => LifecycleNoticesAreDelivered
<1> DEFINE Kept == \A a \in Agents : \A n \in queue[a] :
                      n.kind # "messages" /\ n \notin queue'[a] => n \in shown'[a]
<1>1. ASSUME TypeOK, Stamped, [Next]_vars PROVE Kept
  <2>1. CASE Quiet \/ \E a \in Agents, n \in Notice : Queued(a, n)
    BY <2>1 DEF Quiet, Queued, OnlyStaleLeave
  <2>2. ASSUME NEW a \in Agents, Taken(a) PROVE Kept
    <3> SUFFICES ASSUME NEW m \in queue[a], m.kind # "messages", m \notin queue'[a]
                 PROVE  m \in shown'[a]
      BY <2>2 DEF Taken
    <3>1. m \in LiveQueue(a)
      BY DEF LiveQueue, Live, IsStale
    <3>2. CASE \E n \in queue[a] : /\ IsOldest(n, LiveQueue(a))
                                  /\ queue'[a] = Behind(n, queue[a]) /\ shown'[a] = {n}
      <4>1. PICK n \in queue[a] : /\ IsOldest(n, LiveQueue(a))
                                 /\ queue'[a] = Behind(n, queue[a]) /\ shown'[a] = {n}
        BY <3>2
      <4>2. n.at <= m.at /\ ~(m.at > n.at) /\ n.at \in Nat /\ m.at \in Nat
        BY <1>1, <3>1, <4>1 DEF IsOldest, Behind, TypeOK, Notice
      <4>3. m.at = n.at
        BY <4>2
      <4>4. m = n
        BY <1>1, <4>3 DEF Stamped
      <4>5. QED BY <4>1, <4>4
    <3>3. CASE ~\E n \in queue[a] : /\ IsOldest(n, LiveQueue(a))
                                   /\ queue'[a] = Behind(n, queue[a]) /\ shown'[a] = {n}
      BY <2>2, <3>1, <3>3 DEF Taken
    <3>4. QED BY <3>2, <3>3
  <2>3. QED BY <1>1, <2>1, <2>2, QueueMoves
<1>2. TypeOK /\ Stamped /\ [Next]_vars => [Kept]_vars
  BY <1>1
<1>3. Init => Stamped
  BY DEF Init, Stamped
<1>4. Spec => []TypeOK
  BY TypeCorrect
<1>5. TypeOK /\ Stamped /\ [Next]_vars => Stamped'
  BY StampsKept
<1>6. QED BY <1>2, <1>3, <1>4, <1>5, PTL DEF Spec, LifecycleNoticesAreDelivered

\* A result never overtakes a briefing, world update or done notice that was queued
\* before what it delivers.
THEOREM AlwaysDeliveredInOrder == Spec => DeliveredInOrder
<1> DEFINE Ordered == \A a \in Agents : \A n \in queue'[a] :
                         n.kind # "messages" /\ shown'[a] # shown[a] =>
                             \A m \in shown'[a] : m.at < n.at
<1>1. ASSUME TypeOK, [Next]_vars PROVE Ordered
  <2>1. CASE Quiet \/ \E a \in Agents, n \in Notice : Queued(a, n)
    BY <2>1 DEF Quiet, Queued
  <2>2. ASSUME NEW a \in Agents, Taken(a) PROVE Ordered
    <3>1. \A n \in queue[a] : n.at \in Nat
      BY <1>1 DEF TypeOK, Notice
    <3>2. ASSUME NEW n \in queue'[a], n.kind # "messages", NEW m \in shown'[a] PROVE m.at < n.at
      BY <2>2, <3>1, <3>2 DEF Taken, Behind
    <3>3. QED BY <2>2, <3>2 DEF Taken
  <2>3. QED BY <1>1, <2>1, <2>2, QueueMoves
<1>2. TypeOK /\ [Next]_vars => [Ordered]_vars
  BY <1>1
<1>3. QED BY <1>2, TypeCorrect, PTL DEF Spec, DeliveredInOrder

-----------------------------------------------------------------------------
(* The contract *)

Phase == [a \in Agents |-> PhaseOf(a)]
Why   == [a \in Agents |-> IF PhaseOf(a) = "woken" THEN wait[a].reasons ELSE {}]

\* Where a call stands, by where its runner is.
LEMMA PhaseIs ==
    ASSUME NEW a \in Agents
    PROVE  /\ pc[a] \in {"unwinding", "gone"} => PhaseOf(a) = "gone" /\ Why[a] = {}
           /\ pc[a] = "acting" => PhaseOf(a) = "acting" /\ Why[a] = {}
           /\ pc[a] = "answering" => PhaseOf(a) = "woken" /\ Why[a] = wait[a].reasons
           /\ pc[a] \notin {"unwinding", "gone"} => PhaseOf(a) # "gone"
<1>1. PhaseOf(a) # "woken" => Why[a] = {}
  BY DEF Why
<1>2. PhaseOf(a) = "woken" => Why[a] = wait[a].reasons
  BY DEF Why
<1>3. pc[a] \in {"unwinding", "gone"} => PhaseOf(a) = "gone"
  BY DEF PhaseOf
<1>4. pc[a] = "acting" => PhaseOf(a) = "acting"
  BY DEF PhaseOf
<1>5. pc[a] = "answering" => PhaseOf(a) = "woken"
  BY DEF PhaseOf
<1>6. pc[a] \notin {"unwinding", "gone"} => PhaseOf(a) # "gone"
  BY DEF PhaseOf
<1>7. QED BY <1>1, <1>2, <1>3, <1>4, <1>5, <1>6

LEMMA PhaseIsNext ==
    ASSUME NEW a \in Agents
    PROVE  /\ pc'[a] \in {"unwinding", "gone"} => PhaseOf(a)' = "gone" /\ Why'[a] = {}
           /\ pc'[a] = "acting" => PhaseOf(a)' = "acting" /\ Why'[a] = {}
<1>1. PhaseOf(a)' # "woken" => Why'[a] = {}
  BY DEF Why
<1>2. pc'[a] \in {"unwinding", "gone"} => PhaseOf(a)' = "gone"
  BY DEF PhaseOf
<1>3. pc'[a] = "acting" => PhaseOf(a)' = "acting"
  BY DEF PhaseOf
<1>4. QED BY <1>1, <1>2, <1>3

LEMMA SamePhase ==
    ASSUME NEW a \in Agents, UNCHANGED <<pc[a], wait[a]>>
    PROVE  PhaseOf(a)' = PhaseOf(a) /\ Why'[a] = Why[a]
BY DEF PhaseOf, Why

\* Only one agent's call moves: the others' phases and reasons are the same.
LEMMA OneMoves ==
    ASSUME NEW a \in Agents, \A b \in Agents \ {a} : UNCHANGED <<pc[b], wait[b]>>
    PROVE  /\ Phase' = [Phase EXCEPT ![a] = PhaseOf(a)']
           /\ Why' = [Why EXCEPT ![a] = Why'[a]]
<1>1. \A b \in Agents \ {a} : PhaseOf(b)' = PhaseOf(b) /\ Why'[b] = Why[b]
  BY SamePhase
<1>2. QED BY <1>1 DEF Phase, Why

LEMMA NobodyMoves ==
    ASSUME \A b \in Agents : PhaseOf(b)' = PhaseOf(b) /\ Why'[b] = Why[b]
    PROVE  Phase' = Phase /\ Why' = Why
<1>1. Phase' = Phase
  BY DEF Phase
<1>2. Why = [b \in Agents |-> Why[b]] /\ Why' = [b \in Agents |-> Why'[b]]
  BY DEF Why
<1>3. Why' = Why
  BY <1>2
<1>4. QED BY <1>1, <1>3

\* A step that leaves phases and reasons alone, or moves one agent's.
LEMMA ContractStep ==
    ASSUME IInv, [Next]_vars
    PROVE  [Contract!Next]_(Contract!vars)
<1> USE DEF Contract!Next, Contract!vars
<1> DEFINE Stutter == UNCHANGED <<Phase, Why, terminated, stopping>>
<1>0. Stutter => UNCHANGED Contract!vars
  BY DEF Phase, Why
<1>1. ASSUME UNCHANGED <<pc, wait, terminated, stopping>> PROVE Stutter
  BY <1>1 DEF Phase, Why, PhaseOf
<1>2. ASSUME NEW c \in Channels, StoreMessage(c) \/ ClearHistory(c) PROVE Stutter
  BY <1>1, <1>2 DEF StoreMessage, ClearHistory, waitState, runner
<1>3. ASSUME NEW a \in Agents, NEW c \in Channels, ReadChannel(a, c) PROVE Stutter
  BY <1>1, <1>3 DEF ReadChannel, waitState, runner
<1>4. ASSUME NEW a \in Agents, Call(a)
      PROVE  Contract!CallWaits(a) \/ Contract!CallReturnsAtOnce(a)
  <2>1. PICK kind \in WaitKinds, deadline \in BOOLEAN : Register(a, kind, deadline)
    BY <1>4 DEF Call
  <2> DEFINE held == Satisfied(kind, LiveQueue(a), terminated[a])
  <2>2. /\ pc[a] = "acting" /\ pc' = [pc EXCEPT ![a] = "logging"]
        /\ UNCHANGED <<terminated, stopping>>
    BY <2>1 DEF Register
  <2>3. held \in SUBSET WakeReasons /\ (terminated[a] => "done" \in held)
    BY SatisfiedType DEF Satisfied
  <2>4. PhaseOf(a) = "acting" /\ pc'[a] = "logging" /\ Why[a] = {}
    BY <2>2, PhaseIs DEF IInv, TypeOK
  <2> HIDE DEF held
  <2>5. CASE held = {} /\ RegisterParks(a, kind, deadline)
    <3>1. /\ \A b \in Agents \ {a} : UNCHANGED <<pc[b], wait[b]>>
          /\ wait'[a].future = "pending"
      BY <2>2, <2>5 DEF RegisterParks, IInv, TypeOK
    <3>2. PhaseOf(a)' = "waiting" /\ Why'[a] = {}
      BY <2>4, <3>1 DEF PhaseOf, Why
    <3>3. Phase' = [Phase EXCEPT ![a] = "waiting"] /\ Why' = Why
      BY <2>4, <3>1, <3>2, OneMoves DEF Why
    <3>4. QED BY <2>2, <2>3, <2>4, <2>5, <3>3 DEF Contract!CallWaits, Phase, Why
  <2>6. CASE \E r \in AtOnce(kind, deadline, held) : RegisterResumes(a, kind, deadline, r)
    <3>1. PICK r \in AtOnce(kind, deadline, held) : RegisterResumes(a, kind, deadline, r)
      BY <2>6
    <3>2. r \in SUBSET WakeReasons /\ r # {} /\ (terminated[a] => "done" \in r)
      BY <2>3, <3>1, AtOnceType DEF AtOnce
    <3>3. /\ \A b \in Agents \ {a} : UNCHANGED <<pc[b], wait[b]>>
          /\ wait'[a].future = "set" /\ wait'[a].reasons = r
      BY <2>2, <3>1 DEF RegisterResumes, IInv, TypeOK
    <3>4. PhaseOf(a)' = "woken" /\ Why'[a] = r
      BY <2>4, <3>3 DEF PhaseOf, Why
    <3>5. Phase' = [Phase EXCEPT ![a] = "woken"] /\ Why' = [Why EXCEPT ![a] = r]
      BY <3>3, <3>4, OneMoves
    <3>6. QED BY <2>2, <2>4, <3>2, <3>5 DEF Contract!CallReturnsAtOnce, Contract!Woken, Phase, Why
  <2>7. QED BY <2>1, <2>5, <2>6 DEF Register, held
<1>5. ASSUME NEW a \in Agents, NEW reasons \in SUBSET WakeReasons, reasons # {},
             Resume(a, reasons), Open(a), UNCHANGED <<pc, terminated, stopping>>
      PROVE  Contract!Wake(a) \/ Stutter
  <2>1. /\ wait'[a].future = "set" /\ wait'[a].reasons = reasons
        /\ \A b \in Agents \ {a} : UNCHANGED <<pc[b], wait[b]>>
    <3>1. /\ wait' = [wait EXCEPT ![a] = [wait[a] EXCEPT !.future = "set", !.reasons = reasons,
                                                        !.timer = FALSE, !.parked = FALSE]]
          /\ wait \in [Agents -> Wait]
      BY <1>5 DEF Resume, IInv, TypeOK
    <3>2. QED BY <1>5, <3>1 DEF Wait
  <2>2. CASE pc[a] = "unwinding"
    <3>1. PhaseOf(a) = "gone" /\ PhaseOf(a)' = "gone" /\ Why[a] = {} /\ Why'[a] = {}
      BY <1>5, <2>2, PhaseIs, PhaseIsNext
    <3>2. \A b \in Agents : PhaseOf(b)' = PhaseOf(b) /\ Why'[b] = Why[b]
      BY <2>1, <3>1, SamePhase
    <3>3. Phase' = Phase /\ Why' = Why
      BY <3>2, NobodyMoves
    <3>4. QED BY <1>5, <3>3
  <2>3. CASE pc[a] \in {"logging", "awaiting"}
    <3>1. PhaseOf(a) = "waiting" /\ PhaseOf(a)' = "woken" /\ Why'[a] = reasons
      BY <1>5, <2>1, <2>3 DEF PhaseOf, Why, Open
    <3>2. Phase' = [Phase EXCEPT ![a] = "woken"] /\ Why' = [Why EXCEPT ![a] = reasons]
      BY <2>1, <3>1, OneMoves
    <3>3. QED BY <1>5, <3>1, <3>2 DEF Contract!Wake, Contract!Woken, Phase, Why
  <2>4. QED BY <1>5, <2>2, <2>3 DEF Open, InCall
<1>6. ASSUME NEW a \in Agents, TimerFires(a) \/ Release(a) PROVE Contract!Wake(a) \/ Stutter
  <2>1. UNCHANGED <<pc, terminated, stopping>>
    BY <1>6 DEF TimerFires, Release, session, runner
  <2>2. CASE \E r \in {{"timeout"}, {"released"}} : Resume(a, r) /\ wait[a].future = "pending"
    <3>1. Open(a)
      BY <1>6, <2>2 DEF IInv, OpenCalls, Open
    <3>2. QED BY <1>5, <2>1, <2>2, <3>1 DEF WakeReasons
  <2>3. CASE wait' = [wait EXCEPT ![a].timer = FALSE]
    <3>1. \A b \in Agents : wait'[b].future = wait[b].future /\ wait'[b].reasons = wait[b].reasons
      BY <2>3 DEF IInv, TypeOK, Wait
    <3>2. Phase' = Phase /\ Why' = Why
      BY <2>1, <3>1 DEF Phase, Why, PhaseOf
    <3>3. QED BY <2>1, <3>2
  <2>4. QED BY <1>6, <2>2, <2>3 DEF TimerFires, Release, Pending
<1>7. ASSUME NEW a \in Agents, Notified(a)
      PROVE  Contract!Wake(a) \/ Contract!End(a) \/ Stutter
  <2>1. PICK kind \in NoticeKinds, chans \in SUBSET Channels : Push(a, kind, chans)
    BY <1>7 DEF Notified, NoticeKinds
  <2> DEFINE n     == [at |-> pushes[a], kind |-> kind, channels |-> chans]
             over  == terminated[a] \/ kind = "done"
             grown == queue[a] \cup {n}
             live  == Live(grown, lastSeen[a], counts)
             held  == Satisfied(wait[a].for, live, over)
  <2>2. /\ kind = "done" => ~terminated[a]
        /\ terminated' = [terminated EXCEPT ![a] = over] /\ UNCHANGED <<pc, stopping>>
        /\ \/ a \in listening /\ wait[a].future = "pending" /\ held # {} /\ Resume(a, held)
           \/ a \in listening /\ wait[a].future = "pending" /\ held = {} /\ UNCHANGED waitState
           \/ (a \notin listening \/ wait[a].future # "pending") /\ UNCHANGED waitState
    BY <2>1 DEF Push, runner
  <2>3. held \in SUBSET WakeReasons /\ (over => "done" \in held)
    BY SatisfiedType DEF Satisfied
  <2>4. over \in BOOLEAN /\ (over <=> terminated[a] \/ kind = "done")
    BY DEF IInv, TypeOK
  <2> HIDE DEF held, over
  <2>5. CASE kind # "done"
    <3>1. UNCHANGED terminated
      BY <2>2, <2>4, <2>5 DEF IInv, TypeOK
    <3>2. CASE a \in listening /\ held # {} /\ Resume(a, held)
      <4>1. Open(a)
        BY <3>2 DEF IInv, OpenCalls
      <4>2. QED BY <1>5, <2>2, <2>3, <3>1, <3>2, <4>1
    <3>3. CASE UNCHANGED waitState
      BY <1>1, <2>2, <3>1, <3>3 DEF waitState
    <3>4. QED BY <2>2, <3>2, <3>3
  <2>6. CASE kind = "done"
    <3>1. ~terminated[a] /\ terminated' = [terminated EXCEPT ![a] = TRUE] /\ "done" \in held
      BY <2>2, <2>3, <2>4, <2>6
    <3>2. CASE a \in listening /\ held # {} /\ Resume(a, held)
      <4>1. Open(a)
        BY <3>2 DEF IInv, OpenCalls
      <4>2. /\ wait'[a].future = "set" /\ wait'[a].reasons = held
            /\ \A b \in Agents \ {a} : UNCHANGED <<pc[b], wait[b]>>
        BY <2>2, <2>3, <3>2, ResumeCloses
      <4>3. CASE pc[a] = "unwinding"
        <5>1. PhaseOf(a) = "gone" /\ PhaseOf(a)' = "gone" /\ Why[a] = {} /\ Why'[a] = {}
          BY <2>2, <4>3, PhaseIs, PhaseIsNext
        <5>2. Phase' = Phase /\ Why' = Why
          <6>1. \A b \in Agents : PhaseOf(b)' = PhaseOf(b) /\ Why'[b] = Why[b]
            BY <4>2, <5>1, SamePhase
          <6>2. QED BY <6>1, NobodyMoves
        <5>3. QED BY <2>2, <3>1, <5>1, <5>2 DEF Contract!End, Phase, Why
      <4>4. CASE pc[a] \in {"logging", "awaiting"}
        <5>1. PhaseOf(a) = "waiting" /\ PhaseOf(a)' = "woken" /\ Why'[a] = held
          BY <2>2, <4>1, <4>2, <4>4 DEF PhaseOf, Why, Open
        <5>2. Phase' = [Phase EXCEPT ![a] = "woken"] /\ Why' = [Why EXCEPT ![a] = held]
          BY <4>2, <5>1, OneMoves
        <5>3. QED BY <2>2, <2>3, <3>1, <3>2, <5>1, <5>2 DEF Contract!End, Contract!Woken, Phase, Why
      <4>5. QED BY <4>1, <4>3, <4>4 DEF Open, InCall
    <3>3. CASE UNCHANGED waitState
      <4>1. ~(a \in listening /\ wait[a].future = "pending")
        BY <2>2, <3>1, <3>3 DEF Resume, waitState, IInv, TypeOK
      <4>2. PhaseOf(a) # "waiting"
        BY <4>1 DEF IInv, OpenCalls, Open, InCall, TypeOK, PCs, Wait, Futures, PhaseOf
      <4>3. Phase' = Phase /\ Why' = Why
        BY <2>2, <3>3 DEF waitState, Phase, Why, PhaseOf
      <4>4. QED BY <2>2, <3>1, <4>2, <4>3 DEF Contract!End, Phase, Why
    <3>4. QED BY <2>2, <3>2, <3>3
  <2>7. QED BY <2>5, <2>6
<1>8. ASSUME NEW a \in Agents, RegistrationLogged(a) \/ Render(a) PROVE Stutter
  <2>1. /\ UNCHANGED <<wait, terminated, stopping>>
        /\ \/ pc[a] = "logging" /\ pc' = [pc EXCEPT ![a] = "awaiting"]
           \/ pc[a] = "awaiting" /\ wait[a].future = "set" /\ pc' = [pc EXCEPT ![a] = "answering"]
    BY <1>8 DEF RegistrationLogged, Render, session, waitState
  <2>2. PhaseOf(a)' = PhaseOf(a) /\ \A b \in Agents \ {a} : UNCHANGED <<pc[b], wait[b]>>
    BY <2>1 DEF PhaseOf, IInv, TypeOK
  <2>3. Why'[a] = Why[a]
    BY <2>1, <2>2 DEF Why
  <2>4. QED BY <2>1, <2>2, <2>3, OneMoves DEF Phase, Why
<1>9. ASSUME NEW a \in Agents, Return(a) PROVE Contract!Answer(a)
  <2>1. /\ pc[a] = "answering" /\ pc' = [pc EXCEPT ![a] = "acting"] /\ UNCHANGED <<wait, terminated>>
        /\ stopping' = IF "done" \in wait[a].reasons THEN stopping \cup {a} ELSE stopping
    BY <1>9 DEF Return, session, waitState
  <2>2. /\ PhaseOf(a) = "woken" /\ PhaseOf(a)' = "acting" /\ Why[a] = wait[a].reasons /\ Why'[a] = {}
        /\ \A b \in Agents \ {a} : UNCHANGED <<pc[b], wait[b]>>
    BY <2>1, PhaseIs, PhaseIsNext DEF IInv, TypeOK
  <2>3. Phase' = [Phase EXCEPT ![a] = "acting"] /\ Why' = [Why EXCEPT ![a] = {}]
    BY <2>2, OneMoves
  <2>4. QED BY <2>1, <2>2, <2>3 DEF Contract!Answer, Phase, Why
<1>10. ASSUME NEW a \in Agents, RunnerReturns(a) \/ CancelRunner(a) PROVE Contract!Leave(a)
  <2>1. /\ pc[a] \notin {"unwinding", "gone"} /\ UNCHANGED <<terminated, stopping>>
        /\ \E new \in {"unwinding", "gone"} : pc' = [pc EXCEPT ![a] = new]
        /\ \A b \in Agents \ {a} : wait'[b] = wait[b]
    BY <1>10 DEF RunnerReturns, CancelRunner, session, waitState, IInv, TypeOK
  <2>2. /\ PhaseOf(a) # "gone" /\ PhaseOf(a)' = "gone" /\ Why'[a] = {}
        /\ \A b \in Agents \ {a} : UNCHANGED <<pc[b], wait[b]>>
    BY <2>1, PhaseIs, PhaseIsNext DEF IInv, TypeOK
  <2>3. Phase' = [Phase EXCEPT ![a] = "gone"] /\ Why' = [Why EXCEPT ![a] = {}]
    BY <2>2, OneMoves
  <2>4. QED BY <2>1, <2>2, <2>3 DEF Contract!Leave, Phase, Why
<1>11. ASSUME NEW a \in Agents, Unwind(a) PROVE Stutter
  <2>1. /\ pc[a] = "unwinding" /\ pc' = [pc EXCEPT ![a] = "gone"] /\ UNCHANGED <<terminated, stopping>>
        /\ \A b \in Agents \ {a} : wait'[b] = wait[b]
    BY <1>11 DEF Unwind, CancelWait, session, waitState, IInv, TypeOK
  <2>2. /\ PhaseOf(a) = "gone" /\ PhaseOf(a)' = "gone" /\ Why[a] = {} /\ Why'[a] = {}
        /\ \A b \in Agents \ {a} : UNCHANGED <<pc[b], wait[b]>>
    BY <2>1, PhaseIs, PhaseIsNext DEF IInv, TypeOK
  <2>3. \A b \in Agents : PhaseOf(b)' = PhaseOf(b) /\ Why'[b] = Why[b]
    BY <2>2, SamePhase
  <2>4. Phase' = Phase /\ Why' = Why
    BY <2>3, NobodyMoves
  <2>5. QED BY <2>1, <2>4 DEF Phase, Why
<1>12. CASE UNCHANGED vars
  BY <1>1, <1>12, <1>0 DEF vars, session, waitState, runner
<1>13. ASSUME Next PROVE Stutter \/ Contract!Next
  <2>1. ASSUME NEW a \in Agents, RunnerStep(a) PROVE Stutter \/ Contract!Next
    BY <1>8, <1>9, <1>11, <2>1 DEF RunnerStep
  <2>2. QED BY <1>2, <1>3, <1>4, <1>6, <1>7, <1>10, <1>13, <2>1 DEF Next
<1>14. QED BY <1>0, <1>12, <1>13

\* The registry and the runner's side of a call keep the promise of read_notifications,
\* for any number of agents: a call waits or returns, wakes once for reasons that hold,
\* with the end of the run among them when the agent has been told of it.
THEOREM ContractIsKept == Spec => KeepsContract
<1>1. Init => Contract!Init
  <2> SUFFICES ASSUME Init PROVE Contract!Init
    OBVIOUS
  <2>1. \A a \in Agents : pc[a] = "acting" /\ PhaseOf(a) = "acting"
    BY PhaseIs DEF Init
  <2>2. stopping = {} /\ terminated = [a \in Agents |-> FALSE]
    BY DEF Init
  <2>3. QED BY <2>1, <2>2 DEF Contract!Init
<1>2. IInv /\ [Next]_vars => [Contract!Next]_(Contract!vars)
  BY ContractStep
<1>3. QED BY <1>1, <1>2, InitEstablishes, StepPreserves, PTL DEF Spec, KeepsContract, Contract!Spec
=============================================================================
