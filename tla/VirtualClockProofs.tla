------------------------- MODULE VirtualClockProofs -------------------------
(***************************************************************************)
(* Invariants of VirtualClock, proved for every team, latency model,       *)
(* deadline and bound, with runners cancelled at any point. The            *)
(* strengthening says what the clock's phase of an agent tells of its      *)
(* runner, and which timers can be standing.                               *)
(***************************************************************************)
EXTENDS VirtualClock, TLAPS, WellFoundedInduction

\* What the clock holds of an agent, given where its runner is.
Seat(a) ==
    /\ pc[a] \in {"request", "woken"} => phase[a] = "inferring"
    /\ pc[a] = "gated" => \/ phase[a] = "pending" /\ gate[a] = "open"
                          \/ phase[a] = "executing" /\ gate[a] = "set"
    /\ pc[a] = "tools" => phase[a] = "executing"
    /\ pc[a] = "waiting" => phase[a] = "parked"
    /\ pc[a] = "crafting" => \/ phase[a] = "parked" /\ gate[a] = "open"
                             \/ phase[a] = "executing" /\ gate[a] = "set"
    /\ pc[a] = "gone" => phase[a] = "retired"
    /\ gate[a] = "open" => pc[a] \in {"gated", "crafting"}

Seats == \A a \in Agents : Seat(a)

\* One agent has the turn.
OneTurn == ~stopped =>
    \A a, b \in Agents : phase[a] = "executing" /\ phase[b] = "executing" => a = b

\* A wait's timer is that of an agent that waits, a craft's that of one at work.
Timers == \A t \in timers :
    /\ t.kind = "wait" => pc[t.agent] = "waiting"
    /\ t.kind = "wait" => \A u \in TimersOf(t.agent, "wait") : u = t
    /\ t.kind = "craft" /\ ~stopped =>
          /\ pc[t.agent] = "crafting"
          /\ gate[t.agent] = "open"
          /\ t.at = readyAt[t.agent]

\* How far an agent's own timeline has come.
Timeline == \A a \in Agents :
    /\ gate[a] = "open" => busyUntil[a] = readyAt[a]
    /\ pc[a] \in {"tools", "waiting"} => busyUntil[a] <= now
    /\ pc[a] \in {"gated", "crafting"} /\ gate[a] = "set" => busyUntil[a] <= now

IInv == TypeOK /\ Seats /\ OneTurn /\ Timers /\ NothingOverdue /\ Timeline /\ HeldForAReason

-----------------------------------------------------------------------------

\* A request leaves the clock to look again, or changes nothing it looks at.
LEMMA RequestStep ==
    ASSUME IInv, NEW a \in Agents, Request(a)
    PROVE  IInv'
<1> USE ClockAssumption DEF IInv, Request, BeginInference
<1>1. TypeOK'
  <2>1. advancing' \in BOOLEAN
    BY Zenon
  <2>2. turns' \in [Agents -> 0 .. MaxTurns]
    BY DEF TypeOK
  <2>3. phase' \in [Agents -> Phases] /\ startedAt' \in [Agents -> Nat] /\ pc' \in [Agents -> PCs]
    BY DEF TypeOK, Phases, PCs
  <2>4. QED BY <2>1, <2>2, <2>3 DEF TypeOK
<1>2. Seats'
  BY DEF Seats, Seat, TypeOK
<1>3. OneTurn'
  BY DEF OneTurn, Seats, Seat, TypeOK
<1>4. Timers'
  BY DEF Timers, TimersOf, Seats, Seat, TypeOK, Timer
<1>5. NothingOverdue'
  <2>1. ASSUME ~stopped PROVE \A b \in Agents : phase'[b] = "inferring" => now <= startedAt'[b] + BaseLatency
    BY <2>1 DEF NothingOverdue, InPhase, TypeOK
  <2>2. \A b \in Agents : phase'[b] = "pending" => phase[b] = "pending"
    BY DEF TypeOK
  <2>3. QED BY <2>1, <2>2 DEF NothingOverdue, InPhase
<1>6. Timeline'
  BY DEF Timeline, Seats, Seat, TypeOK
<1>7. HeldForAReason'
  BY DEF HeldForAReason, Certain, InPhase, TypeOK, Timer
<1>8. QED BY <1>1, <1>2, <1>3, <1>4, <1>5, <1>6, <1>7 DEF IInv

\* A response is held after the instant its request allows.
LEMMA RespondStep ==
    ASSUME IInv, NEW a \in Agents, NEW g \in Generations, Respond(a, g)
    PROVE  IInv'
<1> USE ClockAssumption DEF IInv, Respond, Later
<1>b. /\ busyUntil' \in [Agents -> Nat]
      /\ busyUntil'[a] = startedAt[a] + BaseLatency + g
      /\ startedAt[a] + BaseLatency <= busyUntil'[a]
  BY DEF TypeOK
<1>1. TypeOK'
  <2>1. now' \in Nat /\ readyAt' \in [Agents -> Nat]
    BY <1>b DEF TypeOK
  <2>2. phase' \in [Agents -> Phases] /\ gate' \in [Agents -> Gates] /\ pc' \in [Agents -> PCs]
    BY DEF TypeOK, Phases, Gates, PCs
  <2>3. advancing' \in BOOLEAN
    BY DEF TypeOK
  <2>4. QED BY <1>b, <2>1, <2>2, <2>3 DEF TypeOK
<1>2. Seats'
  BY DEF Seats, Seat, TypeOK
<1>3. OneTurn'
  BY DEF OneTurn, Seats, Seat, TypeOK
<1>4. Timers'
  BY DEF Timers, TimersOf, Seats, Seat, TypeOK, Timer
<1>5. NothingOverdue'
  <2> SUFFICES ASSUME ~stopped PROVE NothingOverdue'
    BY DEF NothingOverdue
  <2>1. phase[a] = "inferring" /\ now <= startedAt[a] + BaseLatency
    BY DEF NothingOverdue, InPhase, Seats, Seat
  <2>2. now' = now /\ readyAt' = [readyAt EXCEPT ![a] = busyUntil'[a]] /\ phase' = [phase EXCEPT ![a] = "pending"]
    OBVIOUS
  <2>3. now <= busyUntil'[a]
    BY <1>b, <2>1 DEF TypeOK
  <2>4. QED BY <2>2, <2>3 DEF NothingOverdue, InPhase, TypeOK
<1>6. Timeline'
  BY DEF Timeline, Seats, Seat, TypeOK
<1>7. HeldForAReason'
  BY DEF HeldForAReason, Certain, InPhase, TypeOK, Timer
<1>8. QED BY <1>1, <1>2, <1>3, <1>4, <1>5, <1>6, <1>7 DEF IInv

\* An agent that goes on finds the time of its own timeline come.
LEMMA PassGateStep ==
    ASSUME IInv, NEW a \in Agents, PassGate(a)
    PROVE  IInv'
<1> USE ClockAssumption DEF IInv, PassGate, clock
<1>1. TypeOK'
  BY DEF TypeOK, Phases, Gates, PCs, Timer
<1>2. Seats'
  BY DEF Seats, Seat, TypeOK
<1>3. OneTurn'
  BY DEF OneTurn, Seats, Seat, TypeOK
<1>4. Timers'
  BY DEF Timers, TimersOf, Seats, Seat, TypeOK, Timer
<1>5. NothingOverdue'
  BY DEF NothingOverdue, InPhase, TypeOK, Timer
<1>6. Timeline'
  BY DEF Timeline, Seats, Seat, TypeOK
<1>7. HeldForAReason'
  BY DEF HeldForAReason, Certain, InPhase, TypeOK, Timer
<1>8. QED BY <1>1, <1>2, <1>3, <1>4, <1>5, <1>6, <1>7 DEF IInv

\* A parked agent leaves its turn and bounds nobody.
LEMMA ParkStep ==
    ASSUME IInv, NEW a \in Agents, NEW due \in SUBSET Nat, Park(a, due),
           \A c, d \in due : c = d
    PROVE  IInv'
<1> USE ClockAssumption DEF IInv, Park
<1>1. TypeOK'
  BY DEF TypeOK, Phases, Gates, PCs, Timer
<1>2. Seats'
  BY DEF Seats, Seat, TypeOK
<1>3. OneTurn'
  BY DEF OneTurn, Seats, Seat, TypeOK
<1>4. Timers'
  BY DEF Timers, TimersOf, Seats, Seat, TypeOK, Timer
<1>5. NothingOverdue'
  BY DEF NothingOverdue, InPhase, TypeOK, Timer
<1>6. Timeline'
  BY DEF Timeline, Seats, Seat, TypeOK
<1>7. HeldForAReason'
  BY DEF HeldForAReason, Certain, InPhase, TypeOK, Timer
<1>8. QED BY <1>1, <1>2, <1>3, <1>4, <1>5, <1>6, <1>7 DEF IInv

\* A woken agent starts from the present.
LEMMA WakeStep ==
    ASSUME IInv, NEW a \in Agents, Wake(a)
    PROVE  IInv'
<1> USE ClockAssumption DEF IInv, Wake
<1>1. TypeOK'
  BY DEF TypeOK, Phases, Gates, PCs, Timer
<1>2. Seats'
  BY DEF Seats, Seat, TypeOK
<1>3. OneTurn'
  BY DEF OneTurn, Seats, Seat, TypeOK
<1>4. Timers'
  BY DEF Timers, TimersOf, Seats, Seat, TypeOK, Timer
<1>5. NothingOverdue'
  BY DEF NothingOverdue, InPhase, TypeOK, Timer
<1>6. Timeline'
  BY DEF Timeline, Seats, Seat, TypeOK
<1>7. HeldForAReason'
  BY DEF HeldForAReason, Certain, InPhase, TypeOK, Timer
<1>8. QED BY <1>1, <1>2, <1>3, <1>4, <1>5, <1>6, <1>7 DEF IInv

\* A craft ends in the future and leaves the turn.
LEMMA OccupyStep ==
    ASSUME IInv, NEW a \in Agents, Occupy(a)
    PROVE  IInv'
<1> USE ClockAssumption DEF IInv, Occupy
<1>1. TypeOK'
  BY DEF TypeOK, Phases, Gates, PCs, Timer
<1>2. Seats'
  BY DEF Seats, Seat, TypeOK
<1>3. OneTurn'
  BY DEF OneTurn, Seats, Seat, TypeOK
<1>4. Timers'
  BY DEF Timers, TimersOf, Seats, Seat, TypeOK, Timer
<1>5. NothingOverdue'
  BY DEF NothingOverdue, InPhase, TypeOK, Timer
<1>6. Timeline'
  BY DEF Timeline, Seats, Seat, TypeOK
<1>7. HeldForAReason'
  BY DEF HeldForAReason, Certain, InPhase, TypeOK, Timer
<1>8. QED BY <1>1, <1>2, <1>3, <1>4, <1>5, <1>6, <1>7 DEF IInv

\* A cancelled runner leaves no timer that could move its seat.
LEMMA CancelStep ==
    ASSUME IInv, NEW a \in Agents, Cancel(a)
    PROVE  IInv'
<1> USE ClockAssumption DEF IInv, Cancel, WithoutRunner, TimersOf
<1>1. TypeOK'
  <2>1. timers' \subseteq Timer
    BY DEF TypeOK, Timer
  <2>2. gate' \in [Agents -> Gates] /\ pc' \in [Agents -> PCs]
    BY DEF TypeOK, Gates, PCs
  <2>3. phase' \in [Agents -> Phases] /\ startedAt' \in [Agents -> Nat] /\ advancing' \in BOOLEAN
    BY DEF TypeOK, Phases
  <2>4. QED BY <2>1, <2>2, <2>3 DEF TypeOK
<1>2. Seats'
  BY DEF Seats, Seat, TypeOK
<1>3. OneTurn'
  BY DEF OneTurn, Seats, Seat, TypeOK
<1>4. Timers'
  BY DEF Timers, TimersOf, Seats, Seat, TypeOK, Timer
<1>5. NothingOverdue'
  BY DEF NothingOverdue, InPhase, TypeOK, Timer
<1>6. Timeline'
  BY DEF Timeline, Seats, Seat, TypeOK
<1>7. HeldForAReason'
  <2>1. \A u \in timers' : \E t \in timers : u.at = t.at
    BY DEF TypeOK, Timer
  <2>2. CASE pc[a] = "waiting"
    BY <2>2 DEF HeldForAReason, TypeOK
  <2>3. CASE pc[a] # "waiting"
    BY <2>1, <2>3 DEF HeldForAReason, Certain, InPhase, TypeOK
  <2>4. QED BY <2>2, <2>3
<1>8. QED BY <1>1, <1>2, <1>3, <1>4, <1>5, <1>6, <1>7 DEF IInv

\* A retired agent holds nobody back.
LEMMA RetireStep ==
    ASSUME IInv, NEW a \in Agents, Retire(a)
    PROVE  IInv'
<1> USE ClockAssumption DEF IInv, Retire
<1>1. TypeOK'
  BY DEF TypeOK, Phases, Gates, PCs, Timer
<1>2. Seats'
  BY DEF Seats, Seat, TypeOK
<1>3. OneTurn'
  BY DEF OneTurn, Seats, Seat, TypeOK
<1>4. Timers'
  BY DEF Timers, TimersOf, Seats, Seat, TypeOK, Timer
<1>5. NothingOverdue'
  BY DEF NothingOverdue, InPhase, TypeOK, Timer
<1>6. Timeline'
  BY DEF Timeline, Seats, Seat, TypeOK
<1>7. HeldForAReason'
  BY DEF HeldForAReason, Certain, InPhase, TypeOK, Timer
<1>8. QED BY <1>1, <1>2, <1>3, <1>4, <1>5, <1>6, <1>7 DEF IInv

\* A new runner starts from the present.
LEMMA EnlistStep ==
    ASSUME IInv, NEW a \in Agents, Enlist(a)
    PROVE  IInv'
<1> USE ClockAssumption DEF IInv, Enlist
<1>1. TypeOK'
  BY DEF TypeOK, Phases, Gates, PCs, Timer
<1>2. Seats'
  BY DEF Seats, Seat, TypeOK
<1>3. OneTurn'
  BY DEF OneTurn, Seats, Seat, TypeOK
<1>4. Timers'
  BY DEF Timers, TimersOf, Seats, Seat, TypeOK, Timer
<1>5. NothingOverdue'
  BY DEF NothingOverdue, InPhase, TypeOK, Timer
<1>6. Timeline'
  BY DEF Timeline, Seats, Seat, TypeOK
<1>7. HeldForAReason'
  BY DEF HeldForAReason, Certain, InPhase, TypeOK, Timer
<1>8. QED BY <1>1, <1>2, <1>3, <1>4, <1>5, <1>6, <1>7 DEF IInv

\* Stopping opens every gate, behind the last of them.
LEMMA StopStep ==
    ASSUME IInv, Stop
    PROVE  IInv'
<1> USE DEF IInv, Stop
<1>1. TypeOK'
  BY DEF TypeOK, Phases, Gates, Held
<1>2. Seats'
  <2>1. \A a \in Agents : gate'[a] = "open" => FALSE
    BY DEF TypeOK, Held
  <2>2. \A a \in Agents : gate[a] # "open" => phase'[a] = phase[a] /\ gate'[a] = gate[a]
    BY DEF TypeOK, Held
  <2>3. \A a \in Agents : gate[a] = "open" => phase'[a] = "executing" /\ gate'[a] = "set"
    BY DEF TypeOK, Held
  <2>4. pc' = pc
    OBVIOUS
  <2>5. QED BY <2>1, <2>2, <2>3, <2>4 DEF Seats, Seat
<1>3. OneTurn'
  BY DEF OneTurn
<1>4. Timers'
  BY DEF Timers, TimersOf
<1>5. NothingOverdue'
  BY DEF NothingOverdue
<1>6. Timeline'
  <2>1. now' >= now /\ now' \in Nat /\ \A a \in Agents : gate[a] = "open" => now' >= readyAt[a]
    BY <1>1 DEF TypeOK, Held
  <2>2. \A a \in Agents : gate'[a] = "set" => gate[a] = "open" \/ gate[a] = "set"
    BY DEF TypeOK, Held
  <2>3. \A a \in Agents : gate'[a] # "open"
    BY DEF TypeOK, Held
  <2>4. pc' = pc /\ readyAt' = readyAt /\ busyUntil' = busyUntil
    OBVIOUS
  <2>5. QED BY <2>1, <2>2, <2>3, <2>4 DEF Timeline, TypeOK
<1>7. HeldForAReason'
  BY DEF HeldForAReason
<1>8. QED BY <1>1, <1>2, <1>3, <1>4, <1>5, <1>6, <1>7 DEF IInv

\* A timer moves time to an instant nothing lies before.
LEMMA FireTimerStep ==
    ASSUME IInv, NEW t \in timers, FireTimer(t)
    PROVE  IInv'
<1> USE ClockAssumption DEF IInv, FireTimer, Comes, Earliest, Certain, Later
<1>t. t.agent \in Agents /\ t.at \in Nat /\ t \in Timer
  BY DEF TypeOK, Timer
<1>e. ~stopped /\ \A a \in Agents : phase[a] # "executing"
  BY DEF InPhase
<1>w. t.kind = "wait" => /\ phase' = [phase EXCEPT ![t.agent] = "inferring"]
                         /\ pc' = [pc EXCEPT ![t.agent] = "woken"] /\ gate' = gate
                         /\ pc[t.agent] = "waiting" /\ phase[t.agent] = "parked" /\ gate[t.agent] # "open"
  BY <1>t DEF Timers, Seats, Seat
<1>c. t.kind = "craft" => /\ phase' = [phase EXCEPT ![t.agent] = "executing"]
                          /\ gate' = [gate EXCEPT ![t.agent] = "set"] /\ pc' = pc
                          /\ pc[t.agent] = "crafting" /\ gate[t.agent] = "open" /\ t.at = readyAt[t.agent]
  BY <1>t, <1>e DEF Timers
<1>d. t.kind = "dead" => phase' = phase /\ gate' = gate /\ pc' = pc
  OBVIOUS
<1>k. t.kind \in {"wait", "craft", "dead"}
  BY DEF TypeOK, Timer
<1>n. now' \in Nat /\ now' >= now /\ now' >= t.at /\ timers' \subseteq timers /\ stopped' = stopped
      /\ readyAt' = readyAt /\ busyUntil' = busyUntil
  BY <1>t DEF TypeOK
<1>1. TypeOK'
  BY DEF TypeOK, Phases, Gates, PCs, Timer
<1>2. Seats'
  <2> HIDE DEF FireTimer, Comes, IInv
  <2> USE DEF IInv
  <2>1. CASE t.kind = "wait"
    BY <1>t, <1>w, <2>1 DEF Seats, Seat, TypeOK
  <2>2. CASE t.kind = "craft"
    BY <1>t, <1>c, <2>2 DEF Seats, Seat, TypeOK
  <2>3. CASE t.kind = "dead"
    BY <1>d, <2>3 DEF Seats, Seat, TypeOK
  <2>4. QED BY <1>k, <2>1, <2>2, <2>3
<1>3. OneTurn'
  BY DEF OneTurn, InPhase, Seats, Seat, TypeOK, Timer
<1>4. Timers'
  <2> HIDE DEF Comes
  <2>1. CASE t.kind = "wait"
    <3>1. \A u \in timers' : u.kind = "wait" => u.agent # t.agent
      BY <2>1 DEF Timers, TimersOf
    <3>2. \A u \in timers' : u.kind = "craft" => u.agent # t.agent
      BY <1>w, <1>e, <2>1 DEF Timers
    <3>3. \A u \in timers' : u \in timers /\ u.agent \in Agents
      BY DEF TypeOK, Timer
    <3>4. QED BY <1>n, <1>w, <1>t, <2>1, <3>1, <3>2, <3>3 DEF Timers, TimersOf, TypeOK
  <2>2. CASE t.kind = "craft"
    <3>1. \A u \in timers' : u.kind = "wait" => u.agent # t.agent
      BY <1>c, <2>2 DEF Timers
    <3>2. \A u \in timers' : u.kind = "craft" => u.agent # t.agent
      <4> SUFFICES ASSUME NEW u \in timers', u.kind = "craft", u.agent = t.agent PROVE FALSE
        OBVIOUS
      <4>1. u.at = t.at
        BY <1>c, <1>e, <2>2 DEF Timers
      <4>2. u \in Timer /\ u \in timers /\ u # t
        BY DEF TypeOK
      <4>3. u = t
        BY <1>t, <2>2, <4>1, <4>2 DEF Timer
      <4>4. QED BY <4>2, <4>3
    <3>3. \A u \in timers' : u \in timers /\ u.agent \in Agents
      BY DEF TypeOK, Timer
    <3>4. QED BY <1>n, <1>c, <1>t, <2>2, <3>1, <3>2, <3>3 DEF Timers, TimersOf, TypeOK
  <2>3. CASE t.kind = "dead"
    BY <1>d, <1>n, <2>3 DEF Timers, TimersOf, TypeOK
  <2>4. QED BY <1>k, <2>1, <2>2, <2>3
<1>5. NothingOverdue'
  BY DEF NothingOverdue, InPhase, TypeOK, Timer
<1>6. Timeline'
  <2> HIDE DEF FireTimer, Comes
  <2>1. CASE t.kind = "wait"
    BY <1>t, <1>w, <1>n, <2>1 DEF Timeline, TypeOK
  <2>2. CASE t.kind = "craft"
    BY <1>t, <1>c, <1>n, <2>2 DEF Timeline, TypeOK
  <2>3. CASE t.kind = "dead"
    BY <1>d, <1>n, <2>3 DEF Timeline, TypeOK
  <2>4. QED BY <1>k, <2>1, <2>2, <2>3
<1>7. HeldForAReason'
  BY DEF HeldForAReason, Certain, InPhase, TypeOK, Timer
<1>8. QED BY <1>1, <1>2, <1>3, <1>4, <1>5, <1>6, <1>7 DEF IInv

\* A release moves time to an instant nothing lies before.
LEMMA ReleaseStep ==
    ASSUME IInv, NEW a \in Agents, Release(a)
    PROVE  IInv'
<1> USE ClockAssumption DEF IInv, Release, Comes, Earliest, Certain, Later
<1>1. TypeOK'
  BY DEF TypeOK, Phases, Gates, PCs, Timer
<1>2. Seats'
  BY DEF Seats, Seat, TypeOK
<1>3. OneTurn'
  BY DEF OneTurn, InPhase, TypeOK
<1>4. Timers'
  BY DEF Timers, TimersOf, Seats, Seat, TypeOK, Timer
<1>5. NothingOverdue'
  BY DEF NothingOverdue, InPhase, TypeOK, Timer
<1>6. Timeline'
  BY DEF Timeline, Seats, Seat, TypeOK
<1>7. HeldForAReason'
  BY DEF HeldForAReason, Certain, InPhase, TypeOK, Timer
<1>8. QED BY <1>1, <1>2, <1>3, <1>4, <1>5, <1>6, <1>7 DEF IInv

-----------------------------------------------------------------------------
\* A set of instants with a member has a first one.
LEMMA FirstInstant ==
    ASSUME NEW T \in SUBSET Nat, T # {}
    PROVE  \E x \in T : \A y \in T : x <= y
<1>1. PICK x \in T : \A y \in T : ~ (<<y, x>> \in OpToRel(<, Nat))
  BY NatLessThanWellFounded, WFMin
<1>2. \A y \in T : ~ (y < x)
  BY <1>1 DEF OpToRel
<1>3. QED BY <1>2

\* When no event comes, none of those held is certain.
LEMMA RestStep ==
    ASSUME IInv, Rest
    PROVE  IInv'
<1> USE ClockAssumption DEF IInv, Rest
<1>1. TypeOK'
  BY DEF TypeOK
<1>2. Seats' /\ OneTurn' /\ Timers' /\ NothingOverdue' /\ Timeline'
  BY DEF Seats, Seat, OneTurn, Timers, TimersOf, NothingOverdue, InPhase, Timeline
<1>3. HeldForAReason'
  <2> DEFINE Instants == {t.at : t \in timers} \cup {readyAt[a] : a \in InPhase("pending")}
  <2> SUFFICES ASSUME ~stopped, InPhase("executing") = {}, NEW s \in Instants, Certain(s)
               PROVE  FALSE
    BY DEF HeldForAReason, InPhase, Certain
  <2>1. Instants \in SUBSET Nat
    BY DEF TypeOK, Timer, InPhase
  <2>2. PICK x \in Instants : \A y \in Instants : x <= y
    BY <2>1, FirstInstant
  <2>3. x <= s /\ x \in Nat /\ s \in Nat
    BY <2>1, <2>2
  <2>4. Certain(x)
    BY <2>3 DEF Certain, InPhase, TypeOK
  <2>5. Earliest(x)
    BY <2>2 DEF Earliest
  <2>6. Comes(x)
    BY <2>4, <2>5 DEF Comes
  <2>7. QED BY <2>6 DEF Rest
<1>4. QED BY <1>1, <1>2, <1>3

\* The initial state has every agent in flight from time zero.
LEMMA InitEstablishes == Init => IInv
<1> USE ClockAssumption DEF Init
<1>1. Init => TypeOK
  <2> SUFFICES ASSUME Init PROVE TypeOK
    OBVIOUS
  <2>1. turns \in [Agents -> 0 .. MaxTurns] /\ swaps \in 0 .. MaxSwaps
    OBVIOUS
  <2>2. stopped \in BOOLEAN /\ advancing \in BOOLEAN /\ timers \subseteq Timer
    OBVIOUS
  <2>3. phase \in [Agents -> Phases] /\ gate \in [Agents -> Gates] /\ pc \in [Agents -> PCs]
    BY DEF Phases, Gates, PCs
  <2>4. QED BY <2>1, <2>2, <2>3 DEF TypeOK
<1>2. Init => Seats /\ OneTurn /\ Timers /\ NothingOverdue /\ Timeline /\ HeldForAReason
  BY DEF Seats, Seat, OneTurn, Timers, NothingOverdue, InPhase, Timeline, HeldForAReason
<1>3. QED BY <1>1, <1>2 DEF IInv

\* Every step keeps the invariant.
LEMMA StepKeeps == IInv /\ [Next]_vars => IInv'
<1> SUFFICES ASSUME IInv, [Next]_vars PROVE IInv'
  OBVIOUS
<1>1. CASE Advance
  BY <1>1, RestStep, FireTimerStep, ReleaseStep DEF Advance
<1>2. ASSUME NEW a \in Agents, Act(a) PROVE IInv'
  <2>1. ASSUME NEW d \in Deadlines, Park(a, {d}) PROVE IInv'
    BY <2>1, ParkStep, ClockAssumption
  <2>2. CASE Park(a, {})
    BY <2>2, ParkStep
  <2>3. QED BY <1>2, <2>1, <2>2, RequestStep, OccupyStep, RetireStep DEF Act
<1>3. ASSUME NEW a \in Agents, NEW g \in Generations, Respond(a, g) PROVE IInv'
  BY <1>3, RespondStep
<1>4. ASSUME NEW a \in Agents, PassGate(a) \/ Wake(a) \/ Cancel(a) \/ Enlist(a) PROVE IInv'
  BY <1>4, PassGateStep, WakeStep, CancelStep, EnlistStep
<1>5. CASE Stop
  BY <1>5, StopStep
<1>6. CASE UNCHANGED vars
  BY <1>6 DEF IInv, vars, clock, TypeOK, Seats, Seat, OneTurn, Timers, TimersOf,
              NothingOverdue, InPhase, Timeline, HeldForAReason, Certain
<1>7. QED BY <1>1, <1>2, <1>3, <1>4, <1>5, <1>6 DEF Next

LEMMA Invariance == Spec => []IInv
BY InitEstablishes, StepKeeps, PTL DEF Spec

-----------------------------------------------------------------------------
\* Type correctness for every team, latency model and bound.
THEOREM TypeAlways == Spec => []TypeOK
BY Invariance, PTL DEF IInv

\* Two agents never act at once while the run lasts: the clock's one turn is theirs.
THEOREM OneAlwaysActs == Spec => []OneActs
<1>1. IInv => OneActs
  BY DEF IInv, OneActs, OneTurn, Seats, Seat
<1>2. QED BY <1>1, Invariance, PTL

\* Time never moves past a response, a timer or what a request in flight may do.
THEOREM NothingIsEverOverdue == Spec => []NothingOverdue
BY Invariance, PTL DEF IInv

\* Nobody is held back but by a request in flight: the scheduler never stalls.
THEOREM AlwaysHeldForAReason == Spec => []HeldForAReason
BY Invariance, PTL DEF IInv

\* A gate opened while the run lasts opens at the instant of its response or craft.
LEMMA GateOpensOnTime ==
    ASSUME IInv, [Next]_vars, ~stopped', NEW a \in Agents, gate[a] = "open", gate'[a] = "set"
    PROVE  now' = readyAt[a]
<1>1. CASE \E t \in timers : FireTimer(t)
  <2>1. PICK t \in timers : FireTimer(t)
    BY <1>1
  <2>2. t.kind = "craft" /\ t.agent = a
    BY <2>1 DEF FireTimer, IInv, TypeOK, Timer
  <2>3. t.at = readyAt[a] /\ now <= t.at
    BY <2>1, <2>2 DEF FireTimer, Comes, IInv, Timers, NothingOverdue
  <2>4. QED BY <2>1, <2>2, <2>3 DEF FireTimer, Later, IInv, TypeOK, Timer
<1>2. CASE \E b \in Agents : Release(b)
  <2>1. PICK b \in Agents : Release(b)
    BY <1>2
  <2>2. b = a
    BY <2>1 DEF Release, IInv, TypeOK
  <2>3. now <= readyAt[a]
    BY <2>1, <2>2 DEF Release, Comes, IInv, NothingOverdue, InPhase
  <2>4. QED BY <2>1, <2>2, <2>3 DEF Release, Later, IInv, TypeOK
<1>3. CASE Rest \/ Stop \/ UNCHANGED vars
  BY <1>3 DEF Rest, Stop, vars, clock
<1>4. ASSUME NEW b \in Agents,
             \/ \E g \in Generations : Respond(b, g)
             \/ PassGate(b) \/ Wake(b) \/ Cancel(b) \/ Enlist(b) \/ Act(b)
      PROVE  FALSE
  BY <1>4 DEF Respond, PassGate, Wake, Cancel, Enlist, Act, Request, Park, Occupy, Retire, clock,
              IInv, TypeOK, Seats, Seat
<1>5. QED BY <1>1, <1>2, <1>3, <1>4 DEF Next, Advance

\* A request in flight keeps its start, however often it is sent.
LEMMA StartIsKept ==
    ASSUME IInv, [Next]_vars, NEW a \in Agents, pc[a] = "request", pc'[a] = "request"
    PROVE  startedAt'[a] = startedAt[a]
<1>0. phase[a] = "inferring"
  BY DEF IInv, Seats, Seat
<1>1. CASE \E t \in timers : FireTimer(t)
  <2>1. PICK t \in timers : FireTimer(t)
    BY <1>1
  <2>2. t.kind = "wait" => t.agent # a
    BY <2>1 DEF IInv, Timers
  <2>3. QED BY <2>1, <2>2 DEF FireTimer, IInv, TypeOK
<1>2. CASE Rest \/ Stop \/ UNCHANGED vars \/ \E b \in Agents : Release(b)
  BY <1>2 DEF Rest, Stop, vars, clock, Release
<1>3. ASSUME NEW b \in Agents,
             \/ \E g \in Generations : Respond(b, g)
             \/ PassGate(b) \/ Wake(b) \/ Cancel(b) \/ Enlist(b) \/ Act(b)
      PROVE  startedAt'[a] = startedAt[a]
  BY <1>0, <1>3 DEF Respond, PassGate, Wake, Cancel, Enlist, Act, Request, BeginInference, Park, Occupy,
                    Retire, clock, IInv, TypeOK
<1>4. QED BY <1>1, <1>2, <1>3 DEF Next, Advance

\* Effects come in virtual order, each at the instant its own request implies.
THEOREM AlwaysOnTime == Spec => OnTime
<1> DEFINE A == \A a \in Agents :
        /\ gate[a] = "open" /\ gate'[a] = "set" /\ ~stopped' => now' = readyAt[a]
        /\ pc[a] = "request" /\ pc'[a] = "request" => startedAt'[a] = startedAt[a]
<1>1. IInv /\ [Next]_vars => [A]_vars
  BY GateOpensOnTime, StartIsKept
<1>2. QED BY <1>1, Invariance, PTL DEF Spec, OnTime

\* An agent's next request starts from the present, where its last turn has ended.
LEMMA StartsFromNow ==
    ASSUME IInv, [Next]_vars, NEW a \in Agents, pc[a] \in {"tools", "waiting"},
           startedAt'[a] # startedAt[a]
    PROVE  busyUntil[a] <= startedAt'[a]
<1>0. busyUntil[a] <= now /\ now \in Nat /\ busyUntil[a] \in Nat
  BY DEF IInv, Timeline, TypeOK
<1>1. CASE \E t \in timers : FireTimer(t)
  <2>1. PICK t \in timers : FireTimer(t)
    BY <1>1
  <2>2. now' \in Nat /\ now <= now' /\ startedAt'[a] = now'
    BY <2>1 DEF FireTimer, Later, IInv, TypeOK, Timer
  <2>3. QED BY <1>0, <2>2
<1>2. CASE Rest \/ Stop \/ UNCHANGED vars \/ \E b \in Agents : Release(b)
  BY <1>2 DEF Rest, Stop, vars, clock, Release
<1>3. ASSUME NEW b \in Agents,
             \/ \E g \in Generations : Respond(b, g)
             \/ PassGate(b) \/ Wake(b) \/ Cancel(b) \/ Enlist(b) \/ Act(b)
      PROVE  startedAt'[a] = now
  BY <1>3 DEF Respond, PassGate, Wake, Cancel, Enlist, Act, Request, BeginInference, Park, Occupy,
              Retire, clock, IInv, TypeOK
<1>4. QED BY <1>0, <1>1, <1>2, <1>3 DEF Next, Advance

\* No agent's next request starts before its own previous response or craft ended.
THEOREM OwnTimelineAlwaysInOrder == Spec => OwnTimelineInOrder
<1> DEFINE A == \A a \in Agents :
        pc[a] \in {"tools", "waiting"} /\ startedAt'[a] # startedAt[a]
            => busyUntil[a] <= startedAt'[a]
<1>1. IInv /\ [Next]_vars => [A]_vars
  BY StartsFromNow
<1>2. QED BY <1>1, Invariance, PTL DEF Spec, OwnTimelineInOrder

-----------------------------------------------------------------------------
(* VirtualClock implements VirtualOrder *)

Response(a) == [kind |-> "response", agent |-> a, at |-> readyAt[a]]

\* A timer is no response, and a response is known by its agent.
LEMMA AgendaParts ==
    ASSUME TypeOK
    PROVE  /\ \A e \in Agenda : \/ e \in timers /\ e \in Timer /\ e.kind # "response"
                                \/ \E a \in InPhase("pending") : e = Response(a)
           /\ \A a \in Agents : /\ Response(a).agent = a /\ Response(a).kind = "response"
                                /\ Response(a).at = readyAt[a] /\ Response(a) \notin timers
<1>1. \A t \in timers : t \in Timer /\ t.kind # "response"
  BY DEF TypeOK, Timer
<1>2. QED BY <1>1 DEF Agenda, Response

\* What neither the phases nor the timers show, the abstract clock does not see.
LEMMA OrderStutters ==
    ASSUME UNCHANGED <<phase, readyAt, timers, now, stopped>>
    PROVE  UNCHANGED Order!vars
BY DEF Order!vars, Agenda, InPhase

Responses == {Response(a) : a \in InPhase("pending")}

\* With the responses held unchanged the agenda changes as the timers do.
LEMMA SameResponses ==
    ASSUME \A b \in Agents : phase'[b] = "pending" <=> phase[b] = "pending",
           \A b \in Agents : phase[b] = "pending" => readyAt'[b] = readyAt[b]
    PROVE  Agenda = Responses \cup timers /\ Agenda' = Responses \cup timers'
<1>1. InPhase("pending")' = InPhase("pending")
  BY DEF InPhase
<1>2. \A a \in InPhase("pending") :
         [kind |-> "response", agent |-> a, at |-> readyAt'[a]] = Response(a)
  BY DEF InPhase, Response
<1>3. Agenda = Responses \cup timers
  BY DEF Agenda, Responses, Response
<1>4. Agenda' = Responses \cup timers'
  BY <1>1, <1>2 DEF Agenda, Responses
<1>5. QED BY <1>3, <1>4

\* An agent that gives its turn up, or loses what it waited for.
LEMMA Yields ==
    ASSUME NEW a \in Agents, ~stopped, UNCHANGED <<now, stopped>>,
           Agenda' \subseteq Agenda, \A e \in Agenda \ Agenda' : e.agent = a,
           \A b \in Agents : phase'[b] = "executing" <=> (phase[b] = "executing" /\ b # a)
    PROVE  Order!Next
<1>1. InPhase("executing")' = InPhase("executing") \ {a}
  BY DEF InPhase
<1>2. Order!Yield(a)
  BY <1>1 DEF Order!Yield, Order!Of
<1>3. QED BY <1>2 DEF Order!Next

\* A response that comes is held for the instant it is due.
LEMMA RespondHolds ==
    ASSUME IInv, ~stopped, NEW a \in Agents, NEW g \in Generations, Respond(a, g)
    PROVE  Order!Next
<1> DEFINE at == startedAt[a] + BaseLatency + g
           e == [kind |-> "response", agent |-> a, at |-> at]
<1>1. /\ pc[a] = "request" /\ phase' = [phase EXCEPT ![a] = "pending"]
      /\ readyAt' = [readyAt EXCEPT ![a] = at] /\ UNCHANGED <<now, timers, stopped>>
  BY DEF Respond, IInv, TypeOK
<1>2. phase[a] = "inferring" /\ now <= startedAt[a] + BaseLatency
  BY <1>1 DEF IInv, Seats, Seat, NothingOverdue, InPhase
<1>3. now <= at /\ at \in Nat
  BY <1>2, ClockAssumption DEF IInv, TypeOK
<1> HIDE DEF at
<1>4. InPhase("pending")' = InPhase("pending") \cup {a} /\ a \notin InPhase("pending")
  BY <1>1, <1>2 DEF InPhase, IInv, TypeOK
<1>5. InPhase("executing")' = InPhase("executing") /\ a \notin InPhase("executing")
  BY <1>1, <1>2 DEF InPhase, IInv, TypeOK
<1>6. readyAt'[a] = at /\ \A b \in InPhase("pending") : readyAt'[b] = readyAt[b]
  BY <1>1, <1>4 DEF IInv, TypeOK, InPhase
<1>7. Agenda' = Agenda \cup {e}
  BY <1>1, <1>4, <1>6 DEF Agenda
<1>8. e \notin Agenda
  <2>1. \A b \in InPhase("pending") : Response(b) # e
    BY <1>4 DEF Response
  <2>2. \A t \in timers : t # e
    BY DEF IInv, TypeOK, Timer
  <2>3. QED BY <2>1, <2>2 DEF Agenda, Response
<1>9. Order!Hold(a)
  <2>1. e.agent = a /\ e.kind \in {"response"} /\ e.at = at
    OBVIOUS
  <2> HIDE DEF e
  <2>2. Order!Plan(a, {"response"})
    BY <1>3, <1>7, <1>8, <2>1 DEF Order!Plan
  <2>3. QED BY <1>1, <1>5, <2>2 DEF Order!Hold
<1>10. QED BY <1>1, <1>9 DEF Order!Next

\* A wait with a deadline and a craft are planned by the agent that has the turn.
LEMMA TimerDefers ==
    ASSUME IInv, ~stopped, NEW a \in Agents, pc[a] = "tools", NEW t \in Timer,
           t.agent = a, t.kind \in {"wait", "craft"}, now <= t.at, timers' = timers \cup {t},
           phase' = [phase EXCEPT ![a] = "parked"], UNCHANGED <<now, stopped>>,
           \A b \in Agents \ {a} : readyAt'[b] = readyAt[b]
    PROVE  Order!Next
<1>1. phase[a] = "executing" /\ phase \in [Agents -> Phases]
  BY DEF IInv, Seats, Seat, TypeOK
<1>2. Agenda = Responses \cup timers /\ Agenda' = Responses \cup timers'
  BY <1>1, SameResponses
<1>3. t \notin timers
  <2>1. ASSUME t \in timers PROVE FALSE
    <3>1. t.kind = "wait" => pc[a] = "waiting"
      BY <2>1 DEF IInv, Timers
    <3>2. t.kind = "craft" => pc[a] = "crafting"
      BY <2>1 DEF IInv, Timers
    <3>3. QED BY <3>1, <3>2
  <2>2. QED BY <2>1
<1>4. t \notin Responses
  BY DEF Responses, Response
<1>5. Order!Plan(a, {"craft", "wait"})
  BY <1>2, <1>3, <1>4 DEF Order!Plan
<1>6. InPhase("executing")' = InPhase("executing") \ {a} /\ a \in InPhase("executing")
  BY <1>1 DEF InPhase
<1>7. Order!Defer(a)
  BY <1>5, <1>6 DEF Order!Defer
<1>8. QED BY <1>7 DEF Order!Next

\* A cancelled runner's wait is off and its craft gives nobody a turn.
LEMMA CancelAbandons ==
    ASSUME IInv, ~stopped, NEW a \in Agents, Cancel(a)
    PROVE  Order!Next
<1>1. /\ UNCHANGED <<now, stopped, readyAt>> /\ timers' = WithoutRunner(a)
      /\ phase' = phase \/ (pc[a] = "waiting" /\ phase' = [phase EXCEPT ![a] = "inferring"])
  BY DEF Cancel
<1>2. pc[a] = "waiting" => phase[a] = "parked"
  BY DEF IInv, Seats, Seat
<1>3. \A b \in Agents : /\ phase'[b] = "pending" <=> phase[b] = "pending"
                        /\ phase'[b] = "executing" <=> phase[b] = "executing"
  BY <1>1, <1>2 DEF IInv, TypeOK
<1>4. Agenda = Responses \cup timers /\ Agenda' = Responses \cup timers'
  BY <1>1, <1>3, SameResponses
<1>5. \A e \in Responses : e.kind = "response"
  BY DEF Responses, Response
<1>6. \A e \in timers : e.kind \in {"wait", "craft", "dead"}
  BY DEF IInv, TypeOK, Timer
<1>7. {e \in Agenda : e.agent = a => e.kind \in {"response", "dead"}}
         = Responses \cup {e \in timers : e.agent = a => e.kind = "dead"}
  BY <1>4, <1>5, <1>6
<1>8. {f \in Order!Of(a) : f.kind = "craft"} = TimersOf(a, "craft")
  BY <1>4, <1>5 DEF Order!Of, TimersOf
<1>9. timers \ (TimersOf(a, "wait") \cup TimersOf(a, "craft"))
         = {e \in timers : e.agent = a => e.kind = "dead"}
  BY <1>6 DEF TimersOf
<1>10. Agenda' = {e \in Agenda : e.agent = a => e.kind \in {"response", "dead"}}
                   \cup {[e EXCEPT !.kind = "dead"] : e \in {f \in Order!Of(a) : f.kind = "craft"}}
  BY <1>1, <1>4, <1>7, <1>8, <1>9 DEF WithoutRunner
<1>11. InPhase("executing")' = InPhase("executing")
  BY <1>3 DEF InPhase
<1>12. Order!Abandon(a)
  BY <1>1, <1>10, <1>11 DEF Order!Abandon
<1>13. QED BY <1>1, <1>12 DEF Order!Next

\* What the clock takes for the next event is the first of the agenda.
LEMMA FirstComes ==
    ASSUME IInv, NEW at, Comes(at)
    PROVE  ~stopped /\ InPhase("executing") = {} /\ \A f \in Agenda : at <= f.at
<1>1. ~stopped /\ InPhase("executing") = {} /\ Earliest(at)
  BY DEF Comes
<1>2. \A f \in Agenda : at <= f.at
  BY <1>1 DEF Earliest, Agenda
<1>3. QED BY <1>1, <1>2

\* A timer that fires is the next event, and comes at its instant.
LEMMA TimerOccurs ==
    ASSUME IInv, NEW t \in timers, FireTimer(t)
    PROVE  Order!Next
<1>1. ~stopped /\ InPhase("executing") = {} /\ \A f \in Agenda : t.at <= f.at
  BY FirstComes DEF FireTimer
<1>2. t \in Timer /\ t.at \in Nat /\ now \in Nat /\ t.agent \in Agents
      /\ t.kind \in {"wait", "craft", "dead"} /\ phase \in [Agents -> Phases]
  BY DEF IInv, TypeOK, Timer
<1>3. now <= t.at
  BY <1>1 DEF IInv, NothingOverdue
<1>4. now' = t.at /\ timers' = timers \ {t} /\ UNCHANGED <<readyAt, stopped>>
  BY <1>2, <1>3 DEF FireTimer, Later
<1>5. /\ t.kind = "wait" => phase' = [phase EXCEPT ![t.agent] = "inferring"]
                            /\ phase[t.agent] = "parked"
      /\ t.kind = "craft" => phase' = [phase EXCEPT ![t.agent] = "executing"]
                             /\ phase[t.agent] = "parked"
      /\ t.kind = "dead" => phase' = phase
  <2>1. t.kind = "wait" => pc[t.agent] = "waiting"
    BY DEF IInv, Timers
  <2>2. t.kind = "craft" => pc[t.agent] = "crafting"
    BY <1>1 DEF IInv, Timers
  <2>3. phase[t.agent] # "executing"
    BY <1>1, <1>2 DEF InPhase
  <2>4. t.kind \in {"wait", "craft"} => phase[t.agent] = "parked"
    BY <1>2, <2>1, <2>2, <2>3 DEF IInv, Seats, Seat
  <2>5. QED BY <2>4 DEF FireTimer
<1>6. \A b \in Agents : phase'[b] = "pending" <=> phase[b] = "pending"
  BY <1>2, <1>5
<1>7. Agenda = Responses \cup timers /\ Agenda' = Responses \cup timers'
  BY <1>4, <1>6, SameResponses
<1>8. t \notin Responses
  BY <1>2 DEF Responses, Response
<1>9. t \in Agenda /\ Agenda' = Agenda \ {t}
  BY <1>4, <1>7, <1>8
<1>10. InPhase("executing")' = IF t.kind \in {"response", "craft"} THEN {t.agent} ELSE {}
  <2>1. \A b \in Agents : phase[b] # "executing"
    BY <1>1 DEF InPhase
  <2>2. CASE t.kind = "craft"
    BY <1>2, <1>5, <2>1, <2>2 DEF InPhase
  <2>3. CASE t.kind # "craft"
    <3>1. \A b \in Agents : phase'[b] # "executing"
      BY <1>2, <1>5, <2>1, <2>3
    <3>2. QED BY <1>2, <2>3, <3>1 DEF InPhase
  <2>4. QED BY <2>2, <2>3
<1>11. Order!Occur(t)
  BY <1>1, <1>4, <1>9, <1>10 DEF Order!Occur
<1>12. QED BY <1>1, <1>4, <1>9, <1>11 DEF Order!Next

\* So does a response that is released.
LEMMA ReleaseOccurs ==
    ASSUME IInv, NEW a \in Agents, Release(a)
    PROVE  Order!Next
<1> DEFINE e == Response(a)
<1>1. ~stopped /\ InPhase("executing") = {} /\ \A f \in Agenda : readyAt[a] <= f.at
  BY FirstComes DEF Release
<1>2. phase[a] = "pending" /\ phase \in [Agents -> Phases] /\ now \in Nat /\ readyAt[a] \in Nat
  BY DEF Release, IInv, TypeOK
<1>3. now <= readyAt[a]
  BY <1>1, <1>2 DEF IInv, NothingOverdue, InPhase
<1>4. /\ now' = readyAt[a] /\ UNCHANGED <<readyAt, timers, stopped>>
      /\ phase' = [phase EXCEPT ![a] = "executing"]
  BY <1>2, <1>3 DEF Release, Later
<1>5. InPhase("pending")' = InPhase("pending") \ {a} /\ a \in InPhase("pending")
  BY <1>2, <1>4 DEF InPhase
<1>6. e.agent = a /\ e.kind = "response" /\ e.at = readyAt[a] /\ e \notin timers
  BY AgendaParts DEF IInv
<1>7. \A b \in InPhase("pending") \ {a} : Response(b) # e
  BY DEF Response
<1>8. Agenda = Responses \cup timers
  BY DEF Agenda, Responses, Response
<1>9. Agenda' = {Response(b) : b \in InPhase("pending") \ {a}} \cup timers
  BY <1>4, <1>5 DEF Agenda, Response
<1>10. Responses \ {e} = {Response(b) : b \in InPhase("pending") \ {a}} /\ e \in Responses
  BY <1>5, <1>7 DEF Responses
<1> HIDE DEF e
<1>11. e \in Agenda /\ Agenda' = Agenda \ {e}
  BY <1>6, <1>8, <1>9, <1>10
<1>12. InPhase("executing")' = {a}
  BY <1>1, <1>2, <1>4 DEF InPhase
<1>13. Order!Occur(e)
  BY <1>1, <1>4, <1>6, <1>11, <1>12 DEF Order!Occur
<1>14. QED BY <1>1, <1>4, <1>11, <1>13 DEF Order!Next

\* At the end of the run time has come to all that is let go.
LEMMA StopsInTime ==
    ASSUME IInv, Stop
    PROVE  Order!Next
<1>1. /\ ~stopped /\ stopped' /\ now <= now' /\ UNCHANGED <<readyAt, timers>>
      /\ \A a \in Held : readyAt[a] <= now'
      /\ phase' = [a \in Agents |-> IF a \in Held THEN "executing" ELSE phase[a]]
  BY DEF Stop, IInv, TypeOK, Held
<1>2. InPhase("pending")' = InPhase("pending") \ Held
  BY <1>1 DEF InPhase
<1>3. Agenda = Responses \cup timers
      /\ Agenda' = {Response(a) : a \in InPhase("pending") \ Held} \cup timers
  BY <1>1, <1>2 DEF Agenda, Response, Responses
<1>4. Agenda' \subseteq Agenda
  BY <1>3 DEF Responses
<1>5. \A e \in Agenda \ Agenda' : e.at <= now'
  <2> TAKE e \in Agenda \ Agenda'
  <2>1. PICK a \in InPhase("pending") : e = Response(a)
    BY <1>3 DEF Responses
  <2>2. a \in Held
    BY <1>3, <2>1
  <2>3. QED BY <1>1, <2>1, <2>2 DEF Response
<1>6. Order!Stop
  BY <1>1, <1>4, <1>5 DEF Order!Stop
<1>7. QED BY <1>1, <1>6 DEF Order!Next

\* Time goes on in a run that is over.
LEMMA OverGoesOn ==
    ASSUME IInv, stopped, [Next]_vars
    PROVE  stopped' /\ now <= now'
<1>0. now \in Nat
  BY DEF IInv, TypeOK
<1>0a. now = now' => now <= now'
  BY <1>0
<1>1. ASSUME UNCHANGED <<now, stopped>>
      PROVE  stopped' /\ now <= now'
  <2>1. stopped' = stopped /\ now' = now
    BY <1>1
  <2>2. QED BY <2>1, <1>0a
<1>2. CASE UNCHANGED vars
  BY <1>1, <1>2 DEF vars, clock
<1>3. CASE Advance
  <2>1. ~(\E t \in timers : FireTimer(t))
    BY DEF FireTimer, Comes
  <2>2. ~(\E a \in Agents : Release(a))
    BY DEF Release, Comes
  <2>3. Rest
    BY <1>3, <2>1, <2>2 DEF Advance
  <2>4. QED BY <1>1, <2>3 DEF Rest
<1>4. ~Stop
  BY DEF Stop
<1>5. ASSUME NEW b \in Agents, NEW g \in Generations, Respond(b, g)
      PROVE  stopped' /\ now <= now'
  <2>1. busyUntil'[b] \in Nat
    BY <1>5, ClockAssumption DEF Respond, IInv, TypeOK
  <2>2. now' = Later(now, busyUntil'[b])
    BY <1>5 DEF Respond
  <2>3. now <= now'
    BY <1>0, <2>1, <2>2 DEF Later
  <2>4. stopped' = stopped
    BY <1>5 DEF Respond
  <2>5. QED BY <2>3, <2>4
<1>6. ASSUME NEW b \in Agents, Act(b)
      PROVE  stopped' /\ now <= now'
  <2>1. CASE Request(b)
    BY <1>1, <2>1 DEF Request
  <2>2. CASE Park(b, {})
    BY <1>1, <2>2 DEF Park
  <2>3. ASSUME NEW d \in Deadlines, Park(b, {d}) PROVE stopped' /\ now <= now'
    BY <1>1, <2>3 DEF Park
  <2>4. ~Occupy(b)
    BY DEF Occupy
  <2>5. CASE Retire(b)
    BY <1>1, <2>5 DEF Retire
  <2>6. QED BY <1>6, <2>1, <2>2, <2>3, <2>4, <2>5 DEF Act
<1>7. ASSUME NEW b \in Agents, PassGate(b) PROVE stopped' /\ now <= now'
  BY <1>1, <1>7 DEF PassGate, clock
<1>8. ASSUME NEW b \in Agents, Wake(b) PROVE stopped' /\ now <= now'
  BY <1>1, <1>8 DEF Wake
<1>9. ASSUME NEW b \in Agents, Cancel(b) PROVE stopped' /\ now <= now'
  BY <1>1, <1>9 DEF Cancel
<1>10. ASSUME NEW b \in Agents PROVE ~Enlist(b)
  BY DEF Enlist
<1>11. QED
  BY <1>2, <1>3, <1>4, <1>5, <1>6, <1>7, <1>8, <1>9, <1>10 DEF Next

\* Each step of the clock is a step of the order, or one it does not see.
LEMMA OrderStep ==
    ASSUME IInv, [Next]_vars
    PROVE  [Order!Next]_(Order!vars)
<1>1. CASE stopped
  BY <1>1, OverGoesOn DEF Order!Next
<1>2. CASE UNCHANGED vars \/ Rest \/ \E a \in Agents : PassGate(a)
  BY <1>2, OrderStutters DEF vars, clock, Rest, PassGate
<1>3. ASSUME NEW a \in Agents, Request(a), ~stopped PROVE Order!Next
  <2>1. UNCHANGED <<now, stopped, timers, readyAt>> /\ phase' = [phase EXCEPT ![a] = "inferring"]
        /\ phase[a] \in {"inferring", "executing"} /\ phase \in [Agents -> Phases]
    BY <1>3 DEF Request, BeginInference, IInv, Seats, Seat, TypeOK
  <2>2. Agenda' = Agenda
    BY <2>1, SameResponses
  <2>3. QED BY <1>3, <2>1, <2>2, Yields
<1>4. ASSUME NEW a \in Agents, Park(a, {}), ~stopped PROVE Order!Next
  <2>1. UNCHANGED <<now, stopped, timers, readyAt>> /\ phase' = [phase EXCEPT ![a] = "parked"]
        /\ phase[a] = "executing" /\ phase \in [Agents -> Phases]
    BY <1>4 DEF Park, IInv, Seats, Seat, TypeOK
  <2>2. Agenda' = Agenda
    BY <2>1, SameResponses
  <2>3. QED BY <1>4, <2>1, <2>2, Yields
<1>5. ASSUME NEW a \in Agents, NEW d \in Deadlines, Park(a, {d}), ~stopped PROVE Order!Next
  <2> DEFINE t == [at |-> now + d, agent |-> a, kind |-> "wait"]
  <2>1. d \in Nat /\ now \in Nat
    BY ClockAssumption DEF IInv, TypeOK
  <2>2. t \in Timer /\ t.agent = a /\ t.kind = "wait" /\ now <= t.at
    BY <2>1 DEF Timer
  <2>3. /\ pc[a] = "tools" /\ timers' = timers \cup {t}
        /\ phase' = [phase EXCEPT ![a] = "parked"] /\ UNCHANGED <<now, stopped, readyAt>>
    BY <1>5 DEF Park
  <2> HIDE DEF t
  <2>4. QED BY <1>5, <2>2, <2>3, TimerDefers
<1>6. ASSUME NEW a \in Agents, Occupy(a) PROVE Order!Next
  <2> DEFINE t == [at |-> now + CraftDuration, agent |-> a, kind |-> "craft"]
  <2>1. t \in Timer /\ t.agent = a /\ t.kind = "craft" /\ now <= t.at
    BY ClockAssumption DEF Timer, IInv, TypeOK
  <2>2. /\ pc[a] = "tools" /\ timers' = timers \cup {t} /\ ~stopped
        /\ phase' = [phase EXCEPT ![a] = "parked"] /\ UNCHANGED <<now, stopped>>
        /\ \A b \in Agents \ {a} : readyAt'[b] = readyAt[b]
    BY <1>6 DEF Occupy, IInv, TypeOK
  <2> HIDE DEF t
  <2>3. QED BY <2>1, <2>2, TimerDefers
<1>7. ASSUME NEW a \in Agents, Retire(a), ~stopped PROVE Order!Next
  <2>1. UNCHANGED <<now, stopped, timers, readyAt>> /\ phase' = [phase EXCEPT ![a] = "retired"]
        /\ phase \in [Agents -> Phases]
    BY <1>7 DEF Retire, IInv, TypeOK
  <2>2. InPhase("pending")' = InPhase("pending") \ {a}
    BY <2>1 DEF InPhase
  <2>3. Agenda' = {Response(b) : b \in InPhase("pending") \ {a}} \cup timers
        /\ Agenda = Responses \cup timers
    BY <2>1, <2>2 DEF Agenda, Response, Responses
  <2>4. Agenda' \subseteq Agenda /\ \A e \in Agenda \ Agenda' : e.agent = a
    BY <2>3 DEF Responses, Response
  <2>5. QED BY <1>7, <2>1, <2>4, Yields
<1>8. ASSUME NEW a \in Agents, Wake(a), ~stopped PROVE Order!Next
  <2>1. /\ UNCHANGED <<now, stopped, readyAt>> /\ phase' = [phase EXCEPT ![a] = "inferring"]
        /\ phase[a] = "parked" /\ phase \in [Agents -> Phases]
        /\ timers' = timers \ TimersOf(a, "wait")
    BY <1>8 DEF Wake, IInv, Seats, Seat, TypeOK
  <2>2. Agenda = Responses \cup timers /\ Agenda' = Responses \cup timers'
    BY <2>1, SameResponses
  <2>3. Agenda' \subseteq Agenda /\ \A e \in Agenda \ Agenda' : e.agent = a
    BY <2>1, <2>2 DEF TimersOf
  <2>4. QED BY <1>8, <2>1, <2>3, Yields
<1>9. ASSUME NEW a \in Agents, Enlist(a) PROVE Order!Next
  <2>1. UNCHANGED <<now, stopped, timers, readyAt>> /\ phase' = [phase EXCEPT ![a] = "inferring"]
        /\ phase[a] = "retired" /\ phase \in [Agents -> Phases] /\ ~stopped
    BY <1>9 DEF Enlist, IInv, Seats, Seat, TypeOK
  <2>2. Agenda' = Agenda
    BY <2>1, SameResponses
  <2>3. QED BY <2>1, <2>2, Yields
<1>10. CASE Advance /\ ~Rest
  BY <1>10, TimerOccurs, ReleaseOccurs DEF Advance
<1>11. CASE Stop
  BY <1>11, StopsInTime
<1>12. ASSUME NEW a \in Agents, ~stopped,
              \/ \E g \in Generations : Respond(a, g)
              \/ Cancel(a)
       PROVE  Order!Next
  BY <1>12, RespondHolds, CancelAbandons
<1>13. QED
  BY <1>1, <1>2, <1>3, <1>4, <1>5, <1>6, <1>7, <1>8, <1>9, <1>10, <1>11, <1>12 DEF Next, Act

\* The scheduler implements VirtualOrder: whatever the agents set in motion comes
\* about one thing at a time and in the order of its instants.
THEOREM OrderIsKept == Spec => OrderKept
<1>1. Init => Order!Init
  BY DEF Init, Order!Init, Agenda, InPhase
<1>2. QED BY <1>1, OrderStep, Invariance, PTL DEF Spec, OrderKept, Order!Spec

=============================================================================
