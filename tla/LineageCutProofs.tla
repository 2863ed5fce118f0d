-------------------------- MODULE LineageCutProofs --------------------------
(***************************************************************************)
(* What a cut takes along and what it leaves behind, for any number of     *)
(* runs, seats, channels, rounds and swaps: a log has its rounds once      *)
(* each, in order and closed; no agent that plays remembers the end of its *)
(* game; and a crash does not change what an agent was given.              *)
(***************************************************************************)
EXTENDS LineageProofs

-----------------------------------------------------------------------------
(* What a process does to its log *)

\* L is l with more lines behind it.
Extends(l, L) ==
    /\ L \in Seq(LineSet) /\ Len(l) <= Len(L)
    /\ \A i \in 1..Len(l) : L[i] = l[i]

NewLines == (Len(log[up]) + 1)..Len(log'[up])

\* A step of the process that is up: the lines it adds, by what it does.
ProcessStep ==
    /\ Extends(log[up], log'[up])
    /\ \A r \in Runs : r # up => log'[r] = log[r]
    /\ UNCHANGED <<manifest, first>> /\ up' \in {up, 0}
    /\ \A i \in NewLines :
          LET e == log'[up][i] IN
          /\ e.kind = "advanced" =>
                /\ i = Len(log[up]) + 1 /\ phase' = "boundary" /\ e.round = round'
                /\ \/ phase = "entering" /\ e.round = round
                   \/ phase = "closed" /\ e.round = round + 1
          /\ e.kind = "closed" => phase = "playing" /\ e.round = round
          /\ e.kind = "complete" => i = Len(log'[up]) /\ up' = 0
          /\ e.kind \in {"over", "refused"} => phase = "done"
          /\ e.kind = "refused" => "late_calls" \notin Avoided
    /\ up' # 0 =>
          /\ phase' # "entering" /\ (phase = "done" => phase' = "done")
          /\ phase' = "closed" =>
                /\ round' = round
                /\ phase = "closed" \/ \E i \in NewLines : log'[up][i].kind = "closed"
          /\ \A s \in Seats : mind'[s] \subseteq mind[s] \cup Lines(log'[up])
    /\ up' = 0 => \/ phase = "done" /\ \E i \in NewLines : log'[up][i].kind = "complete"
                  \/ "late_stops" \in Avoided => phase # "done"

LEMMA OneLine ==
    ASSUME IInv, up # 0, NEW e \in LineSet, log' = [log EXCEPT ![up] = Append(@, e)]
    PROVE  /\ Extends(log[up], log'[up])
           /\ \A r \in Runs : r # up => log'[r] = log[r]
           /\ Len(log'[up]) = Len(log[up]) + 1 /\ NewLines = {Len(log[up]) + 1}
           /\ log'[up][Len(log[up]) + 1] = e /\ e \in Lines(log'[up])
<1>1. up \in Runs /\ log \in [Runs -> Seq(LineSet)] /\ log[up] \in Seq(LineSet)
  BY UpFacts
<1>2. log'[up] = Append(log[up], e) /\ \A r \in Runs : r # up => log'[r] = log[r]
  BY <1>1
<1>3. /\ Append(log[up], e) \in Seq(LineSet) /\ Len(Append(log[up], e)) = Len(log[up]) + 1
      /\ Len(log[up]) \in Nat /\ DOMAIN Append(log[up], e) = 1..(Len(log[up]) + 1)
      /\ Append(log[up], e)[Len(log[up]) + 1] = e
      /\ \A i \in 1..Len(log[up]) : Append(log[up], e)[i] = log[up][i]
  BY <1>1, OneMore
<1>4. NewLines = {Len(log[up]) + 1}
  BY <1>2, <1>3 DEF NewLines
<1>5. Len(log[up]) + 1 \in DOMAIN Append(log[up], e)
  BY <1>3
<1>6. e \in Lines(log'[up])
  BY <1>2, <1>3, <1>5 DEF Lines
<1>7. QED BY <1>2, <1>3, <1>4, <1>6 DEF Extends

\* A step that adds one line.
LEMMA LineStep ==
    ASSUME IInv, up # 0, NEW e \in LineSet, log' = [log EXCEPT ![up] = Append(@, e)],
           UNCHANGED <<manifest, first>>, up' \in {up, 0},
           e.kind = "advanced" =>
               /\ phase' = "boundary" /\ e.round = round'
               /\ (phase = "entering" /\ e.round = round) \/ (phase = "closed" /\ e.round = round + 1),
           e.kind = "closed" => phase = "playing" /\ e.round = round,
           e.kind = "complete" => up' = 0,
           e.kind \in {"over", "refused"} => phase = "done",
           e.kind = "refused" => "late_calls" \notin Avoided,
           up' # 0 =>
               /\ phase' # "entering" /\ (phase = "done" => phase' = "done")
               /\ phase' = "closed" => round' = round /\ (phase = "closed" \/ e.kind = "closed")
               /\ \A s \in Seats : mind'[s] \subseteq mind[s] \cup {e},
           up' = 0 => \/ phase = "done" /\ e.kind = "complete"
                      \/ "late_stops" \in Avoided => phase # "done"
    PROVE  ProcessStep
<1>1. /\ Extends(log[up], log'[up])
      /\ \A r \in Runs : r # up => log'[r] = log[r]
      /\ Len(log'[up]) = Len(log[up]) + 1 /\ NewLines = {Len(log[up]) + 1}
      /\ log'[up][Len(log[up]) + 1] = e /\ e \in Lines(log'[up])
  BY OneLine
<1>2. \A i \in NewLines : i = Len(log[up]) + 1 /\ i = Len(log'[up]) /\ log'[up][i] = e
  BY <1>1
<1>3. \E i \in NewLines : log'[up][i] = e
  BY <1>1
<1> DEFINE L == log'[up]
<1> HIDE DEF L
<1>4. \A i \in NewLines :
          /\ L[i].kind = "advanced" =>
                /\ i = Len(log[up]) + 1 /\ phase' = "boundary" /\ L[i].round = round'
                /\ \/ phase = "entering" /\ L[i].round = round
                   \/ phase = "closed" /\ L[i].round = round + 1
          /\ L[i].kind = "closed" => phase = "playing" /\ L[i].round = round
          /\ L[i].kind = "complete" => i = Len(L) /\ up' = 0
          /\ L[i].kind \in {"over", "refused"} => phase = "done"
          /\ L[i].kind = "refused" => "late_calls" \notin Avoided
  BY <1>2 DEF L
<1>5. up' # 0 =>
          /\ phase' # "entering" /\ (phase = "done" => phase' = "done")
          /\ phase' = "closed" =>
                /\ round' = round
                /\ phase = "closed" \/ \E i \in NewLines : L[i].kind = "closed"
          /\ \A s \in Seats : mind'[s] \subseteq mind[s] \cup Lines(L)
  BY <1>1, <1>3 DEF L
<1>6. up' = 0 => \/ phase = "done" /\ \E i \in NewLines : L[i].kind = "complete"
                 \/ "late_stops" \in Avoided => phase # "done"
  BY <1>3 DEF L
<1>7. QED BY <1>1, <1>4, <1>5, <1>6 DEF L, ProcessStep

\* The lines of the clock and of the supervisor.
LEMMA SystemSteps ==
    ASSUME IInv, Enter \/ Open \/ Close \/ Advance \/ End \/ \E logged \in BOOLEAN : Stop(logged)
    PROVE  up # 0 /\ ProcessStep
<1>1. up # 0 /\ up \in Runs /\ round \in Nat /\ round + 1 \in Nat /\ TypeOK
  <2>1. up # 0
    BY IsUp DEF Enter, Open, Close, Advance, End, Stop
  <2>2. QED BY <2>1, UpFacts DEF IInv
<1>2. \A kind \in {"advanced", "injected", "closed", "complete", "failed"} : \A n \in Nat :
          Sys(up, kind, n) \in LineSet /\ Sys(up, kind, n).kind = kind /\ Sys(up, kind, n).round = n
  BY <1>1, SysTyped DEF Kinds
<1>3. \A kind \in {"advanced", "injected", "closed", "complete", "failed"} : \A n \in Nat :
          \A s \in Seats : mind[s] \subseteq mind[s] \cup {Sys(up, kind, n)}
  OBVIOUS
<1>4. CASE Enter
  <2> DEFINE e == Sys(up, "advanced", round)
  <2>1. e \in LineSet /\ e.kind = "advanced" /\ e.round = round
    BY <1>1, <1>2
  <2>2. /\ log' = [log EXCEPT ![up] = Append(@, e)] /\ phase = "entering" /\ phase' = "boundary"
        /\ manifest' = manifest /\ up' = up /\ round' = round /\ mind' = mind /\ first' = first
    BY <1>4 DEF Enter, Append1
  <2> HIDE DEF e
  <2>3. ProcessStep
    BY <1>1, <2>1, <2>2, LineStep
  <2>4. QED BY <1>1, <2>3
<1>5. CASE Open
  <2> DEFINE e == Sys(up, "injected", round)
  <2>1. e \in LineSet /\ e.kind = "injected" /\ e.round = round
    BY <1>1, <1>2
  <2>2. /\ log' = [log EXCEPT ![up] = Append(@, e)] /\ phase = "boundary" /\ phase' = "playing"
        /\ manifest' = manifest /\ up' = up /\ round' = round /\ mind' = mind /\ first' = first
    BY <1>5 DEF Open, Append1
  <2> HIDE DEF e
  <2>3. ProcessStep
    BY <1>1, <2>1, <2>2, LineStep
  <2>4. QED BY <1>1, <2>3
<1>6. CASE Close
  <2> DEFINE e == Sys(up, "closed", round)
  <2>1. e \in LineSet /\ e.kind = "closed" /\ e.round = round
    BY <1>1, <1>2
  <2>2. /\ log' = [log EXCEPT ![up] = Append(@, e)] /\ phase = "playing" /\ phase' = "closed"
        /\ manifest' = manifest /\ up' = up /\ round' = round /\ mind' = mind /\ first' = first
    BY <1>6 DEF Close, Append1
  <2> HIDE DEF e
  <2>3. ProcessStep
    BY <1>1, <2>1, <2>2, LineStep
  <2>4. QED BY <1>1, <2>3
<1>7. CASE Advance
  <2> DEFINE e == Sys(up, "advanced", round + 1)
  <2>1. e \in LineSet /\ e.kind = "advanced" /\ e.round = round + 1
    BY <1>1, <1>2
  <2>2. /\ log' = [log EXCEPT ![up] = Append(@, e)] /\ phase = "closed" /\ phase' = "boundary"
        /\ manifest' = manifest /\ up' = up /\ round' = round + 1 /\ mind' = mind /\ first' = first
    BY <1>7 DEF Advance, Append1
  <2> HIDE DEF e
  <2>3. ProcessStep
    BY <1>1, <2>1, <2>2, LineStep
  <2>4. QED BY <1>1, <2>3
<1>8. CASE End
  <2> DEFINE e == Sys(up, "complete", round)
  <2>1. e \in LineSet /\ e.kind = "complete" /\ e.round = round
    BY <1>1, <1>2
  <2>2. /\ log' = [log EXCEPT ![up] = Append(@, e)] /\ phase = "done"
        /\ manifest' = manifest /\ up' = 0 /\ first' = first
    BY <1>8 DEF End, Append1, Down
  <2> HIDE DEF e
  <2>3. ProcessStep
    BY <1>1, <2>1, <2>2, LineStep
  <2>4. QED BY <1>1, <2>3
<1>9. ASSUME NEW logged \in BOOLEAN, Stop(logged) PROVE ProcessStep
  <2>1. up' = 0 /\ manifest' = manifest /\ first' = first /\ ("late_stops" \in Avoided => phase # "done")
    BY <1>9 DEF Stop, Down
  <2>2. CASE logged
    <3> DEFINE e == Sys(up, "failed", round)
    <3>1. e \in LineSet /\ e.kind = "failed" /\ e.round = round
      BY <1>1, <1>2
    <3>2. log' = [log EXCEPT ![up] = Append(@, e)]
      BY <1>9, <2>2 DEF Stop, Append1
    <3> HIDE DEF e
    <3>3. QED BY <1>1, <2>1, <3>1, <3>2, LineStep
  <2>3. CASE ~logged
    <3>1. log' = log
      BY <1>9, <2>3 DEF Stop
    <3>2. log[up] \in Seq(LineSet) /\ Len(log[up]) \in Nat
      BY <1>1, InALog DEF TypeOK
    <3>3. NewLines = {} /\ Extends(log[up], log'[up])
      BY <3>1, <3>2 DEF NewLines, Extends
    <3>4. QED BY <2>1, <3>1, <3>3 DEF ProcessStep
  <2>4. QED BY <2>2, <2>3
<1>10. QED BY <1>1, <1>4, <1>5, <1>6, <1>7, <1>8, <1>9

\* The lines of the agents.
LEMMA AgentSteps ==
    ASSUME IInv, NEW s \in Seats,
           Say(s) \/ Tell(s) \/ \E c \in Channels \cup {NoChannel} : Call(s, c)
    PROVE  up # 0 /\ ProcessStep
<1>1. up # 0 /\ phase \notin {"down", "entering"}
  BY IsUp DEF Say, Tell, Call, IInv, InTheRound
<1>2. mind \in [Seats -> SUBSET LineSet]
  BY DEF IInv, TypeOK
<1>3. ASSUME NEW kind \in {"call", "refused", "over", "said"}, NEW c \in Channels \cup {NoChannel},
             NEW e, e = Line(up, kind, s, c, round, Who(up, s)),
             log' = [log EXCEPT ![up] = Append(@, e)], mind' = [mind EXCEPT ![s] = @ \cup {e}],
             kind \in {"refused", "over"} => phase = "done",
             kind = "refused" => "late_calls" \notin Avoided,
             manifest' = manifest, first' = first, up' = up, round' = round, phase' = phase
      PROVE  ProcessStep
  <2>1. e \in LineSet /\ e.kind = kind
    BY <1>1, <1>3, AgentLineTyped
  <2>2. \A q \in Seats : mind'[q] \subseteq mind[q] \cup {e}
    BY <1>2, <1>3
  <2>3. QED BY <1>1, <1>3, <2>1, <2>2, LineStep
<1>4. NoChannel \in Channels \cup {NoChannel}
  OBVIOUS
<1>5. CASE Say(s)
  <2>1. /\ log' = [log EXCEPT ![up] = Append(@, Line(up, "said", s, NoChannel, round, Who(up, s)))]
        /\ mind' = [mind EXCEPT ![s] = @ \cup {Line(up, "said", s, NoChannel, round, Who(up, s))}]
        /\ manifest' = manifest /\ first' = first /\ up' = up /\ round' = round /\ phase' = phase
    BY <1>5 DEF Say, Append1
  <2>2. "said" \in {"call", "refused", "over", "said"} /\ "said" \notin {"refused", "over"}
    OBVIOUS
  <2>3. ProcessStep
    BY <1>3, <1>4, <2>1, <2>2
  <2>4. QED BY <1>1, <2>3
<1>6. CASE Tell(s)
  <2>1. /\ log' = [log EXCEPT ![up] = Append(@, Line(up, "over", s, NoChannel, round, Who(up, s)))]
        /\ mind' = [mind EXCEPT ![s] = @ \cup {Line(up, "over", s, NoChannel, round, Who(up, s))}]
        /\ manifest' = manifest /\ first' = first /\ up' = up /\ round' = round /\ phase' = phase
        /\ phase = "done"
    BY <1>6 DEF Tell, Append1
  <2>2. "over" \in {"call", "refused", "over", "said"} /\ "over" # "refused"
    OBVIOUS
  <2>3. ProcessStep
    BY <1>3, <1>4, <2>1, <2>2
  <2>4. QED BY <1>1, <2>3
<1>7. ASSUME NEW c \in Channels \cup {NoChannel}, Call(s, c) PROVE ProcessStep
  <2>1. PICK kind \in {"call", "refused"} : kind = IF phase = "done" THEN "refused" ELSE "call"
    OBVIOUS
  <2>2. /\ log' = [log EXCEPT ![up] = Append(@, Line(up, kind, s, c, round, Who(up, s)))]
        /\ mind' = [mind EXCEPT ![s] = @ \cup {Line(up, kind, s, c, round, Who(up, s))}]
        /\ manifest' = manifest /\ first' = first /\ up' = up /\ round' = round /\ phase' = phase
    BY <1>7, <2>1 DEF Call, Append1
  <2>3. /\ kind \in {"call", "refused", "over", "said"}
        /\ kind \in {"refused", "over"} => phase = "done"
        /\ kind = "refused" => "late_calls" \notin Avoided
    BY <1>7, <2>1 DEF Call
  <2>4. QED BY <1>3, <2>2, <2>3
<1>8. QED BY <1>1, <1>5, <1>6, <1>7

LEMMA FinishStep ==
    ASSUME IInv, Finish
    PROVE  up # 0 /\ ProcessStep
<1>1. up # 0 /\ log[up] \in Seq(LineSet) /\ Len(log[up]) \in Nat
  BY IsUp, UpFacts, InALog DEF Finish
<1>2. /\ log' = log /\ manifest' = manifest /\ first' = first /\ up' = up /\ mind' = mind
      /\ phase' = "done"
  BY DEF Finish
<1>3. NewLines = {} /\ Extends(log[up], log'[up])
  BY <1>1, <1>2 DEF NewLines, Extends
<1>4. QED BY <1>1, <1>2, <1>3 DEF ProcessStep

\* A swap adds the wake of the agent that leaves, if it was parked, and its own line.
LEMMA SwapStep ==
    ASSUME IInv, NEW sw \in Swaps, NEW n \in {round - 1, round}, Swap(sw, n)
    PROVE  up # 0 /\ ProcessStep
<1> DEFINE s == sw.seat
           k == log[up]
           l == LogAfterWake(s, n)
           new == <<up, Len(l) + 1>>
           e == [Line(up, "swapped", s, NoChannel, round, new) EXCEPT !.at = new]
           L == Append(l, e)
           kept == {x \in Rebuilt(l, s) : IsCall(x) /\ x.round < round /\ x.chan \notin sw.hidden}
<1>1. /\ phase = "boundary" /\ sw.round = round /\ log' = [log EXCEPT ![up] = L]
      /\ mind' = [mind EXCEPT ![s] = kept]
      /\ manifest' = manifest /\ up' = up /\ phase' = phase /\ round' = round /\ first' = first
  BY DEF Swap, Due, LogAfterWake
<1>2. up # 0
  BY <1>1, IsUp
<1>3. s \in Seats /\ round >= 2
  <2>1. sw \in [seat : Seats, round : Rounds \ {1}, hidden : SUBSET Channels]
    BY LineageAssumption
  <2>2. sw.seat \in Seats /\ sw.round \in Rounds \ {1}
    BY <2>1
  <2>3. QED BY <1>1, <2>2, LineageAssumption DEF Rounds
<1>4. /\ up \in Runs /\ up \in Nat /\ k \in Seq(LineSet) /\ round \in Nat
      /\ log \in [Runs -> Seq(LineSet)] /\ Len(k) \in Nat
  BY <1>2, UpFacts, InALog
<1>5. l \in Seq(LineSet) /\ Len(l) \in Nat
  BY <1>1, <1>2, <1>3, RelievedLog, InALog DEF GoodLog
<1>6. /\ Len(k) <= Len(l) /\ Len(l) <= Len(k) + 1 /\ \A i \in 1..Len(k) : l[i] = k[i]
      /\ \A i \in (Len(k) + 1)..Len(l) : l[i].kind = "relieved"
  <2>1. CASE s \in midCycle
    BY <1>4, <2>1 DEF LogAfterWake
  <2>2. CASE s \notin midCycle
    <3> DEFINE wake == Line(up, "relieved", s, NoChannel, n, Who(up, s))
    <3>1. l = Append(k, wake) /\ wake.kind = "relieved"
      BY <2>2 DEF LogAfterWake, Line
    <3>2. s \in Seats \cup {Nobody} /\ n \in Nat /\ Who(up, s) \in Nat \X Nat
      BY <1>2, <1>3, <1>4, WhoIsOurs
    <3>3. wake \in LineSet
      BY <1>4, <3>2 DEF Line, LineSet, Kinds
    <3> HIDE DEF wake, l
    <3>4. /\ Len(l) = Len(k) + 1 /\ l[Len(k) + 1] = wake
          /\ \A i \in 1..Len(k) : l[i] = k[i]
      BY <1>4, <3>1, <3>3, OneMore
    <3>5. \A i \in (Len(k) + 1)..Len(l) : i = Len(k) + 1
      BY <1>4, <3>4
    <3>6. QED BY <1>4, <3>1, <3>4, <3>5
  <2>3. QED BY <2>1, <2>2
<1> HIDE DEF l
<1>7. e \in LineSet /\ e.kind = "swapped"
  <2>1. s \in Seats \cup {Nobody} /\ new \in Nat \X Nat /\ "swapped" \in Kinds /\ round \in Nat
        /\ NoChannel \in Channels \cup {NoChannel}
    BY <1>3, <1>4, <1>5 DEF Kinds
  <2>2. e = [at |-> new, kind |-> "swapped", seat |-> s, chan |-> NoChannel, round |-> round, by |-> new]
    BY DEF Line
  <2> HIDE DEF e, new, s
  <2>3. QED BY <2>1, <2>2 DEF LineSet
<1> HIDE DEF e
<1>8. /\ L \in Seq(LineSet) /\ Len(L) = Len(l) + 1 /\ L[Len(l) + 1] = e
      /\ DOMAIN L = 1..(Len(l) + 1) /\ DOMAIN l = 1..Len(l) /\ \A i \in 1..Len(l) : L[i] = l[i]
  BY <1>5, <1>7, OneMore
<1> HIDE DEF L
<1>9. log'[up] = L /\ \A r \in Runs : r # up => log'[r] = log[r]
  BY <1>1, <1>4
<1>10. Extends(k, L)
  <2>1. \A i \in 1..Len(k) : i \in 1..Len(l)
    BY <1>4, <1>5, <1>6
  <2>2. QED BY <1>4, <1>5, <1>6, <1>8, <2>1 DEF Extends
<1>11. \A i \in (Len(k) + 1)..Len(L) : L[i].kind \in {"relieved", "swapped"}
  <2> SUFFICES ASSUME NEW i \in (Len(k) + 1)..Len(L) PROVE L[i].kind \in {"relieved", "swapped"}
    OBVIOUS
  <2>1. CASE i = Len(l) + 1
    BY <1>7, <1>8, <2>1
  <2>2. CASE i # Len(l) + 1
    <3>1. i \in (Len(k) + 1)..Len(l) /\ i \in 1..Len(l)
      BY <1>4, <1>5, <1>8, <2>2
    <3>2. QED BY <1>6, <1>8, <3>1
  <2>3. QED BY <2>1, <2>2
<1>12. \A q \in Seats : mind'[q] \subseteq mind[q] \cup Lines(L)
  <2>1. mind \in [Seats -> SUBSET LineSet]
    BY DEF IInv, TypeOK
  <2>2. Lines(l) \subseteq Lines(L)
    BY <1>5, <1>8 DEF Lines
  <2>3. kept \subseteq Lines(l)
    BY DEF Rebuilt
  <2> HIDE DEF kept, s
  <2>4. QED BY <1>1, <2>1, <2>2, <2>3
<1>13. NewLines = (Len(k) + 1)..Len(L)
  BY <1>9 DEF NewLines
<1>14. \A i \in NewLines :
          log'[up][i].kind \notin {"advanced", "closed", "complete", "over", "refused"}
  BY <1>9, <1>11, <1>13
<1>15. QED BY <1>1, <1>2, <1>9, <1>10, <1>12, <1>14 DEF ProcessStep

-----------------------------------------------------------------------------
(* Each round once, in order, and closed *)

\* Round n was closed and none was advanced to since.
ClosedOut(l, n) ==
    \E k \in At(l, "closed") : l[k].round = n /\ \A i \in At(l, "advanced") : i < k

\* Rounds are advanced to once each, the one before is closed by then, a round that is
\* closed was begun, and a complete log is never added to.
PlaysInOrder(l) ==
    /\ \A i, j \in At(l, "advanced") : i < j => l[i].round < l[j].round
    /\ \A i, j \in At(l, "advanced") : l[j].round = l[i].round + 1 =>
          \E k \in At(l, "closed") : i < k /\ k < j /\ l[k].round = l[i].round
    /\ \A k \in At(l, "closed") : \E i \in At(l, "advanced") : i < k /\ l[i].round = l[k].round
    /\ \A i \in At(l, "complete") : i = Len(l)

\* A derived log has the round before its entry round, closed unless that round is there
\* too, and it is cut between the two.
CutAfterARound(l, m) ==
    m.kind # "none" =>
        /\ \E i \in At(l, "advanced") : l[i].round = m.entry - 1
        /\ (\A i \in At(l, "advanced") : l[i].round < m.entry) => ClosedOut(l, m.entry - 1)
        /\ \A i \in At(l, "advanced") : IF l[i].round < m.entry THEN i <= m.target ELSE m.target <= i

\* The process that is up adds the next line where it belongs.
AtTheEndOfItsLog ==
    up # 0 =>
        /\ At(log[up], "complete") = {}
        /\ phase = "entering" => /\ Derived(up) /\ round = manifest[up].entry
                                 /\ \A i \in At(log[up], "advanced") : log[up][i].round < round
        /\ phase = "closed" => ClosedOut(log[up], round)

PlayInv ==
    /\ \A r \in Runs : log[r] # <<>> => PlaysInOrder(log[r]) /\ CutAfterARound(log[r], manifest[r])
    /\ AtTheEndOfItsLog

\* The lines of a kind in a longer log: those it had, and new ones.
LEMMA AtLater ==
    ASSUME NEW l \in Seq(LineSet), NEW L, Extends(l, L), NEW kind
    PROVE  /\ At(l, kind) \subseteq 1..Len(l) /\ At(L, kind) \subseteq 1..Len(L)
           /\ Len(l) \in Nat /\ Len(L) \in Nat /\ Len(l) <= Len(L)
           /\ \A i \in At(l, kind) : i \in At(L, kind) /\ L[i] = l[i] /\ i <= Len(l)
           /\ \A i \in At(L, kind) : \/ i \in At(l, kind) /\ L[i] = l[i] /\ i <= Len(l)
                                     \/ i \in (Len(l) + 1)..Len(L)
           /\ \A i \in 1..Len(L) : L[i].kind = kind => i \in At(L, kind)
<1>1. L \in Seq(LineSet) /\ Len(l) <= Len(L) /\ \A i \in 1..Len(l) : L[i] = l[i]
  BY DEF Extends
<1>2. Len(l) \in Nat /\ DOMAIN l = 1..Len(l) /\ Len(L) \in Nat /\ DOMAIN L = 1..Len(L)
  BY <1>1, InALog
<1>3. QED BY <1>1, <1>2 DEF At

\* A log that is added to in order stays in order.
LEMMA OrderGrows ==
    ASSUME NEW l \in Seq(LineSet), NEW L, Extends(l, L), PlaysInOrder(l),
           At(l, "complete") = {},
           \A i \in (Len(l) + 1)..Len(L) :
               /\ L[i].kind = "advanced" =>
                     /\ i = Len(l) + 1 /\ \A j \in At(l, "advanced") : l[j].round < L[i].round
                     /\ \A j \in At(l, "advanced") : L[i].round = l[j].round + 1 =>
                           ClosedOut(l, l[j].round)
               /\ L[i].kind = "closed" => \E j \in At(l, "advanced") : l[j].round = L[i].round
               /\ L[i].kind = "complete" => i = Len(L)
    PROVE  PlaysInOrder(L)
<1>1. /\ Len(l) \in Nat /\ Len(L) \in Nat /\ Len(l) <= Len(L)
      /\ \A i \in At(l, "advanced") : i \in At(L, "advanced") /\ L[i] = l[i] /\ i <= Len(l)
      /\ \A i \in At(L, "advanced") : \/ i \in At(l, "advanced") /\ L[i] = l[i] /\ i <= Len(l)
                                      \/ i \in (Len(l) + 1)..Len(L)
      /\ At(L, "advanced") \subseteq 1..Len(L)
  BY AtLater
<1>2. /\ \A i \in At(l, "closed") : i \in At(L, "closed") /\ L[i] = l[i] /\ i <= Len(l)
      /\ \A i \in At(L, "closed") : \/ i \in At(l, "closed") /\ L[i] = l[i] /\ i <= Len(l)
                                    \/ i \in (Len(l) + 1)..Len(L)
  BY AtLater
<1>3. \A i \in At(L, "complete") : i \in (Len(l) + 1)..Len(L) /\ L[i].kind = "complete"
  <2>1. \A i \in At(L, "complete") : i \in At(l, "complete") \/ i \in (Len(l) + 1)..Len(L)
    BY AtLater
  <2>2. \A i \in At(L, "complete") : L[i].kind = "complete"
    BY DEF At
  <2>3. QED BY <2>1, <2>2
<1>4. \A i \in 1..Len(L) : L[i].round \in Nat
  BY InALog DEF Extends, LineSet
<1>5. \A i \in At(L, "advanced") : i \in (Len(l) + 1)..Len(L) =>
          /\ i = Len(l) + 1
          /\ \A j \in At(l, "advanced") : L[j].round < L[i].round /\ j < i
          /\ \A j \in At(l, "advanced") : L[i].round = L[j].round + 1 => ClosedOut(l, L[j].round)
  BY <1>1 DEF At
<1>6. ASSUME NEW i \in At(L, "advanced"), NEW j \in At(L, "advanced"), i < j
      PROVE  L[i].round < L[j].round
  <2>1. CASE j \in (Len(l) + 1)..Len(L)
    <3>1. j = Len(l) + 1
      BY <1>5, <2>1
    <3>2. i \in At(l, "advanced")
      BY <1>1, <1>6, <3>1
    <3>3. QED BY <1>5, <2>1, <3>2
  <2>2. CASE j \notin (Len(l) + 1)..Len(L)
    <3>1. j \in At(l, "advanced") /\ L[j] = l[j] /\ j <= Len(l)
      BY <1>1, <2>2
    <3>2. i \in At(l, "advanced") /\ L[i] = l[i]
      BY <1>1, <1>6, <3>1
    <3>3. QED BY <1>6, <3>1, <3>2 DEF PlaysInOrder
  <2>3. QED BY <2>1, <2>2
<1>7. ASSUME NEW i \in At(L, "advanced"), NEW j \in At(L, "advanced"), L[j].round = L[i].round + 1
      PROVE  \E k \in At(L, "closed") : i < k /\ k < j /\ L[k].round = L[i].round
  <2>0. i \in 1..Len(L) /\ j \in 1..Len(L) /\ L[i].round \in Nat /\ L[j].round \in Nat /\ i # j
    BY <1>1, <1>4, <1>7
  <2>1. i < j
    <3> SUFFICES ASSUME ~(i < j) PROVE FALSE
      OBVIOUS
    <3>1. j < i
      BY <2>0
    <3>2. L[j].round < L[i].round
      BY <1>6, <3>1
    <3>3. QED BY <1>7, <2>0, <3>2
  <2>2. CASE j \in (Len(l) + 1)..Len(L)
    <3>1. j = Len(l) + 1
      BY <1>5, <2>2
    <3>2. i \in At(l, "advanced") /\ L[i] = l[i]
      BY <1>1, <2>1, <3>1
    <3>3. ClosedOut(l, L[i].round)
      BY <1>5, <1>7, <2>2, <3>2
    <3>4. PICK k \in At(l, "closed") : l[k].round = L[i].round /\ \A x \in At(l, "advanced") : x < k
      BY <3>3 DEF ClosedOut
    <3>5. k \in At(L, "closed") /\ L[k] = l[k] /\ k <= Len(l) /\ i < k
      BY <1>2, <3>2, <3>4
    <3>6. k < j
      <4>1. k \in Nat
        BY <3>4, <1>1, AtLater
      <4>2. QED BY <1>1, <3>1, <3>5, <4>1
    <3>7. QED BY <3>4, <3>5, <3>6
  <2>3. CASE j \notin (Len(l) + 1)..Len(L)
    <3>1. j \in At(l, "advanced") /\ L[j] = l[j] /\ j <= Len(l)
      BY <1>1, <2>3
    <3>2. i \in At(l, "advanced") /\ L[i] = l[i]
      BY <1>1, <2>0, <2>1, <3>1
    <3>3. PICK k \in At(l, "closed") : i < k /\ k < j /\ l[k].round = l[i].round
      BY <1>7, <3>1, <3>2 DEF PlaysInOrder
    <3>4. QED BY <1>2, <3>2, <3>3
  <2>4. QED BY <2>2, <2>3
<1>8. ASSUME NEW k \in At(L, "closed")
      PROVE  \E i \in At(L, "advanced") : i < k /\ L[i].round = L[k].round
  <2>1. CASE k \in (Len(l) + 1)..Len(L)
    <3>1. PICK i \in At(l, "advanced") : l[i].round = L[k].round
      BY <2>1 DEF At
    <3>2. i \in At(L, "advanced") /\ L[i] = l[i] /\ i <= Len(l) /\ i \in 1..Len(L)
      BY <1>1, <3>1
    <3>3. i < k
      BY <1>1, <2>1, <3>2
    <3>4. QED BY <3>1, <3>2, <3>3
  <2>2. CASE k \notin (Len(l) + 1)..Len(L)
    <3>1. k \in At(l, "closed") /\ L[k] = l[k]
      BY <1>2, <2>2
    <3>2. PICK i \in At(l, "advanced") : i < k /\ l[i].round = l[k].round
      BY <3>1 DEF PlaysInOrder
    <3>3. QED BY <1>1, <3>1, <3>2
  <2>3. QED BY <2>1, <2>2
<1>9. \A i \in At(L, "complete") : i = Len(L)
  BY <1>3
<1>10. QED BY <1>6, <1>7, <1>8, <1>9 DEF PlaysInOrder

LEMMA ProcessKeepsOrder ==
    ASSUME IInv, PlayInv, up # 0, ProcessStep
    PROVE  PlayInv'
<1> DEFINE l == log[up]
           L == log'[up]
           m == manifest[up]
<1>1. /\ up \in Runs /\ round \in Nat /\ round >= 1 /\ l \in Seq(LineSet) /\ l # <<>>
      /\ GoodLog(up, l, m, first[up]) /\ m \in ManifestSet /\ m.entry \in Nat
  BY UpFacts DEF GoodLog, ManifestSet
<1>2. /\ Extends(l, L) /\ \A r \in Runs : r # up => log'[r] = log[r]
      /\ manifest' = manifest /\ up' \in {up, 0} /\ NewLines = (Len(l) + 1)..Len(L)
  BY DEF ProcessStep, NewLines
<1>3. PlaysInOrder(l) /\ CutAfterARound(l, m) /\ AtTheEndOfItsLog /\ At(l, "complete") = {}
  BY <1>1 DEF PlayInv, AtTheEndOfItsLog
<1>4. /\ \A i \in At(l, "advanced") : l[i].round <= round /\ l[i].round \in Nat
      /\ phase # "entering" => \E i \in At(l, "advanced") : l[i].round = round
      /\ Derived(up) => round >= m.entry
  <2>1. \A i \in At(l, "advanced") : l[i].round \in Nat
    BY <1>1, InALog DEF At, LineSet
  <2>2. QED BY <2>1 DEF IInv, InTheRound
<1>5. \A i \in (Len(l) + 1)..Len(L) :
          /\ L[i].kind = "advanced" =>
                /\ i = Len(l) + 1 /\ phase' = "boundary" /\ L[i].round = round'
                /\ \/ phase = "entering" /\ L[i].round = round
                   \/ phase = "closed" /\ L[i].round = round + 1
          /\ L[i].kind = "closed" => phase = "playing" /\ L[i].round = round
          /\ L[i].kind = "complete" => i = Len(L) /\ up' = 0
  BY <1>2 DEF ProcessStep
<1>6. up' # 0 => /\ phase' # "entering"
                 /\ phase' = "closed" =>
                       /\ round' = round
                       /\ phase = "closed" \/ \E i \in (Len(l) + 1)..Len(L) : L[i].kind = "closed"
  BY <1>2 DEF ProcessStep
<1> HIDE DEF l, L, m
<1>7. ASSUME NEW i \in (Len(l) + 1)..Len(L), L[i].kind = "advanced"
      PROVE  /\ \A j \in At(l, "advanced") : l[j].round < L[i].round
             /\ \A j \in At(l, "advanced") : L[i].round = l[j].round + 1 => ClosedOut(l, l[j].round)
             /\ m.kind # "none" => L[i].round >= m.entry
  <2>1. CASE phase = "entering" /\ L[i].round = round
    <3>1. /\ Derived(up) /\ round = m.entry /\ \A j \in At(l, "advanced") : l[j].round < round
      BY <1>1, <1>3, <2>1, IsUp DEF AtTheEndOfItsLog, l, m
    <3>2. (\A j \in At(l, "advanced") : l[j].round < m.entry) => ClosedOut(l, m.entry - 1)
      BY <1>3, <3>1 DEF CutAfterARound, Derived, m
    <3>3. ClosedOut(l, round - 1)
      BY <3>1, <3>2
    <3>4. \A j \in At(l, "advanced") : round = l[j].round + 1 => l[j].round = round - 1
      BY <1>1, <1>4
    <3>5. QED BY <1>1, <2>1, <3>1, <3>3, <3>4
  <2>2. CASE phase = "closed" /\ L[i].round = round + 1
    <3>1. ClosedOut(l, round)
      BY <1>3, <2>2, IsUp DEF AtTheEndOfItsLog, l
    <3>2. \A j \in At(l, "advanced") : round + 1 = l[j].round + 1 => l[j].round = round
      BY <1>1, <1>4
    <3>3. \A j \in At(l, "advanced") : l[j].round < round + 1
      BY <1>1, <1>4
    <3>4. m.kind # "none" => round + 1 >= m.entry
      BY <1>1, <1>4 DEF Derived, m
    <3>5. QED BY <2>2, <3>1, <3>2, <3>3, <3>4
  <2>3. QED BY <1>5, <1>7, <2>1, <2>2
<1>8. \A i \in (Len(l) + 1)..Len(L) : L[i].kind = "closed" => \E j \in At(l, "advanced") : l[j].round = L[i].round
  BY <1>4, <1>5
<1>9. PlaysInOrder(L)
  BY <1>1, <1>2, <1>3, <1>5, <1>7, <1>8, OrderGrows
<1>10. /\ Len(l) \in Nat /\ Len(L) \in Nat /\ Len(l) <= Len(L)
       /\ \A i \in At(l, "advanced") : i \in At(L, "advanced") /\ L[i] = l[i] /\ i <= Len(l)
       /\ \A i \in At(L, "advanced") : \/ i \in At(l, "advanced") /\ L[i] = l[i] /\ i <= Len(l)
                                       \/ i \in (Len(l) + 1)..Len(L) /\ L[i].kind = "advanced"
       /\ \A k \in At(l, "closed") : k \in At(L, "closed") /\ L[k] = l[k]
       /\ \A k \in (Len(l) + 1)..Len(L) : L[k].kind = "closed" => k \in At(L, "closed")
  <2>1. \A i \in At(L, "advanced") : L[i].kind = "advanced"
    BY DEF At
  <2>2. \A k \in (Len(l) + 1)..Len(L) : k \in 1..Len(L)
    BY <1>1, <1>2, AtLater
  <2>3. QED BY <1>1, <1>2, <2>1, <2>2, AtLater
\* Where no round is advanced to, a round that was closed out still is.
<1>11. ASSUME NEW n, ClosedOut(l, n), \A i \in (Len(l) + 1)..Len(L) : L[i].kind # "advanced"
       PROVE  ClosedOut(L, n)
  <2>1. PICK k \in At(l, "closed") : l[k].round = n /\ \A i \in At(l, "advanced") : i < k
    BY <1>11 DEF ClosedOut
  <2>2. \A i \in At(L, "advanced") : i \in At(l, "advanced")
    BY <1>10, <1>11
  <2>3. QED BY <1>10, <2>1, <2>2 DEF ClosedOut
<1>12. CutAfterARound(L, m)
  <2> SUFFICES ASSUME m.kind # "none"
               PROVE  /\ \E i \in At(L, "advanced") : L[i].round = m.entry - 1
                      /\ (\A i \in At(L, "advanced") : L[i].round < m.entry) => ClosedOut(L, m.entry - 1)
                      /\ \A i \in At(L, "advanced") :
                            IF L[i].round < m.entry THEN i <= m.target ELSE m.target <= i
    BY DEF CutAfterARound
  <2>1. \E i \in At(L, "advanced") : L[i].round = m.entry - 1
    BY <1>3, <1>10 DEF CutAfterARound
  <2>2. ASSUME \A i \in At(L, "advanced") : L[i].round < m.entry PROVE ClosedOut(L, m.entry - 1)
    <3>1. \A i \in At(l, "advanced") : l[i].round < m.entry
      BY <1>10, <2>2
    <3>2. ClosedOut(l, m.entry - 1)
      BY <1>3, <3>1 DEF CutAfterARound
    <3>3. ASSUME NEW i \in (Len(l) + 1)..Len(L), L[i].kind = "advanced" PROVE FALSE
      <4>1. i \in At(L, "advanced") /\ L[i].round \in Nat
        <5>1. i \in 1..Len(L) /\ L \in Seq(LineSet)
          BY <1>2, <1>10 DEF Extends
        <5>2. QED BY <1>1, <1>2, <3>3, <5>1, AtLater, InALog DEF LineSet
      <4>2. L[i].round >= m.entry /\ L[i].round < m.entry
        BY <1>7, <2>2, <3>3, <4>1
      <4>3. QED BY <1>1, <4>1, <4>2
    <3>4. QED BY <1>11, <3>2, <3>3
  <2>3. ASSUME NEW i \in At(L, "advanced")
        PROVE  IF L[i].round < m.entry THEN i <= m.target ELSE m.target <= i
    <3>1. CASE i \in At(l, "advanced")
      BY <1>3, <1>10, <3>1 DEF CutAfterARound
    <3>2. CASE i \notin At(l, "advanced")
      <4>1. i \in (Len(l) + 1)..Len(L) /\ L[i].round >= m.entry
        BY <1>7, <1>10, <3>2
      <4>2. L[i].round \in Nat
        <5>1. i \in 1..Len(L) /\ L \in Seq(LineSet)
          BY <1>2, <1>10, <4>1 DEF Extends
        <5>2. QED BY <5>1, InALog DEF LineSet
      <4>3. m.target \in 0..Len(l)
        BY <1>1 DEF GoodLog
      <4>4. QED BY <1>1, <1>10, <4>1, <4>2, <4>3
    <3>3. QED BY <3>1, <3>2
  <2>4. QED BY <2>1, <2>2, <2>3
<1>13. \A r \in Runs : log'[r] # <<>> => PlaysInOrder(log'[r]) /\ CutAfterARound(log'[r], manifest'[r])
  BY <1>2, <1>9, <1>12 DEF PlayInv, L, m
<1>14. AtTheEndOfItsLog'
  <2> SUFFICES ASSUME up' # 0
               PROVE  /\ At(L, "complete") = {} /\ phase' # "entering"
                      /\ phase' = "closed" => ClosedOut(L, round')
    BY <1>2 DEF AtTheEndOfItsLog, L
  <2>1. At(L, "complete") = {}
    <3>1. \A i \in At(L, "complete") : L[i].kind = "complete"
      BY DEF At
    <3>2. \A i \in At(L, "complete") : i \in (Len(l) + 1)..Len(L)
      BY <1>1, <1>2, <1>3, AtLater
    <3>3. QED BY <1>5, <3>1, <3>2
  <2>2. ASSUME phase' = "closed" PROVE ClosedOut(L, round')
    <3>1. \A i \in (Len(l) + 1)..Len(L) : L[i].kind # "advanced"
      BY <1>5, <2>2
    <3>2. CASE phase = "closed"
      <4>1. ClosedOut(l, round)
        BY <1>3, <3>2, IsUp DEF AtTheEndOfItsLog, l
      <4>2. QED BY <1>6, <1>11, <2>2, <3>1, <4>1
    <3>3. CASE \E i \in (Len(l) + 1)..Len(L) : L[i].kind = "closed"
      <4>1. PICK k \in (Len(l) + 1)..Len(L) : L[k].kind = "closed"
        BY <3>3
      <4>2. L[k].round = round' /\ k \in At(L, "closed")
        BY <1>5, <1>6, <1>10, <2>2, <4>1
      <4>3. \A i \in At(L, "advanced") : i < k
        <5> SUFFICES ASSUME NEW i \in At(L, "advanced") PROVE i < k
          OBVIOUS
        <5>1. i <= Len(l) /\ i \in 1..Len(L)
          BY <1>1, <1>2, <1>10, <3>1, AtLater
        <5>2. QED BY <1>10, <4>1, <5>1
      <4>4. QED BY <4>2, <4>3 DEF ClosedOut
    <3>4. QED BY <1>6, <2>2, <3>2, <3>3
  <2>3. QED BY <1>6, <2>1, <2>2
<1>15. QED BY <1>13, <1>14 DEF PlayInv

LEMMA StartKeepsOrder ==
    ASSUME IInv, PlayInv, NEW r \in Runs, Start(r)
    PROVE  PlayInv'
<1> DEFINE e == Sys(r, "advanced", 1)
<1>1. e \in LineSet /\ e.kind = "advanced"
  BY SysTyped DEF IInv, Kinds
<1>2. /\ log[r] = <<>> /\ log' = [log EXCEPT ![r] = <<e>>] /\ up' = r /\ phase' = "boundary"
      /\ manifest' = manifest /\ log \in [Runs -> Seq(LineSet)]
  BY DEF Start, New, IInv, TypeOK
<1> HIDE DEF e
<1>3. log'[r] = <<e>> /\ \A q \in Runs : q # r => log'[q] = log[q]
  BY <1>2
<1>4. manifest[r].kind = "none"
  BY <1>2 DEF IInv, RunsExist, NoManifest
<1>5. DOMAIN <<e>> = {1} /\ <<e>>[1] = e /\ Len(<<e>>) = 1
  BY <1>1
<1>6. At(<<e>>, "advanced") = {1} /\ At(<<e>>, "closed") = {} /\ At(<<e>>, "complete") = {}
  BY <1>1, <1>5 DEF At
<1>7. PlaysInOrder(<<e>>)
  <2>1. e.round \in Nat
    BY <1>1 DEF LineSet
  <2>2. \A i, j \in At(<<e>>, "advanced") : i = 1 /\ j = 1
    BY <1>6
  <2>3. ~(1 < 1) /\ e.round # e.round + 1
    BY <2>1
  <2>4. QED BY <1>5, <1>6, <2>2, <2>3 DEF PlaysInOrder
<1>8. \A q \in Runs : log'[q] # <<>> => PlaysInOrder(log'[q]) /\ CutAfterARound(log'[q], manifest'[q])
  BY <1>2, <1>3, <1>4, <1>7 DEF PlayInv, CutAfterARound
<1>9. AtTheEndOfItsLog'
  BY <1>2, <1>3, <1>6 DEF AtTheEndOfItsLog
<1>10. QED BY <1>8, <1>9 DEF PlayInv

LEMMA LaunchKeepsOrder ==
    ASSUME IInv, PlayInv, NEW r \in Runs, Launch(r)
    PROVE  PlayInv'
<1>1. /\ log[r] # <<>> /\ At(log[r], "complete") = {} /\ Consistent(r)
      /\ up' = r /\ log' = log /\ manifest' = manifest
      /\ round' = LastRound(Walked(r)) + (IF Advances(r) THEN 1 ELSE 0)
      /\ phase' = IF Advances(r) THEN "entering" ELSE "boundary"
  BY DEF Launch
<1>2. GoodLog(r, log[r], manifest[r], first[r]) /\ TypeOK
  BY <1>1 DEF IInv, RunsExist
<1>3. /\ Walked(r) = log[r] /\ log[r] \in Seq(LineSet) /\ RoundsInOrder(log[r])
      /\ manifest[r] \in ManifestSet /\ manifest[r].entry \in Nat
  BY <1>2, WalkedIsAll DEF GoodLog, TypeOK, ManifestSet
<1>4. At(log[r], "advanced") # {}
  <2>1. 1 \in DOMAIN log[r] /\ log[r][1].kind = "advanced"
    BY <1>1, <1>2, <1>3, InALog DEF GoodLog
  <2>2. QED BY <2>1 DEF At
<1>5. /\ LastRound(log[r]) \in Nat
      /\ \A i \in At(log[r], "advanced") : log[r][i].round <= LastRound(log[r]) /\ log[r][i].round \in Nat
  <2>1. \A i \in At(log[r], "advanced") : log[r][i].round \in Nat
    BY <1>3, InALog DEF At, LineSet
  <2>2. QED BY <1>3, <1>4, <2>1, LastRoundTyped, LastRoundIsHighest
<1>6. ASSUME phase' = "entering"
      PROVE  /\ Derived(r) /\ round' = manifest[r].entry
             /\ \A i \in At(log[r], "advanced") : log[r][i].round < round'
  <2>1. Advances(r)
    BY <1>1, <1>6
  <2>2. Derived(r) /\ LastRound(log[r]) < manifest[r].entry /\ LastRound(log[r]) >= manifest[r].entry - 1
    BY <1>1, <1>3, <2>1 DEF Advances, Consistent
  <2>3. round' = LastRound(log[r]) + 1
    BY <1>1, <1>3, <2>1
  <2>4. round' = manifest[r].entry
    BY <1>3, <1>5, <2>2, <2>3
  <2>5. \A i \in At(log[r], "advanced") : log[r][i].round < round'
    BY <1>5, <2>3
  <2>6. QED BY <2>2, <2>4, <2>5
<1>7. AtTheEndOfItsLog'
  BY <1>1, <1>6 DEF AtTheEndOfItsLog, Derived
<1>8. QED BY <1>1, <1>7 DEF PlayInv

\* A fork is cut at the start of the round after n, or behind the end of round n.
LEMMA CutIsBehindTheRound ==
    ASSUME NEW l \in Seq(LineSet), l # <<>>, l[1].kind = "advanced", RoundsInOrder(l), PlaysInOrder(l),
           NEW n \in Nat, n >= 1, Completed(l, n)
    PROVE  LET p == Boundary(l, n) IN
           \/ p \in At(l, "advanced") /\ l[p].round = n + 1
           \/ \E k \in At(l, "closed") :
                 /\ k <= p /\ l[k].round = n
                 /\ \A i \in At(l, "advanced") : i < k /\ l[i].round <= n
<1> DEFINE next == AdvancedTo(l, n + 1)
           p == Boundary(l, n)
<1>1. /\ Len(l) \in Nat /\ DOMAIN l = 1..Len(l) /\ \A i \in 1..Len(l) : l[i].round \in Nat
      /\ \A kind \in Kinds : At(l, kind) \subseteq 1..Len(l)
  BY InALog DEF At, LineSet
<1>2. CASE next # {}
  <2>1. next \subseteq 1..Len(l) /\ p = Earliest(next)
    BY <1>1, <1>2 DEF AdvancedTo, At, Boundary
  <2>2. p \in next
    BY <1>1, <1>2, <2>1, EarliestIsFirst
  <2>3. QED BY <2>2 DEF AdvancedTo
<1>3. CASE next = {}
  <2> DEFINE last == Latest(Ends(l))
  <2>1. /\ Ends(l) # {} /\ l[last].kind = "complete" /\ p = GameOver(l)
        /\ \E i \in At(l, "closed") : l[i].round = n
    BY <1>3 DEF Completed, Boundary
  <2>2. PICK k \in At(l, "closed") : l[k].round = n
    BY <2>1
  <2>3. k \in 1..Len(l) /\ l[k].kind = "closed"
    BY <1>1 DEF At
  <2>4. \A i \in At(l, "advanced") : l[i].round <= n
    <3> SUFFICES ASSUME NEW i \in At(l, "advanced"), ~(l[i].round <= n) PROVE FALSE
      OBVIOUS
    <3>1. i \in 1..Len(l) /\ l[i].round \in Nat
      BY <1>1 DEF At
    <3>2. n + 1 \in 1..l[i].round
      BY <3>1
    <3>3. PICK j \in At(l, "advanced") : l[j].round = n + 1
      BY <3>2 DEF RoundsInOrder
    <3>4. QED BY <1>3, <3>3 DEF AdvancedTo
  <2>5. \A i \in At(l, "advanced") : i < k
    <3>1. PICK j \in At(l, "advanced") : j < k /\ l[j].round = n
      BY <2>2 DEF PlaysInOrder
    <3> SUFFICES ASSUME NEW i \in At(l, "advanced"), ~(i < k) PROVE FALSE
      OBVIOUS
    <3>2. i \in 1..Len(l) /\ j \in 1..Len(l) /\ l[i].round \in Nat
      BY <1>1 DEF At
    <3>3. j < i
      BY <1>1, <2>3, <3>1, <3>2
    <3>4. n < l[i].round
      BY <3>1, <3>3 DEF PlaysInOrder
    <3>5. l[i].round <= n
      BY <2>4
    <3>6. QED BY <3>2, <3>4, <3>5
  <2>6. last \in Ends(l) /\ last \in 1..Len(l)
    <3>1. Ends(l) \subseteq 1..Len(l)
      BY <1>1 DEF Ends, At
    <3>2. QED BY <1>1, <2>1, <3>1, LatestIsLast
  <2>7. last = Len(l)
    <3>1. last \in At(l, "complete")
      BY <1>1, <2>1, <2>6 DEF At
    <3>2. QED BY <3>1 DEF PlaysInOrder
  <2>8. k < last
    <3>1. k # last
      BY <2>1, <2>3
    <3>2. QED BY <1>1, <2>3, <2>7, <3>1
  <2> HIDE DEF last
  <2> DEFINE before == {i \in DOMAIN l : i < last}
             closed == At(l, "closed") \cap before
  <2>9. Closing(l) = Latest(closed) /\ k \in closed /\ closed \subseteq 1..Len(l)
    <3>1. k \in closed
      BY <1>1, <2>3, <2>8
    <3>2. closed # {} /\ closed \subseteq 1..Len(l)
      BY <1>1, <3>1
    <3>3. QED BY <3>1, <3>2 DEF Closing, last
  <2>10. Closing(l) \in closed /\ k <= Closing(l)
    BY <1>1, <2>9, LatestIsLast
  <2>11. Closing(l) \in 1..Len(l) /\ l[Closing(l)].kind = "closed"
    BY <2>9, <2>10 DEF At
  <2> DEFINE wakes == {i \in At(l, "over") \cup At(l, "relieved") : Closing(l) <= i /\ i < last}
  <2>12. k <= p
    <3>1. CASE wakes # {}
      <4>1. p = Earliest(wakes) - 1
        BY <2>1, <3>1 DEF GameOver, last
      <4>2. wakes \subseteq 1..Len(l) /\ \A i \in wakes : l[i].kind \in {"over", "relieved"} /\ Closing(l) <= i
        BY <1>1 DEF At
      <4> HIDE DEF wakes
      <4>3. Earliest(wakes) \in wakes
        BY <1>1, <3>1, <4>2, EarliestIsFirst
      <4>4. Earliest(wakes) \in 1..Len(l) /\ Closing(l) <= Earliest(wakes) /\ Earliest(wakes) # Closing(l)
        BY <2>11, <4>2, <4>3
      <4> HIDE DEF p, closed
      <4>5. QED BY <1>1, <2>3, <2>10, <2>11, <4>1, <4>4
    <3>2. CASE wakes = {}
      <4>1. p = last - 1
        BY <2>1, <3>2 DEF GameOver, last
      <4>2. QED BY <1>1, <2>3, <2>7, <2>8, <4>1
    <3>3. QED BY <3>1, <3>2
  <2>13. QED BY <2>2, <2>4, <2>5, <2>12
<1>4. QED BY <1>2, <1>3

LEMMA CloneKeepsOrder ==
    ASSUME NEW l \in Seq(LineSet), l # <<>>, l[1].kind = "advanced", RoundsInOrder(l), PlaysInOrder(l),
           NEW n \in Nat, n >= 1, Completed(l, n), NEW p, p = Boundary(l, n),
           NEW m, m.entry = n + 1, m.target = p
    PROVE  PlaysInOrder(Clone(l, p)) /\ CutAfterARound(Clone(l, p), m)
<1> DEFINE L == Clone(l, p)
<1>1. p \in 1..Len(l) /\ Len(l) \in Nat /\ DOMAIN l = 1..Len(l) /\ \A i \in 1..Len(l) : l[i].round \in Nat
  <2>1. p \in 1..Len(l)
    BY BoundaryIsALine
  <2>2. QED BY <2>1, InALog DEF LineSet
<1>2. /\ DOMAIN L = 1..p /\ Len(L) = p
      /\ \A i \in 1..p : /\ L[i].round = l[i].round
                         /\ L[i].kind = "advanced" <=> l[i].kind = "advanced"
                         /\ L[i].kind = "closed" <=> l[i].kind = "closed"
  BY <1>1, CloneLines DEF Kinds
<1>3. \A i \in 1..p : L[i].kind # "complete"
  <2> SUFFICES ASSUME NEW i \in 1..p PROVE L[i].kind # "complete"
    OBVIOUS
  <2>1. i \in DOMAIN l /\ l[i] \in LineSet
    BY <1>1, InALog
  <2>2. L[i] = IF i \in Ends(l) THEN [l[i] EXCEPT !.kind = "dropped"] ELSE l[i]
    BY DEF Clone
  <2>3. CASE i \in Ends(l)
    BY <2>1, <2>2, <2>3 DEF LineSet
  <2>4. CASE i \notin Ends(l)
    BY <2>1, <2>2, <2>4 DEF Ends, At
  <2>5. QED BY <2>3, <2>4
<1> HIDE DEF L
<1>4. \A i : i \in At(L, "advanced") <=> i \in At(l, "advanced") /\ i \in 1..p
  BY <1>1, <1>2 DEF At
<1>5. \A i : i \in At(L, "closed") <=> i \in At(l, "closed") /\ i \in 1..p
  BY <1>1, <1>2 DEF At
<1>6. At(L, "complete") = {}
  BY <1>2, <1>3 DEF At
<1>7. \A i \in At(l, "advanced") \cup At(l, "closed") : i \in 1..Len(l)
  BY <1>1 DEF At
<1>8. ASSUME NEW i \in At(L, "advanced"), NEW j \in At(L, "advanced"), L[j].round = L[i].round + 1
      PROVE  \E k \in At(L, "closed") : i < k /\ k < j /\ L[k].round = L[i].round
  <2>1. i \in At(l, "advanced") /\ j \in At(l, "advanced") /\ i \in 1..p /\ j \in 1..p
    BY <1>4
  <2>2. PICK k \in At(l, "closed") : i < k /\ k < j /\ l[k].round = l[i].round
    BY <1>2, <1>8, <2>1 DEF PlaysInOrder
  <2>3. k \in 1..p
    BY <1>1, <1>7, <2>1, <2>2
  <2>4. QED BY <1>2, <1>5, <2>1, <2>2, <2>3
<1>9. ASSUME NEW k \in At(L, "closed")
      PROVE  \E i \in At(L, "advanced") : i < k /\ L[i].round = L[k].round
  <2>1. k \in At(l, "closed") /\ k \in 1..p
    BY <1>5
  <2>2. PICK i \in At(l, "advanced") : i < k /\ l[i].round = l[k].round
    BY <2>1 DEF PlaysInOrder
  <2>3. i \in 1..p
    BY <1>1, <1>7, <2>1, <2>2
  <2>4. QED BY <1>2, <1>4, <2>1, <2>2, <2>3
<1>10. PlaysInOrder(L)
  <2>1. \A i, j \in At(L, "advanced") : i < j => L[i].round < L[j].round
    BY <1>2, <1>4 DEF PlaysInOrder
  <2>2. QED BY <1>6, <1>8, <1>9, <2>1 DEF PlaysInOrder
<1>11. CASE p \in At(l, "advanced") /\ l[p].round = n + 1
  <2>1. p \in At(L, "advanced") /\ L[p].round = n + 1
    BY <1>1, <1>2, <1>4, <1>11
  <2>2. n \in 1..l[p].round
    BY <1>11
  <2>3. PICK j \in At(l, "advanced") : j <= p /\ l[j].round = n
    BY <1>11, <2>2 DEF RoundsInOrder
  <2>4. j \in At(L, "advanced") /\ L[j].round = n
    <3>1. j \in 1..p
      BY <1>1, <1>7, <2>3
    <3>2. QED BY <1>2, <1>4, <2>3, <3>1
  <2>5. ~(L[p].round < m.entry) /\ m.entry - 1 = n
    BY <2>1
  <2>6. ASSUME NEW i \in At(L, "advanced")
        PROVE  IF L[i].round < m.entry THEN i <= m.target ELSE m.target <= i
    <3>1. i \in 1..p /\ p \in Nat
      BY <1>1, <1>4
    <3>2. i < p => L[i].round < L[p].round
      BY <1>10, <2>1 DEF PlaysInOrder
    <3>3. QED BY <2>1, <3>1, <3>2
  <2>7. QED BY <1>10, <2>1, <2>4, <2>5, <2>6 DEF CutAfterARound, L
<1>12. CASE \E k \in At(l, "closed") :
                /\ k <= p /\ l[k].round = n
                /\ \A i \in At(l, "advanced") : i < k /\ l[i].round <= n
  <2>1. PICK k \in At(l, "closed") : /\ k <= p /\ l[k].round = n
                                     /\ \A i \in At(l, "advanced") : i < k /\ l[i].round <= n
    BY <1>12
  <2>2. k \in 1..p /\ k \in At(L, "closed") /\ L[k].round = n
    <3>1. k \in 1..p
      BY <1>1, <1>7, <2>1
    <3>2. QED BY <1>2, <1>5, <2>1, <3>1
  <2>3. \A i \in At(L, "advanced") : i < k
    BY <1>4, <2>1
  <2>4. ClosedOut(L, n)
    BY <2>2, <2>3 DEF ClosedOut
  <2>5. PICK i \in At(L, "advanced") : i < k /\ L[i].round = n
    BY <1>9, <2>2
  <2>6. m.entry - 1 = n
    OBVIOUS
  <2>7. ASSUME NEW j \in At(L, "advanced")
        PROVE  L[j].round < m.entry /\ j <= m.target
    <3>1. j \in 1..p /\ p \in Nat /\ L[j].round <= n /\ L[j].round \in Nat
      BY <1>1, <1>2, <1>4, <2>1
    <3>2. QED BY <3>1
  <2>8. QED BY <1>10, <2>4, <2>5, <2>6, <2>7 DEF CutAfterARound, L
<1>13. QED
  <2>1. \/ p \in At(l, "advanced") /\ l[p].round = n + 1
        \/ \E k \in At(l, "closed") : /\ k <= p /\ l[k].round = n
                                       /\ \A i \in At(l, "advanced") : i < k /\ l[i].round <= n
    BY CutIsBehindTheRound
  <2>2. QED BY <1>11, <1>12, <2>1

\* What is on disk after a fork.
LEMMA DeriveMakes ==
    ASSUME IInv, NEW r \in Runs, NEW a \in 1..(r - 1), NEW n \in Rounds,
           NEW s \in Seats \cup {Nobody}, Admitted(r, a, n, s),
           NEW m \in ManifestSet, NEW owner, Derive(r, a, n, s, m, owner)
    PROVE  /\ a \in Runs /\ a # r /\ n \in Nat /\ n >= 1 /\ Completed(log[a], n)
           /\ up = 0 /\ up' = 0 /\ phase' = phase /\ mind' = mind /\ joins' = joins /\ given' = given
           /\ log[r] = <<>> /\ log[a] # <<>> /\ log[a] \in Seq(LineSet)
           /\ GoodLog(a, log[a], manifest[a], first[a]) /\ GoodManifest(a, manifest[a], first[a])
           /\ Boundary(log[a], n) \in 1..Len(log[a])
           /\ log'[r] = Clone(log[a], Boundary(log[a], n))
           /\ manifest'[r].kind = m.kind /\ manifest'[r].entry = n + 1 /\ manifest'[r].seat = s
           /\ manifest'[r].target = Boundary(log[a], n)
           /\ manifest'[r].visible = m.visible /\ manifest'[r].floor = m.floor
           /\ manifest'[r].imported = m.imported /\ manifest'[r].importEnd = m.importEnd
           /\ \A q \in Runs : q # r =>
                 log'[q] = log[q] /\ manifest'[q] = manifest[q] /\ first'[q] = first[q]
<1>1. /\ a \in Runs /\ a # r /\ n \in Nat /\ n >= 1
  BY LineageAssumption DEF Runs, Rounds
<1>2. /\ up = 0 /\ log[r] = <<>> /\ log[a] # <<>> /\ Completed(log[a], n)
  BY DEF Admitted, New
<1>3. /\ log[a] \in Seq(LineSet)
      /\ log \in [Runs -> Seq(LineSet)] /\ manifest \in [Runs -> ManifestSet]
      /\ first \in [Runs -> [Seats -> Nat \X Nat]]
  BY <1>1 DEF IInv, TypeOK
<1>4. GoodLog(a, log[a], manifest[a], first[a]) /\ GoodManifest(a, manifest[a], first[a])
  BY <1>1, <1>2 DEF IInv, RunsExist
<1>5. Boundary(log[a], n) \in 1..Len(log[a])
  <2>1. log[a][1].kind = "advanced" /\ RoundsInOrder(log[a])
    BY <1>4 DEF GoodLog
  <2>2. QED BY <1>1, <1>2, <1>3, <2>1, BoundaryIsALine
<1>6. PICK rounds \in DerivedRounds :
      /\ log' = [log EXCEPT ![r] = Clone(log[a], Boundary(log[a], n))]
      /\ manifest' = [manifest EXCEPT ![r] =
                        [m EXCEPT !.seat = s, !.target = Boundary(log[a], n), !.entry = n + 1,
                                  !.rounds = rounds]]
      /\ first' = [first EXCEPT ![r] =
                     [q \in Seats |-> IF q = s THEN owner ELSE Occupant(a, q, Boundary(log[a], n))]]
      /\ UNCHANGED <<process, given, calls>>
  BY DEF Derive
<1>7. manifest'[r] = [m EXCEPT !.seat = s, !.target = Boundary(log[a], n), !.entry = n + 1,
                               !.rounds = rounds]
  BY <1>3, <1>6
<1>8. /\ manifest'[r].kind = m.kind /\ manifest'[r].entry = n + 1 /\ manifest'[r].seat = s
      /\ manifest'[r].target = Boundary(log[a], n)
      /\ manifest'[r].visible = m.visible /\ manifest'[r].floor = m.floor
      /\ manifest'[r].imported = m.imported /\ manifest'[r].importEnd = m.importEnd
  BY <1>7 DEF ManifestSet
<1>9. /\ log'[r] = Clone(log[a], Boundary(log[a], n))
      /\ \A q \in Runs : q # r =>
            log'[q] = log[q] /\ manifest'[q] = manifest[q] /\ first'[q] = first[q]
  BY <1>3, <1>6
<1>10. up' = up /\ phase' = phase /\ mind' = mind /\ joins' = joins /\ given' = given
  BY <1>6 DEF process
<1>11. QED BY <1>1, <1>2, <1>3, <1>4, <1>5, <1>8, <1>9, <1>10

LEMMA DeriveKeepsOrder ==
    ASSUME IInv, PlayInv, NEW r \in Runs, NEW a \in 1..(r - 1), NEW n \in Rounds,
           NEW s \in Seats \cup {Nobody}, Admitted(r, a, n, s),
           NEW m \in ManifestSet, NEW owner, Derive(r, a, n, s, m, owner)
    PROVE  PlayInv'
<1> DEFINE p == Boundary(log[a], n)
<1>1. /\ a \in Runs /\ n \in Nat /\ n >= 1 /\ Completed(log[a], n) /\ up' = 0
      /\ log[a] # <<>> /\ log[a] \in Seq(LineSet)
      /\ GoodLog(a, log[a], manifest[a], first[a])
      /\ log'[r] = Clone(log[a], p) /\ manifest'[r].entry = n + 1 /\ manifest'[r].target = p
      /\ \A q \in Runs : q # r => log'[q] = log[q] /\ manifest'[q] = manifest[q]
  BY DeriveMakes
<1>2. log[a][1].kind = "advanced" /\ RoundsInOrder(log[a]) /\ PlaysInOrder(log[a])
  BY <1>1 DEF GoodLog, PlayInv
<1>3. PlaysInOrder(Clone(log[a], p)) /\ CutAfterARound(Clone(log[a], p), manifest'[r])
  BY <1>1, <1>2, CloneKeepsOrder
<1>4. \A q \in Runs : log'[q] # <<>> => PlaysInOrder(log'[q]) /\ CutAfterARound(log'[q], manifest'[q])
  <2> SUFFICES ASSUME NEW q \in Runs, log'[q] # <<>>
               PROVE  PlaysInOrder(log'[q]) /\ CutAfterARound(log'[q], manifest'[q])
    OBVIOUS
  <2>1. CASE q = r
    BY <1>1, <1>3, <2>1
  <2>2. CASE q # r
    BY <1>1, <2>2 DEF PlayInv
  <2>3. QED BY <2>1, <2>2
<1>5. AtTheEndOfItsLog'
  BY <1>1 DEF AtTheEndOfItsLog
<1>6. QED BY <1>4, <1>5 DEF PlayInv

\* A run is made by one of the three flows.
LEMMA DerivesARun ==
    ASSUME IInv, NEW r \in Runs, NEW a \in 1..(r - 1), NEW n \in Rounds,
           \/ ForkAtRound(r, a, n)
           \/ \E s \in Seats : \E v \in Views : Replace(r, a, n, s, v)
           \/ \E s \in Seats : \E b \in 1..(r - 1) : \E bEnd \in Rounds : Import(r, a, b, n, bEnd, s)
    PROVE  \E s \in Seats \cup {Nobody}, m \in ManifestSet, owner \in Nat \X Nat :
              /\ Admitted(r, a, n, s) /\ Derive(r, a, n, s, m, owner)
              /\ m.kind \in {"fork", "replace", "import"}
              /\ m.kind = "replace" => m.floor <= n + 1
              /\ m.kind = "import" => m.visible = {}
              /\ m.kind = "import" =>
                    \E b \in Runs : \E bEnd \in Rounds :
                       m.imported = log[b] /\ m.importEnd = bEnd
                       /\ ("import_endings" \in Avoided =>
                             \A i \in At(log[b], "over") \cup At(log[b], "refused") :
                                 log[b][i].seat = s => log[b][i].round > bEnd)
<1>1. \A s \in Seats : s \in Seats \cup {Nobody}
  OBVIOUS
<1>2. <<r, 0>> \in Nat \X Nat /\ \A b \in 1..(r - 1) : b \in Runs
  BY LineageAssumption DEF Runs
<1>3. CASE ForkAtRound(r, a, n)
  <2> DEFINE m == [NoManifest EXCEPT !.kind = "fork"]
  <2>1. m \in ManifestSet /\ m.kind = "fork"
    BY NoManifestTyped DEF NoManifest, ManifestSet
  <2>2. Admitted(r, a, n, Nobody) /\ Derive(r, a, n, Nobody, m, <<r, 0>>)
    BY <1>3 DEF ForkAtRound
  <2>3. Nobody \in Seats \cup {Nobody} /\ m.kind \notin {"replace", "import"}
        /\ m.kind \in {"fork", "replace", "import"}
    BY <2>1
  <2> HIDE DEF m
  <2>4. QED BY <1>2, <2>1, <2>2, <2>3
<1>4. ASSUME NEW s \in Seats, NEW v \in Views, Replace(r, a, n, s, v)
      PROVE  \E m \in ManifestSet : /\ Admitted(r, a, n, s) /\ Derive(r, a, n, s, m, <<r, 0>>)
                                    /\ m.kind = "replace" /\ m.floor <= n + 1
  <2> DEFINE m == [NoManifest EXCEPT !.kind = "replace", !.visible = v.visible, !.floor = v.floor]
  <2>1. v \in [visible : SUBSET Channels, floor : 0..MaxRounds]
    BY LineageAssumption
  <2>2. v.visible \subseteq Channels /\ v.floor \in Nat
    BY <2>1, LineageAssumption
  <2>3. m \in ManifestSet /\ m.kind = "replace" /\ m.floor = v.floor
    BY <2>2, NoManifestTyped DEF NoManifest, ManifestSet
  <2>4. Admitted(r, a, n, s) /\ Derive(r, a, n, s, m, <<r, 0>>) /\ v.floor <= n + 1
    BY <1>4 DEF Replace
  <2> HIDE DEF m
  <2>5. QED BY <2>3, <2>4
<1>5. ASSUME NEW s \in Seats, NEW b \in 1..(r - 1), NEW bEnd \in Rounds, Import(r, a, b, n, bEnd, s)
      PROVE  \E m \in ManifestSet, owner \in Nat \X Nat :
                /\ Admitted(r, a, n, s) /\ Derive(r, a, n, s, m, owner)
                /\ m.kind = "import" /\ m.visible = {} /\ m.imported = log[b] /\ m.importEnd = bEnd
                /\ ("import_endings" \in Avoided =>
                      \A i \in At(log[b], "over") \cup At(log[b], "refused") :
                          log[b][i].seat = s => log[b][i].round > bEnd)
  <2> DEFINE m == [NoManifest EXCEPT !.kind = "import", !.imported = log[b], !.importEnd = bEnd]
             owner == Occupant(b, s, Cutoff(log[b], bEnd))
  <2>1. bEnd \in Nat /\ log[b] \in Seq(LineSet) /\ first[b] \in [Seats -> Nat \X Nat] /\ b \in Runs
    BY <1>2, LineageAssumption DEF Rounds, IInv, TypeOK
  <2>2. /\ m \in ManifestSet /\ m.kind = "import" /\ m.visible = {}
        /\ m.imported = log[b] /\ m.importEnd = bEnd
    BY <2>1, NoManifestTyped DEF NoManifest, ManifestSet
  <2>3. owner \in Nat \X Nat
    BY <2>1, SittingTyped DEF Occupant
  <2>4. /\ Admitted(r, a, n, s) /\ Derive(r, a, n, s, m, owner)
        /\ ("import_endings" \in Avoided =>
              \A i \in At(log[b], "over") \cup At(log[b], "refused") :
                  log[b][i].seat = s => log[b][i].round > bEnd)
    BY <1>5 DEF Import
  <2> HIDE DEF m, owner
  <2>5. QED BY <2>2, <2>3, <2>4
<1>6. CASE \E s \in Seats : \E v \in Views : Replace(r, a, n, s, v)
  <2>1. PICK s \in Seats : \E v \in Views : Replace(r, a, n, s, v)
    BY <1>6
  <2>2. PICK m \in ManifestSet : /\ Admitted(r, a, n, s) /\ Derive(r, a, n, s, m, <<r, 0>>)
                                 /\ m.kind = "replace" /\ m.floor <= n + 1
    BY <1>4, <2>1
  <2>3. m.kind # "import" /\ m.kind \in {"fork", "replace", "import"}
    BY <2>2
  <2>4. QED BY <1>1, <1>2, <2>2, <2>3
<1>7. CASE \E s \in Seats : \E b \in 1..(r - 1) : \E bEnd \in Rounds : Import(r, a, b, n, bEnd, s)
  <2>1. PICK s \in Seats, b \in 1..(r - 1), bEnd \in Rounds : Import(r, a, b, n, bEnd, s)
    BY <1>7
  <2>2. PICK m \in ManifestSet, owner \in Nat \X Nat :
                /\ Admitted(r, a, n, s) /\ Derive(r, a, n, s, m, owner)
                /\ m.kind = "import" /\ m.visible = {} /\ m.imported = log[b] /\ m.importEnd = bEnd
                /\ ("import_endings" \in Avoided =>
                      \A i \in At(log[b], "over") \cup At(log[b], "refused") :
                          log[b][i].seat = s => log[b][i].round > bEnd)
    BY <1>5, <2>1
  <2>3. m.kind \in {"fork", "replace", "import"} /\ m.kind # "replace" /\ b \in Runs
    BY <1>2, <2>2
  <2>4. QED BY <1>1, <2>2, <2>3
<1>8. QED BY <1>3, <1>6, <1>7

LEMMA OrderIsKept ==
    ASSUME IInv, PlayInv, [Next]_vars
    PROVE  PlayInv'
<1>1. ASSUME NEW r \in Runs, Start(r) \/ Launch(r) PROVE PlayInv'
  BY <1>1, StartKeepsOrder, LaunchKeepsOrder
<1>2. CASE Enter \/ Open \/ Close \/ Advance \/ End \/ \E logged \in BOOLEAN : Stop(logged)
  BY <1>2, SystemSteps, ProcessKeepsOrder
<1>3. CASE Finish
  BY <1>3, FinishStep, ProcessKeepsOrder
<1>4. ASSUME NEW sw \in Swaps, NEW n \in {round - 1, round}, Swap(sw, n) PROVE PlayInv'
  BY <1>4, SwapStep, ProcessKeepsOrder
<1>5. ASSUME NEW s \in Seats, Say(s) \/ Tell(s) \/ \E c \in Channels \cup {NoChannel} : Call(s, c)
      PROVE  PlayInv'
  BY <1>5, AgentSteps, ProcessKeepsOrder
<1>6. ASSUME NEW r \in Runs, NEW a \in 1..(r - 1), NEW n \in Rounds,
             \/ ForkAtRound(r, a, n)
             \/ \E s \in Seats : \E v \in Views : Replace(r, a, n, s, v)
             \/ \E s \in Seats : \E b \in 1..(r - 1) : \E bEnd \in Rounds : Import(r, a, b, n, bEnd, s)
      PROVE  PlayInv'
  <2>1. PICK s \in Seats \cup {Nobody}, m \in ManifestSet, owner \in Nat \X Nat :
             Admitted(r, a, n, s) /\ Derive(r, a, n, s, m, owner)
    BY <1>6, DerivesARun
  <2>2. QED BY <2>1, DeriveKeepsOrder
<1>7. CASE UNCHANGED vars
  BY <1>7 DEF vars, process, PlayInv, AtTheEndOfItsLog, Derived
<1>8. QED BY <1>1, <1>2, <1>3, <1>4, <1>5, <1>6, <1>7 DEF Next

LEMMA OrderMeansEachOnce ==
    ASSUME IInv, PlayInv
    PROVE  PlaysEachRoundOnce
<1> SUFFICES ASSUME up # 0, NEW i \in At(log[up], "advanced")
             PROVE  LET l == log[up]
                        n == l[i].round
                        before == {j \in At(l, "advanced") : j < i}
                    IN  /\ {l[j].round : j \in before} = 1..(n - 1)
                        /\ n > 1 => \E j \in At(l, "closed") :
                                       Latest(before) < j /\ j < i /\ l[j].round = n - 1
  BY DEF PlaysEachRoundOnce
<1> DEFINE l == log[up]
           n == l[i].round
           before == {j \in At(l, "advanced") : j < i}
<1>1. l \in Seq(LineSet) /\ RoundsInOrder(l) /\ PlaysInOrder(l)
  <2>1. up \in Runs /\ GoodLog(up, l, manifest[up], first[up])
    BY UpFacts
  <2>2. QED BY <2>1 DEF GoodLog, PlayInv
<1> HIDE DEF l
<1>2. /\ Len(l) \in Nat /\ i \in At(l, "advanced") /\ before \subseteq 1..Len(l)
      /\ \A j \in At(l, "advanced") : j \in 1..Len(l) /\ l[j].round \in Nat
      /\ \A j \in At(l, "closed") : j \in 1..Len(l)
  BY <1>1, InALog DEF At, LineSet, l
<1>3. \A j \in At(l, "advanced") : l[j].round >= 1
  BY <1>1 DEF RoundsInOrder
<1>4. ASSUME NEW x \in 1..(n - 1) PROVE \E j \in before : l[j].round = x
  <2>1. n \in Nat /\ x \in 1..l[i].round /\ x # n
    BY <1>2
  <2>2. PICK j \in At(l, "advanced") : j <= i /\ l[j].round = x
    BY <1>1, <1>2, <2>1 DEF RoundsInOrder
  <2>3. j # i
    BY <2>1, <2>2
  <2>4. j < i
    BY <1>2, <2>2, <2>3
  <2>5. QED BY <2>2, <2>4
<1>5. \A j \in before : l[j].round \in 1..(n - 1)
  <2> SUFFICES ASSUME NEW j \in before PROVE l[j].round \in 1..(n - 1)
    OBVIOUS
  <2>1. l[j].round < n /\ l[j].round >= 1 /\ l[j].round \in Nat /\ n \in Nat
    BY <1>1, <1>2, <1>3 DEF PlaysInOrder
  <2>2. QED BY <2>1
<1>6. {l[j].round : j \in before} = 1..(n - 1)
  BY <1>4, <1>5
<1>7. ASSUME n > 1
      PROVE  \E j \in At(l, "closed") : Latest(before) < j /\ j < i /\ l[j].round = n - 1
  <2>1. n - 1 \in 1..(n - 1) /\ n \in Nat
    BY <1>2, <1>7
  <2>2. PICK a \in before : l[a].round = n - 1
    BY <1>4, <2>1
  <2>3. l[i].round = l[a].round + 1
    BY <2>1, <2>2
  <2>4. PICK k \in At(l, "closed") : a < k /\ k < i /\ l[k].round = l[a].round
    BY <1>1, <1>2, <2>2, <2>3 DEF PlaysInOrder
  <2>5. Latest(before) \in before /\ a <= Latest(before)
    BY <1>2, <2>2, LatestIsLast
  <2>6. ~(a < Latest(before))
    <3> SUFFICES ASSUME a < Latest(before) PROVE FALSE
      OBVIOUS
    <3>1. l[a].round < l[Latest(before)].round
      BY <1>1, <2>2, <2>5 DEF PlaysInOrder
    <3>2. l[Latest(before)].round \in 1..(n - 1)
      BY <1>5, <2>5
    <3>3. QED BY <2>1, <2>2, <3>1, <3>2
  <2>7. Latest(before) = a
    BY <1>2, <2>2, <2>5, <2>6
  <2>8. QED BY <2>2, <2>4, <2>7
<1>8. QED BY <1>6, <1>7 DEF l

\* However often runs are cut, cloned and resumed, and whenever they stop, the log of a
\* run has its rounds once each, in order, and every one of them closed before the next:
\* resolve_fork_boundary cuts behind a round that is over, and apply_fork_boundary looks
\* in the log for the round to enter. Any number of runs, seats, rounds and swaps.
THEOREM RoundsArePlayedOnce == Spec => []PlaysEachRoundOnce
<1>1. Init => PlayInv
  BY DEF Init, PlayInv, AtTheEndOfItsLog
<1>2. IInv /\ PlayInv /\ [Next]_vars => IInv' /\ PlayInv'
  BY NextKeeps, OrderIsKept
<1>3. IInv /\ PlayInv => PlaysEachRoundOnce
  BY OrderMeansEachOnce
<1>4. QED BY <1>1, <1>2, <1>3, InitKeeps, PTL DEF Spec

-----------------------------------------------------------------------------
(* The end is forgotten *)

\* What does not happen where the end is forgotten.
NoLateEnds == {"late_calls", "late_stops", "import_endings"} \subseteq Avoided

\* The notices of an end are behind the last round and before the line that completes the
\* log, and what was imported was cut before them.
EndInv ==
    /\ \A r \in Runs : At(log[r], "refused") = {}
    /\ \A r \in Runs : \A i \in At(log[r], "over") :
          /\ At(log[r], "complete") # {} \/ (up = r /\ phase = "done")
          /\ \A j \in At(log[r], "advanced") \cup At(log[r], "closed") : j < i
    /\ \A r \in Runs : manifest[r].kind = "import" => \A e \in Lines(manifest[r].imported) :
          e.kind \in {"over", "refused"} /\ e.seat = manifest[r].seat => e.round > manifest[r].importEnd
    /\ EndIsForgotten

LEMMA ProcessForgets ==
    ASSUME NoLateEnds, IInv, PlayInv, EndInv, up # 0, ProcessStep
    PROVE  EndInv'
<1> DEFINE l == log[up]
           L == log'[up]
<1>1. up \in Runs /\ l \in Seq(LineSet) /\ l # <<>>
  BY UpFacts DEF GoodLog
<1>2. /\ Extends(l, L) /\ \A r \in Runs : r # up => log'[r] = log[r]
      /\ manifest' = manifest /\ up' \in {up, 0} /\ NewLines = (Len(l) + 1)..Len(L)
  BY DEF ProcessStep, NewLines
<1>3. At(l, "complete") = {}
  BY DEF PlayInv, AtTheEndOfItsLog
<1>4. "late_calls" \in Avoided /\ "late_stops" \in Avoided
  BY DEF NoLateEnds
<1>5. \A i \in (Len(l) + 1)..Len(L) :
          /\ L[i].kind \in {"advanced", "closed"} => phase # "done"
          /\ L[i].kind = "over" => phase = "done"
          /\ L[i].kind # "refused"
  <2>1. \A i \in NewLines :
          /\ L[i].kind = "advanced" => phase \in {"entering", "closed"}
          /\ L[i].kind = "closed" => phase = "playing"
          /\ L[i].kind \in {"over", "refused"} => phase = "done"
          /\ L[i].kind = "refused" => "late_calls" \notin Avoided
    BY DEF ProcessStep
  <2>2. QED BY <1>2, <1>4, <2>1
<1>6. /\ up' # 0 => /\ phase = "done" => phase' = "done"
                    /\ \A s \in Seats : mind'[s] \subseteq mind[s] \cup Lines(L)
      /\ up' = 0 /\ phase = "done" => \E i \in (Len(l) + 1)..Len(L) : L[i].kind = "complete"
  BY <1>2, <1>4 DEF ProcessStep
<1>7. /\ At(l, "refused") = {}
      /\ \A i \in At(l, "over") :
            phase = "done" /\ \A j \in At(l, "advanced") \cup At(l, "closed") : j < i
  BY <1>1, <1>3 DEF EndInv
<1>8. \A r \in Runs : r # up => \A i \in At(log[r], "over") :
          At(log[r], "complete") # {} /\ \A j \in At(log[r], "advanced") \cup At(log[r], "closed") : j < i
  BY DEF EndInv
<1> HIDE DEF l, L
<1>9. /\ Len(l) \in Nat /\ Len(L) \in Nat /\ Len(l) <= Len(L)
      /\ \A kind \in Kinds : \A i \in At(L, kind) :
            /\ \/ i \in At(l, kind) /\ L[i] = l[i] /\ i <= Len(l)
               \/ i \in (Len(l) + 1)..Len(L)
            /\ L[i].kind = kind /\ i \in 1..Len(L)
      /\ \A i \in 1..Len(L) : L[i].kind = "complete" => i \in At(L, "complete")
  <2>1. \A kind \in Kinds : \A i \in At(L, kind) :
            \/ i \in At(l, kind) /\ L[i] = l[i] /\ i <= Len(l)
            \/ i \in (Len(l) + 1)..Len(L)
    BY <1>1, <1>2, AtLater
  <2>2. \A kind \in Kinds : \A i \in At(L, kind) : L[i].kind = kind /\ i \in 1..Len(L)
    BY <1>1, <1>2, AtLater DEF At
  <2>3. QED BY <1>1, <1>2, <2>1, <2>2, AtLater
<1>10. {"over", "refused", "advanced", "closed"} \subseteq Kinds
  BY DEF Kinds
<1>11. At(L, "refused") = {}
  BY <1>5, <1>7, <1>9, <1>10
<1>12. \A i \in At(L, "over") : phase = "done"
  BY <1>5, <1>7, <1>9, <1>10
<1>13. ASSUME NEW i \in At(L, "over"), NEW j \in At(L, "advanced") \cup At(L, "closed")
       PROVE  j < i
  <2>1. phase = "done"
    BY <1>12
  <2>2. j \in At(l, "advanced") \cup At(l, "closed") /\ j <= Len(l) /\ j \in Nat
    <3>1. L[j].kind \in {"advanced", "closed"} /\ j \in Nat
      BY <1>9, <1>10
    <3>2. j \notin (Len(l) + 1)..Len(L)
      BY <1>5, <2>1, <3>1
    <3>3. QED BY <1>9, <1>10, <3>1, <3>2
  <2>3. CASE i \in At(l, "over")
    BY <1>7, <2>2, <2>3
  <2>4. CASE i \notin At(l, "over")
    <3>1. i \in (Len(l) + 1)..Len(L)
      BY <1>9, <1>10, <2>4
    <3>2. QED BY <1>9, <2>2, <3>1
  <2>5. QED BY <2>3, <2>4
<1>14. ASSUME NEW i \in At(L, "over")
       PROVE  At(L, "complete") # {} \/ (up' = up /\ phase' = "done")
  <2>1. phase = "done"
    BY <1>12
  <2>2. CASE up' = 0
    <3>1. PICK k \in (Len(l) + 1)..Len(L) : L[k].kind = "complete"
      BY <1>6, <2>1, <2>2
    <3>2. k \in 1..Len(L)
      BY <1>9, <3>1
    <3>3. QED BY <1>9, <3>1, <3>2
  <2>3. CASE up' # 0
    BY <1>2, <1>6, <2>1, <2>3
  <2>4. QED BY <2>2, <2>3
<1>15. \A r \in Runs : At(log'[r], "refused") = {}
  BY <1>2, <1>11 DEF EndInv, L
<1>16. \A r \in Runs : \A i \in At(log'[r], "over") :
          /\ At(log'[r], "complete") # {} \/ (up' = r /\ phase' = "done")
          /\ \A j \in At(log'[r], "advanced") \cup At(log'[r], "closed") : j < i
  <2> SUFFICES ASSUME NEW r \in Runs, NEW i \in At(log'[r], "over")
               PROVE  /\ At(log'[r], "complete") # {} \/ (up' = r /\ phase' = "done")
                      /\ \A j \in At(log'[r], "advanced") \cup At(log'[r], "closed") : j < i
    OBVIOUS
  <2>1. CASE r = up
    BY <1>13, <1>14, <2>1 DEF L
  <2>2. CASE r # up
    BY <1>2, <1>8, <2>2
  <2>3. QED BY <2>1, <2>2
<1>17. EndIsForgotten'
  <2> SUFFICES ASSUME up' # 0, phase' # "done", NEW s \in Seats, NEW e \in mind'[s]
               PROVE  e.kind \notin {"over", "refused"}
    BY DEF EndIsForgotten
  <2>1. phase # "done" /\ (e \in mind[s] \/ e \in Lines(L))
    BY <1>6
  <2>2. CASE e \in mind[s]
    BY <2>1, <2>2 DEF EndInv, EndIsForgotten
  <2>3. CASE e \in Lines(L)
    <3>1. PICK i \in DOMAIN L : e = L[i]
      BY <2>3 DEF Lines
    <3>2. i \notin At(L, "over") /\ i \notin At(L, "refused")
      BY <1>11, <1>12, <2>1
    <3>3. QED BY <3>1, <3>2 DEF At
  <2>4. QED BY <2>1, <2>2, <2>3
<1>18. QED BY <1>2, <1>15, <1>16, <1>17 DEF EndInv

\* A fork is cut before the notices of the end of its source.
LEMMA CutIsBeforeTheEnd ==
    ASSUME NEW l \in Seq(LineSet), PlaysInOrder(l), NEW n \in Nat, Completed(l, n),
           NEW i \in At(l, "over"), \A j \in At(l, "advanced") \cup At(l, "closed") : j < i,
           Boundary(l, n) \in 1..Len(l)
    PROVE  Boundary(l, n) < i
<1> DEFINE next == AdvancedTo(l, n + 1)
           p == Boundary(l, n)
           last == Latest(Ends(l))
<1>1. /\ Len(l) \in Nat /\ DOMAIN l = 1..Len(l) /\ Ends(l) \subseteq 1..Len(l) /\ next \subseteq 1..Len(l)
      /\ i \in 1..Len(l) /\ l[i].kind = "over"
  BY InALog DEF At, Ends, AdvancedTo
<1>2. CASE next # {}
  <2>1. p \in next
    BY <1>1, <1>2, EarliestIsFirst DEF Boundary
  <2>2. QED BY <2>1 DEF AdvancedTo
<1>3. CASE next = {}
  <2>1. /\ Ends(l) # {} /\ l[last].kind = "complete" /\ p = GameOver(l)
        /\ \E k \in At(l, "closed") : l[k].round = n
    BY <1>3 DEF Completed, Boundary
  <2>2. last \in Ends(l) /\ last \in 1..Len(l)
    BY <1>1, <2>1, LatestIsLast
  <2>3. last = Len(l)
    <3>1. last \in At(l, "complete")
      BY <1>1, <2>1, <2>2 DEF At
    <3>2. QED BY <3>1 DEF PlaysInOrder
  <2>4. i < last
    <3>1. i # last
      BY <1>1, <2>1
    <3>2. QED BY <1>1, <2>3, <3>1
  <2> HIDE DEF last
  <2> DEFINE before == {k \in DOMAIN l : k < last}
             closed == At(l, "closed") \cap before
  <2>5. closed # {} /\ closed \subseteq 1..Len(l)
    <3>1. PICK k \in At(l, "closed") : l[k].round = n
      BY <2>1
    <3>2. k < i /\ k \in DOMAIN l
      BY <3>1 DEF At
    <3>3. k < last
      BY <1>1, <2>2, <2>4, <3>2
    <3>4. QED BY <1>1, <3>1, <3>2, <3>3
  <2>6. Closing(l) \in closed
    <3>1. Closing(l) = Latest(closed)
      BY <2>5 DEF Closing, last
    <3>2. QED BY <1>1, <2>5, <3>1, LatestIsLast
  <2>7. Closing(l) <= i
    <3>1. Closing(l) < i /\ Closing(l) \in 1..Len(l)
      BY <2>5, <2>6
    <3>2. QED BY <1>1, <3>1
  <2> DEFINE wakes == {k \in At(l, "over") \cup At(l, "relieved") : Closing(l) <= k /\ k < last}
  <2>8. i \in wakes
    BY <2>4, <2>7
  <2>9. p = Earliest(wakes) - 1
    BY <2>1, <2>8 DEF GameOver, last
  <2>10. wakes \subseteq 1..Len(l)
    BY <1>1 DEF At
  <2> HIDE DEF wakes
  <2>11. Earliest(wakes) \in 1..Len(l) /\ Earliest(wakes) <= i
    BY <1>1, <2>8, <2>10, EarliestIsFirst
  <2> HIDE DEF p
  <2>12. p < i
    BY <1>1, <2>9, <2>11
  <2>13. QED BY <2>12 DEF p
<1>4. QED BY <1>2, <1>3

LEMMA StartForgets ==
    ASSUME IInv, EndInv, NEW r \in Runs, Start(r)
    PROVE  EndInv'
<1> DEFINE e == Sys(r, "advanced", 1)
<1>1. e \in LineSet /\ e.kind = "advanced"
  BY SysTyped DEF IInv, Kinds
<1>2. /\ up = 0 /\ log' = [log EXCEPT ![r] = <<e>>] /\ up' = r /\ phase' = "boundary"
      /\ manifest' = manifest /\ mind' = mind /\ log \in [Runs -> Seq(LineSet)]
  BY DEF Start, IInv, TypeOK
<1> HIDE DEF e
<1>3. log'[r] = <<e>> /\ \A q \in Runs : q # r => log'[q] = log[q]
  BY <1>2
<1>4. At(<<e>>, "over") = {} /\ At(<<e>>, "refused") = {}
  BY <1>1 DEF At
<1>5. \A q \in Runs : q # 0
  BY LineageAssumption DEF Runs
<1>6. \A q \in Runs : At(log'[q], "refused") = {}
  BY <1>3, <1>4 DEF EndInv
<1>7. \A q \in Runs : \A i \in At(log'[q], "over") :
          /\ At(log'[q], "complete") # {}
          /\ \A j \in At(log'[q], "advanced") \cup At(log'[q], "closed") : j < i
  BY <1>2, <1>3, <1>4, <1>5 DEF EndInv
<1>8. \A s \in Seats : mind'[s] = {}
  BY <1>2 DEF IInv, InTheRound
<1>9. QED BY <1>2, <1>6, <1>7, <1>8 DEF EndInv, EndIsForgotten

LEMMA LaunchForgets ==
    ASSUME IInv, EndInv, NEW r \in Runs, Launch(r)
    PROVE  EndInv'
<1>1. /\ up = 0 /\ At(log[r], "complete") = {} /\ up' = r /\ phase' # "done"
      /\ log' = log /\ manifest' = manifest /\ mind' = [s \in Seats |-> History(r, s)]
      /\ log[r] # <<>>
  BY DEF Launch
<1>2. \A q \in Runs : q # 0
  BY LineageAssumption DEF Runs
<1>3. At(log[r], "over") = {} /\ At(log[r], "refused") = {}
  BY <1>1, <1>2 DEF EndInv
<1>4. \A q \in Runs : \A i \in At(log[q], "over") :
          /\ At(log[q], "complete") # {}
          /\ \A j \in At(log[q], "advanced") \cup At(log[q], "closed") : j < i
  BY <1>1, <1>2 DEF EndInv
<1>5. Walked(r) = log[r] /\ manifest[r].importEnd \in Nat /\ manifest[r].imported \in Seq(LineSet)
  <2>1. TypeOK /\ manifest[r].target \in 0..Len(log[r])
    BY <1>1 DEF IInv, RunsExist, GoodLog
  <2>2. QED BY <2>1, WalkedIsAll DEF TypeOK, ManifestSet
<1>6. \A s \in Seats : \A e \in Rebuilt(log[r], s) : e.kind \notin {"over", "refused"}
  BY <1>3 DEF Rebuilt, Lines, At
<1>7. ASSUME NEW s \in Seats, NEW e \in History(r, s) PROVE e.kind \notin {"over", "refused"}
  <2>1. CASE manifest[r].kind = "import" /\ manifest[r].seat = s
    <3>1. /\ e \in Lines(manifest[r].imported) /\ e.seat = manifest[r].seat
          /\ e.round < manifest[r].importEnd + 1
      BY <1>7, <2>1 DEF History, Rebuilt
    <3>2. e.round \in Nat
      BY <1>5, <3>1, InALog DEF Lines, LineSet
    <3>3. ~(e.round > manifest[r].importEnd)
      BY <1>5, <3>1, <3>2
    <3>4. QED BY <2>1, <3>1, <3>3 DEF EndInv
  <2>2. CASE ~(manifest[r].kind = "import" /\ manifest[r].seat = s)
    <3>1. e \in Rebuilt(log[r], s)
      BY <1>5, <1>7, <2>2 DEF History
    <3>2. QED BY <1>6, <3>1
  <2>3. QED BY <2>1, <2>2
<1>8. EndIsForgotten'
  BY <1>1, <1>7 DEF EndIsForgotten
<1>9. QED BY <1>1, <1>4, <1>8 DEF EndInv

LEMMA DeriveForgets ==
    ASSUME NoLateEnds, IInv, PlayInv, EndInv, NEW r \in Runs, NEW a \in 1..(r - 1), NEW n \in Rounds,
           NEW s \in Seats \cup {Nobody}, Admitted(r, a, n, s),
           NEW m \in ManifestSet, NEW owner, Derive(r, a, n, s, m, owner),
           m.kind = "import" =>
               \E b \in Runs : \E bEnd \in Rounds :
                  m.imported = log[b] /\ m.importEnd = bEnd
                  /\ ("import_endings" \in Avoided =>
                        \A i \in At(log[b], "over") \cup At(log[b], "refused") :
                            log[b][i].seat = s => log[b][i].round > bEnd)
    PROVE  EndInv'
<1> DEFINE l == log[a]
           p == Boundary(l, n)
           L == Clone(l, p)
<1>1. /\ a \in Runs /\ n \in Nat /\ Completed(l, n) /\ up = 0 /\ up' = 0 /\ p \in 1..Len(l)
      /\ l # <<>> /\ l \in Seq(LineSet) /\ log'[r] = L
      /\ manifest'[r].kind = m.kind /\ manifest'[r].seat = s
      /\ manifest'[r].imported = m.imported /\ manifest'[r].importEnd = m.importEnd
      /\ \A q \in Runs : q # r => log'[q] = log[q] /\ manifest'[q] = manifest[q]
  BY DeriveMakes
<1>2. \A q \in Runs : q # 0
  BY LineageAssumption DEF Runs
<1>3. /\ DOMAIN L = 1..p /\ DOMAIN l = 1..Len(l) /\ Len(l) \in Nat
      /\ \A i \in 1..p : /\ L[i].kind = "over" <=> l[i].kind = "over"
                         /\ L[i].kind = "refused" <=> l[i].kind = "refused"
  BY <1>1, CloneLines, InALog DEF Kinds
<1>4. At(l, "refused") = {} /\ PlaysInOrder(l)
      /\ \A i \in At(l, "over") : \A j \in At(l, "advanced") \cup At(l, "closed") : j < i
  BY <1>1 DEF EndInv, PlayInv
<1> HIDE DEF l, L
<1>5. \A i \in At(l, "over") : p < i
  BY <1>1, <1>4, CutIsBeforeTheEnd
<1> HIDE DEF p
<1>6. At(L, "over") = {} /\ At(L, "refused") = {}
  <2>1. \A i \in 1..p : i \in DOMAIN l /\ i <= p /\ i \in Nat /\ p \in Nat
    BY <1>1, <1>3
  <2>2. \A i \in 1..p : i \notin At(l, "over") /\ i \notin At(l, "refused")
    BY <1>4, <1>5, <2>1
  <2>3. \A i \in 1..p : L[i].kind # "over" /\ L[i].kind # "refused"
    BY <1>3, <2>1, <2>2 DEF At
  <2>4. QED BY <1>3, <2>3 DEF At
<1>7. \A q \in Runs : At(log'[q], "refused") = {}
  BY <1>1, <1>6 DEF EndInv
<1>8. \A q \in Runs : \A i \in At(log'[q], "over") :
          /\ At(log'[q], "complete") # {}
          /\ \A j \in At(log'[q], "advanced") \cup At(log'[q], "closed") : j < i
  BY <1>1, <1>2, <1>6 DEF EndInv
<1>9. ASSUME m.kind = "import", NEW e \in Lines(m.imported), e.kind \in {"over", "refused"}, e.seat = s
      PROVE  e.round > m.importEnd
  <2>1. PICK b \in Runs, bEnd \in Rounds :
             /\ m.imported = log[b] /\ m.importEnd = bEnd
             /\ \A i \in At(log[b], "over") \cup At(log[b], "refused") :
                   log[b][i].seat = s => log[b][i].round > bEnd
    BY <1>9 DEF NoLateEnds
  <2>2. PICK i \in DOMAIN log[b] : e = log[b][i]
    BY <1>9, <2>1 DEF Lines
  <2>3. i \in At(log[b], "over") \cup At(log[b], "refused")
    BY <1>9, <2>2 DEF At
  <2>4. QED BY <1>9, <2>1, <2>2, <2>3
<1>10. \A q \in Runs : manifest'[q].kind = "import" => \A e \in Lines(manifest'[q].imported) :
          e.kind \in {"over", "refused"} /\ e.seat = manifest'[q].seat => e.round > manifest'[q].importEnd
  <2> SUFFICES ASSUME NEW q \in Runs, manifest'[q].kind = "import", NEW e \in Lines(manifest'[q].imported),
                      e.kind \in {"over", "refused"}, e.seat = manifest'[q].seat
               PROVE  e.round > manifest'[q].importEnd
    OBVIOUS
  <2>1. CASE q = r
    BY <1>1, <1>9, <2>1
  <2>2. CASE q # r
    BY <1>1, <2>2 DEF EndInv
  <2>3. QED BY <2>1, <2>2
<1>11. QED BY <1>1, <1>7, <1>8, <1>10 DEF EndInv, EndIsForgotten

LEMMA EndIsKept ==
    ASSUME NoLateEnds, IInv, PlayInv, EndInv, [Next]_vars
    PROVE  EndInv'
<1>1. ASSUME NEW r \in Runs, Start(r) \/ Launch(r) PROVE EndInv'
  BY <1>1, StartForgets, LaunchForgets
<1>2. CASE Enter \/ Open \/ Close \/ Advance \/ End \/ \E logged \in BOOLEAN : Stop(logged)
  BY <1>2, SystemSteps, ProcessForgets
<1>3. CASE Finish
  BY <1>3, FinishStep, ProcessForgets
<1>4. ASSUME NEW sw \in Swaps, NEW n \in {round - 1, round}, Swap(sw, n) PROVE EndInv'
  BY <1>4, SwapStep, ProcessForgets
<1>5. ASSUME NEW s \in Seats, Say(s) \/ Tell(s) \/ \E c \in Channels \cup {NoChannel} : Call(s, c)
      PROVE  EndInv'
  BY <1>5, AgentSteps, ProcessForgets
<1>6. ASSUME NEW r \in Runs, NEW a \in 1..(r - 1), NEW n \in Rounds,
             \/ ForkAtRound(r, a, n)
             \/ \E s \in Seats : \E v \in Views : Replace(r, a, n, s, v)
             \/ \E s \in Seats : \E b \in 1..(r - 1) : \E bEnd \in Rounds : Import(r, a, b, n, bEnd, s)
      PROVE  EndInv'
  BY <1>6, DerivesARun, DeriveForgets
<1>7. CASE UNCHANGED vars
  BY <1>7 DEF vars, process, EndInv, EndIsForgotten
<1>8. QED BY <1>1, <1>2, <1>3, <1>4, <1>5, <1>6, <1>7 DEF Next

\* No agent that still plays remembers the end of its game: the cut is before the first
\* notice of the end (_last_event_before_game_over), a run that is over is not resumed, and
\* nobody is imported from behind an end. This holds as long as no agent calls a tool and no
\* process stops between the end of a run and its last line, and no import reaches past an
\* end; runs may be resumed after swaps.
THEOREM EndsAreForgotten ==
    ASSUME {"late_calls", "late_stops", "import_endings"} \subseteq Avoided
    PROVE  Spec => []EndIsForgotten
<1>1. Init => PlayInv /\ EndInv
  <2>1. Init => PlayInv
    BY DEF Init, PlayInv, AtTheEndOfItsLog
  <2>2. Init => EndInv
    BY DEF Init, EndInv, EndIsForgotten, At, NoManifest
  <2>3. QED BY <2>1, <2>2
<1>2. IInv /\ PlayInv /\ EndInv /\ [Next]_vars => IInv' /\ PlayInv' /\ EndInv'
  BY NextKeeps, OrderIsKept, EndIsKept DEF NoLateEnds
<1>3. EndInv => EndIsForgotten
  BY DEF EndInv
<1>4. QED BY <1>1, <1>2, <1>3, InitKeeps, PTL DEF Spec

-----------------------------------------------------------------------------
(* What was given comes from the cut *)

\* The agent that has a seat wrote what was remembered there since the run was made.
MemoryIsTheSitters(l, m, f) ==
    \A i \in DOMAIN l : i > m.target /\ Memory(l[i]) => l[i].by = Sitting(l, m, f, l[i].seat, i)

CallsHaveSeats(l) == \A i \in At(l, "call") : l[i].seat \in Seats

\* A replacement's window begins by the round it enters, and an import has none.
GoodWindow(m) ==
    /\ m.kind = "replace" => m.floor <= m.entry
    /\ m.kind = "import" => m.visible = {}

\* What the agents of run r were given, told from the lines up to its cut alone.
Cut(r) == SubSeq(log[r], 1, manifest[r].target)

CutJoin(r, s, c) ==
    LET m == manifest[r] IN
    IF m.seat # s THEN 0
    ELSE IF c \in Blocked THEN Count(Cut(r), c)
    ELSE IF c \in m.visible /\ m.floor > 0
         THEN IF m.floor = m.entry THEN Count(Cut(r), c) ELSE Snapshot(Cut(r), m.floor, c)
    ELSE 0

CutCalls(r, s) ==
    LET m == manifest[r]
        others == {e \in Rebuilt(Cut(r), s) : e.by # first[r][s]}
    IN  CASE m.kind = "replace" /\ m.seat = s ->
               {e \in others : e.round < m.entry => IsCall(e) /\ ~Withheld(e, m)}
          [] m.kind = "import" /\ m.seat = s ->
               {e \in Rebuilt(m.imported, s) : /\ e.round < m.importEnd + 1
                                               /\ IsCall(e) => e.chan \notin Blocked
                                               /\ e.by # first[r][s]}
          [] OTHER -> others

CutGift(r) == [s \in Seats |-> [calls |-> CutCalls(r, s),
                                joins |-> [c \in Channels |-> CutJoin(r, s, c)]]]

NoGift == [s \in Seats |-> [calls |-> {}, joins |-> [c \in Channels |-> 0]]]

NoJoins == [s \in Seats |-> [c \in Channels |-> 0]]

\* A run that was played has of its cut what it was given at its first launch.
ViewInv ==
    /\ \A r \in Runs : MemoryIsTheSitters(log[r], manifest[r], first[r]) /\ CallsHaveSeats(log[r])
    /\ \A r \in Runs : GoodWindow(manifest[r])
    /\ \A r \in Runs : IF log[r] = <<>> THEN given[r] = NoGift
                       ELSE ~SwappedHere(r) /\ (~Fresh(r) \/ up = r) => given[r] = CutGift(r)
    /\ up = 0 => joins = NoJoins
    /\ KeepsItsView

LEMMA CountOfPrefix ==
    ASSUME NEW l \in Seq(LineSet), NEW p \in 0..Len(l), NEW c
    PROVE  Count(SubSeq(l, 1, p), c) = Cardinality({i \in At(l, "call") : i <= p /\ l[i].chan = c})
<1>1. /\ DOMAIN SubSeq(l, 1, p) = 1..p /\ \A i \in 1..p : SubSeq(l, 1, p)[i] = l[i]
      /\ Len(l) \in Nat /\ DOMAIN l = 1..Len(l) /\ p \in Nat
  BY PrefixTyped, InALog
<1>2. {i \in At(SubSeq(l, 1, p), "call") : SubSeq(l, 1, p)[i].chan = c}
        = {i \in At(l, "call") : i <= p /\ l[i].chan = c}
  <2> DEFINE P == SubSeq(l, 1, p)
  <2> HIDE DEF P
  <2>1. DOMAIN P = 1..p /\ \A i \in 1..p : P[i] = l[i]
    BY <1>1 DEF P
  <2>2. \A i : i \in At(P, "call") <=> i \in At(l, "call") /\ i <= p
    BY <1>1, <2>1 DEF At
  <2>3. \A i \in At(P, "call") : P[i] = l[i]
    BY <2>1 DEF At
  <2>4. {i \in At(P, "call") : P[i].chan = c} = {i \in At(l, "call") : i <= p /\ l[i].chan = c}
    BY <2>2, <2>3
  <2>5. QED BY <2>4 DEF P
<1>3. QED BY <1>2 DEF Count

\* In a good log that is derived, the calls before the entry round are those of the cut.
LEMMA CallsBeforeTheEntry ==
    ASSUME NEW l \in Seq(LineSet), NEW m \in ManifestSet, m.kind # "none", m.entry >= 2,
           m.target \in 0..Len(l), RoundsInOrder(l), CutAtTheRound(l, m), PlaysInOrder(l),
           CutAfterARound(l, m), CallsHaveSeats(l), NEW c
    PROVE  Snapshot(l, m.entry, c) = Count(SubSeq(l, 1, m.target), c)
<1> DEFINE t == m.target
           next == AdvancedTo(l, m.entry)
<1>1. /\ Len(l) \in Nat /\ DOMAIN l = 1..Len(l) /\ t \in 0..Len(l) /\ t \in Nat /\ m.entry \in Nat
      /\ \A i \in 1..Len(l) : l[i].round \in Nat
  BY InALog DEF ManifestSet, LineSet
<1>2. next \subseteq 1..Len(l) /\ \A i \in next : i \in At(l, "advanced") /\ l[i].round = m.entry
  BY <1>1 DEF AdvancedTo, At
<1> HIDE DEF t
<1>3. ASSUME NEW i \in At(l, "call"), i > t PROVE \E j \in next : j < i
  <2>1. i \in DOMAIN l /\ Memory(l[i]) /\ l[i].kind # "relieved" /\ i \in 1..Len(l)
    BY <1>1 DEF CallsHaveSeats, At, Memory, IsCall
  <2>2. l[i].round >= m.entry
    BY <1>3, <2>1 DEF CutAtTheRound, t
  <2>3. PICK a \in At(l, "advanced") : a < i /\ l[a].round = l[i].round
    BY <2>1 DEF RoundsInOrder
  <2>4. a \in 1..Len(l) /\ m.entry \in 1..l[a].round
    BY <1>1, <2>1, <2>2, <2>3 DEF At
  <2>5. PICK j \in At(l, "advanced") : j <= a /\ l[j].round = m.entry
    BY <2>3, <2>4 DEF RoundsInOrder
  <2>6. j \in next
    BY <2>5 DEF AdvancedTo
  <2>7. j \in 1..Len(l) /\ j < i
    BY <1>1, <1>2, <2>1, <2>3, <2>4, <2>5, <2>6
  <2>8. QED BY <2>6, <2>7
<1>4. \A i \in At(l, "call") : i \in 1..Len(l)
  BY <1>1 DEF At
<1>5. Count(SubSeq(l, 1, t), c) = Cardinality({i \in At(l, "call") : i <= t /\ l[i].chan = c})
  BY <1>1, CountOfPrefix
<1>6. CASE next = {}
  <2>1. Snapshot(l, m.entry, c) = Count(l, c)
    BY <1>6 DEF Snapshot
  <2>2. \A i \in At(l, "call") : i <= t
    BY <1>1, <1>3, <1>4, <1>6
  <2>3. {i \in At(l, "call") : l[i].chan = c} = {i \in At(l, "call") : i <= t /\ l[i].chan = c}
    BY <2>2
  <2>4. QED BY <1>5, <2>1, <2>3 DEF Count, t
<1>7. CASE next # {}
  <2> DEFINE A == Latest(next)
  <2>1. A \in next
    BY <1>1, <1>2, <1>7, LatestIsLast
  <2>2. Snapshot(l, m.entry, c) = Count(SubSeq(l, 1, A), c)
    BY <1>7 DEF Snapshot
  <2> HIDE DEF A, next
  <2>3. A \in 1..Len(l) /\ A \in 0..Len(l) /\ A \in At(l, "advanced") /\ l[A].round = m.entry
    BY <1>1, <1>2, <2>1
  <2>4. t <= A
    BY <1>1, <2>3 DEF CutAfterARound, t
  <2>5. \A j \in next : j = A
    <3> SUFFICES ASSUME NEW j \in next, j # A PROVE FALSE
      OBVIOUS
    <3>1. j \in 1..Len(l) /\ j \in At(l, "advanced") /\ l[j].round = m.entry
      BY <1>2
    <3>2. j < A \/ A < j
      BY <1>1, <2>3, <3>1
    <3>3. m.entry < m.entry
      BY <2>3, <3>1, <3>2 DEF PlaysInOrder
    <3>4. QED BY <1>1, <3>3
  <2>6. \A i \in At(l, "call") : i <= A <=> i <= t
    <3> SUFFICES ASSUME NEW i \in At(l, "call") PROVE i <= A <=> i <= t
      OBVIOUS
    <3>1. i \in 1..Len(l)
      BY <1>4
    <3>2. i > t => A < i
      BY <1>3, <2>5
    <3>3. QED BY <1>1, <2>3, <2>4, <3>1, <3>2
  <2>7. Count(SubSeq(l, 1, A), c) = Cardinality({i \in At(l, "call") : i <= A /\ l[i].chan = c})
    BY <2>3, CountOfPrefix
  <2>8. {i \in At(l, "call") : i <= A /\ l[i].chan = c} = {i \in At(l, "call") : i <= t /\ l[i].chan = c}
    BY <2>6
  <2>9. QED BY <1>5, <2>2, <2>7, <2>8 DEF t
<1>8. QED BY <1>6, <1>7

LEMMA CallsBeforeTheWindow ==
    ASSUME NEW l \in Seq(LineSet), NEW m \in ManifestSet, m.kind # "none", m.entry >= 2,
           m.target \in 0..Len(l), RoundsInOrder(l), CutAfterARound(l, m),
           NEW n \in Nat, n >= 1, n < m.entry, NEW c
    PROVE  Snapshot(l, n, c) = Snapshot(SubSeq(l, 1, m.target), n, c)
<1> DEFINE t == m.target
           P == SubSeq(l, 1, t)
<1>1. /\ Len(l) \in Nat /\ DOMAIN l = 1..Len(l) /\ t \in 0..Len(l) /\ t \in Nat /\ m.entry \in Nat
      /\ \A i \in 1..Len(l) : l[i].round \in Nat
  BY InALog DEF ManifestSet, LineSet
<1>2. P \in Seq(LineSet) /\ Len(P) = t /\ DOMAIN P = 1..t /\ \A i \in 1..t : P[i] = l[i]
  BY <1>1, PrefixTyped
<1> HIDE DEF P, t
<1>3. \A i \in AdvancedTo(l, n) : i \in 1..t
  <2> SUFFICES ASSUME NEW i \in AdvancedTo(l, n) PROVE i \in 1..t
    OBVIOUS
  <2>1. i \in At(l, "advanced") /\ l[i].round = n /\ i \in 1..Len(l)
    BY <1>1 DEF AdvancedTo, At
  <2>2. i <= t
    BY <2>1 DEF CutAfterARound, t
  <2>3. QED BY <1>1, <2>1, <2>2
<1>4. AdvancedTo(P, n) = AdvancedTo(l, n)
  <2>1. \A i \in 1..t : i \in DOMAIN l
    BY <1>1
  <2>2. \A i : i \in AdvancedTo(P, n) <=> i \in AdvancedTo(l, n)
    BY <1>2, <1>3, <2>1 DEF AdvancedTo, At
  <2>3. QED BY <2>2
<1>5. AdvancedTo(l, n) # {}
  <2>1. PICK a \in At(l, "advanced") : l[a].round = m.entry - 1
    BY DEF CutAfterARound
  <2>2. n \in 1..l[a].round
    BY <1>1, <2>1
  <2>3. PICK j \in At(l, "advanced") : l[j].round = n
    BY <2>2 DEF RoundsInOrder
  <2>4. QED BY <2>3 DEF AdvancedTo
<1> DEFINE A == Latest(AdvancedTo(l, n))
<1>6. A \in 1..t
  <2>1. AdvancedTo(l, n) \subseteq 1..t
    BY <1>3
  <2>2. A \in AdvancedTo(l, n)
    BY <1>1, <1>5, <2>1, LatestIsLast
  <2>3. QED BY <2>1, <2>2
<1>7. Snapshot(l, n, c) = Count(SubSeq(l, 1, A), c) /\ Snapshot(P, n, c) = Count(SubSeq(P, 1, A), c)
  BY <1>4, <1>5 DEF Snapshot
<1> HIDE DEF A
<1>8. A \in 0..Len(l) /\ A \in 0..Len(P)
  BY <1>1, <1>2, <1>6
<1>9. SubSeq(l, 1, A) = SubSeq(P, 1, A)
  <2>1. /\ SubSeq(l, 1, A) \in Seq(LineSet) /\ Len(SubSeq(l, 1, A)) = A
        /\ \A i \in 1..A : SubSeq(l, 1, A)[i] = l[i]
    BY <1>8, PrefixTyped
  <2>2. /\ SubSeq(P, 1, A) \in Seq(LineSet) /\ Len(SubSeq(P, 1, A)) = A
        /\ \A i \in 1..A : SubSeq(P, 1, A)[i] = P[i]
    BY <1>2, <1>8, PrefixTyped
  <2>3. \A i \in 1..A : P[i] = l[i]
    BY <1>1, <1>2, <1>6
  <2>4. QED BY <2>1, <2>2, <2>3, SeqEqual
<1>10. QED BY <1>7, <1>9 DEF P, t

\* What is true of a run and its log.
GoodRun(r) ==
    /\ log[r] # <<>> /\ TypeOK
    /\ GoodLog(r, log[r], manifest[r], first[r]) /\ GoodManifest(r, manifest[r], first[r])
    /\ PlaysInOrder(log[r]) /\ CutAfterARound(log[r], manifest[r])
    /\ MemoryIsTheSitters(log[r], manifest[r], first[r]) /\ CallsHaveSeats(log[r])
    /\ GoodWindow(manifest[r])

\* What a launch hides is told from the cut.
LEMMA JoinsOfTheCut ==
    ASSUME NEW r \in Runs, GoodRun(r), manifest[r].kind = "import" => Progress(r) # "played",
           NEW s \in Seats, NEW c \in Channels
    PROVE  JoinIndex(r, s, c) = CutJoin(r, s, c)
<1> DEFINE l == log[r]
           m == manifest[r]
<1>1. /\ l \in Seq(LineSet) /\ m \in ManifestSet /\ m.target \in 0..Len(l) /\ m.entry \in Nat
      /\ m.floor \in Nat /\ m.target \in Nat
  BY DEF GoodRun, GoodLog, TypeOK, ManifestSet
<1>2. Walked(r) = l /\ (Fresh(r) => m.target = Len(l))
  BY <1>1, WalkedIsAll DEF GoodRun
<1>3. CASE m.seat # s
  BY <1>3 DEF JoinIndex, CutJoin
<1>4. CASE m.seat = s
  <2>1. m.kind \in {"replace", "import"} /\ m.entry >= 2
    <3>1. m.kind \in {"none", "fork", "replace", "import"} /\ s # Nobody
      BY <1>1, LineageAssumption DEF ManifestSet
    <3>2. QED BY <1>4, <3>1 DEF GoodRun, GoodManifest
  <2>2. Snapshot(l, m.entry, c) = Count(Cut(r), c)
    BY <1>1, <2>1, CallsBeforeTheEntry DEF GoodRun, GoodLog, Cut
  <2>3. CASE c \in Blocked
    <3>1. CutJoin(r, s, c) = Count(Cut(r), c)
      BY <1>4, <2>3 DEF CutJoin
    <3>2. CASE Fresh(r)
      <4>1. JoinIndex(r, s, c) = Count(Walked(r), c)
        BY <1>4, <2>3, <3>2 DEF JoinIndex
      <4>2. Walked(r) = Cut(r)
        BY <3>2 DEF Walked, Cut
      <4>3. QED BY <3>1, <4>1, <4>2
    <3>3. CASE ~Fresh(r) /\ m.kind = "replace"
      <4>1. JoinIndex(r, s, c) = Snapshot(Walked(r), m.entry, c)
        BY <1>4, <2>3, <3>3 DEF JoinIndex
      <4>2. QED BY <1>2, <2>2, <3>1, <4>1
    <3>4. CASE ~Fresh(r) /\ m.kind = "import"
      <4>1. JoinIndex(r, s, c) = Count(l, c)
        BY <1>2, <1>4, <2>3, <3>4 DEF JoinIndex
      <4>2. Len(l) \in Nat /\ DOMAIN l = 1..Len(l)
        BY <1>1, InALog
      <4>3. \A i \in At(l, "call") : i <= m.target
        <5> SUFFICES ASSUME NEW i \in At(l, "call"), ~(i <= m.target) PROVE FALSE
          OBVIOUS
        <5>1. i \in (m.target + 1)..Len(l) /\ l[i].kind = "call"
          BY <1>1, <4>2 DEF At
        <5>2. "call" \in {l[j].kind : j \in (m.target + 1)..Len(l)}
          BY <5>1
        <5>3. Progress(r) = "played"
          BY <5>2 DEF Progress
        <5>4. QED BY <3>4, <5>3
      <4>4. {i \in At(l, "call") : l[i].chan = c} = {i \in At(l, "call") : i <= m.target /\ l[i].chan = c}
        BY <4>3
      <4>5. Count(Cut(r), c) = Cardinality({i \in At(l, "call") : i <= m.target /\ l[i].chan = c})
        BY <1>1, CountOfPrefix DEF Cut
      <4>6. QED BY <3>1, <4>1, <4>4, <4>5 DEF Count
    <3>5. QED BY <2>1, <3>2, <3>3, <3>4
  <2>4. CASE c \notin Blocked /\ c \in m.visible /\ m.floor > 0
    <3>1. JoinIndex(r, s, c) = Snapshot(l, m.floor, c)
      BY <1>2, <1>4, <2>4 DEF JoinIndex
    <3>2. CutJoin(r, s, c) = IF m.floor = m.entry THEN Count(Cut(r), c) ELSE Snapshot(Cut(r), m.floor, c)
      BY <1>4, <2>4 DEF CutJoin
    <3>3. m.kind = "replace" /\ m.floor <= m.entry
      BY <2>1, <2>4 DEF GoodRun, GoodWindow
    <3>4. CASE m.floor = m.entry
      BY <2>2, <3>1, <3>2, <3>4
    <3>5. CASE m.floor # m.entry
      <4>1. m.floor >= 1 /\ m.floor < m.entry
        BY <1>1, <2>4, <3>3, <3>5
      <4>2. Snapshot(l, m.floor, c) = Snapshot(Cut(r), m.floor, c)
        BY <1>1, <2>1, <4>1, CallsBeforeTheWindow DEF GoodRun, GoodLog, Cut
      <4>3. QED BY <3>1, <3>2, <3>5, <4>2
    <3>6. QED BY <3>4, <3>5
  <2>5. CASE c \notin Blocked /\ ~(c \in m.visible /\ m.floor > 0)
    BY <1>4, <2>5 DEF JoinIndex, CutJoin
  <2>6. QED BY <2>3, <2>4, <2>5
<1>5. QED BY <1>3, <1>4

\* What a launch gives of others is told from the cut.
LEMMA HistoriesOfTheCut ==
    ASSUME NEW r \in Runs, GoodRun(r), ~SwappedHere(r), NEW s \in Seats
    PROVE  {e \in History(r, s) : e.by # first[r][s]} = CutCalls(r, s)
<1> DEFINE l == log[r]
           m == manifest[r]
           P == Cut(r)
           own == {e \in Rebuilt(Walked(r), s) :
                      Fresh(r) /\ m.kind \in {"replace", "import"} => e.round < m.entry}
           others == {e \in Rebuilt(P, s) : e.by # first[r][s]}
<1>1. /\ l \in Seq(LineSet) /\ m \in ManifestSet /\ m.target \in 0..Len(l) /\ m.entry \in Nat
      /\ m.target \in Nat /\ Len(l) \in Nat /\ DOMAIN l = 1..Len(l)
  BY InALog DEF GoodRun, GoodLog, TypeOK, ManifestSet
<1>2. Walked(r) = l /\ (Fresh(r) => m.target = Len(l))
  BY <1>1, WalkedIsAll DEF GoodRun
<1>3. DOMAIN P = 1..m.target /\ \A i \in 1..m.target : P[i] = l[i]
  BY <1>1, PrefixTyped DEF Cut
<1>4. own = Rebuilt(l, s)
  <2> SUFFICES ASSUME Fresh(r), m.kind \in {"replace", "import"}, NEW e \in Rebuilt(l, s)
               PROVE  e.round < m.entry
    BY <1>2
  <2>1. PICK i \in DOMAIN l : e = l[i]
    BY DEF Rebuilt, Lines
  <2>2. Memory(l[i]) /\ i <= m.target
    BY <1>1, <1>2, <2>1 DEF Rebuilt, Memory
  <2>3. QED BY <2>1, <2>2 DEF GoodRun, GoodLog, CutAtTheRound
<1>5. \A e : e \in Rebuilt(P, s) => e \in Rebuilt(l, s)
  <2> SUFFICES ASSUME NEW e \in Rebuilt(P, s) PROVE e \in Rebuilt(l, s)
    OBVIOUS
  <2>1. PICK i \in DOMAIN P : e = P[i]
    BY DEF Rebuilt, Lines
  <2>2. i \in DOMAIN l /\ e = l[i]
    BY <1>1, <1>3, <2>1
  <2>3. e \in Lines(l)
    BY <2>2 DEF Lines
  <2>4. QED BY <2>3 DEF Rebuilt
<1>6. ASSUME NEW e \in Rebuilt(l, s), e.by # first[r][s] PROVE e \in Rebuilt(P, s)
  <2>1. PICK i \in DOMAIN l : e = l[i]
    BY DEF Rebuilt, Lines
  <2>2. Memory(l[i]) /\ l[i].seat = s
    BY <2>1 DEF Rebuilt, Memory
  <2>3. i <= m.target
    <3> SUFFICES ASSUME ~(i <= m.target) PROVE FALSE
      OBVIOUS
    <3>1. l[i].by = Sitting(l, m, first[r], s, i)
      BY <1>1, <2>2 DEF GoodRun, MemoryIsTheSitters
    <3>2. \A j \in At(l, "swapped") : ~(m.target < j)
      BY DEF SwappedHere
    <3>3. Sitting(l, m, first[r], s, i) = first[r][s]
      BY <3>2, SittingUnswapped
    <3>4. QED BY <1>6, <2>1, <3>1, <3>3
  <2>4. i \in 1..m.target
    BY <1>1, <2>1, <2>3
  <2>5. e \in Lines(P)
    BY <1>3, <2>1, <2>4 DEF Lines
  <2>6. QED BY <2>5 DEF Rebuilt
<1>7. {e \in own : e.by # first[r][s]} = others
  BY <1>4, <1>5, <1>6
<1>8. CASE m.kind = "replace" /\ m.seat = s
  <2>1. History(r, s) = {e \in own : e.round < m.entry => IsCall(e) /\ ~Withheld(e, m)}
    BY <1>8 DEF History
  <2>2. CutCalls(r, s) = {e \in others : e.round < m.entry => IsCall(e) /\ ~Withheld(e, m)}
    BY <1>8 DEF CutCalls
  <2> HIDE DEF own, others
  <2>3. \A e : e \in others <=> e \in own /\ e.by # first[r][s]
    BY <1>7
  <2>4. QED BY <2>1, <2>2, <2>3
<1>9. CASE m.kind = "import" /\ m.seat = s
  <2>1. History(r, s) = {e \in Rebuilt(m.imported, s) : /\ e.round < m.importEnd + 1
                                                        /\ IsCall(e) => e.chan \notin Blocked}
    BY <1>9 DEF History
  <2>2. CutCalls(r, s) = {e \in Rebuilt(m.imported, s) : /\ e.round < m.importEnd + 1
                                                         /\ IsCall(e) => e.chan \notin Blocked
                                                         /\ e.by # first[r][s]}
    BY <1>9 DEF CutCalls
  <2>3. QED BY <2>1, <2>2
<1>10. CASE ~(m.kind = "replace" /\ m.seat = s) /\ ~(m.kind = "import" /\ m.seat = s)
  <2>1. History(r, s) = own
    BY <1>10 DEF History
  <2>2. CutCalls(r, s) = others
    BY <1>10 DEF CutCalls
  <2>3. QED BY <1>7, <2>1, <2>2
<1>11. QED BY <1>8, <1>9, <1>10

-----------------------------------------------------------------------------
(* The steps of a process keep what was given *)

LEMMA SittersGrow ==
    ASSUME NEW l \in Seq(LineSet), NEW e \in LineSet, NEW m, NEW f, m.target \in 0..Len(l),
           MemoryIsTheSitters(l, m, f), CallsHaveSeats(l),
           Memory(e) => e.by = Sitting(l, m, f, e.seat, Len(l)),
           e.kind = "call" => e.seat \in Seats
    PROVE  MemoryIsTheSitters(Append(l, e), m, f) /\ CallsHaveSeats(Append(l, e))
<1> DEFINE k == Len(l)
           L == Append(l, e)
<1>1. /\ k \in Nat /\ DOMAIN l = 1..k /\ DOMAIN L = 1..(k + 1) /\ L[k + 1] = e
      /\ \A i \in 1..k : L[i] = l[i]
  BY OneMore
<1>2. ASSUME NEW i \in 0..k PROVE Sitting(L, m, f, l[i].seat, i) = Sitting(l, m, f, l[i].seat, i)
  BY <1>2, SittingAfter
<1>3. Memory(e) => Sitting(L, m, f, e.seat, k + 1) = Sitting(l, m, f, e.seat, k)
  <2>1. Memory(e) => e.kind # "swapped"
    BY DEF Memory, IsCall
  <2>2. QED BY <2>1, SittingAfter
<1> HIDE DEF L, k
<1>4. ASSUME NEW i \in DOMAIN L, i > m.target, Memory(L[i])
      PROVE  L[i].by = Sitting(L, m, f, L[i].seat, i)
  <2>1. CASE i = k + 1
    BY <1>1, <1>3, <1>4, <2>1 DEF k
  <2>2. CASE i # k + 1
    <3>1. i \in 1..k /\ i \in 0..k /\ i \in DOMAIN l
      BY <1>1, <2>2
    <3>2. L[i] = l[i]
      BY <1>1, <3>1
    <3>3. l[i].by = Sitting(l, m, f, l[i].seat, i)
      BY <1>4, <3>1, <3>2 DEF MemoryIsTheSitters
    <3>4. QED BY <1>2, <3>1, <3>2, <3>3
  <2>3. QED BY <2>1, <2>2
<1>5. ASSUME NEW i \in At(L, "call") PROVE L[i].seat \in Seats
  <2>1. CASE i = k + 1
    BY <1>1, <1>5, <2>1 DEF At
  <2>2. CASE i # k + 1
    BY <1>1, <1>5, <2>2 DEF At, CallsHaveSeats
  <2>3. QED BY <2>1, <2>2
<1>6. QED BY <1>4, <1>5 DEF MemoryIsTheSitters, CallsHaveSeats, L

\* The lines up to the cut are those the run was made with.
LEMMA CutIsKept ==
    ASSUME NEW r \in Runs, log[r] \in Seq(LineSet), Extends(log[r], log'[r]),
           manifest[r].target \in 0..Len(log[r]), manifest'[r] = manifest[r], first'[r] = first[r]
    PROVE  Cut(r)' = Cut(r) /\ CutGift(r)' = CutGift(r)
<1> DEFINE l == log[r]
           L == log'[r]
           p == manifest[r].target
<1>1. L \in Seq(LineSet) /\ p \in 0..Len(L) /\ \A i \in 1..p : L[i] = l[i]
  <2>1. Len(l) \in Nat /\ Len(L) \in Nat /\ Len(l) <= Len(L) /\ \A i \in 1..Len(l) : L[i] = l[i]
    BY InALog DEF Extends
  <2>2. QED BY <2>1 DEF Extends
<1>2. /\ SubSeq(l, 1, p) \in Seq(LineSet) /\ Len(SubSeq(l, 1, p)) = p
      /\ \A i \in 1..p : SubSeq(l, 1, p)[i] = l[i]
  BY PrefixTyped
<1>3. /\ SubSeq(L, 1, p) \in Seq(LineSet) /\ Len(SubSeq(L, 1, p)) = p
      /\ \A i \in 1..p : SubSeq(L, 1, p)[i] = L[i]
  BY <1>1, PrefixTyped
<1>4. SubSeq(L, 1, p) = SubSeq(l, 1, p)
  BY <1>1, <1>2, <1>3, SeqEqual
<1>5. Cut(r)' = Cut(r)
  BY <1>4 DEF Cut
<1>6. QED BY <1>5 DEF CutGift, CutCalls, CutJoin

LEMMA UntouchedRun ==
    ASSUME NEW r \in Runs, log'[r] = log[r], manifest'[r] = manifest[r], first'[r] = first[r]
    PROVE  /\ SwappedHere(r)' <=> SwappedHere(r)
           /\ Fresh(r)' <=> Fresh(r)
           /\ CutGift(r)' = CutGift(r)
BY DEF SwappedHere, Fresh, Derived, Progress, CutGift, CutCalls, CutJoin, Cut

\* Runs whose files are left alone keep what they were given.
LEMMA GiftsAreKept ==
    ASSUME IInv, ViewInv, NEW r \in Runs, r # up, r # up', log'[r] = log[r],
           manifest'[r] = manifest[r], first'[r] = first[r], given'[r] = given[r]
    PROVE  /\ MemoryIsTheSitters(log'[r], manifest'[r], first'[r]) /\ CallsHaveSeats(log'[r])
           /\ GoodWindow(manifest'[r])
           /\ IF log'[r] = <<>> THEN given'[r] = NoGift
              ELSE ~SwappedHere(r)' /\ (~Fresh(r)' \/ up' = r) => given'[r] = CutGift(r)'
<1>1. /\ SwappedHere(r)' <=> SwappedHere(r)
      /\ Fresh(r)' <=> Fresh(r)
      /\ CutGift(r)' = CutGift(r)
  BY UntouchedRun
<1>2. QED BY <1>1 DEF ViewInv

LEMMA ProcessKeepsView ==
    ASSUME IInv, ViewInv, NEW r \in Runs, up = r, ProcessStep,
           MemoryIsTheSitters(log'[r], manifest[r], first[r]), CallsHaveSeats(log'[r]),
           \A q \in Runs : q # r => given'[q] = given[q],
           SwappedHere(r)' \/ given'[r] = given[r],
           up' = 0 => joins' = NoJoins,
           KeepsItsView'
    PROVE  ViewInv'
<1>0. \A q \in Runs : q # 0
  BY LineageAssumption DEF Runs
<1>1. /\ up # 0 /\ log[r] \in Seq(LineSet) /\ log[r] # <<>>
      /\ manifest[r].target \in 0..Len(log[r])
  BY <1>0, UpFacts DEF GoodLog
<1>2. /\ Extends(log[r], log'[r]) /\ manifest' = manifest /\ first' = first /\ up' \in {r, 0}
      /\ \A q \in Runs : q # r => log'[q] = log[q]
  BY DEF ProcessStep
<1>3. CutGift(r)' = CutGift(r)
  BY <1>1, <1>2, CutIsKept
<1>4. SwappedHere(r) => SwappedHere(r)'
  <2>1. \A i \in At(log[r], "swapped") : i \in At(log'[r], "swapped")
    BY <1>1, <1>2, AtLater
  <2>2. QED BY <1>2, <2>1 DEF SwappedHere
<1>5. ~SwappedHere(r)' => given'[r] = CutGift(r)'
  <2>1. ~SwappedHere(r) => given[r] = CutGift(r)
    BY <1>1 DEF ViewInv
  <2>2. QED BY <1>3, <1>4, <2>1
<1>6. log'[r] # <<>>
  <2>1. Len(log[r]) >= 1 /\ Len(log[r]) <= Len(log'[r]) /\ Len(log[r]) \in Nat /\ Len(log'[r]) \in Nat
    BY <1>1, <1>2, InALog DEF Extends
  <2>2. Len(<<>>) = 0
    OBVIOUS
  <2>3. QED BY <2>1, <2>2
<1>7. ASSUME NEW q \in Runs
      PROVE  /\ MemoryIsTheSitters(log'[q], manifest'[q], first'[q]) /\ CallsHaveSeats(log'[q])
             /\ GoodWindow(manifest'[q])
             /\ IF log'[q] = <<>> THEN given'[q] = NoGift
                ELSE ~SwappedHere(q)' /\ (~Fresh(q)' \/ up' = q) => given'[q] = CutGift(q)'
  <2>1. CASE q = r
    <3>1. MemoryIsTheSitters(log'[q], manifest'[q], first'[q])
      BY <1>2, <2>1
    <3>2. GoodWindow(manifest'[q]) /\ CallsHaveSeats(log'[q])
      BY <1>2, <2>1 DEF ViewInv
    <3>3. log'[q] # <<>> /\ (~SwappedHere(q)' => given'[q] = CutGift(q)')
      BY <1>5, <1>6, <2>1
    <3>4. QED BY <3>1, <3>2, <3>3
  <2>2. CASE q # r
    <3>1. q # up /\ q # up' /\ log'[q] = log[q] /\ manifest'[q] = manifest[q]
          /\ first'[q] = first[q] /\ given'[q] = given[q]
      BY <1>0, <1>2, <2>2
    <3>2. QED BY <3>1, GiftsAreKept
  <2>3. QED BY <2>1, <2>2
<1>8. QED BY <1>7 DEF ViewInv, NoJoins

\* A step that adds one line.
LEMMA LineKeepsView ==
    ASSUME IInv, ViewInv, NEW r \in Runs, up = r, ProcessStep,
           NEW e \in LineSet, e.kind # "swapped", log' = [log EXCEPT ![r] = Append(@, e)],
           Memory(e) => e.by = Who(r, e.seat), e.kind = "call" => e.seat \in Seats,
           given' = given,
           up' = r =>
               /\ joins' = joins
               /\ \A s \in Seats : \/ mind'[s] = mind[s]
                                   \/ mind'[s] = mind[s] \cup {e} /\ e.by = Who(r, s),
           up' = 0 => joins' = NoJoins
    PROVE  ViewInv'
<1> DEFINE l == log[r]
           L == Append(l, e)
<1>1. /\ r # 0 /\ l \in Seq(LineSet) /\ manifest[r].target \in 0..Len(l)
      /\ log \in [Runs -> Seq(LineSet)] /\ Len(L) = Len(l) + 1
  <2>1. r # 0
    BY LineageAssumption DEF Runs
  <2>2. QED BY <2>1, UpFacts, OneMore
<1>2. log'[r] = L /\ manifest' = manifest /\ first' = first /\ up' \in {r, 0}
  BY <1>1 DEF ProcessStep
<1>3. \A s \in Seats : Who(r, s) = Sitting(l, manifest[r], first[r], s, Len(l))
  BY DEF Who, Occupant
<1>4. MemoryIsTheSitters(L, manifest[r], first[r]) /\ CallsHaveSeats(L)
  <2>1. MemoryIsTheSitters(l, manifest[r], first[r]) /\ CallsHaveSeats(l)
    BY DEF ViewInv
  <2>2. Memory(e) => e.by = Sitting(l, manifest[r], first[r], e.seat, Len(l))
    BY <1>3 DEF Memory
  <2>3. QED BY <1>1, <2>1, <2>2, SittersGrow
<1>5. ASSUME NEW s \in Seats PROVE Who(r, s)' = Who(r, s)
  <2>1. Sitting(L, manifest[r], first[r], s, Len(l) + 1) = Sitting(l, manifest[r], first[r], s, Len(l))
    BY <1>1, SittingAfter
  <2>2. Who(r, s)' = Sitting(L, manifest[r], first[r], s, Len(L))
    BY <1>2 DEF Who, Occupant
  <2>3. QED BY <1>1, <1>3, <2>1, <2>2
<1> HIDE DEF L, l
<1>6. KeepsItsView'
  <2> SUFFICES ASSUME up' = r, NEW s \in Seats
               PROVE  /\ joins'[s] = given[r][s].joins
                      /\ {x \in mind'[s] : x.by # Who(r, s)} = given[r][s].calls
    BY <1>2, <1>5 DEF KeepsItsView
  <2>1. /\ joins[s] = given[r][s].joins
        /\ {x \in mind[s] : x.by # Who(r, s)} = given[r][s].calls
    BY <1>1 DEF ViewInv, KeepsItsView
  <2>2. {x \in mind'[s] : x.by # Who(r, s)} = {x \in mind[s] : x.by # Who(r, s)}
    OBVIOUS
  <2>3. QED BY <2>1, <2>2
<1>7. QED BY <1>2, <1>4, <1>6, ProcessKeepsView

LEMMA SystemKeepsView ==
    ASSUME IInv, ViewInv, Enter \/ Open \/ Close \/ Advance \/ End \/ \E logged \in BOOLEAN : Stop(logged)
    PROVE  ViewInv'
<1>1. up # 0 /\ ProcessStep
  BY SystemSteps
<1>2. PICK r \in Runs : up = r
  BY <1>1, UpFacts
<1>3. r # 0 /\ round \in Nat /\ round + 1 \in Nat /\ TypeOK
  BY <1>1, <1>2, UpFacts DEF IInv
<1>4. ASSUME NEW kind \in {"advanced", "injected", "closed", "complete", "failed"}, NEW n \in Nat,
             log' = [log EXCEPT ![r] = Append(@, Sys(r, kind, n))], given' = given,
             (up' = r /\ joins' = joins /\ mind' = mind) \/ (up' = 0 /\ joins' = NoJoins)
      PROVE  ViewInv'
  <2> DEFINE e == Sys(r, kind, n)
  <2>1. kind \in Kinds
    BY DEF Kinds
  <2>2. e \in LineSet /\ e.kind = kind /\ e.seat = Nobody
    BY <1>3, <2>1, SysTyped
  <2>3. ~Memory(e) /\ e.kind \notin {"swapped", "call"}
    BY <2>2, LineageAssumption DEF Memory
  <2>4. log' = [log EXCEPT ![r] = Append(@, e)]
    BY <1>4
  <2>5. up' = 0 => joins' = NoJoins
    BY <1>3, <1>4
  <2>6. up' = r => joins' = joins /\ \A s \in Seats : mind'[s] = mind[s]
    BY <1>3, <1>4
  <2> HIDE DEF e
  <2>7. QED BY <1>1, <1>2, <1>4, <2>2, <2>3, <2>4, <2>5, <2>6, LineKeepsView
<1>5. CASE Enter
  BY <1>2, <1>3, <1>4, <1>5 DEF Enter, Append1
<1>6. CASE Open
  BY <1>2, <1>3, <1>4, <1>6 DEF Open, Append1
<1>7. CASE Close
  BY <1>2, <1>3, <1>4, <1>7 DEF Close, Append1
<1>8. CASE Advance
  BY <1>2, <1>3, <1>4, <1>8 DEF Advance, Append1
<1>9. CASE End
  BY <1>2, <1>3, <1>4, <1>9 DEF End, Append1, Down, NoJoins
<1>10. ASSUME NEW logged \in BOOLEAN, Stop(logged) PROVE ViewInv'
  <2>1. up' = 0 /\ joins' = NoJoins /\ given' = given
    BY <1>10 DEF Stop, Down, NoJoins
  <2>2. CASE logged
    <3>1. log' = [log EXCEPT ![r] = Append(@, Sys(r, "failed", round))]
      BY <1>2, <1>10, <2>2 DEF Stop, Append1
    <3>2. QED BY <1>3, <1>4, <2>1, <3>1
  <2>3. CASE ~logged
    <3>1. log' = log
      BY <1>10, <2>3 DEF Stop
    <3>2. MemoryIsTheSitters(log'[r], manifest[r], first[r]) /\ CallsHaveSeats(log'[r])
      BY <3>1 DEF ViewInv
    <3>3. KeepsItsView'
      BY <2>1 DEF KeepsItsView
    <3>4. QED BY <1>1, <1>2, <2>1, <3>2, <3>3, ProcessKeepsView
  <2>4. QED BY <2>2, <2>3
<1>11. QED BY <1>5, <1>6, <1>7, <1>8, <1>9, <1>10

LEMMA FinishKeepsView ==
    ASSUME IInv, ViewInv, Finish
    PROVE  ViewInv'
<1>1. up # 0 /\ ProcessStep
  BY FinishStep
<1>2. PICK r \in Runs : up = r
  BY <1>1, UpFacts
<1>3. /\ log' = log /\ given' = given /\ up' = up /\ joins' = joins /\ mind' = mind
      /\ manifest' = manifest /\ first' = first
  BY DEF Finish
<1>4. MemoryIsTheSitters(log'[r], manifest[r], first[r]) /\ CallsHaveSeats(log'[r])
  BY <1>3 DEF ViewInv
<1>5. KeepsItsView'
  <2>1. \A s \in Seats : Who(r, s)' = Who(r, s)
    BY <1>3 DEF Who, Occupant
  <2>2. QED BY <1>1, <1>2, <1>3, <2>1 DEF ViewInv, KeepsItsView
<1>6. up' # 0
  BY <1>1, <1>3
<1>7. QED BY <1>1, <1>2, <1>3, <1>4, <1>5, <1>6, ProcessKeepsView

LEMMA AgentKeepsView ==
    ASSUME IInv, ViewInv, NEW s \in Seats,
           Say(s) \/ Tell(s) \/ \E c \in Channels \cup {NoChannel} : Call(s, c)
    PROVE  ViewInv'
<1>1. up # 0 /\ ProcessStep
  BY AgentSteps
<1>2. PICK r \in Runs : up = r
  BY <1>1, UpFacts
<1>3. mind \in [Seats -> SUBSET LineSet]
  BY DEF IInv, TypeOK
<1>4. ASSUME NEW kind \in {"call", "refused", "over", "said"}, NEW c \in Channels \cup {NoChannel},
             NEW e, e = Line(up, kind, s, c, round, Who(up, s)),
             log' = [log EXCEPT ![up] = Append(@, e)], mind' = [mind EXCEPT ![s] = @ \cup {e}],
             up' = up, joins' = joins, given' = given
      PROVE  ViewInv'
  <2>1. e \in LineSet /\ e.kind = kind /\ e.seat = s /\ e.by = Who(r, s)
    BY <1>1, <1>2, <1>4, AgentLineTyped
  <2>2. \A q \in Seats : \/ mind'[q] = mind[q]
                         \/ mind'[q] = mind[q] \cup {e} /\ e.by = Who(r, q)
    BY <1>3, <1>4, <2>1
  <2>3. e.kind # "swapped" /\ e.seat \in Seats /\ e.by = Who(r, e.seat) /\ up' = r /\ up' # 0
    BY <1>1, <1>2, <1>4, <2>1
  <2>4. log' = [log EXCEPT ![r] = Append(@, e)]
    BY <1>2, <1>4
  <2>5. e \in LineSet /\ joins' = joins /\ given' = given
    BY <1>4, <2>1
  <2>6. QED BY ONLY IInv, ViewInv, <1>1, <1>2, <2>2, <2>3, <2>4, <2>5, LineKeepsView
<1>5. NoChannel \in Channels \cup {NoChannel}
  OBVIOUS
<1>6. CASE Say(s)
  <2>1. /\ log' = [log EXCEPT ![up] = Append(@, Line(up, "said", s, NoChannel, round, Who(up, s)))]
        /\ mind' = [mind EXCEPT ![s] = @ \cup {Line(up, "said", s, NoChannel, round, Who(up, s))}]
        /\ up' = up /\ joins' = joins /\ given' = given
    BY <1>6 DEF Say, Append1
  <2>2. QED BY <1>4, <1>5, <2>1
<1>7. CASE Tell(s)
  <2>1. /\ log' = [log EXCEPT ![up] = Append(@, Line(up, "over", s, NoChannel, round, Who(up, s)))]
        /\ mind' = [mind EXCEPT ![s] = @ \cup {Line(up, "over", s, NoChannel, round, Who(up, s))}]
        /\ up' = up /\ joins' = joins /\ given' = given
    BY <1>7 DEF Tell, Append1
  <2>2. QED BY <1>4, <1>5, <2>1
<1>8. ASSUME NEW c \in Channels \cup {NoChannel}, Call(s, c) PROVE ViewInv'
  <2>1. PICK kind \in {"call", "refused"} : kind = IF phase = "done" THEN "refused" ELSE "call"
    OBVIOUS
  <2>2. /\ log' = [log EXCEPT ![up] = Append(@, Line(up, kind, s, c, round, Who(up, s)))]
        /\ mind' = [mind EXCEPT ![s] = @ \cup {Line(up, kind, s, c, round, Who(up, s))}]
        /\ up' = up /\ joins' = joins /\ given' = given
    BY <1>8, <2>1 DEF Call, Append1
  <2>3. kind \in {"call", "refused", "over", "said"}
    BY <2>1
  <2>4. QED BY <1>4, <2>2, <2>3
<1>9. QED BY <1>6, <1>7, <1>8

\* A swap gives its agent all at once what it hands over.
LEMMA SwapKeepsView ==
    ASSUME IInv, ViewInv, NEW sw \in Swaps, NEW n \in {round - 1, round}, Swap(sw, n)
    PROVE  ViewInv'
<1> DEFINE s == sw.seat
           k == log[up]
           m == manifest[up]
           f == first[up]
           l == LogAfterWake(s, n)
           new == <<up, Len(l) + 1>>
           e == [Line(up, "swapped", s, NoChannel, round, new) EXCEPT !.at = new]
           L == Append(l, e)
           kept == {x \in Rebuilt(l, s) : IsCall(x) /\ x.round < round /\ x.chan \notin sw.hidden}
           join == [c \in Channels |-> IF c \in sw.hidden THEN Count(l, c) ELSE joins[s][c]]
<1>1. /\ phase = "boundary" /\ sw.round = round /\ log' = [log EXCEPT ![up] = L]
      /\ mind' = [mind EXCEPT ![s] = kept] /\ joins' = [joins EXCEPT ![s] = join]
      /\ given' = [given EXCEPT ![up][s] = [calls |-> kept, joins |-> join]]
      /\ manifest' = manifest /\ up' = up /\ first' = first
  BY DEF Swap, Due, LogAfterWake
<1>2. up # 0 /\ ProcessStep
  BY SwapStep
<1>3. s \in Seats /\ round >= 2
  <2>1. sw \in [seat : Seats, round : Rounds \ {1}, hidden : SUBSET Channels]
    BY LineageAssumption
  <2>2. sw.seat \in Seats /\ sw.round \in Rounds \ {1}
    BY <2>1
  <2>3. QED BY <1>1, <2>2, LineageAssumption DEF Rounds
<1>4. /\ up \in Runs /\ up \in Nat /\ k \in Seq(LineSet) /\ round \in Nat
      /\ log \in [Runs -> Seq(LineSet)] /\ m.target \in Nat /\ m.target \in 0..Len(k)
      /\ MemoryIsTheSitters(k, m, f) /\ CallsHaveSeats(k) /\ Len(k) \in Nat
  <2>1. up \in Runs
    BY <1>2, UpFacts
  <2>2. QED BY <1>2, <2>1, UpFacts, InALog DEF ViewInv
<1>5. /\ GoodLog(up, l, m, f)
      /\ \A q \in Seats : Sitting(l, m, f, q, Len(l)) = Who(up, q)
  BY <1>1, <1>2, <1>3, RelievedLog
<1>6. MemoryIsTheSitters(l, m, f) /\ CallsHaveSeats(l)
  <2>1. CASE s \in midCycle
    BY <1>4, <2>1 DEF LogAfterWake
  <2>2. CASE s \notin midCycle
    <3> DEFINE wake == Line(up, "relieved", s, NoChannel, n, Who(up, s))
    <3>1. /\ Who(up, s) \in Nat \X Nat /\ Who(up, s) = Sitting(k, m, f, s, Len(k))
      BY <1>2, <1>3, WhoIsOurs
    <3>2. s \in Seats \cup {Nobody} /\ n \in Nat /\ NoChannel \in Channels \cup {NoChannel}
      BY <1>3, <1>4
    <3>3. wake \in LineSet /\ wake.kind = "relieved" /\ wake.seat = s /\ wake.by = Who(up, s)
      BY <1>4, <3>1, <3>2 DEF Line, LineSet, Kinds
    <3>4. l = Append(k, wake)
      BY <2>2 DEF LogAfterWake
    <3> HIDE DEF wake, l
    <3>5. wake.kind # "call" /\ wake.by = Sitting(k, m, f, wake.seat, Len(k))
      BY <3>1, <3>3
    <3>6. QED BY <1>4, <3>3, <3>4, <3>5, SittersGrow
  <2>3. QED BY <2>1, <2>2
<1> HIDE DEF l
<1>7. l \in Seq(LineSet) /\ Len(l) \in Nat /\ m.target \in 0..Len(l) /\ NamedApart(up, l, m)
  BY <1>5, InALog DEF GoodLog
<1>8. /\ e \in LineSet /\ e.kind = "swapped" /\ e.seat = s /\ e.by = new
  <2>1. s \in Seats \cup {Nobody} /\ new \in Nat \X Nat /\ "swapped" \in Kinds /\ round \in Nat
        /\ NoChannel \in Channels \cup {NoChannel}
    BY <1>3, <1>4, <1>7 DEF Kinds
  <2>2. e = [at |-> new, kind |-> "swapped", seat |-> s, chan |-> NoChannel, round |-> round, by |-> new]
    BY DEF Line
  <2> HIDE DEF e, new, s
  <2>3. QED BY <2>1, <2>2 DEF LineSet
<1> HIDE DEF e
<1>9. MemoryIsTheSitters(L, m, f) /\ CallsHaveSeats(L)
  <2>1. ~Memory(e) /\ e.kind # "call"
    BY <1>8 DEF Memory, IsCall
  <2>2. QED BY <1>6, <1>7, <1>8, <2>1, SittersGrow
<1>10. /\ DOMAIN L = 1..(Len(l) + 1) /\ DOMAIN l = 1..Len(l)
       /\ Len(L) = Len(l) + 1 /\ L[Len(l) + 1] = e
  BY <1>7, <1>8, OneMore
<1>11. /\ Sitting(L, m, f, s, Len(L)) = new
       /\ \A q \in Seats : q # s => Sitting(L, m, f, q, Len(L)) = Who(up, q)
  <2>1. Sitting(L, m, f, s, Len(l) + 1) = new
    <3>1. Sitting(L, m, f, s, Len(l) + 1) = e.by
      BY <1>7, <1>8, SittingAfterASwap
    <3>2. QED BY <1>8, <3>1
  <2>2. ASSUME NEW q \in Seats, q # s PROVE Sitting(L, m, f, q, Len(l) + 1) = Who(up, q)
    <3>1. Sitting(L, m, f, q, Len(l) + 1) = Sitting(l, m, f, q, Len(l))
      BY <1>7, <1>8, <2>2, SittingAfter
    <3>2. QED BY <1>5, <3>1
  <2>3. QED BY <1>10, <2>1, <2>2
<1> HIDE DEF L
<1>12. log'[up] = L
  BY <1>1, <1>4
<1>13. \A q \in Seats : Who(up, q)' = Sitting(L, m, f, q, Len(L))
  BY <1>1, <1>12 DEF Who, Occupant
<1>14. \A x \in Lines(l) : x.by # new
  <2> SUFFICES ASSUME NEW i \in DOMAIN l, l[i].by = new PROVE FALSE
    BY DEF Lines
  <2>1. l[i].by[1] = up /\ l[i].by[2] = Len(l) + 1 /\ i \in Nat
    BY <1>10
  <2>2. CASE i <= m.target
    BY <1>4, <1>7, <2>1, <2>2 DEF NamedApart
  <2>3. CASE i > m.target
    <3>1. OwnLine(up, Len(l), l[i])
      BY <1>7, <2>3 DEF NamedApart
    <3>2. QED BY <1>7, <2>1, <3>1 DEF OwnLine
  <2>4. QED BY <1>4, <2>1, <2>2, <2>3
<1>15. {x \in kept : x.by # new} = kept
  BY <1>14 DEF Rebuilt
<1> HIDE DEF kept, join, new
<1>16. /\ given \in [Runs -> [Seats -> [calls : SUBSET LineSet, joins : [Channels -> Nat]]]]
       /\ mind \in [Seats -> SUBSET LineSet] /\ joins \in [Seats -> [Channels -> Nat]]
  BY DEF IInv, TypeOK
<1>17. /\ given'[up][s] = [calls |-> kept, joins |-> join] /\ mind'[s] = kept /\ joins'[s] = join
       /\ \A q \in Seats : q # s =>
             given'[up][q] = given[up][q] /\ mind'[q] = mind[q] /\ joins'[q] = joins[q]
       /\ \A q \in Runs : q # up => given'[q] = given[q]
  BY <1>1, <1>3, <1>4, <1>16
<1>18. KeepsItsView'
  <2> SUFFICES ASSUME NEW q \in Seats
               PROVE  /\ joins'[q] = given'[up][q].joins
                      /\ {x \in mind'[q] : x.by # Who(up, q)'} = given'[up][q].calls
    BY <1>1 DEF KeepsItsView
  <2>1. CASE q = s
    <3>1. Who(up, q)' = new
      BY <1>11, <1>13, <2>1
    <3>2. QED BY <1>15, <1>17, <2>1, <3>1
  <2>2. CASE q # s
    <3>1. Who(up, q)' = Who(up, q)
      BY <1>11, <1>13, <2>2
    <3>2. /\ joins[q] = given[up][q].joins
          /\ {x \in mind[q] : x.by # Who(up, q)} = given[up][q].calls
      BY <1>2 DEF ViewInv, KeepsItsView
    <3>3. QED BY <1>17, <2>2, <3>1, <3>2
  <2>3. QED BY <2>1, <2>2
<1>19. PICK r \in Runs : up = r
  BY <1>4
<1>20. SwappedHere(r)'
  <2>1. Len(l) + 1 \in At(L, "swapped") /\ m.target < Len(l) + 1
    BY <1>7, <1>8, <1>10 DEF At
  <2>2. QED BY <1>1, <1>12, <1>19, <2>1 DEF SwappedHere
<1>21. up' # 0
  BY <1>1, <1>2
<1>22. MemoryIsTheSitters(log'[r], manifest[r], first[r]) /\ CallsHaveSeats(log'[r])
  BY <1>9, <1>12, <1>19 DEF L
<1>23. \A q \in Runs : q # r => given'[q] = given[q]
  BY <1>17, <1>19
<1>24. QED
  BY ONLY IInv, ViewInv, <1>2, <1>18, <1>19, <1>20, <1>21, <1>22, <1>23, ProcessKeepsView

-----------------------------------------------------------------------------
(* Starts, launches and derivations keep what was given *)

LEMMA OthersKeepTheirGifts ==
    ASSUME IInv, ViewInv, up = 0, NEW r \in Runs, up' \in {0, r},
           \A q \in Runs : q # r => /\ log'[q] = log[q] /\ manifest'[q] = manifest[q]
                                    /\ first'[q] = first[q] /\ given'[q] = given[q],
           MemoryIsTheSitters(log'[r], manifest'[r], first'[r]), CallsHaveSeats(log'[r]),
           GoodWindow(manifest'[r]), log'[r] # <<>>,
           ~SwappedHere(r)' /\ (~Fresh(r)' \/ up' = r) => given'[r] = CutGift(r)',
           up' = 0 => joins' = NoJoins, KeepsItsView'
    PROVE  ViewInv'
<1>0. \A q \in Runs : q # 0
  BY LineageAssumption DEF Runs
<1>1. ASSUME NEW q \in Runs
      PROVE  /\ MemoryIsTheSitters(log'[q], manifest'[q], first'[q]) /\ CallsHaveSeats(log'[q])
             /\ GoodWindow(manifest'[q])
             /\ IF log'[q] = <<>> THEN given'[q] = NoGift
                ELSE ~SwappedHere(q)' /\ (~Fresh(q)' \/ up' = q) => given'[q] = CutGift(q)'
  <2>1. CASE q = r
    BY <2>1
  <2>2. CASE q # r
    <3>1. q # up /\ q # up' /\ log'[q] = log[q] /\ manifest'[q] = manifest[q]
          /\ first'[q] = first[q] /\ given'[q] = given[q]
      BY <1>0, <2>2
    <3>2. QED BY <3>1, GiftsAreKept
  <2>3. QED BY <2>1, <2>2
<1>2. QED BY <1>1 DEF ViewInv, NoJoins

LEMMA StartKeepsView ==
    ASSUME IInv, ViewInv, NEW r \in Runs, Start(r)
    PROVE  ViewInv'
<1> DEFINE e == Sys(r, "advanced", 1)
<1>1. e \in LineSet /\ e.kind = "advanced" /\ e.seat = Nobody
  BY SysTyped DEF IInv, Kinds
<1>2. /\ up = 0 /\ log' = [log EXCEPT ![r] = <<e>>] /\ up' = r /\ log[r] = <<>>
      /\ manifest' = manifest /\ mind' = mind /\ joins' = joins /\ first' = first /\ given' = given
      /\ log \in [Runs -> Seq(LineSet)]
  BY DEF Start, New, IInv, TypeOK
<1> HIDE DEF e
<1>3. log'[r] = <<e>> /\ \A q \in Runs : q # r => log'[q] = log[q]
  BY <1>2
<1>4. r # 0 /\ manifest[r] = NoManifest
  BY <1>2, LineageAssumption DEF IInv, RunsExist, Runs
<1>5. MemoryIsTheSitters(<<e>>, manifest[r], first[r]) /\ CallsHaveSeats(<<e>>) /\ <<e>> # <<>>
  <2>1. ~Memory(e)
    BY <1>1 DEF Memory, IsCall
  <2>2. QED BY <1>1, <2>1 DEF MemoryIsTheSitters, CallsHaveSeats, At
<1>6. GoodWindow(manifest[r])
  BY <1>4 DEF GoodWindow, NoManifest
<1>7. given[r] = NoGift
  BY <1>2 DEF ViewInv
<1>8. CutGift(r)' = NoGift
  <2>1. <<e>> \in Seq(LineSet) /\ Len(<<e>>) = 1
    BY <1>1
  <2>2. DOMAIN SubSeq(<<e>>, 1, 0) = {}
    <3>1. 0 \in 0..Len(<<e>>) /\ 1..0 = {}
      BY <2>1
    <3>2. QED BY <2>1, <3>1, PrefixTyped
  <2>3. Lines(SubSeq(<<e>>, 1, 0)) = {}
    BY <2>2 DEF Lines
  <2>4. \A s \in Seats : CutCalls(r, s)' = {}
    <3>1. Cut(r)' = SubSeq(<<e>>, 1, 0)
      BY <1>2, <1>3, <1>4 DEF Cut, NoManifest
    <3>2. \A s \in Seats : Rebuilt(Cut(r)', s) = {}
      BY <2>3, <3>1 DEF Rebuilt
    <3>3. QED BY <1>2, <1>4, <3>2 DEF CutCalls, NoManifest
  <2>5. \A s \in Seats : \A c \in Channels : CutJoin(r, s, c)' = 0
    BY <1>2, <1>4, LineageAssumption DEF CutJoin, NoManifest
  <2>6. QED BY <2>4, <2>5 DEF CutGift, NoGift
<1>9. KeepsItsView'
  <2> SUFFICES ASSUME NEW s \in Seats
               PROVE  /\ joins'[s] = given'[r][s].joins
                      /\ {x \in mind'[s] : x.by # Who(r, s)'} = given'[r][s].calls
    BY <1>2 DEF KeepsItsView
  <2>1. mind'[s] = {} /\ joins'[s] = [c \in Channels |-> 0]
    BY <1>2 DEF IInv, InTheRound, ViewInv, NoJoins
  <2>2. QED BY <1>2, <1>7, <2>1 DEF NoGift
<1>10. QED
  BY <1>2, <1>3, <1>4, <1>5, <1>6, <1>7, <1>8, <1>9, OthersKeepTheirGifts

\* The first launch gives what the cut says, and the later ones find it there again.
LEMMA LaunchKeepsView ==
    ASSUME "resume_after_swap" \in Avoided, IInv, PlayInv, ViewInv, NEW r \in Runs, Launch(r)
    PROVE  ViewInv'
<1>1. /\ up = 0 /\ log[r] # <<>> /\ ~SwappedHere(r)
      /\ manifest[r].kind = "import" => Progress(r) # "played"
      /\ log' = log /\ manifest' = manifest /\ first' = first /\ up' = r
      /\ mind' = [s \in Seats |-> History(r, s)]
      /\ joins' = [s \in Seats |-> [c \in Channels |-> JoinIndex(r, s, c)]]
      /\ given' = IF Fresh(r) THEN [given EXCEPT ![r] = Gift(r, mind', joins')] ELSE given
  BY DEF Launch
<1>2. GoodRun(r)
  BY <1>1 DEF GoodRun, IInv, RunsExist, PlayInv, ViewInv
<1>3. r # 0
  BY LineageAssumption DEF Runs
<1>4. CutGift(r)' = CutGift(r)
  BY <1>1 DEF CutGift, CutCalls, CutJoin, Cut
<1>5. \A s \in Seats : joins'[s] = CutGift(r)[s].joins
  <2>1. \A s \in Seats : \A c \in Channels : JoinIndex(r, s, c) = CutJoin(r, s, c)
    BY <1>1, <1>2, JoinsOfTheCut
  <2>2. QED BY <1>1, <2>1 DEF CutGift
<1>6. \A s \in Seats : {e \in mind'[s] : e.by # first[r][s]} = CutGift(r)[s].calls
  <2>1. \A s \in Seats : {e \in History(r, s) : e.by # first[r][s]} = CutCalls(r, s)
    BY <1>1, <1>2, HistoriesOfTheCut
  <2>2. QED BY <1>1, <2>1 DEF CutGift
<1>7. given \in [Runs -> [Seats -> [calls : SUBSET LineSet, joins : [Channels -> Nat]]]]
  BY DEF IInv, TypeOK
<1>8. given'[r] = CutGift(r)
  <2>1. CASE Fresh(r)
    <3>1. given'[r] = [s \in Seats |-> [calls |-> {e \in mind'[s] : e.by # first[r][s]},
                                        joins |-> joins'[s]]]
      BY <1>1, <1>7, <2>1 DEF Gift
    <3>2. CutGift(r) = [s \in Seats |-> [calls |-> CutGift(r)[s].calls, joins |-> CutGift(r)[s].joins]]
      BY DEF CutGift
    <3>3. QED BY <1>5, <1>6, <3>1, <3>2
  <2>2. CASE ~Fresh(r)
    BY <1>1, <2>2 DEF ViewInv
  <2>3. QED BY <2>1, <2>2
<1>9. KeepsItsView'
  <2> SUFFICES ASSUME NEW s \in Seats
               PROVE  /\ joins'[s] = given'[r][s].joins
                      /\ {x \in mind'[s] : x.by # Who(r, s)'} = given'[r][s].calls
    <3>1. up' = r
      BY <1>1
    <3>2. QED BY <3>1 DEF KeepsItsView
  <2>1. Who(r, s)' = first[r][s]
    <3>1. \A i \in At(log[r], "swapped") : ~(manifest[r].target < i)
      BY <1>1 DEF SwappedHere
    <3>2. Sitting(log[r], manifest[r], first[r], s, Len(log[r])) = first[r][s]
      BY <3>1, SittingUnswapped
    <3>3. QED BY <1>1, <3>2 DEF Who, Occupant
  <2>2. QED BY <1>5, <1>6, <1>8, <2>1
<1>10. \A q \in Runs : q # r => /\ log'[q] = log[q] /\ manifest'[q] = manifest[q]
                                /\ first'[q] = first[q] /\ given'[q] = given[q]
  BY <1>1, <1>7
<1>11. /\ MemoryIsTheSitters(log'[r], manifest'[r], first'[r]) /\ CallsHaveSeats(log'[r])
       /\ GoodWindow(manifest'[r])
  BY <1>1, <1>2 DEF GoodRun
<1>12. QED
  BY <1>1, <1>3, <1>4, <1>8, <1>9, <1>10, <1>11, OthersKeepTheirGifts

\* A run that was just made was given nothing yet.
LEMMA DeriveKeepsView ==
    ASSUME IInv, ViewInv, NEW r \in Runs, NEW a \in 1..(r - 1), NEW n \in Rounds,
           NEW s \in Seats \cup {Nobody}, Admitted(r, a, n, s),
           NEW m \in ManifestSet, NEW owner, Derive(r, a, n, s, m, owner),
           m.kind \in {"fork", "replace", "import"},
           m.kind = "replace" => m.floor <= n + 1, m.kind = "import" => m.visible = {}
    PROVE  ViewInv'
<1> DEFINE l == log[a]
           p == Boundary(l, n)
           L == Clone(l, p)
<1>1. /\ a \in Runs /\ up = 0 /\ up' = 0 /\ joins' = joins /\ given' = given
      /\ l \in Seq(LineSet) /\ p \in 1..Len(l) /\ log'[r] = L
      /\ manifest'[r].kind = m.kind /\ manifest'[r].entry = n + 1
      /\ manifest'[r].target = p /\ manifest'[r].visible = m.visible /\ manifest'[r].floor = m.floor
      /\ \A q \in Runs : q # r =>
            log'[q] = log[q] /\ manifest'[q] = manifest[q] /\ first'[q] = first[q]
  BY DeriveMakes
<1>2. /\ L \in Seq(LineSet) /\ Len(L) = p /\ DOMAIN L = 1..p
      /\ \A i \in 1..p : L[i].seat = l[i].seat /\ (L[i].kind = "call" <=> l[i].kind = "call")
      /\ Len(l) \in Nat /\ DOMAIN l = 1..Len(l)
  <2>1. "call" \in Kinds \ {"dropped", "complete", "failed"}
    BY DEF Kinds
  <2> HIDE DEF L, l
  <2>2. /\ Clone(l, p) \in Seq(LineSet) /\ Len(Clone(l, p)) = p /\ DOMAIN Clone(l, p) = 1..p
        /\ \A i \in 1..p :
              /\ Clone(l, p)[i].seat = l[i].seat
              /\ \A kind \in Kinds \ {"dropped", "complete", "failed"} :
                    Clone(l, p)[i].kind = kind <=> l[i].kind = kind
    BY ONLY <1>1, CloneLines
  <2>3. Len(l) \in Nat /\ DOMAIN l = 1..Len(l)
    BY <1>1, InALog
  <2>4. QED BY <2>1, <2>2, <2>3 DEF L
<1> HIDE DEF L, p
<1>3. r # 0 /\ p \in Nat /\ p >= 1
  BY <1>1, <1>2, LineageAssumption DEF Runs
<1>4. MemoryIsTheSitters(L, manifest'[r], first'[r])
  BY <1>1, <1>2, <1>3 DEF MemoryIsTheSitters
<1>5. CallsHaveSeats(L)
  <2>1. CallsHaveSeats(l)
    BY <1>1 DEF ViewInv
  <2>2. \A i \in 1..p : i \in DOMAIN l
    BY <1>1, <1>2
  <2>3. QED BY <1>2, <2>1, <2>2 DEF CallsHaveSeats, At
<1>6. GoodWindow(manifest'[r])
  BY <1>1 DEF GoodWindow
<1>7. L # <<>>
  <2>1. Len(<<>>) = 0
    OBVIOUS
  <2>2. QED BY <1>2, <1>3, <2>1
<1>8. Fresh(r)'
  <2>1. (p + 1)..p = {}
    BY <1>3
  <2>2. {L[i].kind : i \in (p + 1)..p} = {}
    BY <2>1
  <2>3. QED BY <1>1, <1>2, <2>2 DEF Fresh, Derived, Progress
<1>9. joins' = NoJoins
  BY <1>1 DEF ViewInv, NoJoins
<1>10. KeepsItsView'
  BY <1>1 DEF KeepsItsView
<1>11. QED
  BY <1>1, <1>3, <1>4, <1>5, <1>6, <1>7, <1>8, <1>9, <1>10, OthersKeepTheirGifts

LEMMA ViewIsKept ==
    ASSUME "resume_after_swap" \in Avoided, IInv, PlayInv, ViewInv, [Next]_vars
    PROVE  ViewInv'
<1>1. ASSUME NEW r \in Runs, Start(r) \/ Launch(r) PROVE ViewInv'
  BY <1>1, StartKeepsView, LaunchKeepsView
<1>2. CASE Enter \/ Open \/ Close \/ Advance \/ End \/ \E logged \in BOOLEAN : Stop(logged)
  BY <1>2, SystemKeepsView
<1>3. CASE Finish
  BY <1>3, FinishKeepsView
<1>4. ASSUME NEW sw \in Swaps, NEW n \in {round - 1, round}, Swap(sw, n) PROVE ViewInv'
  BY <1>4, SwapKeepsView
<1>5. ASSUME NEW s \in Seats, Say(s) \/ Tell(s) \/ \E c \in Channels \cup {NoChannel} : Call(s, c)
      PROVE  ViewInv'
  BY <1>5, AgentKeepsView
<1>6. ASSUME NEW r \in Runs, NEW a \in 1..(r - 1), NEW n \in Rounds,
             \/ ForkAtRound(r, a, n)
             \/ \E s \in Seats : \E v \in Views : Replace(r, a, n, s, v)
             \/ \E s \in Seats : \E b \in 1..(r - 1) : \E bEnd \in Rounds : Import(r, a, b, n, bEnd, s)
      PROVE  ViewInv'
  <2>1. PICK s \in Seats \cup {Nobody}, m \in ManifestSet, owner \in Nat \X Nat :
             /\ Admitted(r, a, n, s) /\ Derive(r, a, n, s, m, owner)
             /\ m.kind \in {"fork", "replace", "import"}
             /\ m.kind = "replace" => m.floor <= n + 1
             /\ m.kind = "import" => m.visible = {}
    BY <1>6, DerivesARun
  <2>2. QED BY <2>1, DeriveKeepsView
<1>7. CASE UNCHANGED vars
  <2>1. /\ log' = log /\ manifest' = manifest /\ first' = first /\ given' = given
        /\ up' = up /\ mind' = mind /\ joins' = joins
    BY <1>7 DEF vars, process
  <2>2. KeepsItsView'
    BY <2>1 DEF ViewInv, KeepsItsView, Who, Occupant
  <2>3. ASSUME NEW r \in Runs
        PROVE  /\ MemoryIsTheSitters(log'[r], manifest'[r], first'[r]) /\ CallsHaveSeats(log'[r])
               /\ GoodWindow(manifest'[r])
               /\ IF log'[r] = <<>> THEN given'[r] = NoGift
                  ELSE ~SwappedHere(r)' /\ (~Fresh(r)' \/ up' = r) => given'[r] = CutGift(r)'
    <3>1. /\ MemoryIsTheSitters(log[r], manifest[r], first[r]) /\ CallsHaveSeats(log[r])
          /\ GoodWindow(manifest[r])
          /\ log[r] = <<>> => given[r] = NoGift
          /\ log[r] # <<>> /\ ~SwappedHere(r) /\ (~Fresh(r) \/ up = r) => given[r] = CutGift(r)
      BY DEF ViewInv
    <3>2. log'[r] = log[r] /\ manifest'[r] = manifest[r] /\ first'[r] = first[r] /\ given'[r] = given[r]
      BY <2>1
    <3>3. (~SwappedHere(r)' => ~SwappedHere(r)) /\ (~Fresh(r)' => ~Fresh(r)) /\ CutGift(r)' = CutGift(r)
      BY <3>2, UntouchedRun
    <3>4. QED BY ONLY <2>1, <3>1, <3>2, <3>3
  <2>4. up' = 0 => joins' = NoJoins
    BY <2>1 DEF ViewInv, NoJoins
  <2>5. QED BY <2>2, <2>3, <2>4 DEF ViewInv, NoJoins
<1>8. QED BY <1>1, <1>2, <1>3, <1>4, <1>5, <1>6, <1>7 DEF Next

\* A crash changes neither what an agent was given of its predecessor nor the messages it
\* may read, whatever the cut, the window and the hidden channels were, as long as no run
\* is resumed after a swap within it (_boundary_anchored_visibility, filter_below_round).
THEOREM ViewsAreKept ==
    ASSUME "resume_after_swap" \in Avoided
    PROVE  Spec => []KeepsItsView
<1>1. Init => PlayInv /\ ViewInv
  <2>1. Init => PlayInv
    BY DEF Init, PlayInv, AtTheEndOfItsLog
  <2>2. ASSUME Init PROVE ViewInv
    <3>1. \A r \in Runs : /\ log[r] = <<>> /\ manifest[r] = NoManifest /\ given[r] = NoGift
                          /\ GoodWindow(manifest[r])
      BY <2>2 DEF Init, Gift, NoGift, GoodWindow, NoManifest
    <3>2. \A m, f : MemoryIsTheSitters(<<>>, m, f) /\ CallsHaveSeats(<<>>)
      BY DEF MemoryIsTheSitters, CallsHaveSeats, At
    <3>3. QED BY <2>2, <3>1, <3>2 DEF Init, ViewInv, KeepsItsView, NoJoins
  <2>3. QED BY <2>1, <2>2
<1>2. IInv /\ PlayInv /\ ViewInv /\ [Next]_vars => IInv' /\ PlayInv' /\ ViewInv'
  BY NextKeeps, OrderIsKept, ViewIsKept
<1>3. ViewInv => KeepsItsView
  BY DEF ViewInv
<1>4. QED BY <1>1, <1>2, <1>3, InitKeeps, PTL DEF Spec

=============================================================================
