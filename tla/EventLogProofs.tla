--------------------------- MODULE EventLogProofs ---------------------------
(***************************************************************************)
(* What holds of the event log for any number of calls, streams and queue  *)
(* places: its variables have their types, the streams follow the log, and *)
(* the end of the run is last.                                             *)
(***************************************************************************)
EXTENDS EventLog, SequenceTheorems, TLAPS

Call == [caller : Callers, state : States]
Waiting == {"queued", "writing", "written", "refused"}
Holding == {"writing", "written", "refused"}

\* The lock: calls queue in the order they were made, those that are not over are
\* queued, only the first holds it, and the executor works for it or for a call
\* that was cancelled.
Locked ==
    /\ \A i, j \in DOMAIN queue : i < j => queue[i] < queue[j]
    /\ \A e \in DOMAIN calls : calls[e].state \in Waiting <=> e \in Elements(queue)
    /\ \A e \in DOMAIN calls : calls[e].state \in Holding => queue # <<>> /\ e = queue[1]
    /\ \A e \in threads : calls[e].state \in {"writing", "cancelled"}

\* What is published is in the file, and what is about to be comes after it.
OnDisk ==
    /\ \A e \in DOMAIN calls : calls[e].state \in {"written", "logged"} => e \in Elements(disk)
    /\ \A i \in DOMAIN published : published[i] # Transient => calls[published[i]].state = "logged"
    /\ \A e, f \in DOMAIN calls :
          calls[e].state = "logged" /\ calls[f].state = "written" => Before(disk, e, f)

\* The run ends once, last if it did not fail, and the file is closed after that.
EndsOnce ==
    /\ run = "playing" => \A e \in DOMAIN calls : calls[e].caller # "end"
    /\ run = "finished" => \A e \in DOMAIN calls : calls[e].caller = "end" => e = Len(calls)
    /\ \A e, f \in DOMAIN calls : calls[e].caller = "end" /\ calls[f].caller = "end" => e = f
    /\ file # "open" => Ended
    /\ file = "open" => \A e \in DOMAIN calls : calls[e].state \notin {"refused", "failed"}

\* A stream has seen nothing that was not published.
SeenIsPublished == \A s \in Subscribers : \A i \in DOMAIN Seen(s) : Seen(s)[i] \in Elements(published)

IInv == /\ TypeOK /\ Locked /\ OnDisk /\ EndsOnce /\ SeenIsPublished
        /\ StreamFollowsTheLog /\ TheEndIsLast

-----------------------------------------------------------------------------
(* Sequences *)

\* What is left of a queue when its i-th element leaves.
LEMMA WithoutOne ==
    ASSUME NEW S, NEW q \in Seq(S), NEW i \in 1..Len(q)
    PROVE  /\ Without(q, i) \in Seq(S) /\ Len(Without(q, i)) = Len(q) - 1
           /\ \A j \in 1..(Len(q) - 1) : Without(q, i)[j] = IF j < i THEN q[j] ELSE q[j + 1]
<1> DEFINE front == SubSeq(q, 1, i - 1)
           back  == SubSeq(q, i + 1, Len(q))
<1>1. Len(q) \in Nat /\ i \in Nat /\ 1 <= i /\ i <= Len(q)
  BY LenProperties
<1>2. (\A j \in 1..(i - 1) : q[j] \in S) /\ (\A j \in (i + 1)..Len(q) : q[j] \in S)
  BY <1>1, ElementOfSeq
<1>3. /\ front \in Seq(S) /\ Len(front) = i - 1
      /\ \A j \in 1..(i - 1) : front[j] = q[j]
  BY <1>1, <1>2, SubSeqProperties
<1>4. /\ back \in Seq(S) /\ Len(back) = Len(q) - i
      /\ \A j \in 1..(Len(q) - i) : back[j] = q[i + j]
  BY <1>1, <1>2, SubSeqProperties
<1>5. Without(q, i) = front \o back
  BY DEF Without
<1> HIDE DEF front, back
<1>6. /\ front \o back \in Seq(S) /\ Len(front \o back) = Len(q) - 1
      /\ \A j \in 1..(Len(q) - 1) : (front \o back)[j] =
             IF j <= i - 1 THEN front[j] ELSE back[j - (i - 1)]
  <2>1. /\ front \o back \in Seq(S) /\ Len(front \o back) = Len(front) + Len(back)
        /\ \A j \in 1..(Len(front) + Len(back)) : (front \o back)[j] =
               IF j <= Len(front) THEN front[j] ELSE back[j - Len(front)]
    BY <1>3, <1>4, ConcatProperties
  <2>2. Len(front) = i - 1 /\ Len(front) + Len(back) = Len(q) - 1
    BY <1>1, <1>3, <1>4
  <2>3. QED BY <2>1, <2>2
<1>7. ASSUME NEW j \in 1..(Len(q) - 1)
      PROVE  (front \o back)[j] = IF j < i THEN q[j] ELSE q[j + 1]
  <2>0. (front \o back)[j] = IF j <= i - 1 THEN front[j] ELSE back[j - (i - 1)]
    BY <1>6
  <2>1. CASE j < i
    <3>1. j <= i - 1 /\ j \in 1..(i - 1)
      BY <1>1, <2>1
    <3>2. QED BY <1>3, <2>0, <2>1, <3>1
  <2>2. CASE j >= i
    <3>1. j - (i - 1) \in 1..(Len(q) - i) /\ i + (j - (i - 1)) = j + 1 /\ ~(j <= i - 1)
      BY <1>1, <2>2
    <3>2. back[j - (i - 1)] = q[i + (j - (i - 1))]
      BY <1>4, <3>1
    <3>3. ~(j < i)
      BY <1>1, <2>2
    <3>4. (front \o back)[j] = q[i + (j - (i - 1))]
      BY <2>0, <3>1, <3>2
    <3>5. (front \o back)[j] = q[j + 1]
      BY <3>1, <3>4
    <3>6. QED BY <3>3, <3>5
  <2>3. j < i \/ j >= i
    BY <1>1
  <2>4. QED BY <2>1, <2>2, <2>3, Zenon
<1>8. QED BY <1>5, <1>6, <1>7

\* What a stream has seen once it is given an event: the event is its last, what was
\* before it keeps its order, and of what was before only the oldest queued is lost.
Follows(S, seen, then, e) ==
    /\ seen \in Seq(S) /\ then \in Seq(S) /\ Len(then) > 0 /\ then[Len(then)] = e
    /\ \A i \in 1..(Len(then) - 1) : \E x \in DOMAIN seen : then[i] = seen[x]
    /\ \A i, j \in 1..(Len(then) - 1) : i < j =>
          \E x, y \in DOMAIN seen : x < y /\ then[i] = seen[x] /\ then[j] = seen[y]
    /\ \A k \in 1..(QueueSize - 1) : k - 1 < Len(seen) =>
          k < Len(then) /\ then[Len(then) - k] = seen[Len(seen) - (k - 1)]

LEMMA SeenOnDelivery ==
    ASSUME NEW S, NEW sent \in Seq(S), NEW q \in Seq(S), NEW e \in S, Len(q) <= QueueSize
    PROVE  /\ Delivered(q, e) \in Seq(S) /\ Len(Delivered(q, e)) <= QueueSize
           /\ Follows(S, sent \o q, sent \o Delivered(q, e), e)
<1> DEFINE seen == sent \o q
           then == sent \o Delivered(q, e)
<1>1. QueueSize \in Nat \ {0} /\ Len(sent) \in Nat /\ Len(q) \in Nat
  BY BoundsAssumption, LenProperties
<1>2. /\ seen \in Seq(S) /\ Len(seen) = Len(sent) + Len(q)
      /\ \A i \in 1..(Len(sent) + Len(q)) :
            seen[i] = IF i <= Len(sent) THEN sent[i] ELSE q[i - Len(sent)]
  BY ConcatProperties
<1>3. CASE Len(q) = QueueSize
  <2>1. q # <<>>
    BY <1>1, <1>3, EmptySeq
  <2>2. /\ Tail(q) \in Seq(S) /\ Len(Tail(q)) = Len(q) - 1
        /\ \A i \in 1..(Len(q) - 1) : Tail(q)[i] = q[i + 1]
    BY <2>1, HeadTailProperties
  <2> DEFINE d == Append(Tail(q), e)
  <2>3. /\ d \in Seq(S) /\ Len(d) = Len(q) /\ d[Len(q)] = e
        /\ \A i \in 1..(Len(q) - 1) : d[i] = q[i + 1]
    BY <1>1, <2>2, AppendProperties
  <2>4. Delivered(q, e) = d
    BY <1>3 DEF Delivered
  <2> HIDE DEF d
  <2>5. /\ then \in Seq(S) /\ Len(then) = Len(sent) + Len(q)
        /\ \A i \in 1..(Len(sent) + Len(q)) :
              then[i] = IF i <= Len(sent) THEN sent[i] ELSE d[i - Len(sent)]
    <3>1. then = sent \o d
      BY <2>4
    <3> HIDE DEF then
    <3>2. /\ sent \o d \in Seq(S) /\ Len(sent \o d) = Len(sent) + Len(d)
          /\ \A i \in 1..(Len(sent) + Len(d)) :
                (sent \o d)[i] = IF i <= Len(sent) THEN sent[i] ELSE d[i - Len(sent)]
      BY <2>3, ConcatProperties
    <3>3. Len(d) = Len(q)
      BY <2>3
    <3>4. QED BY <3>1, <3>2, <3>3
  <2> HIDE DEF seen, then
  <2> DEFINE old(i) == IF i <= Len(sent) THEN i ELSE i + 1
  <2>6. ASSUME NEW i \in 1..(Len(then) - 1)
        PROVE  old(i) \in 1..Len(seen) /\ then[i] = seen[old(i)]
    <3>1. CASE i <= Len(sent)
      BY <1>1, <1>2, <2>5, <3>1
    <3>2. CASE i > Len(sent)
      <4>1. i - Len(sent) \in 1..(Len(q) - 1) /\ i + 1 \in 1..(Len(sent) + Len(q))
            /\ (i + 1) - Len(sent) = (i - Len(sent)) + 1
        BY <1>1, <2>5, <3>2
      <4>2. then[i] = q[(i - Len(sent)) + 1]
        <5>1. i \in 1..(Len(sent) + Len(q)) /\ ~(i <= Len(sent))
          BY <1>1, <2>5, <3>2
        <5>2. then[i] = d[i - Len(sent)]
          BY <2>5, <5>1
        <5>3. QED BY <2>3, <4>1, <5>2
      <4>3. QED BY <1>1, <1>2, <3>2, <4>1, <4>2
    <3>3. QED BY <1>1, <2>5, <3>1, <3>2
  <2>7. DOMAIN seen = 1..Len(seen)
    BY <1>2
  <2>8. \A i, j \in 1..(Len(then) - 1) : i < j => old(i) < old(j)
    BY <1>1, <2>5
  <2>9. then[Len(then)] = e /\ Len(then) > 0
    BY <1>1, <1>3, <2>3, <2>5
  <2>10. ASSUME NEW k \in 1..(QueueSize - 1)
         PROVE  k < Len(then) /\ then[Len(then) - k] = seen[Len(seen) - (k - 1)]
    <3>1. Len(then) - k \in 1..(Len(then) - 1) /\ Len(then) - k > Len(sent)
      BY <1>1, <1>3, <2>5
    <3>2. old(Len(then) - k) = Len(seen) - (k - 1)
      BY <1>1, <1>2, <2>5, <3>1
    <3>3. k < Len(then)
      BY <1>1, <1>3, <2>5
    <3>4. QED BY <2>6, <3>1, <3>2, <3>3
  <2> HIDE DEF old
  <2>11. QED
    <3>1. Delivered(q, e) \in Seq(S) /\ Len(Delivered(q, e)) <= QueueSize
      BY <1>1, <1>3, <2>3, <2>4
    <3>2. \A i \in 1..(Len(then) - 1) : \E x \in DOMAIN seen : then[i] = seen[x]
      BY <2>6, <2>7
    <3>3. \A i, j \in 1..(Len(then) - 1) : i < j =>
             \E x, y \in DOMAIN seen : x < y /\ then[i] = seen[x] /\ then[j] = seen[y]
      BY <2>6, <2>7, <2>8
    <3>4. QED BY <1>2, <2>5, <2>9, <2>10, <3>1, <3>2, <3>3 DEF Follows, seen, then
<1>4. CASE Len(q) < QueueSize
  <2> DEFINE d == Append(q, e)
  <2>1. /\ d \in Seq(S) /\ Len(d) = Len(q) + 1 /\ d[Len(q) + 1] = e
        /\ \A i \in 1..Len(q) : d[i] = q[i]
    BY AppendProperties
  <2>2. Delivered(q, e) = d
    BY <1>1, <1>4 DEF Delivered
  <2> HIDE DEF d
  <2>3. /\ then \in Seq(S) /\ Len(then) = Len(sent) + (Len(q) + 1)
        /\ \A i \in 1..(Len(sent) + (Len(q) + 1)) :
              then[i] = IF i <= Len(sent) THEN sent[i] ELSE d[i - Len(sent)]
    <3>1. then = sent \o d
      BY <2>2
    <3> HIDE DEF then
    <3>2. /\ sent \o d \in Seq(S) /\ Len(sent \o d) = Len(sent) + Len(d)
          /\ \A i \in 1..(Len(sent) + Len(d)) :
                (sent \o d)[i] = IF i <= Len(sent) THEN sent[i] ELSE d[i - Len(sent)]
      BY <2>1, ConcatProperties
    <3>3. Len(d) = Len(q) + 1
      BY <2>1
    <3>4. QED BY <3>1, <3>2, <3>3
  <2> HIDE DEF seen, then
  <2>4. ASSUME NEW i \in 1..(Len(then) - 1)
        PROVE  i \in 1..Len(seen) /\ then[i] = seen[i]
    <3>1. CASE i <= Len(sent)
      BY <1>1, <1>2, <2>3, <3>1
    <3>2. CASE i > Len(sent)
      <4>1. i \in 1..(Len(sent) + Len(q)) /\ i \in 1..(Len(sent) + (Len(q) + 1))
            /\ ~(i <= Len(sent)) /\ i - Len(sent) \in 1..Len(q)
        BY <1>1, <2>3, <3>2
      <4>2. then[i] = d[i - Len(sent)] /\ seen[i] = q[i - Len(sent)]
        BY <1>2, <2>3, <4>1
      <4>3. QED BY <1>2, <2>1, <4>1, <4>2
    <3>3. QED BY <1>1, <2>3, <3>1, <3>2
  <2>5. DOMAIN seen = 1..Len(seen)
    BY <1>2
  <2>6. then[Len(then)] = e /\ Len(then) > 0
    BY <1>1, <2>1, <2>3
  <2>7. ASSUME NEW k \in 1..(QueueSize - 1), k - 1 < Len(seen)
        PROVE  k < Len(then) /\ then[Len(then) - k] = seen[Len(seen) - (k - 1)]
    <3>1. Len(then) = Len(seen) + 1
      BY <1>1, <1>2, <2>3
    <3>2. Len(then) - k \in 1..(Len(then) - 1) /\ Len(then) - k = Len(seen) - (k - 1)
      BY <1>1, <1>2, <2>7, <3>1
    <3>3. QED BY <1>1, <1>2, <2>4, <2>7, <3>1, <3>2
  <2>8. Len(d) <= QueueSize
    BY <1>1, <1>4, <2>1
  <2>9. QED
    <3>1. Delivered(q, e) \in Seq(S) /\ Len(Delivered(q, e)) <= QueueSize
      BY <2>1, <2>2, <2>8
    <3>2. \A i \in 1..(Len(then) - 1) : \E x \in DOMAIN seen : then[i] = seen[x]
      BY <2>4, <2>5
    <3>3. \A i, j \in 1..(Len(then) - 1) : i < j =>
             \E x, y \in DOMAIN seen : x < y /\ then[i] = seen[x] /\ then[j] = seen[y]
      BY <2>4, <2>5
    <3>4. QED BY <1>2, <2>3, <2>6, <2>7, <3>1, <3>2, <3>3 DEF Follows, seen, then
<1>5. Len(q) = QueueSize \/ Len(q) < QueueSize
  BY <1>1
<1>6. QED BY <1>3, <1>4, <1>5, Zenon

\* Sending the oldest queued event does not change what a stream has seen.
LEMMA SeenOnSend ==
    ASSUME NEW S, NEW sent \in Seq(S), NEW q \in Seq(S), q # <<>>
    PROVE  LET seen == sent \o q
               then == Append(sent, Head(q))
           IN  /\ then \in Seq(S) /\ seen \in Seq(S) /\ Len(then) <= Len(seen)
               /\ \A i \in 1..Len(then) : then[i] = seen[i]
               /\ then \o Tail(q) = seen /\ then \o <<>> = then
<1> DEFINE seen == sent \o q
           then == Append(sent, Head(q))
<1>1. Len(sent) \in Nat /\ Len(q) \in Nat \ {0} /\ Head(q) = q[1]
  BY LenProperties, EmptySeq
<1>2. /\ Head(q) \in S /\ Tail(q) \in Seq(S) /\ Len(Tail(q)) = Len(q) - 1
      /\ \A i \in 1..(Len(q) - 1) : Tail(q)[i] = q[i + 1]
  BY HeadTailProperties
<1>3. /\ seen \in Seq(S) /\ Len(seen) = Len(sent) + Len(q)
      /\ \A i \in 1..(Len(sent) + Len(q)) :
            seen[i] = IF i <= Len(sent) THEN sent[i] ELSE q[i - Len(sent)]
  BY ConcatProperties
<1>4. /\ then \in Seq(S) /\ Len(then) = Len(sent) + 1
      /\ (\A i \in 1..Len(sent) : then[i] = sent[i]) /\ then[Len(sent) + 1] = Head(q)
  BY <1>2, AppendProperties
<1>5. then \o <<>> = then
  BY <1>4, ConcatEmptySeq
<1>6. /\ then \o Tail(q) \in Seq(S) /\ Len(then \o Tail(q)) = Len(sent) + Len(q)
      /\ \A i \in 1..(Len(sent) + Len(q)) :
            (then \o Tail(q))[i] = IF i <= Len(sent) + 1 THEN then[i] ELSE Tail(q)[i - (Len(sent) + 1)]
  BY <1>1, <1>2, <1>4, ConcatProperties
<1> HIDE DEF seen, then
<1>7. \A i \in 1..Len(then) : then[i] = seen[i]
  BY <1>1, <1>3, <1>4
<1>8. ASSUME NEW i \in 1..(Len(sent) + Len(q))
      PROVE  (then \o Tail(q))[i] = seen[i]
  <2>1. CASE i <= Len(sent) + 1
    BY <1>1, <1>4, <1>6, <1>7, <2>1
  <2>2. CASE i > Len(sent) + 1
    <3>1. i - (Len(sent) + 1) \in 1..(Len(q) - 1) /\ (i - (Len(sent) + 1)) + 1 = i - Len(sent)
      BY <1>1, <2>2
    <3>2. (then \o Tail(q))[i] = Tail(q)[i - (Len(sent) + 1)]
      BY <1>1, <1>6, <2>2
    <3>3. seen[i] = q[i - Len(sent)]
      BY <1>1, <1>3, <2>2
    <3>4. Tail(q)[i - (Len(sent) + 1)] = q[(i - (Len(sent) + 1)) + 1]
      BY <1>2, <3>1
    <3>5. QED BY <3>1, <3>2, <3>3, <3>4
  <2>3. i <= Len(sent) + 1 \/ i > Len(sent) + 1
    BY <1>1
  <2>4. QED BY <2>1, <2>2, <2>3, Zenon
<1>9. then \o Tail(q) = seen
  BY <1>3, <1>6, <1>8, SeqEqual
<1>10. QED BY <1>1, <1>3, <1>4, <1>5, <1>7, <1>9 DEF seen, then

-----------------------------------------------------------------------------
(* What the steps have in common *)

\* A call that changes its state is the only one that does.
LEMMA BecomesOne ==
    ASSUME TypeOK, NEW e \in DOMAIN calls, NEW st \in States, Becomes(e, st)
    PROVE  /\ calls' \in Seq(Call) /\ Len(calls') = Len(calls) /\ DOMAIN calls' = DOMAIN calls
           /\ Events' = Events
           /\ \A f \in DOMAIN calls : /\ calls'[f].caller = calls[f].caller
                                     /\ calls'[f].state = IF f = e THEN st ELSE calls[f].state
<1>1. calls \in Seq(Call) /\ DOMAIN calls = 1..Len(calls)
  BY DEF TypeOK, Call
<1>2. calls[e] \in Call
  BY <1>1
<1> DEFINE c == [calls[e] EXCEPT !.state = st]
<1>3. c \in Call /\ c.caller = calls[e].caller /\ c.state = st
  BY <1>2 DEF Call
<1>4. calls' = [calls EXCEPT ![e] = c]
  BY DEF Becomes
<1> HIDE DEF c
<1>5. /\ calls' \in Seq(Call) /\ Len(calls') = Len(calls)
      /\ \A f \in 1..Len(calls) : calls'[f] = IF f = e THEN c ELSE calls[f]
  BY <1>1, <1>3, <1>4, ExceptSeq
<1>6. QED BY <1>1, <1>3, <1>5 DEF Events

\* A new call is the last, and last in the queue.
LEMMA EnqueueOne ==
    ASSUME TypeOK, NEW caller \in Callers, Enqueue(caller)
    PROVE  LET n == Len(calls) + 1 IN
           /\ n \in Nat /\ n \notin DOMAIN calls
           /\ calls' \in Seq(Call) /\ Len(calls') = n /\ n <= MaxCalls
           /\ DOMAIN calls' = DOMAIN calls \cup {n}
           /\ \A f \in DOMAIN calls : calls'[f] = calls[f] /\ f < n
           /\ calls'[n].caller = caller /\ calls'[n].state = "queued"
           /\ queue' \in Seq(DOMAIN calls') /\ queue' # <<>>
           /\ Len(queue') = Len(queue) + 1 /\ queue'[Len(queue) + 1] = n
           /\ \A i \in 1..Len(queue) : queue'[i] = queue[i]
<1> DEFINE n == Len(calls) + 1
           c == [caller |-> caller, state |-> "queued"]
<1>1. calls \in Seq(Call) /\ queue \in Seq(DOMAIN calls) /\ Len(calls) \in Nat
      /\ DOMAIN calls = 1..Len(calls)
  BY DEF TypeOK, Call
<1>2. c \in Call /\ c.caller = caller /\ c.state = "queued"
  BY DEF Call, States
<1>3. Len(calls) < MaxCalls /\ calls' = Append(calls, c) /\ queue' = Append(queue, n)
  BY DEF Enqueue
<1> HIDE DEF c
<1>4. /\ calls' \in Seq(Call) /\ Len(calls') = n /\ calls'[n] = c
      /\ \A f \in 1..Len(calls) : calls'[f] = calls[f]
  BY <1>1, <1>2, <1>3, AppendProperties
<1>5. DOMAIN calls' = DOMAIN calls \cup {n} /\ n \in DOMAIN calls' /\ n \notin DOMAIN calls
      /\ n <= MaxCalls /\ n \in Nat /\ \A f \in DOMAIN calls : f < n
  BY <1>1, <1>3, <1>4, BoundsAssumption
<1>6. queue \in Seq(DOMAIN calls')
  BY <1>1, <1>5, SeqMonotonic
<1> HIDE DEF n
<1>7. /\ queue' \in Seq(DOMAIN calls') /\ queue' # <<>> /\ Len(queue') = Len(queue) + 1
      /\ queue'[Len(queue) + 1] = n /\ \A i \in 1..Len(queue) : queue'[i] = queue[i]
  BY <1>3, <1>5, <1>6, AppendProperties
<1>8. QED BY <1>1, <1>2, <1>4, <1>5, <1>7 DEF n

\* A file that grew: what it held is in it, in the same order.
Grown(old, new) ==
    /\ Elements(old) \subseteq Elements(new)
    /\ \A e, f : Before(old, e, f) => Before(new, e, f)

\* A line at the end of a file comes after every line it held.
LEMMA AppendGrows ==
    ASSUME NEW S, NEW d \in Seq(S), NEW e \in S
    PROVE  /\ Append(d, e) \in Seq(S) /\ Grown(d, Append(d, e)) /\ e \in Elements(Append(d, e))
           /\ \A f \in Elements(d) : Before(Append(d, e), f, e)
<1> DEFINE new == Append(d, e)
<1>1. /\ new \in Seq(S) /\ Len(new) = Len(d) + 1 /\ Len(d) \in Nat
      /\ new[Len(d) + 1] = e /\ \A i \in 1..Len(d) : new[i] = d[i]
  BY AppendProperties
<1>2. DOMAIN new = 1..(Len(d) + 1) /\ DOMAIN d = 1..Len(d)
  BY <1>1
<1> HIDE DEF new
<1>3. Len(d) + 1 \in DOMAIN new /\ \A i \in DOMAIN d :
         i \in DOMAIN new /\ i < Len(d) + 1 /\ new[i] = d[i]
  BY <1>1, <1>2
<1>4. Elements(d) \subseteq Elements(new) /\ e \in Elements(new)
  BY <1>1, <1>3 DEF Elements
<1>5. \A f, g : Before(d, f, g) => Before(new, f, g)
  BY <1>3 DEF Before
<1>6. \A f \in Elements(d) : Before(new, f, e)
  BY <1>1, <1>3 DEF Before, Elements
<1>7. QED BY <1>1, <1>4, <1>5, <1>6 DEF Grown, new

\* A file that does not change has grown as well.
LEMMA SameIsGrown == \A d : Grown(d, d)
BY DEF Grown

\* What is in the order of a file is in the order of one that grew from it.
LEMMA OrderOfGrown ==
    ASSUME NEW old, NEW new, Grown(old, new), NEW seen, InOrderOf(old, seen)
    PROVE  InOrderOf(new, seen)
BY DEF Grown, InOrderOf

\* A stream is given an event: either a transient one, or one whose line comes after
\* those of all it has seen.
LEMMA OrderOnDelivery ==
    ASSUME NEW S, NEW sent \in Seq(S), NEW q \in Seq(S), NEW e \in S, Len(q) <= QueueSize,
           NEW lines, InOrderOf(lines, sent \o q),
           e # Transient => e \in Elements(lines),
           e # Transient => \A x \in DOMAIN (sent \o q) :
               (sent \o q)[x] # Transient => Before(lines, (sent \o q)[x], e)
    PROVE  InOrderOf(lines, sent \o Delivered(q, e))
<1> DEFINE seen == sent \o q
           then == sent \o Delivered(q, e)
<1>1. /\ seen \in Seq(S) /\ then \in Seq(S) /\ Len(then) > 0 /\ then[Len(then)] = e
      /\ \A i \in 1..(Len(then) - 1) : \E x \in DOMAIN seen : then[i] = seen[x]
      /\ \A i, j \in 1..(Len(then) - 1) : i < j =>
            \E x, y \in DOMAIN seen : x < y /\ then[i] = seen[x] /\ then[j] = seen[y]
  <2>1. Follows(S, seen, then, e)
    BY SeenOnDelivery
  <2> HIDE DEF seen, then
  <2>2. QED BY <2>1 DEF Follows
<1>2. InOrderOf(lines, seen)
  OBVIOUS
<1>3. /\ e # Transient => e \in Elements(lines)
      /\ e # Transient => \A x \in DOMAIN seen : seen[x] # Transient => Before(lines, seen[x], e)
  OBVIOUS
<1> HIDE DEF seen, then
<1>4. /\ DOMAIN then = 1..Len(then) /\ Len(then) \in Nat
      /\ \A i \in DOMAIN then : i = Len(then) \/ i \in 1..(Len(then) - 1)
  BY <1>1
<1>5. ASSUME NEW i \in DOMAIN then, then[i] # Transient
      PROVE  then[i] \in Elements(lines)
  BY <1>1, <1>2, <1>3, <1>4, <1>5 DEF InOrderOf
<1>6. ASSUME NEW i \in DOMAIN then, NEW j \in DOMAIN then, i < j,
             then[i] # Transient, then[j] # Transient
      PROVE  Before(lines, then[i], then[j])
  <2>1. i \in 1..(Len(then) - 1)
    BY <1>4, <1>6
  <2>2. CASE j = Len(then)
    <3>1. PICK x \in DOMAIN seen : then[i] = seen[x]
      BY <1>1, <2>1
    <3>2. then[j] = e
      BY <1>1, <2>2
    <3>3. Before(lines, seen[x], e)
      BY <1>3, <1>6, <3>1, <3>2
    <3>4. QED BY <3>1, <3>2, <3>3
  <2>3. CASE j \in 1..(Len(then) - 1)
    <3>1. PICK x, y \in DOMAIN seen : x < y /\ then[i] = seen[x] /\ then[j] = seen[y]
      BY <1>1, <1>6, <2>1, <2>3
    <3>2. Before(lines, seen[x], seen[y])
      BY <1>2, <1>6, <3>1 DEF InOrderOf
    <3>3. QED BY <3>1, <3>2
  <2>4. QED BY <1>4, <2>2, <2>3
<1>7. InOrderOf(lines, then)
  BY <1>5, <1>6 DEF InOrderOf
<1>8. QED BY <1>7 DEF then

\* A stream is given the newest event: it keeps the newest.
LEMMA NewestOnDelivery ==
    ASSUME NEW S, NEW sent \in Seq(S), NEW q \in Seq(S), NEW e \in S, Len(q) <= QueueSize,
           NEW events \in Seq(S), NEW n \in 0..Len(events), HasNewest(sent \o q, events, n)
    PROVE  HasNewest(sent \o Delivered(q, e), Append(events, e), n)
<1> DEFINE seen == sent \o q
           then == sent \o Delivered(q, e)
           now == Append(events, e)
<1>1. /\ seen \in Seq(S) /\ then \in Seq(S) /\ Len(then) > 0 /\ then[Len(then)] = e
      /\ \A k \in 1..(QueueSize - 1) : k - 1 < Len(seen) =>
            k < Len(then) /\ then[Len(then) - k] = seen[Len(seen) - (k - 1)]
  <2>1. Follows(S, seen, then, e)
    BY SeenOnDelivery
  <2> HIDE DEF seen, then
  <2>2. QED BY <2>1 DEF Follows
<1>2. /\ now \in Seq(S) /\ Len(now) = Len(events) + 1 /\ Len(events) \in Nat
      /\ now[Len(events) + 1] = e /\ \A i \in 1..Len(events) : now[i] = events[i]
  BY AppendProperties
<1>3. HasNewest(seen, events, n)
  OBVIOUS
<1>4. QueueSize \in Nat /\ Len(then) \in Nat /\ Len(seen) \in Nat /\ n \in Nat
  BY <1>1, <1>2, BoundsAssumption
<1> HIDE DEF seen, then, now
<1>5. ASSUME NEW k \in 0..(QueueSize - 1), k < Len(now) - n
      PROVE  k < Len(then) /\ then[Len(then) - k] = now[Len(now) - k]
  <2>1. CASE k = 0
    BY <1>1, <1>2, <1>4, <2>1
  <2>2. CASE k \in 1..(QueueSize - 1)
    <3>1. k - 1 \in 0..(QueueSize - 1) /\ k - 1 < Len(events) - n
          /\ Len(now) - k = Len(events) - (k - 1) /\ Len(events) - (k - 1) \in 1..Len(events)
      BY <1>2, <1>4, <1>5, <2>2
    <3>2. k - 1 < Len(seen) /\ seen[Len(seen) - (k - 1)] = events[Len(events) - (k - 1)]
      BY <1>3, <3>1 DEF HasNewest
    <3>3. now[Len(now) - k] = events[Len(events) - (k - 1)]
      BY <1>2, <3>1
    <3>4. QED BY <1>1, <2>2, <3>2, <3>3
  <2>3. QED BY <1>4, <2>1, <2>2
<1>6. QED BY <1>5 DEF HasNewest, then, now

\* What is in order stays so when its last elements are forgotten.
LEMMA OrderOfPrefix ==
    ASSUME NEW S, NEW seen \in Seq(S), NEW then \in Seq(S), NEW lines, InOrderOf(lines, seen),
           Len(then) <= Len(seen), \A i \in 1..Len(then) : then[i] = seen[i]
    PROVE  InOrderOf(lines, then)
<1>1. \A i \in DOMAIN then : i \in DOMAIN seen /\ then[i] = seen[i]
  OBVIOUS
<1>2. QED BY <1>1 DEF InOrderOf

-----------------------------------------------------------------------------
(* The streams *)

Stream(events, n) == [on : BOOLEAN, queue : Seq(events), sent : Seq(events), since : 0..n]

\* The part of TypeOK about the bus.
BusTyped ==
    /\ published \in Seq(Events)
    /\ stream \in [Subscribers -> Stream(Events, Len(published))]
    /\ \A s \in Subscribers : Len(stream[s].queue) <= QueueSize

\* The part of TypeOK about the log.
LogTyped ==
    /\ calls \in Seq(Call) /\ Len(calls) <= MaxCalls
    /\ queue \in Seq(DOMAIN calls)
    /\ threads \subseteq DOMAIN calls
    /\ disk \in Seq(DOMAIN calls)
    /\ file \in Files
    /\ run \in {"playing", "finished", "failed"}

LEMMA TypeIsBoth == TypeOK <=> LogTyped /\ BusTyped
BY DEF TypeOK, LogTyped, BusTyped, Call, Stream

LEMMA TypeIsBothNext == TypeOK' <=> LogTyped' /\ BusTyped'
BY DEF TypeOK, LogTyped, BusTyped, Call, Stream, Events

\* A bus that nothing is published on keeps its types while calls are made.
LEMMA SameBus ==
    ASSUME BusTyped, UNCHANGED <<published, stream>>, Events \subseteq Events'
    PROVE  BusTyped'
<1>1. published' \in Seq(Events')
  BY SeqMonotonic DEF BusTyped
<1>2. ASSUME NEW s \in Subscribers
      PROVE  stream[s] \in Stream(Events', Len(published))
  <2>1. stream[s] \in Stream(Events, Len(published))
    BY DEF BusTyped
  <2>2. stream[s].queue \in Seq(Events') /\ stream[s].sent \in Seq(Events')
    BY <2>1, SeqMonotonic DEF Stream
  <2>3. QED BY <2>1, <2>2 DEF Stream
<1>3. stream' \in [Subscribers -> Stream(Events', Len(published'))]
  BY <1>2 DEF BusTyped
<1>4. QED BY <1>1, <1>3 DEF BusTyped

\* Streams that nothing is published to go on following the log.
LEMMA SameStreams ==
    ASSUME SeenIsPublished, StreamFollowsTheLog, UNCHANGED <<published, stream>>, Grown(disk, disk')
    PROVE  SeenIsPublished' /\ StreamFollowsTheLog'
<1>1. \A s \in Subscribers : Seen(s)' = Seen(s)
  BY DEF Seen
<1>2. SeenIsPublished'
  BY <1>1 DEF SeenIsPublished
<1>3. ASSUME NEW s \in Subscribers
      PROVE  /\ InOrderOf(disk', Seen(s)')
             /\ stream'[s].on => HasNewest(Seen(s)', published', stream'[s].since)
  <2>1. InOrderOf(disk, Seen(s)) /\ (stream[s].on => HasNewest(Seen(s), published, stream[s].since))
    BY DEF StreamFollowsTheLog
  <2>2. InOrderOf(disk', Seen(s))
    BY <2>1, OrderOfGrown
  <2>3. Seen(s)' = Seen(s) /\ stream'[s] = stream[s] /\ published' = published
    BY <1>1
  <2>4. QED BY <2>1, <2>2, <2>3
<1>4. StreamFollowsTheLog'
  BY <1>3 DEF StreamFollowsTheLog
<1>5. QED BY <1>2, <1>4

\* An event that is published after those whose lines come before its own, or a
\* transient one, keeps the streams in order.
LEMMA PublishOne ==
    ASSUME BusTyped, SeenIsPublished, StreamFollowsTheLog, NEW e \in Events, Publish(e),
           disk' = disk, Events' = Events,
           e # Transient => e \in Elements(disk),
           e # Transient => \A x \in Elements(published) : x # Transient => Before(disk, x, e)
    PROVE  /\ BusTyped' /\ SeenIsPublished' /\ StreamFollowsTheLog'
           /\ \A i \in DOMAIN published' : published'[i] = e \/ published'[i] \in Elements(published)
<1>1. /\ published' \in Seq(Events) /\ Len(published') = Len(published) + 1
      /\ published'[Len(published) + 1] = e /\ Len(published) \in Nat
      /\ \A i \in 1..Len(published) : published'[i] = published[i]
  BY AppendProperties DEF Publish, BusTyped
<1>2. DOMAIN published' = 1..(Len(published) + 1) /\ DOMAIN published = 1..Len(published)
  BY <1>1 DEF BusTyped
<1>3. /\ \A i \in DOMAIN published' : published'[i] = e \/ published'[i] \in Elements(published)
      /\ Elements(published) \cup {e} \subseteq Elements(published')
  <2>1. Len(published) + 1 \in DOMAIN published' /\ \A i \in DOMAIN published : i \in DOMAIN published'
    BY <1>1, <1>2
  <2>2. \A i \in DOMAIN published' : i = Len(published) + 1 \/ i \in DOMAIN published
    BY <1>1, <1>2
  <2>3. QED BY <1>1, <1>2, <2>1, <2>2 DEF Elements
<1>4. ASSUME NEW s \in Subscribers
      PROVE  /\ stream'[s] \in Stream(Events, Len(published')) /\ Len(stream'[s].queue) <= QueueSize
             /\ \A i \in DOMAIN Seen(s)' : Seen(s)'[i] \in Elements(published')
             /\ InOrderOf(disk, Seen(s)')
             /\ stream'[s].on => HasNewest(Seen(s)', published', stream'[s].since)
  <2> DEFINE q == stream[s].queue
             sent == stream[s].sent
  <2>1. /\ stream[s] \in Stream(Events, Len(published)) /\ Len(q) <= QueueSize
        /\ q \in Seq(Events) /\ sent \in Seq(Events) /\ stream[s].since \in 0..Len(published)
    BY DEF BusTyped, Stream
  <2>2. /\ InOrderOf(disk, sent \o q) /\ \A i \in DOMAIN (sent \o q) : (sent \o q)[i] \in Elements(published)
        /\ stream[s].on => HasNewest(sent \o q, published, stream[s].since)
    BY DEF StreamFollowsTheLog, SeenIsPublished, Seen
  <2>3. CASE stream[s].on
    <3>1. stream'[s] = [stream[s] EXCEPT !.queue = Delivered(q, e)]
      BY <2>3 DEF Publish
    <3>2. Delivered(q, e) \in Seq(Events) /\ Len(Delivered(q, e)) <= QueueSize
          /\ Follows(Events, sent \o q, sent \o Delivered(q, e), e)
      BY <2>1, SeenOnDelivery
    <3>3. /\ stream'[s].queue = Delivered(q, e) /\ stream'[s].sent = sent
          /\ stream'[s].since = stream[s].since /\ stream'[s].on = stream[s].on
          /\ stream'[s] \in Stream(Events, Len(published'))
      <4> HIDE DEF q
      <4>1. stream[s].since \in 0..Len(published')
        BY <1>1, <2>1
      <4>2. QED BY <2>1, <3>1, <3>2, <4>1 DEF Stream
    <3>4. Seen(s)' = sent \o Delivered(q, e)
      BY <3>3 DEF Seen
    <3> DEFINE seen == sent \o q
               then == sent \o Delivered(q, e)
    <3>5. \A x \in DOMAIN seen : seen[x] # Transient => (e # Transient => Before(disk, seen[x], e))
      BY <2>2
    <3>6. InOrderOf(disk, then)
      <4> HIDE DEF q, sent
      <4>1. QED BY <2>1, <2>2, <3>5, OrderOnDelivery
    <3>7. HasNewest(then, published', stream[s].since)
      <4>1. published' = Append(published, e) /\ published \in Seq(Events)
        BY DEF Publish, BusTyped
      <4> HIDE DEF q, sent
      <4>2. QED BY <2>1, <2>2, <2>3, <4>1, NewestOnDelivery
    <3>8. \A i \in DOMAIN then : then[i] \in Elements(published')
      <4>1. Follows(Events, seen, then, e) /\ \A x \in DOMAIN seen : seen[x] \in Elements(published')
        BY <1>3, <2>2, <3>2
      <4> HIDE DEF seen, then
      <4>2. \A i \in DOMAIN then : i = Len(then) \/ i \in 1..(Len(then) - 1)
        BY <4>1 DEF Follows
      <4>3. QED BY <1>3, <4>1, <4>2 DEF Follows
    <3> HIDE DEF q, sent, then
    <3>9. Seen(s)' = then
      BY <3>4 DEF then
    <3>10. QED BY <3>2, <3>3, <3>6, <3>7, <3>8, <3>9
  <2>4. CASE ~stream[s].on
    <3>1. stream'[s] = stream[s]
      BY <2>4 DEF Publish
    <3>2. Seen(s)' = Seen(s)
      BY <3>1 DEF Seen
    <3>3. stream[s] \in Stream(Events, Len(published'))
      BY <1>1, <2>1 DEF Stream
    <3>4. \A i \in DOMAIN Seen(s) : Seen(s)[i] \in Elements(published')
      BY <1>3 DEF SeenIsPublished
    <3>5. QED BY <2>1, <2>2, <2>4, <3>1, <3>2, <3>3, <3>4 DEF Seen
  <2>5. QED BY <2>3, <2>4
<1>5. stream' \in [Subscribers -> Stream(Events', Len(published'))]
  BY <1>4 DEF Publish
<1>6. BusTyped'
  BY <1>1, <1>4, <1>5 DEF BusTyped
<1>7. SeenIsPublished'
  BY <1>4 DEF SeenIsPublished
<1>8. StreamFollowsTheLog'
  BY <1>4 DEF StreamFollowsTheLog
<1>9. QED BY <1>3, <1>6, <1>7, <1>8

-----------------------------------------------------------------------------
(* The calls *)

LEMMA InitInv == Init => IInv
<1> SUFFICES ASSUME Init PROVE IInv
  OBVIOUS
<1>1. TypeOK
  BY BoundsAssumption, EmptySeq DEF Init, TypeOK, NoStream, Files, Events
<1>2. DOMAIN calls = {} /\ DOMAIN queue = {} /\ DOMAIN published = {}
  BY DEF Init
<1>3. \A s \in Subscribers : Seen(s) = <<>> /\ ~stream[s].on
  <2>1. <<>> \o <<>> = <<>>
    BY EmptySeq, ConcatEmptySeq
  <2>2. QED BY <2>1 DEF Init, Seen, NoStream
<1>4. DOMAIN <<>> = {}
  OBVIOUS
<1>5. Locked /\ OnDisk /\ EndsOnce
  BY <1>2 DEF Init, Locked, OnDisk, EndsOnce
<1>6. SeenIsPublished /\ StreamFollowsTheLog
  BY <1>3, <1>4 DEF SeenIsPublished, StreamFollowsTheLog, InOrderOf
<1>7. TheEndIsLast
  BY <1>2 DEF TheEndIsLast
<1>8. QED BY <1>1, <1>5, <1>6, <1>7 DEF IInv

\* A call that is made is last, and nothing else changes but, at the end, the run.
LEMMA CallMade ==
    ASSUME IInv, NEW caller \in Callers, Enqueue(caller),
           UNCHANGED <<threads, disk, file, published, stream>>,
           run' \in {"playing", "finished", "failed"},
           caller = "end" => run = "playing" /\ run' # "playing",
           caller # "end" => run' = run /\ run # "finished"
    PROVE  IInv'
<1> USE DEF IInv
<1> DEFINE n == Len(calls) + 1
<1>1. /\ n \in Nat /\ n \notin DOMAIN calls
      /\ calls' \in Seq(Call) /\ Len(calls') = n /\ n <= MaxCalls
      /\ DOMAIN calls' = DOMAIN calls \cup {n}
      /\ \A f \in DOMAIN calls : calls'[f] = calls[f] /\ f < n
      /\ calls'[n].caller = caller /\ calls'[n].state = "queued"
      /\ queue' \in Seq(DOMAIN calls') /\ queue' # <<>>
      /\ Len(queue') = Len(queue) + 1 /\ queue'[Len(queue) + 1] = n
      /\ \A i \in 1..Len(queue) : queue'[i] = queue[i]
  BY EnqueueOne
<1>2. LogTyped /\ BusTyped
  BY TypeIsBoth
<1> HIDE DEF n
<1>3. LogTyped'
  <2>1. disk' \in Seq(DOMAIN calls')
    BY <1>1, <1>2, SeqMonotonic DEF LogTyped
  <2>2. QED BY <1>1, <1>2, <2>1 DEF LogTyped
<1>4. BusTyped'
  BY <1>1, <1>2, SameBus DEF Events
<1>5. TypeOK'
  BY <1>3, <1>4, TypeIsBothNext
<1>6. /\ DOMAIN queue = 1..Len(queue) /\ DOMAIN queue' = 1..(Len(queue) + 1) /\ Len(queue) \in Nat
      /\ \A i \in DOMAIN queue : queue[i] \in DOMAIN calls
  BY <1>1, <1>2, ElementOfSeq DEF LogTyped
<1>7. Locked'
  <2>1. \A i, j \in DOMAIN queue' : i < j => queue'[i] < queue'[j]
    <3> SUFFICES ASSUME NEW i \in DOMAIN queue', NEW j \in DOMAIN queue', i < j
                 PROVE  queue'[i] < queue'[j]
      OBVIOUS
    <3>1. i \in 1..Len(queue) /\ queue'[i] = queue[i] /\ queue[i] < n
      BY <1>1, <1>6
    <3>2. CASE j = Len(queue) + 1
      BY <1>1, <3>1, <3>2
    <3>3. CASE j \in 1..Len(queue)
      BY <1>1, <1>6, <3>1, <3>3 DEF Locked
    <3>4. QED BY <1>6, <3>2, <3>3
  <2>2. Elements(queue') = Elements(queue) \cup {n}
    <3>1. \A i \in DOMAIN queue' : i = Len(queue) + 1 \/ i \in DOMAIN queue
      BY <1>6
    <3>2. \A i \in DOMAIN queue : i \in DOMAIN queue'
      BY <1>6
    <3>3. Len(queue) + 1 \in DOMAIN queue'
      BY <1>6
    <3>4. QED BY <1>1, <1>6, <3>1, <3>2, <3>3 DEF Elements
  <2>3. \A e \in DOMAIN calls' : calls'[e].state \in Waiting <=> e \in Elements(queue')
    BY <1>1, <1>6, <2>2 DEF Locked, Waiting, Elements
  <2>4. \A e \in DOMAIN calls' : calls'[e].state \in Holding => queue' # <<>> /\ e = queue'[1]
    <3> SUFFICES ASSUME NEW e \in DOMAIN calls', calls'[e].state \in Holding
                 PROVE  e = queue'[1]
      BY <1>1
    <3>1. e \in DOMAIN calls /\ calls[e].state \in Holding
      BY <1>1 DEF Holding
    <3>2. e = queue[1] /\ e \in Elements(queue)
      BY <3>1 DEF Locked, Holding, Waiting
    <3>3. 1 \in 1..Len(queue)
      BY <1>6, <3>2 DEF Elements
    <3>4. QED BY <1>1, <3>2, <3>3
  <2>5. \A e \in threads' : calls'[e].state \in {"writing", "cancelled"}
    BY <1>1, <1>2 DEF Locked, LogTyped
  <2>6. QED BY <2>1, <2>3, <2>4, <2>5 DEF Locked
<1>8. \A e \in DOMAIN calls' : calls'[e].state \in {"written", "logged", "refused", "failed"} => e \in DOMAIN calls
  BY <1>1
<1>9. OnDisk'
  <2>1. \A i \in DOMAIN published : published[i] # Transient => published[i] \in DOMAIN calls
    BY <1>2, ElementOfSeq DEF BusTyped, Events
  <2>2. QED BY <1>1, <1>8, <2>1 DEF OnDisk
<1>10. Ended => Ended'
  BY <1>1 DEF Ended
<1>11. EndsOnce'
  <2>1. CASE caller = "end"
    <3>1. (\A e \in DOMAIN calls : calls[e].caller # "end") /\ file = "open"
      BY <2>1 DEF EndsOnce, Ended
    <3>2. \A e \in DOMAIN calls' : calls'[e].caller = "end" => e = n
      BY <1>1, <3>1
    <3>3. QED BY <1>1, <1>8, <2>1, <3>1, <3>2 DEF EndsOnce
  <2>2. CASE caller # "end"
    <3>1. \A e \in DOMAIN calls' : calls'[e].caller = "end" => e \in DOMAIN calls /\ calls[e].caller = "end"
      BY <1>1, <2>2
    <3>2. QED BY <1>1, <1>8, <1>10, <2>2, <3>1 DEF EndsOnce
  <2>3. QED BY <2>1, <2>2
<1>12. SeenIsPublished' /\ StreamFollowsTheLog'
  BY SameStreams, SameIsGrown
<1>13. TheEndIsLast'
  <2> SUFFICES ASSUME NEW e \in DOMAIN calls', NEW f \in DOMAIN calls',
                      calls'[e].caller = "end", calls'[e].state \in {"written", "logged"},
                      f # e, calls'[f].state # "cancelled", f < e \/ run' = "finished"
               PROVE  Before(disk', f, e)
    BY DEF TheEndIsLast
  <2>1. e \in DOMAIN calls /\ calls[e].caller = "end" /\ calls[e].state \in {"written", "logged"}
    BY <1>1, <1>8
  <2>2. run' = run /\ run # "finished" /\ f < e
    BY <2>1 DEF EndsOnce
  <2>3. f \in DOMAIN calls
    <3>1. e \in Nat /\ e < n
      BY <1>1, <1>2, <2>1 DEF LogTyped
    <3>2. f # n
      BY <1>1, <2>2, <3>1
    <3>3. QED BY <1>1, <3>2
  <2>4. QED BY <1>1, <2>1, <2>2, <2>3 DEF TheEndIsLast
<1>14. QED BY <1>5, <1>7, <1>9, <1>11, <1>12, <1>13

LEMMA LogInv == ASSUME IInv, NEW caller \in Callers \ {"end"}, Log(caller) PROVE IInv'
BY CallMade DEF Log, IInv, TypeOK

LEMMA FinishInv == ASSUME IInv, Finish PROVE IInv'
<1>1. "end" \in Callers
  BY DEF Callers
<1>2. QED BY <1>1, CallMade DEF Finish

LEMMA FailInv == ASSUME IInv, Fail PROVE IInv'
<1>1. "end" \in Callers
  BY DEF Callers
<1>2. QED BY <1>1, CallMade DEF Fail

\* A call leaves the queue as it comes to its end.
LEMMA LeavesOne ==
    ASSUME TypeOK, Locked, NEW k \in DOMAIN queue, queue' = Without(queue, k),
           DOMAIN calls' = DOMAIN calls, UNCHANGED threads,
           calls'[queue[k]].state \notin Waiting,
           queue[k] \in threads => calls'[queue[k]].state = "cancelled",
           \A f \in DOMAIN calls : f # queue[k] => calls'[f].state = calls[f].state
    PROVE  Locked' /\ queue' \in Seq(DOMAIN calls)
<1> DEFINE e == queue[k]
           old(j) == IF j < k THEN j ELSE j + 1
<1>1. /\ queue \in Seq(DOMAIN calls) /\ Len(queue) \in Nat /\ DOMAIN queue = 1..Len(queue)
      /\ DOMAIN calls \subseteq Nat /\ threads \subseteq DOMAIN calls
      /\ \A i \in DOMAIN queue : queue[i] \in DOMAIN calls
  BY ElementOfSeq DEF TypeOK
<1>2. /\ queue' \in Seq(DOMAIN calls) /\ Len(queue') = Len(queue) - 1
      /\ \A j \in 1..(Len(queue) - 1) : queue'[j] = IF j < k THEN queue[j] ELSE queue[j + 1]
  <2>1. k \in 1..Len(queue)
    BY <1>1
  <2>2. /\ Without(queue, k) \in Seq(DOMAIN calls) /\ Len(Without(queue, k)) = Len(queue) - 1
        /\ \A j \in 1..(Len(queue) - 1) :
              Without(queue, k)[j] = IF j < k THEN queue[j] ELSE queue[j + 1]
    BY <1>1, <2>1, WithoutOne
  <2>3. QED BY <2>2, Zenon
<1>3. DOMAIN queue' = 1..(Len(queue) - 1) /\ k \in Nat
  BY <1>1, <1>2
<1>4. \A j \in DOMAIN queue' : old(j) \in DOMAIN queue /\ old(j) # k /\ queue'[j] = queue[old(j)]
  <2> TAKE j \in DOMAIN queue'
  <2>1. j \in 1..(Len(queue) - 1) /\ j \in Nat
    BY <1>1, <1>3
  <2>2. old(j) \in DOMAIN queue /\ old(j) # k
    BY <1>1, <1>3, <2>1
  <2>3. queue'[j] = IF j < k THEN queue[j] ELSE queue[j + 1]
    BY <1>2, <2>1
  <2>4. queue'[j] = queue[old(j)]
    BY <2>3, Zenon
  <2>5. QED BY <2>2, <2>4
<1>5. \A i, j \in DOMAIN queue' : i < j => old(i) < old(j)
  BY <1>3
<1>6. \A i, j \in DOMAIN queue : i # j => queue[i] # queue[j]
  <2>1. \A i, j \in DOMAIN queue : i < j => queue[i] < queue[j] /\ queue[i] \in Nat /\ queue[j] \in Nat
    BY <1>1 DEF Locked
  <2>2. \A i, j \in DOMAIN queue : i # j => i < j \/ j < i
    BY <1>1
  <2>3. \A x, y \in Nat : x < y => x # y
    OBVIOUS
  <2>4. QED BY <2>1, <2>2, <2>3
<1>7. \A i \in DOMAIN queue : i # k => \E j \in DOMAIN queue' : old(j) = i
  <2> SUFFICES ASSUME NEW i \in DOMAIN queue, i # k PROVE \E j \in DOMAIN queue' : old(j) = i
    OBVIOUS
  <2>1. CASE i < k
    BY <1>1, <1>3, <2>1
  <2>2. CASE i > k
    <3>1. i - 1 \in DOMAIN queue' /\ old(i - 1) = i
      BY <1>1, <1>3, <2>2
    <3>2. QED BY <3>1
  <2>3. QED BY <1>1, <1>3, <2>1, <2>2
<1> HIDE DEF old
<1>8. Elements(queue') = Elements(queue) \ {e}
  BY <1>4, <1>6, <1>7 DEF Elements
<1>9. \A i, j \in DOMAIN queue' : i < j => queue'[i] < queue'[j]
  BY <1>4, <1>5 DEF Locked
<1>10. \A f \in DOMAIN calls : calls'[f].state \in Waiting <=> f \in Elements(queue')
  BY <1>8 DEF Locked
<1>11. ASSUME NEW f \in DOMAIN calls, calls'[f].state \in Holding
       PROVE  queue' # <<>> /\ f = queue'[1]
  <2>1. f # e /\ calls[f].state \in Holding
    BY <1>11 DEF Holding, Waiting
  <2>2. f = queue[1]
    BY <2>1 DEF Locked
  <2>3. k > 1
    BY <1>1, <1>3, <2>1, <2>2
  <2>4. 1 \in 1..(Len(queue) - 1) /\ 1 < k
    BY <1>1, <1>3, <2>3
  <2>5. queue'[1] = queue[1]
    BY <1>2, <2>4, Zenon
  <2>6. 1 \in DOMAIN queue'
    BY <1>3, <2>4
  <2>7. QED BY <2>2, <2>5, <2>6
<1>12. \A f \in threads : calls'[f].state \in {"writing", "cancelled"}
  BY <1>1 DEF Locked
<1>13. QED BY <1>2, <1>9, <1>10, <1>11, <1>12 DEF Locked

LEMMA TailIsWithout ==
    ASSUME NEW S, NEW q \in Seq(S), q # <<>>
    PROVE  1 \in DOMAIN q /\ Head(q) = q[1] /\ Tail(q) = Without(q, 1)
<1>1. Len(q) \in Nat \ {0} /\ DOMAIN q = 1..Len(q) /\ Head(q) = q[1]
  BY LenProperties, EmptySeq
<1>2. /\ Tail(q) \in Seq(S) /\ Len(Tail(q)) = Len(q) - 1
      /\ \A i \in 1..(Len(q) - 1) : Tail(q)[i] = q[i + 1]
  BY HeadTailProperties
<1>3. 1 \in 1..Len(q)
  BY <1>1
<1>4. /\ Without(q, 1) \in Seq(S) /\ Len(Without(q, 1)) = Len(q) - 1
      /\ \A j \in 1..(Len(q) - 1) : Without(q, 1)[j] = IF j < 1 THEN q[j] ELSE q[j + 1]
  BY <1>3, WithoutOne
<1>5. \A j \in 1..(Len(q) - 1) : Without(q, 1)[j] = q[j + 1]
  <2>1. \A j \in 1..(Len(q) - 1) : ~(j < 1)
    BY <1>1
  <2>2. QED BY <1>4, <2>1
<1>6. \A j \in 1..(Len(q) - 1) : Tail(q)[j] = Without(q, 1)[j]
  BY <1>2, <1>5
<1>7. Tail(q) = Without(q, 1)
  BY <1>2, <1>4, <1>6, SeqEqual
<1>8. QED BY <1>1, <1>3, <1>7

\* The run ends once whatever state its other calls come to.
LEMMA SameEnds ==
    ASSUME EndsOnce, UNCHANGED <<run, file>>, DOMAIN calls' = DOMAIN calls, Len(calls') = Len(calls),
           \A e \in DOMAIN calls :
              /\ calls'[e].caller = calls[e].caller
              /\ calls[e].state = "logged" => calls'[e].state = "logged"
              /\ file = "open" /\ calls[e].state \notin {"refused", "failed"} =>
                     calls'[e].state \notin {"refused", "failed"}
    PROVE  EndsOnce'
<1>1. Ended => Ended'
  BY DEF Ended
<1>2. QED BY <1>1 DEF EndsOnce

\* The end stays last while no line is written at the end and no call is made.
LEMMA SameLast ==
    ASSUME TheEndIsLast, UNCHANGED run, DOMAIN calls' = DOMAIN calls, Grown(disk, disk'),
           \A e \in DOMAIN calls :
              /\ calls'[e].caller = calls[e].caller
              /\ calls'[e].caller = "end" /\ calls'[e].state \in {"written", "logged"} =>
                    calls[e].state \in {"written", "logged"}
              /\ calls[e].state = "cancelled" => calls'[e].state = "cancelled"
    PROVE  TheEndIsLast'
BY DEF TheEndIsLast, Grown

\* A call that is neither written nor logged as it changes says nothing of the file.
LEMMA SameDisk ==
    ASSUME IInv, NEW e \in DOMAIN calls, NEW st \in States \ {"written", "logged"}, Becomes(e, st),
           calls[e].state # "logged", UNCHANGED <<disk, published>>
    PROVE  OnDisk'
<1>1. /\ DOMAIN calls' = DOMAIN calls
      /\ \A f \in DOMAIN calls : calls'[f].state = IF f = e THEN st ELSE calls[f].state
  BY BecomesOne DEF IInv
<1>2. \A i \in DOMAIN published : published[i] # Transient => published[i] \in DOMAIN calls
  BY ElementOfSeq DEF IInv, TypeOK, Events
<1>3. QED BY <1>1, <1>2 DEF IInv, OnDisk

\* A call that changes its state without a word to the file or the bus.
LEMMA QuietChange ==
    ASSUME IInv, NEW e \in DOMAIN calls, NEW st \in {"writing", "failed", "cancelled"}, Becomes(e, st),
           calls[e].state \in Waiting, st = "failed" => file # "open",
           UNCHANGED <<disk, file, run, published, stream>>,
           queue' \in Seq(DOMAIN calls), threads' \subseteq DOMAIN calls, Locked'
    PROVE  IInv'
<1> USE DEF IInv
<1>1. st \in States \ {"written", "logged"}
  BY DEF States
<1>2. /\ calls' \in Seq(Call) /\ Len(calls') = Len(calls) /\ DOMAIN calls' = DOMAIN calls
      /\ Events' = Events
      /\ \A f \in DOMAIN calls : /\ calls'[f].caller = calls[f].caller
                                /\ calls'[f].state = IF f = e THEN st ELSE calls[f].state
  BY <1>1, BecomesOne
<1>3. TypeOK'
  <2>1. LogTyped /\ BusTyped
    BY TypeIsBoth
  <2>2. LogTyped'
    BY <1>2, <2>1 DEF LogTyped
  <2>3. BusTyped'
    BY <1>2, <2>1, SameBus
  <2>4. QED BY <2>2, <2>3, TypeIsBothNext
<1>4. OnDisk'
  BY <1>1, SameDisk DEF Waiting
<1>5. EndsOnce'
  BY <1>2, SameEnds DEF Waiting
<1>6. SeenIsPublished' /\ StreamFollowsTheLog'
  BY SameStreams, SameIsGrown
<1>7. TheEndIsLast'
  BY <1>2, SameLast, SameIsGrown DEF Waiting
<1>8. QED BY <1>3, <1>4, <1>5, <1>6, <1>7

LEMMA SubmitInv == ASSUME IInv, NEW e \in DOMAIN calls, Submit(e) PROVE IInv'
<1> USE DEF IInv
<1>1. queue \in Seq(DOMAIN calls) /\ queue # <<>> /\ e = Head(queue) /\ calls[e].state = "queued"
  BY DEF Submit, TypeOK
<1>2. 1 \in DOMAIN queue /\ queue[1] = e /\ Tail(queue) = Without(queue, 1)
  BY <1>1, TailIsWithout
<1>3. e \notin threads
  BY <1>1 DEF Locked
<1>4. CASE file = "gone"
  <2>1. queue' = Tail(queue) /\ Becomes(e, "failed") /\ UNCHANGED threads
    BY <1>4 DEF Submit
  <2>2. /\ DOMAIN calls' = DOMAIN calls
        /\ \A f \in DOMAIN calls : calls'[f].state = IF f = e THEN "failed" ELSE calls[f].state
    BY <2>1, BecomesOne DEF States
  <2>3. Locked' /\ queue' \in Seq(DOMAIN calls)
    BY <1>2, <1>3, <2>1, <2>2, LeavesOne DEF Waiting
  <2>4. QED BY <1>1, <1>4, <2>1, <2>3, QuietChange DEF Submit, TypeOK, Waiting
<1>5. CASE file # "gone"
  <2>1. threads' = threads \cup {e} /\ Becomes(e, "writing") /\ UNCHANGED queue
    BY <1>5 DEF Submit
  <2>2. /\ DOMAIN calls' = DOMAIN calls
        /\ \A f \in DOMAIN calls : calls'[f].state = IF f = e THEN "writing" ELSE calls[f].state
    BY <2>1, BecomesOne DEF States
  <2>3. e \in Elements(queue)
    BY <1>2 DEF Elements
  <2>4. Locked'
    <3>1. \A i, j \in DOMAIN queue' : i < j => queue'[i] < queue'[j]
      BY <2>1 DEF Locked
    <3>2. \A f \in DOMAIN calls' : calls'[f].state \in Waiting <=> f \in Elements(queue')
      BY <2>1, <2>2, <2>3 DEF Locked, Waiting, Elements
    <3>3. \A f \in DOMAIN calls' : calls'[f].state \in Holding => queue' # <<>> /\ f = queue'[1]
      BY <1>1, <1>2, <2>1, <2>2 DEF Locked
    <3>4. \A f \in threads' : calls'[f].state \in {"writing", "cancelled"}
      BY <2>1, <2>2 DEF Locked, TypeOK
    <3>5. QED BY <3>1, <3>2, <3>3, <3>4 DEF Locked
  <2>5. QED BY <1>1, <2>1, <2>4, QuietChange DEF Submit, TypeOK, Waiting
<1>6. QED BY <1>4, <1>5

LEMMA CancelInv == ASSUME IInv, NEW e \in DOMAIN calls, Cancel(e) PROVE IInv'
<1> USE DEF IInv
<1>1. PICK k \in DOMAIN queue : queue[k] = e /\ queue' = Without(queue, k)
  BY DEF Cancel
<1>2. Becomes(e, "cancelled") /\ UNCHANGED <<threads, disk, file, run, published, stream>>
  BY DEF Cancel
<1>3. calls[e].state \in Waiting
  BY <1>1 DEF Locked, Elements
<1>4. /\ DOMAIN calls' = DOMAIN calls
      /\ \A f \in DOMAIN calls : calls'[f].state = IF f = e THEN "cancelled" ELSE calls[f].state
  BY <1>2, BecomesOne DEF States
<1>5. Locked' /\ queue' \in Seq(DOMAIN calls)
  BY <1>1, <1>2, <1>4, LeavesOne DEF Waiting
<1>6. QED BY <1>2, <1>3, <1>5, QuietChange DEF TypeOK

LEMMA ReturnInv == ASSUME IInv, NEW e \in DOMAIN calls, Return(e) PROVE IInv'
<1> USE DEF IInv
<1>1. queue \in Seq(DOMAIN calls) /\ queue # <<>> /\ e = Head(queue)
      /\ calls[e].state \in {"written", "refused"}
  BY DEF Return, TypeOK
<1>2. 1 \in DOMAIN queue /\ queue[1] = e /\ Tail(queue) = Without(queue, 1)
  BY <1>1, TailIsWithout
<1>3. queue' = Tail(queue) /\ UNCHANGED <<threads, disk, file, run>> /\ e \notin threads
  BY <1>1 DEF Return, Locked
<1>4. ASSUME NEW st \in {"logged", "failed"}, Becomes(e, st)
      PROVE  Locked' /\ queue' \in Seq(DOMAIN calls)
  <2>1. /\ DOMAIN calls' = DOMAIN calls
        /\ \A f \in DOMAIN calls : calls'[f].state = IF f = e THEN st ELSE calls[f].state
    BY <1>4, BecomesOne DEF States
  <2>2. QED BY <1>2, <1>3, <2>1, LeavesOne DEF Waiting
<1>5. CASE calls[e].state = "written" /\ file \in {"open", "closing"}
  <2>1. Becomes(e, "logged") /\ Publish(e)
    BY <1>5 DEF Return
  <2>2. Locked' /\ queue' \in Seq(DOMAIN calls)
    BY <1>4, <2>1
  <2>3. /\ calls' \in Seq(Call) /\ Len(calls') = Len(calls) /\ DOMAIN calls' = DOMAIN calls
        /\ Events' = Events
        /\ \A f \in DOMAIN calls : /\ calls'[f].caller = calls[f].caller
                                  /\ calls'[f].state = IF f = e THEN "logged" ELSE calls[f].state
    BY <2>1, BecomesOne DEF States
  <2>4. LogTyped /\ BusTyped
    BY TypeIsBoth
  <2>5. LogTyped'
    BY <1>3, <2>2, <2>3, <2>4 DEF LogTyped
  <2>6. \A x \in Elements(published) : x # Transient =>
           x \in DOMAIN calls /\ calls[x].state = "logged" /\ Before(disk, x, e)
    <3>1. \A i \in DOMAIN published : published[i] # Transient => published[i] \in DOMAIN calls
      BY <2>4, ElementOfSeq DEF BusTyped, Events
    <3>2. QED BY <1>5, <3>1 DEF OnDisk, Elements
  <2>7. e \in Events /\ e \in Elements(disk)
    BY <1>5 DEF OnDisk, Events
  <2>8. /\ BusTyped' /\ SeenIsPublished' /\ StreamFollowsTheLog'
        /\ \A i \in DOMAIN published' : published'[i] = e \/ published'[i] \in Elements(published)
    BY <1>3, <2>1, <2>3, <2>4, <2>6, <2>7, PublishOne
  <2>9. OnDisk'
    <3>1. \A f \in DOMAIN calls' : calls'[f].state \in {"written", "logged"} => f \in Elements(disk')
      BY <1>3, <2>3, <2>7 DEF OnDisk
    <3>2. \A i \in DOMAIN published' : published'[i] # Transient => calls'[published'[i]].state = "logged"
      BY <2>3, <2>6, <2>8
    <3>3. ASSUME NEW f \in DOMAIN calls', NEW g \in DOMAIN calls',
                 calls'[f].state = "logged", calls'[g].state = "written"
          PROVE  Before(disk', f, g)
      <4>1. g # e /\ calls[g].state = "written"
        BY <2>3, <3>3
      <4>2. g = queue[1]
        BY <2>3, <4>1 DEF Locked, Holding
      <4>3. QED BY <1>2, <4>1, <4>2
    <3>4. QED BY <3>1, <3>2, <3>3 DEF OnDisk
  <2>10. EndsOnce'
    BY <1>3, <2>3, SameEnds
  <2>11. TheEndIsLast'
    BY <1>3, <1>5, <2>3, SameLast, SameIsGrown
  <2>12. QED BY <2>2, <2>5, <2>8, <2>9, <2>10, <2>11, TypeIsBothNext
<1>6. CASE ~(calls[e].state = "written" /\ file \in {"open", "closing"})
  <2>1. Becomes(e, "failed") /\ UNCHANGED <<published, stream>>
    BY <1>6 DEF Return
  <2>2. file # "open"
    BY <1>1, <1>6 DEF EndsOnce
  <2>3. Locked' /\ queue' \in Seq(DOMAIN calls)
    BY <1>4, <2>1
  <2>4. QED BY <1>1, <1>3, <2>1, <2>2, <2>3, QuietChange DEF Waiting, TypeOK
<1>7. QED BY <1>5, <1>6

\* A call that a runner gave up leaves its line in the file, and no more.
LEMMA OrphanWritten ==
    ASSUME IInv, NEW e \in DOMAIN calls, Write(e), calls[e].state = "cancelled",
           disk' \in Seq(DOMAIN calls), Grown(disk, disk')
    PROVE  IInv'
<1> USE DEF IInv
<1>1. UNCHANGED <<calls, queue, file, run, published, stream>> /\ threads' = threads \ {e}
  BY DEF Write
<1>2. TypeOK'
  <2>1. LogTyped /\ BusTyped
    BY TypeIsBoth
  <2>2. LogTyped'
    BY <1>1, <2>1 DEF LogTyped
  <2>3. BusTyped'
    BY <1>1, <2>1, SameBus DEF Events
  <2>4. QED BY <2>2, <2>3, TypeIsBothNext
<1>3. Locked'
  BY <1>1 DEF Locked, Elements
<1>4. OnDisk'
  BY <1>1 DEF OnDisk, Grown
<1>5. EndsOnce'
  BY <1>1 DEF EndsOnce, Ended
<1>6. SeenIsPublished' /\ StreamFollowsTheLog'
  BY <1>1, SameStreams
<1>7. TheEndIsLast'
  BY <1>1, SameLast
<1>8. QED BY <1>2, <1>3, <1>4, <1>5, <1>6, <1>7

\* The end is written after everything that was logged: whatever came before it in the
\* queue is over, and nothing has failed while the file is open.
LEMMA EndWritten ==
    ASSUME IInv, NEW e \in DOMAIN calls, calls[e].caller = "end", calls[e].state = "writing",
           NEW f \in DOMAIN calls, f # e, calls[f].state # "cancelled", f < e \/ run = "finished"
    PROVE  f \in Elements(disk)
<1> USE DEF IInv
<1>1. calls \in Seq(Call) /\ queue \in Seq(DOMAIN calls) /\ f \in Nat /\ e \in Nat /\ f <= Len(calls)
      /\ Len(calls) \in Nat /\ calls[f].state \in States
  <2>1. calls \in Seq(Call) /\ queue \in Seq(DOMAIN calls)
    BY DEF TypeOK, Call
  <2>2. DOMAIN calls = 1..Len(calls) /\ Len(calls) \in Nat /\ calls[f] \in Call
    BY <2>1
  <2>3. calls[f].state \in States
    BY <2>2 DEF Call
  <2>4. QED BY <2>1, <2>2, <2>3
<1>2. f < e
  BY <1>1 DEF EndsOnce
<1>3. f \notin Elements(queue)
  <2> SUFFICES ASSUME NEW i \in DOMAIN queue, queue[i] = f PROVE FALSE
    BY DEF Elements
  <2>1. e = queue[1]
    BY DEF Locked, Holding
  <2>2. i \in 1..Len(queue) /\ Len(queue) \in Nat /\ DOMAIN queue = 1..Len(queue)
    BY <1>1
  <2>3. i = 1 \/ (1 < i /\ 1 \in DOMAIN queue)
    BY <2>2
  <2>4. i = 1 \/ e < f
    BY <2>1, <2>3 DEF Locked
  <2>5. QED BY <1>1, <1>2, <2>1, <2>4
<1>4. calls[f].state \notin Waiting
  BY <1>3 DEF Locked
<1>5. ~Ended
  BY DEF Ended, EndsOnce
<1>6. file = "open"
  BY <1>5 DEF EndsOnce
<1>7. calls[f].state = "logged"
  BY <1>1, <1>4, <1>6 DEF EndsOnce, States, Waiting
<1>8. QED BY <1>7 DEF OnDisk

LEMMA WriteInv == ASSUME IInv, NEW e \in DOMAIN calls, Write(e) PROVE IInv'
<1> USE DEF IInv
<1>1. e \in threads /\ threads' = threads \ {e} /\ UNCHANGED <<queue, file, run, published, stream>>
      /\ calls[e].state \in {"writing", "cancelled"} /\ threads \subseteq DOMAIN calls
  BY DEF Write, Locked, TypeOK
<1>2. disk \in Seq(DOMAIN calls)
  BY DEF TypeOK
<1>3. /\ disk' \in Seq(DOMAIN calls) /\ Grown(disk, disk')
      /\ file \in {"open", "closing"} =>
             e \in Elements(disk') /\ \A f \in Elements(disk) : Before(disk', f, e)
  <2>1. CASE file \in {"open", "closing"}
    <3>1. disk' = Append(disk, e)
      BY <2>1 DEF Write
    <3>2. QED BY <1>2, <3>1, AppendGrows, Zenon
  <2>2. CASE file \notin {"open", "closing"}
    BY <1>2, <2>2, SameIsGrown DEF Write
  <2>3. QED BY <2>1, <2>2
<1>4. CASE calls[e].state = "cancelled"
  BY <1>3, <1>4, OrphanWritten
<1>5. CASE calls[e].state = "writing"
  <2> DEFINE st == IF file \in {"open", "closing"} THEN "written" ELSE "refused"
  <2>1. Becomes(e, st) /\ st \in States
    BY <1>5 DEF Write, States
  <2>2. st \in {"written", "refused"} /\ (st = "refused" => file # "open")
        /\ (st = "written" => e \in Elements(disk') /\ \A f \in Elements(disk) : Before(disk', f, e))
    BY <1>3
  <2> HIDE DEF st
  <2>3. /\ calls' \in Seq(Call) /\ Len(calls') = Len(calls) /\ DOMAIN calls' = DOMAIN calls
        /\ Events' = Events
        /\ \A f \in DOMAIN calls : /\ calls'[f].caller = calls[f].caller
                                  /\ calls'[f].state = IF f = e THEN st ELSE calls[f].state
    BY <2>1, BecomesOne
  <2>4. LogTyped /\ BusTyped
    BY TypeIsBoth
  <2>5. LogTyped'
    BY <1>1, <1>3, <2>3, <2>4 DEF LogTyped
  <2>6. BusTyped'
    BY <1>1, <2>3, <2>4, SameBus
  <2>7. queue # <<>> /\ queue[1] = e /\ e \in Elements(queue)
    BY <1>5 DEF Locked, Holding, Waiting
  <2>8. Locked'
    <3>1. \A i, j \in DOMAIN queue' : i < j => queue'[i] < queue'[j]
      BY <1>1 DEF Locked
    <3>2. \A f \in DOMAIN calls' : calls'[f].state \in Waiting <=> f \in Elements(queue')
      BY <1>1, <2>2, <2>3, <2>7 DEF Locked, Waiting, Elements
    <3>3. \A f \in DOMAIN calls' : calls'[f].state \in Holding => queue' # <<>> /\ f = queue'[1]
      BY <1>1, <2>3, <2>7 DEF Locked
    <3>4. \A f \in threads' : calls'[f].state \in {"writing", "cancelled"}
      BY <1>1, <2>3 DEF Locked
    <3>5. QED BY <3>1, <3>2, <3>3, <3>4 DEF Locked
  <2>9. OnDisk'
    <3>1. \A f \in DOMAIN calls' : calls'[f].state \in {"written", "logged"} => f \in Elements(disk')
      BY <1>3, <2>2, <2>3 DEF OnDisk, Grown
    <3>2. \A i \in DOMAIN published' : published'[i] # Transient => calls'[published'[i]].state = "logged"
      <4>1. \A i \in DOMAIN published : published[i] # Transient => published[i] \in DOMAIN calls
        BY <2>4, ElementOfSeq DEF BusTyped, Events
      <4>2. QED BY <1>1, <1>5, <2>3, <4>1 DEF OnDisk
    <3>3. ASSUME NEW f \in DOMAIN calls', NEW g \in DOMAIN calls',
                 calls'[f].state = "logged", calls'[g].state = "written"
          PROVE  Before(disk', f, g)
      <4>1. f # e /\ calls[f].state = "logged"
        BY <2>2, <2>3, <3>3
      <4>2. CASE g = e
        <5>1. f \in Elements(disk) /\ st = "written"
          BY <2>3, <3>3, <4>1, <4>2 DEF OnDisk
        <5>2. QED BY <2>2, <4>2, <5>1
      <4>3. CASE g # e
        BY <1>3, <2>3, <3>3, <4>1, <4>3 DEF OnDisk, Grown
      <4>4. QED BY <4>2, <4>3
    <3>4. QED BY <3>1, <3>2, <3>3 DEF OnDisk
  <2>10. EndsOnce'
    BY <1>1, <1>5, <2>2, <2>3, SameEnds
  <2>11. SeenIsPublished' /\ StreamFollowsTheLog'
    BY <1>1, <1>3, SameStreams
  <2>12. TheEndIsLast'
    <3> SUFFICES ASSUME NEW g \in DOMAIN calls, NEW f \in DOMAIN calls,
                        calls[g].caller = "end", calls'[g].state \in {"written", "logged"},
                        f # g, calls'[f].state # "cancelled", f < g \/ run = "finished"
                 PROVE  Before(disk', f, g)
      BY <1>1, <2>3 DEF TheEndIsLast
    <3>1. calls[f].state # "cancelled"
      BY <1>5, <2>3
    <3>2. CASE g = e
      <4>1. f \in Elements(disk) /\ st = "written"
        BY <1>5, <2>2, <2>3, <3>1, <3>2, EndWritten
      <4>2. QED BY <2>2, <3>2, <4>1
    <3>3. CASE g # e
      BY <1>3, <2>3, <3>1, <3>3 DEF TheEndIsLast, Grown
    <3>4. QED BY <3>2, <3>3
  <2>13. QED BY <2>5, <2>6, <2>8, <2>9, <2>10, <2>11, <2>12, TypeIsBothNext
<1>6. QED BY <1>1, <1>4, <1>5

-----------------------------------------------------------------------------
(* The file and the bus *)

\* The file is closed once the end is logged.
LEMMA FileInv == ASSUME IInv, Close \/ CloseFile \/ Forget PROVE IInv'
<1> USE DEF IInv
<1>1. /\ UNCHANGED <<calls, queue, threads, disk, run, published, stream>>
      /\ file' \in Files /\ file' # "open" /\ Ended
  BY DEF Close, CloseFile, Forget, Files, EndsOnce
<1>2. TypeOK'
  BY <1>1 DEF TypeOK, Events
<1>3. Locked' /\ OnDisk'
  BY <1>1 DEF Locked, OnDisk, Elements
<1>4. EndsOnce'
  BY <1>1 DEF EndsOnce, Ended
<1>5. SeenIsPublished' /\ StreamFollowsTheLog'
  BY <1>1, SameStreams, SameIsGrown
<1>6. TheEndIsLast'
  BY <1>1 DEF TheEndIsLast
<1>7. QED BY <1>2, <1>3, <1>4, <1>5, <1>6

\* What the log keeps is not disturbed by the bus.
LEMMA SameLog ==
    ASSUME IInv, UNCHANGED <<calls, queue, threads, disk, file, run>>, BusTyped',
           \A i \in DOMAIN published' : published'[i] # Transient => published'[i] \in Elements(published)
    PROVE  TypeOK' /\ Locked' /\ OnDisk' /\ EndsOnce' /\ TheEndIsLast'
<1> USE DEF IInv
<1>1. TypeOK'
  BY TypeIsBoth, TypeIsBothNext DEF LogTyped
<1>2. Locked' /\ OnDisk'
  BY DEF Locked, OnDisk, Elements
<1>3. EndsOnce' /\ TheEndIsLast'
  BY DEF EndsOnce, Ended, TheEndIsLast
<1>4. QED BY <1>1, <1>2, <1>3

LEMMA TransientInv == ASSUME IInv, PublishTransient PROVE IInv'
<1> USE DEF IInv
<1>1. UNCHANGED <<calls, queue, threads, disk, file, run>> /\ Publish(Transient)
  BY DEF PublishTransient
<1>2. BusTyped /\ Transient \in Events /\ Events' = Events
  BY <1>1, TypeIsBoth DEF Events
<1>3. /\ BusTyped' /\ SeenIsPublished' /\ StreamFollowsTheLog'
      /\ \A i \in DOMAIN published' : published'[i] = Transient \/ published'[i] \in Elements(published)
  BY <1>1, <1>2, PublishOne
<1>4. QED BY <1>1, <1>3, SameLog

\* One stream changes, and what it has seen stays in order.
LEMMA OneStream ==
    ASSUME IInv, NEW s \in Subscribers, NEW r \in Stream(Events, Len(published)),
           stream' = [stream EXCEPT ![s] = r],
           UNCHANGED <<calls, queue, threads, disk, file, run, published>>,
           Len(r.queue) <= QueueSize, InOrderOf(disk, r.sent \o r.queue),
           \A i \in DOMAIN (r.sent \o r.queue) : (r.sent \o r.queue)[i] \in Elements(published),
           r.on => HasNewest(r.sent \o r.queue, published, r.since)
    PROVE  IInv'
<1> USE DEF IInv
<1>1. BusTyped
  BY TypeIsBoth
<1>2. \A t \in Subscribers : stream'[t] = IF t = s THEN r ELSE stream[t]
  BY <1>1 DEF BusTyped
<1>3. stream' \in [Subscribers -> Stream(Events', Len(published'))]
  BY <1>1 DEF BusTyped, Events
<1>4. BusTyped'
  BY <1>1, <1>2, <1>3 DEF BusTyped, Events
<1>5. \A i \in DOMAIN published' : published'[i] # Transient => published'[i] \in Elements(published)
  BY DEF Elements
<1>6. ASSUME NEW t \in Subscribers
      PROVE  /\ \A i \in DOMAIN Seen(t)' : Seen(t)'[i] \in Elements(published)
             /\ InOrderOf(disk, Seen(t)')
             /\ stream'[t].on => HasNewest(Seen(t)', published, stream'[t].since)
  <2>1. CASE t = s
    <3>1. Seen(t)' = r.sent \o r.queue
      BY <1>2, <2>1 DEF Seen
    <3>2. QED BY <1>2, <2>1, <3>1
  <2>2. CASE t # s
    <3>1. Seen(t)' = Seen(t) /\ stream'[t] = stream[t]
      BY <1>2, <2>2 DEF Seen
    <3>2. QED BY <3>1 DEF SeenIsPublished, StreamFollowsTheLog
  <2>3. QED BY <2>1, <2>2
<1>7. SeenIsPublished' /\ StreamFollowsTheLog'
  BY <1>6 DEF SeenIsPublished, StreamFollowsTheLog
<1>8. QED BY <1>4, <1>5, <1>7, SameLog

\* A stream that is opened, or is gone, has seen nothing.
LEMMA SubscribeInv == ASSUME IInv, NEW s \in Subscribers, Subscribe(s) \/ Disconnect(s) PROVE IInv'
<1> USE DEF IInv
<1>1. PICK r \in {NoStream, [NoStream EXCEPT !.on = TRUE, !.since = Len(published)]} :
         stream' = [stream EXCEPT ![s] = r]
  BY DEF Subscribe, Disconnect
<1>2. /\ UNCHANGED <<calls, queue, threads, disk, file, run, published>>
      /\ Len(published) \in Nat /\ QueueSize \in Nat
  <2>1. published \in Seq(Events)
    BY DEF TypeOK
  <2>2. QED BY <2>1, BoundsAssumption DEF Subscribe, Disconnect
<1>3. r.queue = <<>> /\ r.sent = <<>> /\ r \in Stream(Events, Len(published))
      /\ (r.on => r.since = Len(published))
  <2>1. /\ NoStream.queue = <<>> /\ NoStream.sent = <<>> /\ NoStream.on = FALSE
        /\ <<>> \in Seq(Events) /\ 0 \in 0..Len(published) /\ Len(published) \in 0..Len(published)
    BY <1>2, EmptySeq DEF NoStream
  <2>2. CASE r = NoStream
    BY <2>1, <2>2 DEF NoStream, Stream
  <2>3. CASE r = [NoStream EXCEPT !.on = TRUE, !.since = Len(published)]
    <3>1. r = [on |-> TRUE, queue |-> <<>>, sent |-> <<>>, since |-> Len(published)]
      BY <2>3 DEF NoStream
    <3>2. QED BY <2>1, <3>1 DEF Stream
  <2>4. QED BY <2>2, <2>3
<1>4. r.sent \o r.queue = <<>> /\ DOMAIN <<>> = {} /\ Len(<<>>) = 0
  BY <1>3, EmptySeq, ConcatEmptySeq
<1>5. InOrderOf(disk, <<>>)
  BY <1>4 DEF InOrderOf
<1>6. HasNewest(<<>>, published, Len(published))
  BY <1>2 DEF HasNewest
<1>7. Len(r.queue) <= QueueSize
  BY <1>2, <1>3, <1>4
<1>8. /\ InOrderOf(disk, r.sent \o r.queue)
      /\ \A i \in DOMAIN (r.sent \o r.queue) : (r.sent \o r.queue)[i] \in Elements(published)
      /\ r.on => HasNewest(r.sent \o r.queue, published, r.since)
  BY <1>3, <1>4, <1>5, <1>6
<1>9. QED BY <1>1, <1>2, <1>3, <1>7, <1>8, OneStream

LEMMA StreamAfter ==
    ASSUME NEW S, NEW n, NEW r \in Stream(S, n),
           NEW sent \in Seq(S), NEW q \in Seq(S), NEW on \in BOOLEAN
    PROVE  [r EXCEPT !.sent = sent, !.queue = q, !.on = on] \in Stream(S, n)
BY DEF Stream

LEMMA SendInv == ASSUME IInv, NEW s \in Subscribers, Send(s) PROVE IInv'
<1> USE DEF IInv
<1> DEFINE q == stream[s].queue
           sent == stream[s].sent
           e == Head(q)
           r == [stream[s] EXCEPT !.sent = Append(@, e),
                                  !.queue = IF IsEnd(e) THEN <<>> ELSE Tail(@),
                                  !.on = ~IsEnd(e)]
<1>1. /\ q # <<>> /\ stream[s].on /\ stream' = [stream EXCEPT ![s] = r]
      /\ UNCHANGED <<calls, queue, threads, disk, file, run, published>>
  BY DEF Send
<1>2. /\ stream[s] \in Stream(Events, Len(published)) /\ Len(q) <= QueueSize
      /\ q \in Seq(Events) /\ sent \in Seq(Events)
  BY TypeIsBoth DEF BusTyped, Stream
<1>3. /\ InOrderOf(disk, sent \o q) /\ \A i \in DOMAIN (sent \o q) : (sent \o q)[i] \in Elements(published)
      /\ HasNewest(sent \o q, published, stream[s].since)
  BY <1>1 DEF StreamFollowsTheLog, SeenIsPublished, Seen
<1>4. /\ r.sent = Append(sent, e) /\ r.queue = (IF IsEnd(e) THEN <<>> ELSE Tail(q))
      /\ r.on = ~IsEnd(e) /\ r.since = stream[s].since
  BY <1>2 DEF Stream
<1>5. /\ Tail(q) \in Seq(Events) /\ Len(Tail(q)) = Len(q) - 1 /\ Len(q) \in Nat /\ QueueSize \in Nat
  BY <1>1, <1>2, HeadTailProperties, LenProperties, BoundsAssumption
<1>6. /\ Append(sent, e) \in Seq(Events) /\ sent \o q \in Seq(Events)
      /\ Len(Append(sent, e)) <= Len(sent \o q)
      /\ \A i \in 1..Len(Append(sent, e)) : Append(sent, e)[i] = (sent \o q)[i]
      /\ Append(sent, e) \o Tail(q) = sent \o q /\ Append(sent, e) \o <<>> = Append(sent, e)
  <2>1. q \in Seq(Events) /\ sent \in Seq(Events) /\ q # <<>>
    BY <1>1, <1>2
  <2> HIDE DEF q, sent
  <2>2. QED BY ONLY <2>1, SeenOnSend DEF e
<1>7. r \in Stream(Events, Len(published)) /\ Len(r.queue) <= QueueSize
  <2>1. <<>> \in Seq(Events) /\ Len(<<>>) = 0
    BY EmptySeq
  <2>2. (IF IsEnd(e) THEN <<>> ELSE Tail(q)) \in Seq(Events)
        /\ Len(IF IsEnd(e) THEN <<>> ELSE Tail(q)) <= QueueSize
    BY <1>2, <1>5, <2>1
  <2>3. stream[s] \in Stream(Events, Len(published)) /\ Append(sent, e) \in Seq(Events)
    BY <1>2, <1>6
  <2>4. r \in Stream(Events, Len(published))
    <3> DEFINE sent1 == Append(sent, e)
               queue1 == IF IsEnd(e) THEN <<>> ELSE Tail(q)
               on1 == ~IsEnd(e)
    <3>1. r = [stream[s] EXCEPT !.sent = sent1, !.queue = queue1, !.on = on1]
      OBVIOUS
    <3>2. sent1 \in Seq(Events) /\ queue1 \in Seq(Events) /\ on1 \in BOOLEAN
      BY <2>2, <2>3
    <3> HIDE DEF r, q, sent, e, sent1, queue1, on1
    <3>3. QED BY <2>3, <3>1, <3>2, StreamAfter
  <2>5. QED BY <1>4, <2>2, <2>4
<1>8. CASE IsEnd(e)
  <2>1. r.sent \o r.queue = Append(sent, e) /\ ~r.on
    BY <1>4, <1>6, <1>8
  <2>2. InOrderOf(disk, Append(sent, e))
    <3> DEFINE then == Append(sent, e)
               seen == sent \o q
    <3>1. /\ then \in Seq(Events) /\ seen \in Seq(Events) /\ Len(then) <= Len(seen)
          /\ InOrderOf(disk, seen) /\ \A i \in 1..Len(then) : then[i] = seen[i]
      BY <1>3, <1>6
    <3> HIDE DEF then, seen
    <3>2. InOrderOf(disk, then)
      BY <3>1, OrderOfPrefix
    <3>3. QED BY <3>2 DEF then
  <2>3. \A i \in DOMAIN Append(sent, e) : Append(sent, e)[i] \in Elements(published)
    <3> DEFINE then == Append(sent, e)
               seen == sent \o q
    <3>1. then \in Seq(Events) /\ seen \in Seq(Events) /\ Len(then) <= Len(seen)
      BY <1>6
    <3>2. \A i \in 1..Len(then) : then[i] = seen[i]
      BY <1>6
    <3>3. \A i \in DOMAIN seen : seen[i] \in Elements(published)
      BY <1>3
    <3> HIDE DEF then, seen
    <3>4. \A i \in DOMAIN then : then[i] \in Elements(published)
      BY <3>1, <3>2, <3>3
    <3>5. QED BY <3>4 DEF then
  <2> HIDE DEF r, q, sent, e
  <2>4. /\ InOrderOf(disk, r.sent \o r.queue)
        /\ \A i \in DOMAIN (r.sent \o r.queue) : (r.sent \o r.queue)[i] \in Elements(published)
    BY <2>1, <2>2, <2>3
  <2>5. QED BY <1>1, <1>7, <2>1, <2>4, OneStream
<1>9. CASE ~IsEnd(e)
  <2>1. r.sent \o r.queue = sent \o q /\ r.since = stream[s].since
    BY <1>4, <1>6, <1>9
  <2> HIDE DEF r, q, sent, e
  <2>2. /\ InOrderOf(disk, r.sent \o r.queue)
        /\ \A i \in DOMAIN (r.sent \o r.queue) : (r.sent \o r.queue)[i] \in Elements(published)
        /\ HasNewest(r.sent \o r.queue, published, r.since)
    BY <1>3, <2>1
  <2>3. QED BY <1>1, <1>7, <2>2, OneStream
<1>10. QED BY <1>8, <1>9

-----------------------------------------------------------------------------
(* The theorems *)

LEMMA NextInv == ASSUME IInv, [Next]_vars PROVE IInv'
<1>1. CASE \E caller \in Callers \ {"end"} : Log(caller)
  BY <1>1, LogInv
<1>2. CASE \E e \in DOMAIN calls : Submit(e) \/ Write(e) \/ Return(e) \/ Cancel(e)
  BY <1>2, SubmitInv, WriteInv, ReturnInv, CancelInv
<1>3. CASE Finish \/ Fail \/ Close \/ CloseFile \/ Forget
  BY <1>3, FinishInv, FailInv, FileInv
<1>4. CASE PublishTransient
  BY <1>4, TransientInv
<1>5. CASE \E s \in Subscribers : Subscribe(s) \/ Send(s) \/ Disconnect(s)
  BY <1>5, SubscribeInv, SendInv
<1>6. CASE UNCHANGED vars
  <2> USE DEF IInv
  <2>1. BusTyped'
    BY <1>6, TypeIsBoth, SameBus DEF vars, Events
  <2>2. \A i \in DOMAIN published' : published'[i] # Transient => published'[i] \in Elements(published)
    BY <1>6 DEF vars, Elements
  <2>3. UNCHANGED <<calls, queue, threads, disk, file, run, published, stream>>
    BY <1>6 DEF vars
  <2>4. QED BY <2>1, <2>2, <2>3, SameLog, SameStreams, SameIsGrown
<1>7. QED BY <1>1, <1>2, <1>3, <1>4, <1>5, <1>6 DEF Next

THEOREM Invariant == Spec => []IInv
<1>1. Init => IInv
  BY InitInv
<1>2. IInv /\ [Next]_vars => IInv'
  BY NextInv
<1>3. QED BY <1>1, <1>2, PTL DEF Spec

\* Every variable of the log, the bus and its streams keeps its type, and no stream
\* queues more than QueueSize events, however slow its client.
THEOREM LogIsTyped == Spec => []TypeOK
BY Invariant, PTL DEF IInv

\* What any number of streams send and hold is in the file, in its order, and none of
\* them loses one of the newest events: with calls that are cancelled while they write,
\* and writes that fail.
THEOREM StreamsFollowTheLog == Spec => []StreamFollowsTheLog
BY Invariant, PTL DEF IInv

\* The end of the run is written after every call that was made before it, whoever
\* made it, unless that call was cancelled.
THEOREM TheEndComesLast == Spec => []TheEndIsLast
BY Invariant, PTL DEF IInv

-----------------------------------------------------------------------------
(* The lock *)

\* What is being written is with the executor.
Working == \A e \in DOMAIN calls : calls[e].state = "writing" => e \in threads

\* A call that moves to another state, with nobody else leaving the executor.
LEMMA MovesOne ==
    ASSUME Working, TypeOK, NEW e \in DOMAIN calls, NEW state, Becomes(e, state),
           state = "writing" => e \in threads', threads \ {e} \subseteq threads'
    PROVE  Working'
<1>1. calls \in Seq(Call) /\ DOMAIN calls' = DOMAIN calls
  BY DEF TypeOK, Call, Becomes
<1>2. /\ calls'[e].state = state
      /\ \A f \in DOMAIN calls \ {e} : calls'[f] = calls[f]
  <2>1. calls[e] \in Call
    BY <1>1, ElementOfSeq
  <2>2. calls' = [calls EXCEPT ![e] = [calls[e] EXCEPT !.state = state]]
    BY DEF Becomes
  <2>3. QED BY <2>1, <2>2 DEF Call
<1>3. QED BY <1>1, <1>2 DEF Working

LEMMA NextWorks == TypeOK /\ Working /\ [Next]_vars => Working'
<1> SUFFICES ASSUME TypeOK, Working, [Next]_vars PROVE Working'
  OBVIOUS
<1>1. ASSUME UNCHANGED <<calls, threads>> PROVE Working'
  BY <1>1 DEF Working
<1>2. ASSUME NEW caller \in Callers, Enqueue(caller), UNCHANGED threads PROVE Working'
  <2>1. calls \in Seq(Call) /\ Len(calls) \in Nat
    BY LenProperties DEF TypeOK, Call
  <2>2. /\ calls' = Append(calls, [caller |-> caller, state |-> "queued"])
        /\ [caller |-> caller, state |-> "queued"] \in Call
    BY <1>2 DEF Enqueue, Call, States
  <2>3. \A f \in DOMAIN calls' : calls'[f].state = "queued" \/ (f \in DOMAIN calls /\ calls'[f] = calls[f])
    BY <2>1, <2>2, AppendProperties
  <2>4. QED BY <1>2, <2>3 DEF Working
<1>3. ASSUME NEW e \in DOMAIN calls, Submit(e) PROVE Working'
  <2>1. CASE Becomes(e, "failed") /\ UNCHANGED threads
    BY <2>1, MovesOne
  <2>2. CASE Becomes(e, "writing") /\ threads' = threads \cup {e}
    BY <2>2, MovesOne
  <2>3. QED BY <1>3, <2>1, <2>2 DEF Submit
<1>4. ASSUME NEW e \in DOMAIN calls, Write(e) PROVE Working'
  <2>1. threads' = threads \ {e}
    BY <1>4 DEF Write
  <2>2. CASE calls[e].state = "cancelled" /\ UNCHANGED calls
    BY <2>1, <2>2 DEF Working
  <2>3. ASSUME NEW state \in {"written", "refused"}, Becomes(e, state) PROVE Working'
    BY <2>1, <2>3, MovesOne
  <2>4. QED BY <1>4, <2>2, <2>3 DEF Write
<1>5. ASSUME NEW e \in DOMAIN calls, Return(e) \/ Cancel(e) PROVE Working'
  <2>1. \E state \in {"logged", "failed", "cancelled"} : Becomes(e, state) /\ UNCHANGED threads
    BY <1>5 DEF Return, Cancel
  <2>2. QED BY <2>1, MovesOne
<1>6. CASE \E caller \in Callers \ {"end"} : Log(caller)
  BY <1>2, <1>6 DEF Log
<1>7. CASE Finish \/ Fail
  BY <1>2, <1>7 DEF Finish, Fail, Callers
<1>8. CASE Close \/ CloseFile \/ Forget \/ PublishTransient
  BY <1>1, <1>8 DEF Close, CloseFile, Forget, PublishTransient
<1>9. CASE \E s \in Subscribers : Subscribe(s) \/ Send(s) \/ Disconnect(s)
  BY <1>1, <1>9 DEF Subscribe, Send, Disconnect
<1>10. CASE UNCHANGED vars
  BY <1>1, <1>10 DEF vars
<1>11. QED BY <1>3, <1>4, <1>5, <1>6, <1>7, <1>8, <1>9, <1>10 DEF Next

\* The lock is never stuck: its first call has a step to take, or its write is with
\* the executor, whoever was cancelled or failed before it. With the fairness of
\* the event loop and the executor this is why every call of log returns.
THEOREM LockGoesOn == Spec => []HolderGoesOn
<1>1. Init => Working
  BY DEF Init, Working
<1>2. IInv /\ Working /\ [Next]_vars => Working'
  BY NextWorks DEF IInv
<1>3. IInv /\ Working => HolderGoesOn
  <2> SUFFICES ASSUME IInv, Working, queue # <<>>
               PROVE  \/ calls[Head(queue)].state \in {"queued", "written", "refused"}
                      \/ Head(queue) \in threads
    BY DEF HolderGoesOn
  <2>1. queue \in Seq(DOMAIN calls)
    BY DEF IInv, TypeOK
  <2>2. Head(queue) = queue[1] /\ 1 \in DOMAIN queue /\ Head(queue) \in DOMAIN calls
    BY <2>1, HeadTailProperties, EmptySeq, LenProperties
  <2>3. Head(queue) \in Elements(queue)
    BY <2>2 DEF Elements
  <2>4. calls[Head(queue)].state \in Waiting
    BY <2>2, <2>3 DEF IInv, Locked
  <2>5. QED BY <2>2, <2>4 DEF Waiting, Working
<1>4. QED BY <1>1, <1>2, <1>3, Invariant, PTL DEF Spec
=============================================================================
