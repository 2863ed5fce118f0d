-------------------------- MODULE MessagingProofs --------------------------
(***************************************************************************)
(* Invariants of Messaging, proved for every set of agents, channels and   *)
(* calls and every bound. The lock is what they turn on: a call in its log *)
(* write holds it, so nothing is stored on its channel meanwhile.          *)
(***************************************************************************)
EXTENDS Messaging, SequenceTheorems, TLAPS

\* Leaving a queue for the lock leaves a queue.
LEMMA WithoutType ==
    ASSUME NEW S, NEW q \in Seq(S), NEW i \in 1..Len(q)
    PROVE  Without(q, i) \in Seq(S)
<1>1. \A j \in 1..(i - 1) : q[j] \in S
  BY ElementOfSeq
<1>2. \A j \in (i + 1)..Len(q) : q[j] \in S
  BY ElementOfSeq
<1>3. SubSeq(q, 1, i - 1) \in Seq(S)
  BY <1>1, SubSeqProperties
<1>4. SubSeq(q, i + 1, Len(q)) \in Seq(S)
  BY <1>2, SubSeqProperties, LenProperties
<1>5. QED BY <1>3, <1>4, ConcatProperties DEF Without

\* The holder keeps the lock when another leaves the queue.
LEMMA WithoutHead ==
    ASSUME NEW S, NEW q \in Seq(S), NEW i \in 1..Len(q), Head(q) # q[i]
    PROVE  Without(q, i) # <<>> /\ Head(Without(q, i)) = Head(q)
<1>1. i \in Int /\ i > 1 /\ Len(q) \in Nat
  BY LenProperties
<1> DEFINE front == SubSeq(q, 1, i - 1)
           back  == SubSeq(q, i + 1, Len(q))
<1>2. \A j \in 1..(i - 1) : q[j] \in S
  BY <1>1, ElementOfSeq
<1>3. \A j \in (i + 1)..Len(q) : q[j] \in S
  BY <1>1, ElementOfSeq
<1>4. front \in Seq(S) /\ Len(front) = i - 1 /\ front[1] = q[1]
  BY <1>1, <1>2, SubSeqProperties
<1>5. back \in Seq(S) /\ Len(back) \in Nat
  BY <1>1, <1>3, SubSeqProperties, LenProperties
<1>6. Without(q, i) = front \o back
  BY DEF Without
<1> HIDE DEF front, back
<1>7. /\ front \o back \in Seq(S)
      /\ Len(front \o back) = Len(front) + Len(back)
      /\ \A k \in 1..(Len(front) + Len(back)) :
            (front \o back)[k] = IF k <= Len(front) THEN front[k] ELSE back[k - Len(front)]
  BY <1>4, <1>5, ConcatProperties
<1>8. 1 \in 1..(Len(front) + Len(back)) /\ 1 <= Len(front)
  BY <1>1, <1>4, <1>5
<1>9. (front \o back)[1] = q[1] /\ Len(front \o back) # 0
  BY <1>1, <1>4, <1>5, <1>7, <1>8
<1>10. front \o back # <<>>
  BY <1>7, <1>9, EmptySeq
<1>11. q # <<>>
  BY <1>1, EmptySeq
<1>12. QED BY <1>6, <1>7, <1>9, <1>10, <1>11

\* A channel's message count is a number.
LEMMA CountsType ==
    ASSUME TypeOK
    PROVE  counts \in [Channels -> Nat]
BY DEF TypeOK, counts

LEMMA VisibleType ==
    ASSUME TypeOK, NEW a \in Agents, NEW c \in Channels
    PROVE  /\ Visible(a, c) \subseteq Message
           /\ Unread(a, c) \subseteq Message
           /\ Stored(c) \subseteq Message
<1>1. history[c] \in Seq(Message) /\ join[c][a] \in Nat
  BY DEF TypeOK
<1>2. \A i \in 1..Len(history[c]) : history[c][i] \in Message
  BY <1>1, ElementOfSeq
<1>3. \A i \in Window(a, c) : i \in 1..Len(history[c])
  BY <1>1, LenProperties DEF Window
<1>4. QED BY <1>2, <1>3 DEF Visible, Unread, Stored

\* Taking a head leaves a queue.
LEMMA TailType ==
    ASSUME NEW S, NEW q \in Seq(S), q # <<>>
    PROVE  Tail(q) \in Seq(S)
BY HeadTailProperties

LEMMA AnswerType ==
    ASSUME TypeOK, NEW s \in Sends, Holds(s), Answer(s)
    PROVE  op' \in [Sends -> Ops] /\ lock' \in [Channels -> Seq(Sends)]
<1>1. op[s].chan \in Channels /\ NoOp \in Ops
  BY MessagingAssumption DEF TypeOK, Ops, NoOp
<1>2. Tail(lock[op[s].chan]) \in Seq(Sends)
  BY <1>1, TailType DEF TypeOK, Holds
<1>3. QED BY <1>1, <1>2 DEF TypeOK, Answer

\* What a call's answer leaves behind is typed when its slot and its lock are.
LEMMA SendStepType ==
    ASSUME TypeOK, NEW s \in Sends, Refuse(s) \/ Conflict(s) \/ Store(s)
    PROVE  TypeOK'
<1> DEFINE a == op[s].agent
           c == op[s].chan
<1>1. a \in Agents /\ c \in Channels /\ op[s] \in Ops
  BY DEF TypeOK, Ops
<1>2. CASE Refuse(s)
  <2>1. op' \in [Sends -> Ops] /\ lock' \in [Channels -> Seq(Sends)]
    BY <1>2, AnswerType DEF Refuse
  <2>2. QED BY <1>2, <2>1 DEF TypeOK, Refuse, router, inboxes, rounds, seats, ghosts
<1>3. CASE Conflict(s)
  <2>1. Unread(a, c) \subseteq Message
    BY <1>1, VisibleType
  <2>2. op' \in [Sends -> Ops] /\ lock' \in [Channels -> Seq(Sends)]
    BY <1>3, <2>1, AnswerType DEF Conflict
  <2>3. told' \in [Agents -> SUBSET Message]
    BY <1>1, <1>3, <2>1 DEF TypeOK, Conflict
  <2>4. QED BY <1>3, <2>2, <2>3 DEF TypeOK, Conflict, router, inboxes, rounds, seats
<1>4. CASE Store(s)
  <2> DEFINE m == [n |-> posted, round |-> round, by |-> a]
  <2>1. m \in Message
    BY <1>1, MessagingAssumption DEF TypeOK, Message
  <2>2. Append(history[c], m) \in Seq(Message)
    BY <1>1, <2>1 DEF TypeOK
  <2>3. history' \in [Channels -> Seq(Message)]
    BY <1>1, <1>4, <2>2 DEF TypeOK, Store
  <2>4. op' \in [Sends -> Ops]
    <3>1. [op[s] EXCEPT !.pc = "logging", !.upToDate = (lastSeen[a][c] = Len(history[c]))] \in Ops
      BY <1>1 DEF Ops
    <3>2. op' = [op EXCEPT ![s] = [op[s] EXCEPT !.pc = "logging",
                              !.upToDate = (lastSeen[a][c] = Len(history[c]))]]
      BY <1>4 DEF Store
    <3>3. QED BY <3>1, <3>2 DEF TypeOK
  <2>5. told' \in [Agents -> SUBSET Message]
    BY <1>1, <1>4, <2>1 DEF TypeOK, Store
  <2>6. posted' \in 0..MaxMessages
    BY <1>4, MessagingAssumption DEF TypeOK, Store
  <2>7. QED
    BY <1>4, <2>3, <2>4, <2>5, <2>6 DEF TypeOK, Store, inboxes, rounds, seats
<1>5. QED BY <1>2, <1>3, <1>4

\* Pushing a notice to some agents.
LEMMA AnnouncedType ==
    ASSUME TypeOK, NEW chosen \in SUBSET Agents, NEW c \in Channels, Announced(chosen, c)
    PROVE  queue' \in [Agents -> SUBSET Notice] /\ pushes' \in [Agents -> Nat]
<1>1. \A a \in Agents : [at |-> pushes[a], kind |-> "messages", channels |-> {c}] \in Notice
  BY DEF TypeOK, Notice, NoticeKinds
<1>2. QED BY <1>1 DEF TypeOK, Announced

LEMMA AnnounceType ==
    ASSUME TypeOK, NEW s \in Sends, Holds(s), Announce(s)
    PROVE  TypeOK'
<1> DEFINE a == op[s].agent
           c == op[s].chan
<1>1. a \in Agents /\ c \in Channels
  BY DEF TypeOK, Ops
<1>2. op' \in [Sends -> Ops] /\ lock' \in [Channels -> Seq(Sends)]
  BY AnswerType DEF Announce
<1>3. members[c] \ {a} \in SUBSET Agents
  BY <1>1 DEF TypeOK
<1>4. queue' \in [Agents -> SUBSET Notice] /\ pushes' \in [Agents -> Nat]
  BY <1>1, <1>3, AnnouncedType DEF Announce
<1>5. Len(history[c]) \in Nat
  BY <1>1 DEF TypeOK
<1>6. lastSeen' \in [Agents -> [Channels -> Nat]]
  BY <1>1, <1>5 DEF TypeOK, Announce
<1>7. QED BY <1>2, <1>4, <1>6 DEF TypeOK, Announce, router, rounds, seats, ghosts

\* A call that starts, queues for the lock or is cancelled.
LEMMA CallType ==
    ASSUME TypeOK, NEW s \in Sends,
           \/ \E a \in Agents, c \in Channels, force \in BOOLEAN : Send(s, a, c, force)
           \/ TokensCounted(s)
           \/ CancelSend(s)
    PROVE  TypeOK'
<1>1. op[s] \in Ops /\ op[s].chan \in Channels /\ NoOp \in Ops
  BY MessagingAssumption DEF TypeOK, Ops, NoOp
<1>2. ASSUME NEW a \in Agents, NEW c \in Channels, NEW force \in BOOLEAN, Send(s, a, c, force)
      PROVE  TypeOK'
  <2>1. op' \in [Sends -> Ops]
    BY <1>2 DEF TypeOK, Send, Ops
  <2>2. QED
    BY <1>2, <2>1 DEF TypeOK, Send, router, inboxes, rounds, seats, ghosts
<1>3. CASE TokensCounted(s)
  <2>1. op' \in [Sends -> Ops]
    <3>1. [op[s] EXCEPT !.pc = "waiting"] \in Ops
      BY <1>1 DEF Ops
    <3>2. QED BY <1>3, <3>1 DEF TypeOK, TokensCounted
  <2>2. lock' \in [Channels -> Seq(Sends)]
    <3>1. Append(lock[op[s].chan], s) \in Seq(Sends)
      BY <1>1, AppendProperties DEF TypeOK
    <3>2. lock' = [lock EXCEPT ![op[s].chan] = Append(@, s)]
      BY <1>3 DEF TokensCounted
    <3>3. QED BY <3>1, <3>2 DEF TypeOK
  <2>3. QED
    BY <1>3, <2>1, <2>2 DEF TypeOK, TokensCounted, router, inboxes, rounds, seats, ghosts
<1>4. CASE CancelSend(s)
  <2>1. op' \in [Sends -> Ops]
    BY <1>1, <1>4 DEF TypeOK, CancelSend
  <2>2. lock' \in [Channels -> Seq(Sends)]
    <3>1. \A i \in 1..Len(lock[op[s].chan]) : Without(lock[op[s].chan], i) \in Seq(Sends)
      BY <1>1, WithoutType DEF TypeOK
    <3>2. CASE UNCHANGED lock
      BY <3>2 DEF TypeOK
    <3>3. CASE \E i \in 1..Len(lock[op[s].chan]) :
                  lock' = [lock EXCEPT ![op[s].chan] = Without(@, i)]
      <4>1. PICK i \in 1..Len(lock[op[s].chan]) :
               lock' = [lock EXCEPT ![op[s].chan] = Without(@, i)]
        BY <3>3
      <4>2. QED BY <1>1, <3>1, <4>1 DEF TypeOK
    <3>4. QED BY <1>4, <3>2, <3>3 DEF CancelSend
  <2>3. QED
    BY <1>4, <2>1, <2>2 DEF TypeOK, CancelSend, router, inboxes, rounds, seats, ghosts
<1>5. QED BY <1>2, <1>3, <1>4

\* An agent reads: a channel, a notification, or everything at once.
LEMMA ReadType ==
    ASSUME TypeOK, NEW a \in Agents,
           \/ \E c \in Channels : ReadChannel(a, c)
           \/ TakeNotice(a)
           \/ DiscardStale(a)
           \/ DrainUnread(a)
    PROVE  TypeOK'
<1>1. counts \in [Channels -> Nat]
  BY CountsType
<1>2. \A c \in Channels : Visible(a, c) \subseteq Message /\ Unread(a, c) \subseteq Message
  BY VisibleType
<1>3. ASSUME NEW c \in Channels, ReadChannel(a, c)
      PROVE  TypeOK'
  <2>1. Len(history[c]) \in Nat
    BY DEF TypeOK
  <2>2. lastSeen' \in [Agents -> [Channels -> Nat]] /\ told' \in [Agents -> SUBSET Message]
    BY <1>2, <1>3, <2>1 DEF TypeOK, ReadChannel
  <2>3. QED BY <1>3, <2>2 DEF TypeOK, ReadChannel, router, calls, rounds, seats
<1>4. CASE TakeNotice(a)
  <2>1. PICK n \in queue[a] :
          LET fresh == Fresh(n, lastSeen[a], counts) IN
          /\ queue' = [queue EXCEPT ![a] = Behind(n, @)]
          /\ lastSeen' = [lastSeen EXCEPT ![a] = ReadUpTo(fresh, @, counts)]
          /\ told' = [told EXCEPT ![a] = @ \cup UNION {Visible(a, c) : c \in fresh}]
          /\ UNCHANGED <<router, pushes, calls, rounds, seats, withheld, floor>>
    BY <1>4 DEF TakeNotice
  <2> DEFINE fresh == Fresh(n, lastSeen[a], counts)
  <2>2. fresh \subseteq Channels
    BY <2>1 DEF TypeOK, Fresh, Notice
  <2>3. Behind(n, queue[a]) \subseteq Notice
    BY DEF TypeOK, Behind
  <2>4. ReadUpTo(fresh, lastSeen[a], counts) \in [Channels -> Nat]
    BY <1>1 DEF TypeOK, ReadUpTo
  <2>5. UNION {Visible(a, c) : c \in fresh} \subseteq Message
    BY <1>2, <2>2
  <2> HIDE DEF fresh
  <2>6. queue' \in [Agents -> SUBSET Notice]
    BY <2>1, <2>3 DEF TypeOK
  <2>7. lastSeen' \in [Agents -> [Channels -> Nat]]
    BY <2>1, <2>4 DEF TypeOK, fresh
  <2>8. told' \in [Agents -> SUBSET Message]
    BY <2>1, <2>5 DEF TypeOK, fresh
  <2>9. QED BY <2>1, <2>6, <2>7, <2>8 DEF TypeOK, router, calls, rounds, seats
<1>5. CASE DiscardStale(a)
  <2>1. queue' \in [Agents -> SUBSET Notice]
    BY <1>5 DEF TypeOK, DiscardStale, Live
  <2>2. QED BY <1>5, <2>1 DEF TypeOK, DiscardStale, router, calls, rounds, seats, ghosts
<1>6. CASE DrainUnread(a)
  <2>1. lastSeen' \in [Agents -> [Channels -> Nat]]
    BY <1>6 DEF TypeOK, DrainUnread
  <2>2. told' \in [Agents -> SUBSET Message]
    BY <1>2, <1>6 DEF TypeOK, DrainUnread
  <2>3. QED BY <1>6, <2>1, <2>2 DEF TypeOK, DrainUnread, router, calls, rounds, seats
<1>7. QED BY <1>3, <1>4, <1>5, <1>6

\* The world's operations on channels.
LEMMA WorldType ==
    ASSUME TypeOK, NEW c \in Channels,
           \/ \E group \in SUBSET Agents : UpdateMembers(c, group) \/ OpenDirect(c, group)
           \/ ClearHistory(c)
    PROVE  TypeOK'
<1>1. Len(history[c]) \in Nat
  BY DEF TypeOK
<1>2. ASSUME NEW group \in SUBSET Agents, UpdateMembers(c, group)
      PROVE  TypeOK'
  <2>1. members' \in [Channels -> SUBSET Agents] /\ join' \in [Channels -> [Agents -> Nat]]
    BY <1>1, <1>2 DEF TypeOK, UpdateMembers
  <2>2. lastSeen' \in [Agents -> [Channels -> Nat]]
    BY <1>1, <1>2 DEF TypeOK, UpdateMembers
  <2>3. floor' \in [Agents -> [Channels -> 0..MaxRound]]
    <3>1. 0 \in 0..MaxRound
      BY MessagingAssumption
    <3>2. \A a \in Agents : [floor[a] EXCEPT ![c] = 0] \in [Channels -> 0..MaxRound]
      BY <3>1 DEF TypeOK
    <3>3. QED BY <1>2, <3>2 DEF TypeOK, UpdateMembers
  <2>4. QED BY <1>2, <2>1, <2>2, <2>3 DEF TypeOK, UpdateMembers, calls, rounds, seats
<1>3. ASSUME NEW group \in SUBSET Agents, OpenDirect(c, group)
      PROVE  TypeOK'
  BY <1>3 DEF TypeOK, OpenDirect, inboxes, calls, rounds, seats, ghosts
<1>4. CASE ClearHistory(c)
  <2>1. history' \in [Channels -> Seq(Message)]
    BY <1>4 DEF TypeOK, ClearHistory
  <2>2. join' \in [Channels -> [Agents -> Nat]] /\ lastSeen' \in [Agents -> [Channels -> Nat]]
    BY <1>4 DEF TypeOK, ClearHistory
  <2>3. QED BY <1>4, <2>1, <2>2 DEF TypeOK, ClearHistory, calls, rounds, seats, ghosts
<1>5. QED BY <1>2, <1>3, <1>4

\* The round boundary and a swap's two steps.
LEMMA BoundaryType ==
    ASSUME TypeOK,
           \/ AdvanceRound \/ SnapshotRound \/ OpenRound
           \/ \E a \in Agents : Swap(a)
    PROVE  TypeOK'
<1>1. counts \in [Channels -> Nat]
  BY CountsType
<1>2. CASE AdvanceRound
  <2>1. round' \in 1..MaxRound
    BY <1>2, MessagingAssumption DEF TypeOK, AdvanceRound
  <2>2. QED
    BY <1>2, <2>1 DEF TypeOK, AdvanceRound, router, inboxes, calls, seats, ghosts
<1>3. CASE SnapshotRound
  BY <1>1, <1>3 DEF TypeOK, SnapshotRound, router, inboxes, calls, seats, ghosts
<1>4. CASE OpenRound
  BY <1>4 DEF TypeOK, OpenRound, router, inboxes, calls, seats, ghosts
<1>5. ASSUME NEW a \in Agents, SwapBegin(a)
      PROVE  TypeOK'
  <2>1. swaps' \in 0..MaxSwaps
    BY <1>5, MessagingAssumption DEF TypeOK, SwapBegin
  <2>2. QED
    BY <1>5, <2>1 DEF TypeOK, SwapBegin, router, inboxes, calls, rounds, ghosts
<1>6. ASSUME NEW a \in Agents, NEW v \in [Channels -> {w \in Visibilities : w.from <= round}],
             SwapInstall(a, v)
      PROVE  TypeOK'
  <2>1. \A c \in Channels : /\ v[c].kind \in {"unlisted", "full", "none", "from_round"}
                            /\ v[c].from \in 0..MaxRound
                            /\ v[c].kind = "from_round" => v[c].from \in 1..MaxRound
    BY MessagingAssumption DEF Visibilities
  <2>2. \A c \in Channels : JoinIndex(a, c, v[c]) \in Nat
    <3> TAKE c \in Channels
    <3>1. Len(history[c]) \in Nat /\ join[c][a] \in Nat
      BY DEF TypeOK
    <3>2. v[c].kind = "from_round" => start[v[c].from][c] \in Nat
      BY <2>1 DEF TypeOK
    <3>3. CASE v[c].kind = "full"       BY <3>3 DEF JoinIndex
    <3>4. CASE v[c].kind = "none"       BY <3>1, <3>4 DEF JoinIndex
    <3>5. CASE v[c].kind = "from_round" BY <3>2, <3>5 DEF JoinIndex
    <3>6. CASE v[c].kind = "unlisted"   BY <3>1, <3>6 DEF JoinIndex
    <3>7. QED BY <2>1, <3>3, <3>4, <3>5, <3>6
  <2>3. join' \in [Channels -> [Agents -> Nat]]
    BY <1>6, <2>2 DEF TypeOK, SwapInstall
  <2>4. lastSeen' \in [Agents -> [Channels -> Nat]] /\ pushes' \in [Agents -> Nat]
    BY <1>6 DEF TypeOK, SwapInstall
  <2>5. queue' \in [Agents -> SUBSET Notice]
    <3>1. [at |-> pushes[a], kind |-> "messages",
           channels |-> {c \in Channels : a \in members[c]}] \in Notice
      BY DEF TypeOK, Notice, NoticeKinds
    <3>2. QED BY <1>6, <3>1 DEF TypeOK, SwapInstall
  <2>6. floor' \in [Agents -> [Channels -> 0..MaxRound]]
    <3>1. \A c \in Channels : v[c].kind = "unlisted" \/ v[c].kind # "unlisted"
      OBVIOUS
    <3>2. floor'[a] = [c \in Channels |-> IF v[c].kind = "unlisted" THEN floor[a][c] ELSE v[c].from]
      BY <1>6 DEF TypeOK, SwapInstall
    <3>3. floor'[a] \in [Channels -> 0..MaxRound]
      BY <2>1, <3>2 DEF TypeOK
    <3>4. floor' = [floor EXCEPT ![a] = floor'[a]]
      BY <1>6 DEF TypeOK, SwapInstall
    <3>5. QED BY <3>3, <3>4 DEF TypeOK
  <2>7. withheld' \in [Agents -> SUBSET Message] /\ told' \in [Agents -> SUBSET Message]
    <3>1. \A c \in Channels : Stored(c) \subseteq Message
      BY VisibleType
    <3>2. QED BY <1>6, <3>1 DEF TypeOK, SwapInstall
  <2>8. draining' \subseteq terminated' /\ terminated' \subseteq Agents
    BY <1>6 DEF TypeOK, SwapInstall
  <2>9. members' = members /\ history' = history /\ posted' = posted /\ swaps' = swaps
        /\ op' = op /\ lock' = lock
        /\ round' = round /\ clock' = clock /\ start' = start
    BY <1>6 DEF SwapInstall, calls, rounds
  <2>10. QED BY <2>3, <2>4, <2>5, <2>6, <2>7, <2>8, <2>9 DEF TypeOK
<1>7. QED BY <1>2, <1>3, <1>4, <1>5, <1>6 DEF Swap

-----------------------------------------------------------------------------
(* The lock *)

\* What a call still on its way keeps true of the lock: the others' steps leave
\* its channel's holder in place.
LEMMA InitLocked == Init => TypeOK /\ LogHoldsLock
<1> SUFFICES ASSUME Init PROVE TypeOK /\ LogHoldsLock
  OBVIOUS
<1>1. NoOp \in Ops
  BY MessagingAssumption DEF NoOp, Ops
<1>2. <<>> \in Seq(Message) /\ <<>> \in Seq(Sends)
  BY EmptySeq
<1>3. 1 \in 1..MaxRound /\ 0 \in 0..MaxSwaps /\ 0 \in 0..MaxMessages /\ 0 \in 0..MaxRound
  BY MessagingAssumption
<1>4. TypeOK
  BY <1>1, <1>2, <1>3 DEF Init, TypeOK
<1>5. LogHoldsLock
  BY DEF Init, LogHoldsLock, NoOp
<1>6. QED BY <1>4, <1>5

\* The holder answers and every other call in its log write is on another channel.
LEMMA AnswerKeepsLock ==
    ASSUME TypeOK, LogHoldsLock, NEW s \in Sends, Holds(s), Answer(s)
    PROVE  LogHoldsLock'
<1> SUFFICES ASSUME NEW t \in Sends, op'[t].pc = "logging"
             PROVE  Holds(t)'
  BY DEF LogHoldsLock
<1>1. t # s
  BY DEF Answer, NoOp, TypeOK
<1>2. op'[t] = op[t]
  BY <1>1 DEF Answer, TypeOK
<1>3. Holds(t)
  BY <1>2 DEF LogHoldsLock
<1>4. op[t].chan # op[s].chan
  BY <1>1, <1>3 DEF Holds
<1>5. lock'[op[t].chan] = lock[op[t].chan]
  BY <1>4 DEF Answer, TypeOK, Ops
<1>6. QED BY <1>2, <1>3, <1>5 DEF Holds

\* Every step keeps a call that writes its log at the head of its channel's lock.
LEMMA NextLocked == TypeOK /\ LogHoldsLock /\ [Next]_vars => TypeOK' /\ LogHoldsLock'
<1> SUFFICES ASSUME TypeOK, LogHoldsLock, [Next]_vars
             PROVE  TypeOK' /\ LogHoldsLock'
  OBVIOUS
<1> DEFINE Idle == UNCHANGED <<op, lock>>
<1>1. Idle => LogHoldsLock'
  BY DEF LogHoldsLock, Holds
<1>2. ASSUME NEW s \in Sends, NEW a \in Agents, NEW c \in Channels, NEW force \in BOOLEAN,
             Send(s, a, c, force)
      PROVE  TypeOK' /\ LogHoldsLock'
  <2>1. TypeOK'
    BY <1>2, CallType
  <2>2. LogHoldsLock'
    BY <1>2 DEF Send, TypeOK, LogHoldsLock, Holds
  <2>3. QED BY <2>1, <2>2
<1>3. ASSUME NEW s \in Sends, TokensCounted(s)
      PROVE  TypeOK' /\ LogHoldsLock'
  <2>1. TypeOK'
    BY <1>3, CallType
  <2>2. SUFFICES ASSUME NEW t \in Sends, op'[t].pc = "logging"
                 PROVE  Holds(t)'
    BY <2>1 DEF LogHoldsLock
  <2>3. t # s /\ op'[t] = op[t]
    BY <1>3, <2>2 DEF TokensCounted, TypeOK
  <2>4. Holds(t)
    BY <2>2, <2>3 DEF LogHoldsLock
  <2>5. op[t].chan \in Channels /\ op[s].chan \in Channels
    BY DEF TypeOK, Ops
  <2>6. CASE op[t].chan = op[s].chan
    <3> DEFINE q == lock[op[s].chan]
    <3>1. q \in Seq(Sends) /\ q # <<>> /\ Head(q) = t
      BY <2>4, <2>5, <2>6 DEF TypeOK, Holds
    <3>2. lock'[op[t].chan] = Append(q, s)
      BY <1>3, <2>5, <2>6 DEF TokensCounted, TypeOK
    <3>3. Append(q, s) # <<>> /\ Head(Append(q, s)) = Head(q)
      BY <3>1
    <3>4. QED BY <2>3, <3>1, <3>2, <3>3 DEF Holds
  <2>7. CASE op[t].chan # op[s].chan
    <3>1. lock'[op[t].chan] = lock[op[t].chan]
      BY <1>3, <2>5, <2>7 DEF TokensCounted, TypeOK
    <3>2. QED BY <2>3, <2>4, <3>1 DEF Holds
  <2>8. QED BY <2>6, <2>7
<1>4. ASSUME NEW s \in Sends, CancelSend(s)
      PROVE  TypeOK' /\ LogHoldsLock'
  <2>1. TypeOK'
    BY <1>4, CallType
  <2>2. SUFFICES ASSUME NEW t \in Sends, op'[t].pc = "logging"
                 PROVE  Holds(t)'
    BY <2>1 DEF LogHoldsLock
  <2>3. t # s /\ op'[t] = op[t]
    BY <1>4, <2>2 DEF CancelSend, TypeOK, NoOp
  <2>4. Holds(t)
    BY <2>2, <2>3 DEF LogHoldsLock
  <2>5. op[t].chan \in Channels /\ op[s].chan \in Channels
    BY DEF TypeOK, Ops
  <2>6. CASE lock' = lock
    BY <2>3, <2>4, <2>6 DEF Holds
  <2>7. ASSUME NEW i \in 1..Len(lock[op[s].chan]), lock[op[s].chan][i] = s,
               lock' = [lock EXCEPT ![op[s].chan] = Without(@, i)]
        PROVE  Holds(t)'
    <3>1. CASE op[t].chan = op[s].chan
      <4> DEFINE q == lock[op[s].chan]
      <4>1. q \in Seq(Sends) /\ Head(q) = t /\ q[i] = s
        BY <2>4, <2>5, <2>7, <3>1 DEF TypeOK, Holds
      <4>2. Without(q, i) # <<>> /\ Head(Without(q, i)) = t
        BY <2>3, <2>7, <4>1, WithoutHead
      <4>3. lock'[op[t].chan] = Without(q, i)
        BY <2>5, <2>7, <3>1 DEF TypeOK
      <4>4. QED BY <2>3, <4>2, <4>3 DEF Holds
    <3>2. CASE op[t].chan # op[s].chan
      <4>1. lock'[op[t].chan] = lock[op[t].chan]
        BY <2>5, <2>7, <3>2 DEF TypeOK
      <4>2. QED BY <2>3, <2>4, <4>1 DEF Holds
    <3>3. QED BY <3>1, <3>2
  <2>8. QED BY <1>4, <2>6, <2>7 DEF CancelSend
<1>5. ASSUME NEW s \in Sends, SendStep(s)
      PROVE  TypeOK' /\ LogHoldsLock'
  <2>1. CASE Refuse(s)
    BY <2>1, SendStepType, AnswerKeepsLock DEF Refuse
  <2>2. CASE Conflict(s)
    BY <2>2, SendStepType, AnswerKeepsLock DEF Conflict
  <2>3. CASE Store(s)
    <3>1. TypeOK'
      BY <2>3, SendStepType
    <3>2. SUFFICES ASSUME NEW t \in Sends, op'[t].pc = "logging"
                   PROVE  Holds(t)'
      BY <3>1 DEF LogHoldsLock
    <3>3. op'[t].chan = op[t].chan /\ Holds(t) /\ lock' = lock
      BY <2>3, <3>2 DEF Store, TypeOK, LogHoldsLock
    <3>4. QED BY <3>3 DEF Holds
  <2>4. CASE Announce(s)
    <3>1. Holds(s)
      BY <2>4 DEF Announce, LogHoldsLock
    <3>2. TypeOK'
      BY <2>4, <3>1, AnnounceType
    <3>3. LogHoldsLock'
      BY <2>4, <3>1, AnswerKeepsLock DEF Announce
    <3>4. QED BY <3>2, <3>3
  <2>5. QED BY <1>5, <2>1, <2>2, <2>3, <2>4 DEF SendStep
<1>6. ASSUME NEW a \in Agents,
             TakeNotice(a) \/ DiscardStale(a) \/ DrainUnread(a)
                \/ \E c \in Channels : ReadChannel(a, c)
      PROVE  TypeOK' /\ LogHoldsLock'
  <2>1. TypeOK'
    BY <1>6, ReadType
  <2>2. Idle
    BY <1>6 DEF TakeNotice, DiscardStale, DrainUnread, ReadChannel, calls
  <2>3. QED BY <1>1, <2>1, <2>2
<1>7. ASSUME NEW c \in Channels,
             ClearHistory(c)
                \/ \E group \in SUBSET Agents : UpdateMembers(c, group) \/ OpenDirect(c, group)
      PROVE  TypeOK' /\ LogHoldsLock'
  <2>1. TypeOK'
    BY <1>7, WorldType
  <2>2. Idle
    BY <1>7 DEF ClearHistory, UpdateMembers, OpenDirect, calls
  <2>3. QED BY <1>1, <2>1, <2>2
<1>8. CASE AdvanceRound \/ SnapshotRound \/ OpenRound \/ \E a \in Agents : Swap(a)
  <2>1. TypeOK'
    BY <1>8, BoundaryType
  <2>2. Idle
    BY <1>8 DEF AdvanceRound, SnapshotRound, OpenRound, Swap, SwapBegin, SwapInstall, calls
  <2>3. QED BY <1>1, <2>1, <2>2
<1>9. CASE UNCHANGED vars
  <2>1. TypeOK'
    BY <1>9 DEF TypeOK, vars, router, inboxes, calls, rounds, seats, ghosts
  <2>2. QED BY <1>1, <1>9, <2>1 DEF vars, calls
<1>10. QED BY <1>2, <1>3, <1>4, <1>5, <1>6, <1>7, <1>8, <1>9 DEF Next

\* Every reachable state is typed, and a call in its log write holds its channel.
THEOREM TypeAlways == Spec => [](TypeOK /\ LogHoldsLock)
BY InitLocked, NextLocked, PTL DEF Spec

-----------------------------------------------------------------------------
(* What a read position says *)

\* The inductive invariant behind ReadMeansTold and NoBlindSend.
ReadInv ==
    /\ TypeOK /\ LogHoldsLock
    /\ SeenWithinHistory
    /\ ReadMeansTold
    /\ UpToDateSenderKnows
    /\ UnopenedIsEmpty

LEMMA InitRead == Init => ReadInv
<1> SUFFICES ASSUME Init PROVE ReadInv
  OBVIOUS
<1>1. TypeOK /\ LogHoldsLock
  BY InitLocked
<1>2. SeenWithinHistory /\ UnopenedIsEmpty
  BY DEF Init, SeenWithinHistory, UnopenedIsEmpty
<1>3. ReadMeansTold
  BY DEF Init, ReadMeansTold, Window
<1>4. UpToDateSenderKnows
  BY DEF Init, UpToDateSenderKnows, NoOp
<1>5. QED BY <1>1, <1>2, <1>3, <1>4 DEF ReadInv

\* Two calls that both hold a channel's lock are one.
LEMMA OneHolder ==
    ASSUME NEW s, NEW t, Holds(s), Holds(t), op[s].chan = op[t].chan
    PROVE  s = t
BY DEF Holds

\* A step that leaves channels and read positions alone, adds to what the
\* agents have been told and puts no call in its log write.
LEMMA ReadFrame ==
    ASSUME ReadInv, UNCHANGED <<members, history, join, lastSeen>>,
           \A a \in Agents : told[a] \subseteq told'[a],
           \A s \in Sends : op'[s].pc = "logging" => op'[s] = op[s]
    PROVE  SeenWithinHistory' /\ ReadMeansTold' /\ UpToDateSenderKnows' /\ UnopenedIsEmpty'
<1>1. SeenWithinHistory' /\ UnopenedIsEmpty'
  BY DEF ReadInv, SeenWithinHistory, UnopenedIsEmpty
<1>2. ReadMeansTold'
  BY DEF ReadInv, ReadMeansTold, Window
<1>3. UpToDateSenderKnows'
  <2> SUFFICES ASSUME NEW s \in Sends, op'[s].pc = "logging", op'[s].upToDate,
                      NEW b, NEW d, b = op'[s].agent, d = op'[s].chan,
                      NEW i \in Window(b, d)'
               PROVE  history'[d][i] \in told'[b]
    BY DEF UpToDateSenderKnows, Visible, Window
  <2>1. op'[s] = op[s] /\ b \in Agents /\ b = op[s].agent /\ d = op[s].chan
    BY DEF ReadInv, TypeOK, Ops
  <2>2. Visible(b, d) \subseteq told[b]
    BY <2>1 DEF ReadInv, UpToDateSenderKnows
  <2>3. i \in Window(b, d) /\ history'[d][i] = history[d][i]
    BY DEF Window
  <2>4. QED BY <2>1, <2>2, <2>3 DEF Visible
<1>4. QED BY <1>1, <1>2, <1>3

\* A stored message lies behind every read position, and its sender knows it.
LEMMA StoreRead ==
    ASSUME ReadInv, NEW s \in Sends, Store(s)
    PROVE  SeenWithinHistory' /\ ReadMeansTold' /\ UpToDateSenderKnows' /\ UnopenedIsEmpty'
<1> DEFINE a == op[s].agent
           c == op[s].chan
           m == [n |-> posted, round |-> round, by |-> a]
<1>1. a \in Agents /\ c \in Channels /\ m \in Message
  <2>1. a \in Agents /\ c \in Channels
    BY DEF ReadInv, TypeOK, Ops
  <2>2. QED BY <2>1, MessagingAssumption DEF ReadInv, TypeOK, Message
<1>2. history[c] \in Seq(Message) /\ Len(history[c]) \in Nat
  BY <1>1 DEF ReadInv, TypeOK
<1>3. /\ Len(Append(history[c], m)) = Len(history[c]) + 1
      /\ Append(history[c], m)[Len(history[c]) + 1] = m
      /\ \A i \in 1..Len(history[c]) : Append(history[c], m)[i] = history[c][i]
  BY <1>1, <1>2, AppendProperties
<1>4. /\ history' = [history EXCEPT ![c] = Append(@, m)]
      /\ told' = [told EXCEPT ![a] = @ \cup {m}]
      /\ op' = [op EXCEPT ![s].pc = "logging",
                          ![s].upToDate = (lastSeen[a][c] = Len(history[c]))]
      /\ UNCHANGED <<members, join, lastSeen>>
  BY DEF Store, inboxes
<1> HIDE DEF m
<1>5. /\ history'[c] = Append(history[c], m)
      /\ \A d \in Channels : d # c => history'[d] = history[d]
      /\ m \in told'[a]
      /\ \A b \in Agents : told[b] \subseteq told'[b]
  BY <1>1, <1>4 DEF ReadInv, TypeOK
<1>6. SeenWithinHistory'
  <2> SUFFICES ASSUME NEW b \in Agents, NEW d \in Channels
               PROVE  lastSeen'[b][d] <= Len(history'[d])
    BY DEF SeenWithinHistory
  <2>1. lastSeen[b][d] \in Nat /\ Len(history[d]) \in Nat /\ lastSeen[b][d] <= Len(history[d])
    BY DEF ReadInv, TypeOK, SeenWithinHistory
  <2>2. QED BY <1>2, <1>3, <1>4, <1>5, <2>1
<1>7. UnopenedIsEmpty'
  <2>1. members[c] # {}
    BY DEF Store, MayPost
  <2>2. QED BY <1>4, <1>5, <2>1 DEF ReadInv, UnopenedIsEmpty
<1>8. ReadMeansTold'
  <2> SUFFICES ASSUME NEW b \in Agents, NEW d \in Channels, NEW i \in Window(b, d)',
                      i <= lastSeen'[b][d]
               PROVE  history'[d][i] \in told'[b]
    BY DEF ReadMeansTold
  <2>1. lastSeen[b][d] \in Nat /\ Len(history[d]) \in Nat /\ lastSeen[b][d] <= Len(history[d])
        /\ join[d][b] \in Nat
    BY DEF ReadInv, TypeOK, SeenWithinHistory
  <2>2. b \in members[d] /\ i \in (join[d][b] + 1)..Len(history'[d])
    BY <1>4 DEF Window
  <2>3. i \in Window(b, d) /\ i \in 1..Len(history[d])
    BY <1>2, <1>4, <2>1, <2>2 DEF Window
  <2>4. history[d][i] \in told[b]
    BY <1>4, <2>3 DEF ReadInv, ReadMeansTold
  <2>5. history'[d][i] = history[d][i]
    BY <1>3, <1>5, <2>3
  <2>6. QED BY <1>5, <2>4, <2>5
<1>9. UpToDateSenderKnows'
  <2> SUFFICES ASSUME NEW t \in Sends, op'[t].pc = "logging", op'[t].upToDate,
                      NEW b, NEW d, b = op'[t].agent, d = op'[t].chan,
                      NEW i \in Window(b, d)'
               PROVE  history'[d][i] \in told'[b]
    BY DEF UpToDateSenderKnows, Visible, Window
  <2>1. op[t] \in Ops /\ op[t].agent \in Agents /\ op[t].chan \in Channels
    BY DEF ReadInv, TypeOK, Ops
  <2>2. CASE t = s
    <3>1. op'[t].agent = a /\ op'[t].chan = c /\ lastSeen[a][c] = Len(history[c])
      BY <1>4, <2>1, <2>2 DEF ReadInv, TypeOK, Ops
    <3>2. join[c][a] \in Nat /\ i \in (join[c][a] + 1)..Len(history'[c]) /\ a \in members[c]
      BY <1>1, <1>4, <3>1 DEF ReadInv, TypeOK, Window
    <3>3. CASE i = Len(history[c]) + 1
      BY <1>3, <1>5, <3>1, <3>3
    <3>4. CASE i # Len(history[c]) + 1
      <4>1. i \in 1..Len(history[c]) /\ i \in Window(a, c)
        BY <1>2, <1>3, <1>5, <3>2, <3>4 DEF Window
      <4>2. history[c][i] \in told[a]
        BY <1>1, <3>1, <4>1 DEF ReadInv, ReadMeansTold
      <4>3. QED BY <1>1, <1>3, <1>5, <3>1, <4>1, <4>2
    <3>5. QED BY <3>3, <3>4
  <2>3. CASE t # s
    <3>1. op'[t] = op[t] /\ b = op[t].agent /\ d = op[t].chan /\ b \in Agents /\ d \in Channels
      BY <1>4, <2>1, <2>3 DEF ReadInv, TypeOK
    <3>2. Holds(t) /\ Holds(s)
      BY <3>1 DEF ReadInv, LogHoldsLock, Store
    <3>3. d # c
      BY <2>3, <3>1, <3>2, OneHolder
    <3>4. history'[d] = history[d]
      BY <1>5, <3>1, <3>3
    <3>5. i \in Window(b, d)
      BY <1>4, <3>1, <3>4 DEF Window
    <3>6. Visible(b, d) \subseteq told[b]
      BY <3>1 DEF ReadInv, UpToDateSenderKnows
    <3>7. QED BY <1>5, <3>1, <3>4, <3>5, <3>6 DEF Visible
  <2>4. QED BY <2>2, <2>3
<1>10. QED BY <1>6, <1>7, <1>8, <1>9

\* One agent reads: its position on some channels goes to the end, and what it
\* could see there it has been told.
LEMMA ReaderRead ==
    ASSUME ReadInv, NEW a \in Agents, NEW chans \in SUBSET Channels,
           UNCHANGED <<members, history, join>>,
           lastSeen' = [lastSeen EXCEPT ![a] =
                           [c \in Channels |-> IF c \in chans THEN Len(history[c]) ELSE @[c]]],
           \A b \in Agents : told[b] \subseteq told'[b],
           \A c \in chans : Visible(a, c) \subseteq told'[a],
           \A s \in Sends : op'[s].pc = "logging" => op'[s] = op[s]
    PROVE  SeenWithinHistory' /\ ReadMeansTold' /\ UpToDateSenderKnows' /\ UnopenedIsEmpty'
<1>1. \A b \in Agents, c \in Channels :
         lastSeen'[b][c] = IF b = a /\ c \in chans THEN Len(history[c]) ELSE lastSeen[b][c]
  BY DEF ReadInv, TypeOK
<1>2. SeenWithinHistory'
  <2>1. \A c \in Channels : Len(history[c]) \in Nat
    BY DEF ReadInv, TypeOK
  <2>2. QED BY <1>1, <2>1 DEF ReadInv, SeenWithinHistory
<1>3. UnopenedIsEmpty'
  BY DEF ReadInv, UnopenedIsEmpty
<1>4. ReadMeansTold'
  <2> SUFFICES ASSUME NEW b \in Agents, NEW c \in Channels, NEW i \in Window(b, c)',
                      i <= lastSeen'[b][c]
               PROVE  history'[c][i] \in told'[b]
    BY DEF ReadMeansTold
  <2>1. i \in Window(b, c)
    BY DEF Window
  <2>2. CASE b = a /\ c \in chans
    BY <2>1, <2>2 DEF Visible
  <2>3. CASE ~(b = a /\ c \in chans)
    BY <1>1, <2>1, <2>3 DEF ReadInv, ReadMeansTold
  <2>4. QED BY <2>2, <2>3
<1>5. UpToDateSenderKnows'
  <2> SUFFICES ASSUME NEW s \in Sends, op'[s].pc = "logging", op'[s].upToDate,
                      NEW b, NEW d, b = op'[s].agent, d = op'[s].chan,
                      NEW i \in Window(b, d)'
               PROVE  history'[d][i] \in told'[b]
    BY DEF UpToDateSenderKnows, Visible, Window
  <2>1. op'[s] = op[s] /\ b \in Agents /\ b = op[s].agent /\ d = op[s].chan
    BY DEF ReadInv, TypeOK, Ops
  <2>2. Visible(b, d) \subseteq told[b]
    BY <2>1 DEF ReadInv, UpToDateSenderKnows
  <2>3. i \in Window(b, d) /\ history'[d][i] = history[d][i]
    BY DEF Window
  <2>4. QED BY <2>1, <2>2, <2>3 DEF Visible
<1>6. QED BY <1>2, <1>3, <1>4, <1>5

\* An up-to-date sender's position moves past its own message; it knew the rest.
LEMMA AnnounceRead ==
    ASSUME ReadInv, NEW s \in Sends, Announce(s)
    PROVE  SeenWithinHistory' /\ ReadMeansTold' /\ UpToDateSenderKnows' /\ UnopenedIsEmpty'
<1> SUFFICES ASSUME NEW a, NEW c, NEW chans,
                    a = op[s].agent, c = op[s].chan,
                    chans = IF op[s].upToDate THEN {c} ELSE {}
             PROVE  SeenWithinHistory' /\ ReadMeansTold' /\ UpToDateSenderKnows'
                    /\ UnopenedIsEmpty'
  OBVIOUS
<1>1. a \in Agents /\ c \in Channels
  BY DEF ReadInv, TypeOK, Ops
<1>2. lastSeen' = [lastSeen EXCEPT ![a] =
                      [d \in Channels |-> IF d \in chans THEN Len(history[d]) ELSE @[d]]]
  <2>1. lastSeen \in [Agents -> [Channels -> Nat]]
    BY DEF ReadInv, TypeOK
  <2>2. CASE op[s].upToDate
    <3>1. [lastSeen[a] EXCEPT ![c] = Len(history[c])]
            = [d \in Channels |-> IF d \in {c} THEN Len(history[d]) ELSE lastSeen[a][d]]
      BY <1>1, <2>1
    <3>2. QED BY <1>1, <2>1, <2>2, <3>1 DEF Announce
  <2>3. CASE ~op[s].upToDate
    <3>1. lastSeen[a] = [d \in Channels |-> lastSeen[a][d]]
      BY <1>1, <2>1
    <3>2. QED BY <1>1, <2>1, <2>3, <3>1 DEF Announce
  <2>4. QED BY <2>2, <2>3
<1>3. told' = told /\ UNCHANGED <<members, history, join>>
  BY DEF Announce, router, ghosts
<1>4. \A d \in chans : Visible(a, d) \subseteq told'[a]
  BY <1>3 DEF Announce, ReadInv, UpToDateSenderKnows
<1>5. \A t \in Sends : op'[t].pc = "logging" => op'[t] = op[t]
  BY DEF Announce, Answer, NoOp, ReadInv, TypeOK
<1>6. chans \in SUBSET Channels
  BY <1>1
<1>7. \A b \in Agents : told[b] \subseteq told'[b]
  BY <1>3
<1>8. QED BY ONLY ReadInv, <1>1, <1>2, <1>3, <1>4, <1>5, <1>6, <1>7, ReaderRead, Zenon

\* Reading by read_channel, by a notification or by a drain.
LEMMA ReadersRead ==
    ASSUME ReadInv, NEW a \in Agents,
           \/ \E c \in Channels : ReadChannel(a, c)
           \/ TakeNotice(a) \/ DrainUnread(a)
    PROVE  SeenWithinHistory' /\ ReadMeansTold' /\ UpToDateSenderKnows' /\ UnopenedIsEmpty'
<1>1. lastSeen \in [Agents -> [Channels -> Nat]] /\ told \in [Agents -> SUBSET Message]
  BY DEF ReadInv, TypeOK
<1>2. ASSUME NEW c \in Channels, ReadChannel(a, c)
      PROVE  SeenWithinHistory' /\ ReadMeansTold' /\ UpToDateSenderKnows' /\ UnopenedIsEmpty'
  <2>1. [lastSeen[a] EXCEPT ![c] = Len(history[c])]
          = [d \in Channels |-> IF d \in {c} THEN Len(history[d]) ELSE lastSeen[a][d]]
    BY <1>1
  <2>2. lastSeen' = [lastSeen EXCEPT ![a] =
                       [d \in Channels |-> IF d \in {c} THEN Len(history[d]) ELSE @[d]]]
    BY <1>1, <1>2, <2>1 DEF ReadChannel
  <2>3. \A d \in {c} : Visible(a, d) \subseteq told'[a]
    BY <1>1, <1>2 DEF ReadChannel
  <2>4. \A b \in Agents : told[b] \subseteq told'[b]
    BY <1>1, <1>2 DEF ReadChannel
  <2>5. UNCHANGED <<members, history, join>> /\ op' = op
    BY <1>2 DEF ReadChannel, router, calls
  <2>6. PICK chans \in SUBSET Channels : chans = {c}
    OBVIOUS
  <2>7. QED BY <2>2, <2>3, <2>4, <2>5, <2>6, ReaderRead
<1>3. CASE TakeNotice(a)
  <2>1. PICK n \in queue[a] :
          LET fresh == Fresh(n, lastSeen[a], counts) IN
          /\ lastSeen' = [lastSeen EXCEPT ![a] = ReadUpTo(fresh, @, counts)]
          /\ told' = [told EXCEPT ![a] = @ \cup UNION {Visible(a, c) : c \in fresh}]
          /\ UNCHANGED <<router, calls>>
    BY <1>3 DEF TakeNotice
  <2> DEFINE fresh == Fresh(n, lastSeen[a], counts)
  <2>2. fresh \in SUBSET Channels
    BY DEF ReadInv, TypeOK, Fresh, Notice
  <2>3. lastSeen' = [lastSeen EXCEPT ![a] = ReadUpTo(fresh, @, counts)]
        /\ told' = [told EXCEPT ![a] = @ \cup UNION {Visible(a, c) : c \in fresh}]
    BY <2>1
  <2> HIDE DEF fresh
  <2>4. ReadUpTo(fresh, lastSeen[a], counts)
          = [d \in Channels |-> IF d \in fresh THEN Len(history[d]) ELSE lastSeen[a][d]]
    BY DEF ReadUpTo, counts
  <2>5. lastSeen' = [lastSeen EXCEPT ![a] =
                       [d \in Channels |-> IF d \in fresh THEN Len(history[d]) ELSE @[d]]]
    BY <1>1, <2>3, <2>4
  <2>6. \A d \in fresh : Visible(a, d) \subseteq told'[a]
    BY <1>1, <2>3
  <2>7. \A b \in Agents : told[b] \subseteq told'[b]
    BY <1>1, <2>3
  <2>8. UNCHANGED <<members, history, join>> /\ op' = op
    BY <2>1 DEF router, calls
  <2>9. QED BY <2>2, <2>5, <2>6, <2>7, <2>8, ReaderRead
<1>4. CASE DrainUnread(a)
  <2> DEFINE chans == {c \in Channels : a \in members[c]}
  <2>1. lastSeen' = [lastSeen EXCEPT ![a] =
                       [d \in Channels |-> IF d \in chans THEN Len(history[d]) ELSE @[d]]]
    BY <1>4 DEF DrainUnread
  <2>2. \A b \in Agents : told[b] \subseteq told'[b]
    BY <1>1, <1>4 DEF DrainUnread
  <2>3. ASSUME NEW d \in chans
        PROVE  Visible(a, d) \subseteq told'[a]
    <3>1. Unread(a, d) \subseteq told'[a]
      BY <1>1, <1>4 DEF DrainUnread
    <3>2. \A i \in Window(a, d) : i <= lastSeen[a][d] => history[d][i] \in told'[a]
      BY <2>2 DEF ReadInv, ReadMeansTold
    <3>3. \A i \in Window(a, d) : i <= lastSeen[a][d] \/ i > lastSeen[a][d]
      BY <1>1 DEF ReadInv, TypeOK, Window
    <3>4. QED BY <3>1, <3>2, <3>3 DEF Visible, Unread
  <2>4. UNCHANGED <<members, history, join>> /\ op' = op
    BY <1>4 DEF DrainUnread, router, calls
  <2>5. chans \in SUBSET Channels
    OBVIOUS
  <2> HIDE DEF chans
  <2>6. QED BY <2>1, <2>2, <2>3, <2>4, <2>5, ReaderRead
<1>5. QED BY <1>2, <1>3, <1>4

\* A newcomer starts at the end and sees nothing; a wiped or unopened channel
\* has nothing to see.
LEMMA WorldRead ==
    ASSUME ReadInv, NEW c \in Channels,
           \/ \E group \in SUBSET Agents : UpdateMembers(c, group) \/ OpenDirect(c, group)
           \/ ClearHistory(c)
    PROVE  SeenWithinHistory' /\ ReadMeansTold' /\ UpToDateSenderKnows' /\ UnopenedIsEmpty'
<1>1. /\ members \in [Channels -> SUBSET Agents]
      /\ history \in [Channels -> Seq(Message)]
      /\ join \in [Channels -> [Agents -> Nat]]
      /\ lastSeen \in [Agents -> [Channels -> Nat]]
      /\ \A d \in Channels : Len(history[d]) \in Nat
  BY DEF ReadInv, TypeOK
<1> DEFINE \* What the step has to keep: each window shrinks, or its channel is empty.
           Shrinks == \A b \in Agents, d \in Channels : \A i \in Window(b, d)' :
                         /\ i \in Window(b, d)
                         /\ history'[d][i] = history[d][i]
                         /\ lastSeen'[b][d] = lastSeen[b][d]
<1>2. ASSUME Shrinks, op' = op, told' = told
      PROVE  ReadMeansTold' /\ UpToDateSenderKnows'
  <2>1. ReadMeansTold'
    BY <1>2 DEF ReadInv, ReadMeansTold
  <2>2. SUFFICES ASSUME NEW s \in Sends, op'[s].pc = "logging", op'[s].upToDate,
                        NEW b, NEW d, b = op'[s].agent, d = op'[s].chan,
                        NEW i \in Window(b, d)'
                 PROVE  history'[d][i] \in told'[b]
    BY <2>1 DEF UpToDateSenderKnows, Visible, Window
  <2>3. b \in Agents /\ d \in Channels /\ Visible(b, d) \subseteq told[b]
    BY <1>2, <2>2 DEF ReadInv, TypeOK, Ops, UpToDateSenderKnows
  <2>4. QED BY <1>2, <2>2, <2>3 DEF Visible
<1>3. ASSUME NEW new \in SUBSET Agents, UpdateMembers(c, new)
      PROVE  SeenWithinHistory' /\ ReadMeansTold' /\ UpToDateSenderKnows' /\ UnopenedIsEmpty'
  <2> DEFINE joining == new \ members[c]
             leaving == members[c] \ new
  <2>1. /\ members' = [members EXCEPT ![c] = new]
        /\ join' = [join EXCEPT ![c] = [a \in Agents |->
              IF a \in joining THEN Len(history[c]) ELSE IF a \in leaving THEN 0 ELSE @[a]]]
        /\ lastSeen' = [a \in Agents |-> IF a \in joining
                                         THEN [lastSeen[a] EXCEPT ![c] = Len(history[c])]
                                         ELSE lastSeen[a]]
        /\ history' = history /\ op' = op /\ told' = told /\ new # {}
    BY <1>3 DEF UpdateMembers, calls
  <2>2. SeenWithinHistory'
    <3> SUFFICES ASSUME NEW b \in Agents, NEW d \in Channels
                 PROVE  lastSeen'[b][d] <= Len(history'[d])
      BY DEF SeenWithinHistory
    <3>1. lastSeen'[b][d] \in {lastSeen[b][d], Len(history[d])}
      BY <1>1, <2>1
    <3>2. QED BY <1>1, <2>1, <3>1 DEF ReadInv, SeenWithinHistory
  <2>3. UnopenedIsEmpty'
    BY <1>1, <2>1 DEF ReadInv, UnopenedIsEmpty
  <2>4. Shrinks
    <3> SUFFICES ASSUME NEW b \in Agents, NEW d \in Channels, NEW i \in Window(b, d)'
                 PROVE  /\ i \in Window(b, d)
                        /\ history'[d][i] = history[d][i]
                        /\ lastSeen'[b][d] = lastSeen[b][d]
      OBVIOUS
    <3>1. b \in members'[d] /\ i \in (join'[d][b] + 1)..Len(history[d])
      BY <2>1 DEF Window
    <3>2. CASE d = c /\ b \in joining
      <4>1. join'[d][b] = Len(history[d])
        BY <1>1, <2>1, <3>2
      <4>2. QED BY <1>1, <3>1, <4>1
    <3>3. CASE ~(d = c /\ b \in joining)
      <4>1. b \in members[d] /\ join'[d][b] = join[d][b]
        BY <1>1, <2>1, <3>1, <3>3
      <4>2. lastSeen'[b][d] = lastSeen[b][d]
        BY <1>1, <2>1, <3>3
      <4>3. QED BY <2>1, <3>1, <4>1, <4>2 DEF Window
    <3>4. QED BY <3>2, <3>3
  <2>5. QED BY <1>2, <2>1, <2>2, <2>3, <2>4
<1>4. ASSUME NEW group \in SUBSET Agents, OpenDirect(c, group)
      PROVE  SeenWithinHistory' /\ ReadMeansTold' /\ UpToDateSenderKnows' /\ UnopenedIsEmpty'
  <2>1. /\ members' = [members EXCEPT ![c] = group] /\ history[c] = <<>>
        /\ UNCHANGED <<history, join, lastSeen, op, told>>
    BY <1>4 DEF OpenDirect, inboxes, calls, ghosts, ReadInv, UnopenedIsEmpty
  <2>2. SeenWithinHistory' /\ UnopenedIsEmpty'
    BY <1>1, <2>1 DEF ReadInv, SeenWithinHistory, UnopenedIsEmpty
  <2>3. Shrinks
    <3> SUFFICES ASSUME NEW b \in Agents, NEW d \in Channels, NEW i \in Window(b, d)'
                 PROVE  /\ i \in Window(b, d)
                        /\ history'[d][i] = history[d][i]
                        /\ lastSeen'[b][d] = lastSeen[b][d]
      OBVIOUS
    <3>1. d # c
      <4>1. SUFFICES ASSUME d = c PROVE FALSE
        OBVIOUS
      <4>2. i \in (join[c][b] + 1)..Len(history[c]) /\ Len(history[c]) = 0 /\ join[c][b] \in Nat
        BY <1>1, <2>1, <4>1 DEF Window
      <4>3. QED BY <4>2
    <3>2. QED BY <1>1, <2>1, <3>1 DEF Window
  <2>4. QED BY <1>2, <2>1, <2>2, <2>3
<1>5. CASE ClearHistory(c)
  <2>1. /\ history' = [history EXCEPT ![c] = <<>>]
        /\ join' = [join EXCEPT ![c] = [a \in Agents |-> 0]]
        /\ lastSeen' = [a \in Agents |-> [lastSeen[a] EXCEPT ![c] = 0]]
        /\ members' = members /\ op' = op /\ told' = told
    BY <1>5 DEF ClearHistory, calls, ghosts
  <2>2. SeenWithinHistory' /\ UnopenedIsEmpty'
    BY <1>1, <2>1 DEF ReadInv, SeenWithinHistory, UnopenedIsEmpty
  <2>3. Shrinks
    <3> SUFFICES ASSUME NEW b \in Agents, NEW d \in Channels, NEW i \in Window(b, d)'
                 PROVE  /\ i \in Window(b, d)
                        /\ history'[d][i] = history[d][i]
                        /\ lastSeen'[b][d] = lastSeen[b][d]
      OBVIOUS
    <3>1. d # c
      BY <1>1, <2>1 DEF Window
    <3>2. history'[d] = history[d] /\ join'[d] = join[d] /\ lastSeen'[b][d] = lastSeen[b][d]
      BY <1>1, <2>1, <3>1
    <3>3. QED BY <2>1, <3>2 DEF Window
  <2>4. QED BY <1>2, <2>1, <2>2, <2>3
<1>6. QED BY <1>3, <1>4, <1>5

\* A new occupant starts at position 0 and has no call in its log write.
LEMMA InstallRead ==
    ASSUME ReadInv, TypeOK', NEW a \in Agents, NEW v, SwapInstall(a, v)
    PROVE  SeenWithinHistory' /\ ReadMeansTold' /\ UpToDateSenderKnows' /\ UnopenedIsEmpty'
<1>1. /\ members' = members /\ history' = history /\ op' = op
      /\ lastSeen' = [lastSeen EXCEPT ![a] = [c \in Channels |-> 0]]
      /\ told' = [told EXCEPT ![a] = {}]
      /\ InFlight(a) = {}
      /\ join' = [c \in Channels |->
                  IF a \in members[c]
                  THEN [join[c] EXCEPT ![a] = JoinIndex(a, c, v[c])]
                  ELSE join[c]]
  BY DEF SwapInstall, calls
<1>2. /\ join \in [Channels -> [Agents -> Nat]]
      /\ lastSeen \in [Agents -> [Channels -> Nat]]
      /\ \A d \in Channels : Len(history[d]) \in Nat
      /\ told \in [Agents -> SUBSET Message]
  BY DEF ReadInv, TypeOK
<1>3. SeenWithinHistory' /\ UnopenedIsEmpty'
  BY <1>1, <1>2 DEF ReadInv, SeenWithinHistory, UnopenedIsEmpty
<1>4. \A b \in Agents \ {a}, d \in Channels : Window(b, d)' = Window(b, d)
  BY <1>1, <1>2 DEF Window
<1>5. ReadMeansTold'
  <2> SUFFICES ASSUME NEW b \in Agents, NEW d \in Channels, NEW i \in Window(b, d)',
                      i <= lastSeen'[b][d]
               PROVE  history'[d][i] \in told'[b]
    BY DEF ReadMeansTold
  <2>1. CASE b = a
    <3>1. lastSeen'[a][d] = 0
      BY <1>1, <1>2
    <3>2. join'[d][a] \in Nat
      BY DEF TypeOK
    <3>3. QED BY <1>1, <1>2, <2>1, <3>1, <3>2 DEF Window
  <2>2. CASE b # a
    <3>1. i \in Window(b, d)
      BY <1>4, <2>2
    <3>2. QED BY <1>1, <1>2, <2>2, <3>1 DEF ReadInv, ReadMeansTold
  <2>3. QED BY <2>1, <2>2
<1>6. UpToDateSenderKnows'
  <2> SUFFICES ASSUME NEW s \in Sends, op'[s].pc = "logging", op'[s].upToDate,
                      NEW b, NEW d, b = op'[s].agent, d = op'[s].chan,
                      NEW i \in Window(b, d)'
               PROVE  history'[d][i] \in told'[b]
    BY DEF UpToDateSenderKnows, Visible, Window
  <2>1. b # a /\ b \in Agents /\ d \in Channels
    BY <1>1 DEF InFlight, ReadInv, TypeOK, Ops
  <2>2. Visible(b, d) \subseteq told[b] /\ i \in Window(b, d)
    BY <1>1, <1>4, <2>1 DEF ReadInv, UpToDateSenderKnows
  <2>3. QED BY <1>1, <1>2, <2>1, <2>2 DEF Visible
<1>7. QED BY <1>3, <1>5, <1>6

\* Every step of a call but Store changes its own slot only, and leaves its log
\* write or stays out of it.
LEMMA CallMoves ==
    ASSUME TypeOK, NEW t \in Sends,
           \/ \E a \in Agents, c \in Channels, force \in BOOLEAN : Send(t, a, c, force)
           \/ TokensCounted(t) \/ CancelSend(t) \/ Refuse(t) \/ Conflict(t) \/ Announce(t)
    PROVE  op' = [op EXCEPT ![t] = op'[t]] /\ op'[t].pc # "logging"
<1>1. op \in [Sends -> Ops]
  BY DEF TypeOK
<1>2. ASSUME NEW a \in Agents, NEW c \in Channels, NEW force \in BOOLEAN, Send(t, a, c, force)
      PROVE  op' = [op EXCEPT ![t] = op'[t]] /\ op'[t].pc # "logging"
  BY <1>1, <1>2 DEF Send
<1>3. CASE TokensCounted(t)
  <2>1. op' = [op EXCEPT ![t] = [op[t] EXCEPT !.pc = "waiting"]]
    BY <1>3 DEF TokensCounted
  <2>2. [op[t] EXCEPT !.pc = "waiting"].pc = "waiting"
    BY <1>1 DEF Ops
  <2>3. QED BY <1>1, <2>1, <2>2
<1>4. CASE CancelSend(t) \/ Refuse(t) \/ Conflict(t) \/ Announce(t)
  <2>1. op' = [op EXCEPT ![t] = NoOp] /\ NoOp.pc = "idle"
    BY <1>4 DEF CancelSend, Refuse, Conflict, Announce, Answer, NoOp
  <2>2. QED BY <1>1, <2>1
<1>5. QED BY <1>2, <1>3, <1>4

LEMMA NextRead == ReadInv /\ [Next]_vars => ReadInv'
<1> SUFFICES ASSUME ReadInv, [Next]_vars
             PROVE  SeenWithinHistory' /\ ReadMeansTold' /\ UpToDateSenderKnows' /\ UnopenedIsEmpty'
  BY NextLocked DEF ReadInv
<1>1. TypeOK'
  BY NextLocked DEF ReadInv
<1> DEFINE Goal == SeenWithinHistory' /\ ReadMeansTold' /\ UpToDateSenderKnows' /\ UnopenedIsEmpty'
<1>2. ASSUME NEW s \in Sends,
             \/ \E a \in Agents, c \in Channels, force \in BOOLEAN : Send(s, a, c, force)
             \/ TokensCounted(s) \/ CancelSend(s) \/ Refuse(s)
      PROVE  Goal
  <2>1. \A t \in Sends : op'[t].pc = "logging" => op'[t] = op[t]
    <3>1. op' = [op EXCEPT ![s] = op'[s]] /\ op'[s].pc # "logging"
      BY <1>2, CallMoves DEF ReadInv
    <3>2. QED BY <3>1 DEF ReadInv, TypeOK
  <2>2. UNCHANGED <<members, history, join, lastSeen, told>>
    BY <1>2 DEF Send, TokensCounted, CancelSend, Refuse, router, inboxes, ghosts
  <2>3. QED BY <2>1, <2>2, ReadFrame
<1>3. ASSUME NEW s \in Sends, Conflict(s)
      PROVE  Goal
  <2>1. \A t \in Sends : op'[t].pc = "logging" => op'[t] = op[t]
    BY <1>3 DEF Conflict, Answer, NoOp, ReadInv, TypeOK
  <2>2. UNCHANGED <<members, history, join, lastSeen>>
    BY <1>3 DEF Conflict, router, inboxes
  <2>3. \A a \in Agents : told[a] \subseteq told'[a]
    BY <1>3 DEF Conflict, ReadInv, TypeOK
  <2>4. QED BY <2>1, <2>2, <2>3, ReadFrame
<1>4. ASSUME NEW s \in Sends, Store(s) \/ Announce(s)
      PROVE  Goal
  BY <1>4, StoreRead, AnnounceRead
<1>5. ASSUME NEW a \in Agents,
             TakeNotice(a) \/ DrainUnread(a) \/ \E c \in Channels : ReadChannel(a, c)
      PROVE  Goal
  BY <1>5, ReadersRead
<1>6. ASSUME NEW c \in Channels,
             ClearHistory(c)
                \/ \E group \in SUBSET Agents : UpdateMembers(c, group) \/ OpenDirect(c, group)
      PROVE  Goal
  BY <1>6, WorldRead
<1>7. ASSUME NEW a \in Agents, NEW v, SwapInstall(a, v)
      PROVE  Goal
  BY <1>1, <1>7, InstallRead
<1>8. CASE \/ AdvanceRound \/ SnapshotRound \/ OpenRound \/ UNCHANGED vars
           \/ \E a \in Agents : SwapBegin(a) \/ DiscardStale(a)
  <2>1. UNCHANGED <<members, history, join, lastSeen, told, op>>
    BY <1>8 DEF AdvanceRound, SnapshotRound, OpenRound, SwapBegin, DiscardStale, vars,
                router, inboxes, calls, ghosts
  <2>2. QED BY <2>1, ReadFrame
<1>9. QED BY <1>2, <1>3, <1>4, <1>5, <1>6, <1>7, <1>8 DEF Next, SendStep, Swap

\* A read position never runs ahead of what its agent was shown or told.
THEOREM ReadAlwaysMeansTold == Spec => []ReadMeansTold
<1>1. ReadInv => ReadMeansTold
  BY DEF ReadInv
<1>2. QED BY InitRead, NextRead, <1>1, PTL DEF Spec

\* An unforced store finds its sender's position at the end of the channel, and
\* everything up to there the sender has been told.
LEMMA StoreKnows ==
    ASSUME ReadInv, NEW s \in Sends, Store(s), ~op[s].force
    PROVE  Visible(op[s].agent, op[s].chan) \subseteq told[op[s].agent]
<1>1. op[s].agent \in Agents /\ op[s].chan \in Channels
  BY DEF ReadInv, TypeOK, Ops
<1>2. \A i \in Window(op[s].agent, op[s].chan) : i <= Len(history[op[s].chan])
  BY <1>1 DEF ReadInv, TypeOK, Window
<1>3. Len(history[op[s].chan]) <= lastSeen[op[s].agent][op[s].chan]
  BY DEF Store
<1>4. \A i \in Window(op[s].agent, op[s].chan) : i <= lastSeen[op[s].agent][op[s].chan]
  <2>1. \A i \in Window(op[s].agent, op[s].chan) : i \in Nat
    BY <1>1 DEF ReadInv, TypeOK, Window
  <2>2. Len(history[op[s].chan]) \in Nat /\ lastSeen[op[s].agent][op[s].chan] \in Nat
    BY <1>1 DEF ReadInv, TypeOK
  <2>3. QED BY <1>2, <1>3, <2>1, <2>2
<1>5. QED BY <1>1, <1>4 DEF ReadInv, ReadMeansTold, Visible

\* Only Store takes a call from waiting to its log write.
LEMMA OnlyStoreStores ==
    ASSUME TypeOK, [Next]_vars, NEW s \in Sends, StoredBy(s)
    PROVE  Store(s)
<1>1. op[s].pc = "waiting" /\ op'[s].pc = "logging" /\ op' # op
  BY DEF StoredBy
<1>2. ASSUME NEW t \in Sends,
             \/ \E a \in Agents, c \in Channels, force \in BOOLEAN : Send(t, a, c, force)
             \/ TokensCounted(t) \/ CancelSend(t) \/ Refuse(t) \/ Conflict(t) \/ Announce(t)
      PROVE  FALSE
  <2>1. op' = [op EXCEPT ![t] = op'[t]] /\ op'[t].pc # "logging"
    BY <1>2, CallMoves
  <2>2. QED BY <1>1, <2>1 DEF TypeOK
<1>3. ASSUME NEW t \in Sends, Store(t)
      PROVE  t = s
  BY <1>1, <1>3 DEF Store, TypeOK
<1>4. UNCHANGED op \/ \E t \in Sends :
         \/ \E a \in Agents, c \in Channels, force \in BOOLEAN : Send(t, a, c, force)
         \/ TokensCounted(t) \/ CancelSend(t) \/ SendStep(t)
  BY DEF Next, Swap, TakeNotice, DiscardStale, DrainUnread, SwapBegin, SwapInstall, ReadChannel,
         ClearHistory, UpdateMembers, OpenDirect, AdvanceRound, SnapshotRound, OpenRound,
         vars, calls
<1>5. QED BY <1>1, <1>2, <1>3, <1>4 DEF SendStep

\* Nobody posts blind: what the sender could see it had been told.
THEOREM SendsAreNeverBlind == Spec => NoBlindSend
<1>1. ReadInv /\ [Next]_vars =>
        [\A s \in Sends : StoredBy(s) /\ ~op[s].force =>
           Visible(op[s].agent, op[s].chan) \subseteq told[op[s].agent]]_vars
  <2> SUFFICES ASSUME ReadInv, [Next]_vars, NEW s \in Sends, StoredBy(s), ~op[s].force
               PROVE  Visible(op[s].agent, op[s].chan) \subseteq told[op[s].agent]
    OBVIOUS
  <2>1. Store(s)
    BY OnlyStoreStores DEF ReadInv
  <2>2. QED BY <2>1, StoreKnows
<1>2. QED BY InitRead, NextRead, <1>1, PTL DEF Spec, NoBlindSend

\* Nobody posts into a channel it has left, or after it was told to stop.
THEOREM PostersAreAlwaysCurrent == Spec => PostersAreCurrent
<1>1. TypeOK /\ [Next]_vars =>
        [\A s \in Sends : StoredBy(s) =>
           op[s].agent \in members[op[s].chan] /\ op[s].agent \notin terminated]_vars
  BY OnlyStoreStores DEF Store, MayPost
<1>2. QED BY TypeAlways, <1>1, PTL DEF Spec, PostersAreCurrent

-----------------------------------------------------------------------------
(* No message goes unnoticed, as long as no call is cancelled in its log write *)

LEMMA InitStamps == Init => StampsDiffer
BY DEF Init, StampsDiffer

LEMMA NextStamps == TypeOK /\ StampsDiffer /\ [Next]_vars => StampsDiffer'
<1> SUFFICES ASSUME TypeOK, StampsDiffer, [Next]_vars
             PROVE  StampsDiffer'
  OBVIOUS
<1>1. /\ queue \in [Agents -> SUBSET Notice]
      /\ pushes \in [Agents -> Nat]
      /\ \A a \in Agents : \A n \in queue[a] : n.at \in Nat
  BY DEF TypeOK, Notice
<1>2. CASE UNCHANGED <<queue, pushes>>
  BY <1>2 DEF StampsDiffer
<1>3. ASSUME NEW s \in Sends, Announce(s)
      PROVE  StampsDiffer'
  <2> DEFINE new(a) == [at |-> pushes[a], kind |-> "messages", channels |-> {op[s].chan}]
  <2>1. \A a \in Agents : \/ queue'[a] = queue[a] /\ pushes'[a] = pushes[a]
                          \/ queue'[a] = queue[a] \cup {new(a)} /\ pushes'[a] = pushes[a] + 1
    BY <1>1, <1>3 DEF Announce, Announced
  <2>2. \A a \in Agents : new(a).at = pushes[a]
    OBVIOUS
  <2> HIDE DEF new
  <2>3. QED BY <1>1, <2>1, <2>2 DEF StampsDiffer
<1>4. ASSUME NEW a \in Agents, NEW v, SwapInstall(a, v)
      PROVE  StampsDiffer'
  <2> DEFINE new == [at |-> pushes[a], kind |-> "messages",
                     channels |-> {c \in Channels : a \in members[c]}]
  <2>1. queue' = [queue EXCEPT ![a] = {new}] /\ pushes' = [pushes EXCEPT ![a] = @ + 1]
        /\ new.at = pushes[a]
    BY <1>4 DEF SwapInstall
  <2> HIDE DEF new
  <2>2. QED BY <1>1, <2>1 DEF StampsDiffer
<1>5. ASSUME NEW a \in Agents, TakeNotice(a) \/ DiscardStale(a)
      PROVE  StampsDiffer'
  <2>1. pushes' = pushes
    BY <1>5 DEF TakeNotice, DiscardStale
  <2>2. \A b \in Agents : queue'[b] \subseteq queue[b]
    BY <1>1, <1>5 DEF TakeNotice, DiscardStale, Behind, Live
  <2>3. QED BY <2>1, <2>2 DEF StampsDiffer
<1>6. QED
  BY <1>2, <1>3, <1>4, <1>5 DEF Next, SendStep, Swap, Send, TokensCounted, CancelSend, Refuse,
     Conflict, Store, DrainUnread, ReadChannel, ClearHistory, UpdateMembers, OpenDirect,
     AdvanceRound, SnapshotRound, OpenRound, SwapBegin, vars, inboxes

\* The inductive invariant behind UnreadIsAnnounced.
NoticeInv == ReadInv /\ StampsDiffer /\ UnreadIsAnnounced

\* A step that leaves channels and read positions alone, drops no notice and
\* ends no log write.
LEMMA NoticeFrame ==
    ASSUME NoticeInv, UNCHANGED <<members, history, lastSeen>>,
           \A a \in Agents : queue[a] \subseteq queue'[a],
           \A s \in Sends : op[s].pc = "logging" => op'[s] = op[s]
    PROVE  UnreadIsAnnounced'
<1> SUFFICES ASSUME NEW a \in Agents, NEW c \in Channels,
                    a \in members[c], lastSeen[a][c] < Len(history[c])
             PROVE  \/ \E n \in queue'[a] : c \in n.channels
                    \/ \E s \in Sends : /\ op'[s].pc = "logging" /\ op'[s].chan = c
                                        /\ (op'[s].agent = a => op'[s].upToDate)
  BY DEF UnreadIsAnnounced
<1>1. CASE \E n \in queue[a] : c \in n.channels
  BY <1>1
<1>2. CASE \E s \in Sends : /\ op[s].pc = "logging" /\ op[s].chan = c
                            /\ (op[s].agent = a => op[s].upToDate)
  <2>1. PICK s \in Sends : /\ op[s].pc = "logging" /\ op[s].chan = c
                           /\ op[s].agent = a => op[s].upToDate
    BY <1>2
  <2>2. op'[s] = op[s]
    BY <2>1
  <2>3. QED BY <2>1, <2>2
<1>3. QED BY <1>1, <1>2 DEF NoticeInv, UnreadIsAnnounced

\* Reading moves positions to the end; a notice is dropped only when its
\* channels hold nothing its agent has not read.
LEMMA ReaderNotice ==
    ASSUME NoticeInv, NEW a \in Agents, UNCHANGED <<members, history, op>>,
           \A b \in Agents \ {a} : lastSeen'[b] = lastSeen[b] /\ queue'[b] = queue[b],
           \A c \in Channels : \/ lastSeen'[a][c] = lastSeen[a][c]
                               \/ lastSeen'[a][c] = Len(history[c]),
           \A n \in queue[a] : \/ n \in queue'[a]
                               \/ \A c \in n.channels : lastSeen'[a][c] >= Len(history[c])
    PROVE  UnreadIsAnnounced'
<1> SUFFICES ASSUME NEW b \in Agents, NEW c \in Channels,
                    b \in members[c], lastSeen'[b][c] < Len(history[c])
             PROVE  \/ \E n \in queue'[b] : c \in n.channels
                    \/ \E s \in Sends : /\ op[s].pc = "logging" /\ op[s].chan = c
                                        /\ (op[s].agent = b => op[s].upToDate)
  BY DEF UnreadIsAnnounced
<1>1. lastSeen[b][c] \in Nat /\ Len(history[c]) \in Nat
  BY DEF NoticeInv, ReadInv, TypeOK
<1>2. lastSeen'[b][c] = lastSeen[b][c] /\ lastSeen[b][c] < Len(history[c])
  BY <1>1
<1>3. CASE \E n \in queue[b] : c \in n.channels
  <2>1. PICK n \in queue[b] : c \in n.channels
    BY <1>3
  <2>2. n \in queue'[b]
    BY <1>1, <1>2, <2>1
  <2>3. QED BY <2>1, <2>2
<1>4. QED BY <1>2, <1>3 DEF NoticeInv, UnreadIsAnnounced

LEMMA ReadersNotice ==
    ASSUME NoticeInv, NEW a \in Agents,
           \/ \E c \in Channels : ReadChannel(a, c)
           \/ TakeNotice(a) \/ DiscardStale(a) \/ DrainUnread(a)
    PROVE  UnreadIsAnnounced'
<1>1. /\ lastSeen \in [Agents -> [Channels -> Nat]]
      /\ queue \in [Agents -> SUBSET Notice]
      /\ counts \in [Channels -> Nat]
      /\ \A c \in Channels : counts[c] = Len(history[c])
  BY CountsType DEF NoticeInv, ReadInv, TypeOK, counts
<1>2. \A n \in queue[a] : IsStale(n, lastSeen[a], counts) =>
         \A c \in n.channels : c \in Channels /\ lastSeen[a][c] >= Len(history[c])
  <2> SUFFICES ASSUME NEW n \in queue[a], IsStale(n, lastSeen[a], counts), NEW c \in n.channels
               PROVE  c \in Channels /\ lastSeen[a][c] >= Len(history[c])
    OBVIOUS
  <2>1. c \in Channels
    BY <1>1 DEF Notice
  <2>2. ~(counts[c] > lastSeen[a][c])
    BY DEF IsStale, Fresh
  <2>3. QED BY <1>1, <2>1, <2>2
<1>3. ASSUME NEW c \in Channels, ReadChannel(a, c)
      PROVE  UnreadIsAnnounced'
  <2>1. UNCHANGED <<members, history, op, queue>>
        /\ lastSeen' = [lastSeen EXCEPT ![a][c] = Len(history[c])]
    BY <1>3 DEF ReadChannel, router, calls
  <2>2. QED BY <1>1, <2>1, ReaderNotice
<1>4. CASE DrainUnread(a)
  <2>1. UNCHANGED <<members, history, op, queue>>
        /\ lastSeen' = [lastSeen EXCEPT ![a] = [c \in Channels |->
                          IF a \in members[c] THEN Len(history[c]) ELSE @[c]]]
    BY <1>4 DEF DrainUnread, router, calls
  <2>2. QED BY <1>1, <2>1, ReaderNotice
<1>5. CASE DiscardStale(a)
  <2>1. UNCHANGED <<members, history, op, lastSeen>>
        /\ queue' = [queue EXCEPT ![a] = Live(@, lastSeen[a], counts)]
    BY <1>5 DEF DiscardStale, router, calls
  <2>2. \A n \in queue[a] : \/ n \in queue'[a]
                            \/ \A c \in n.channels : lastSeen'[a][c] >= Len(history[c])
    BY <1>1, <1>2, <2>1 DEF Live
  <2>3. \A b \in Agents \ {a} : lastSeen'[b] = lastSeen[b] /\ queue'[b] = queue[b]
    BY <1>1, <2>1
  <2>4. QED BY <2>1, <2>2, <2>3, ReaderNotice
<1>6. CASE TakeNotice(a)
  <2>1. PICK n \in queue[a] :
          LET fresh == Fresh(n, lastSeen[a], counts) IN
          /\ IsOldest(n, Live(queue[a], lastSeen[a], counts))
          /\ queue' = [queue EXCEPT ![a] = Behind(n, @)]
          /\ lastSeen' = [lastSeen EXCEPT ![a] = ReadUpTo(fresh, @, counts)]
          /\ UNCHANGED <<router, calls>>
    BY <1>6 DEF TakeNotice
  <2>2. \A c \in Channels : lastSeen'[a][c] = IF c \in Fresh(n, lastSeen[a], counts)
                                              THEN Len(history[c]) ELSE lastSeen[a][c]
    BY <1>1, <2>1 DEF ReadUpTo
  <2>3. \A b \in Agents \ {a} : lastSeen'[b] = lastSeen[b] /\ queue'[b] = queue[b]
    BY <1>1, <2>1
  <2>4. \A m \in queue[a] : m \in queue'[a] \/ \A c \in m.channels : lastSeen'[a][c] >= Len(history[c])
    <3> SUFFICES ASSUME NEW m \in queue[a], m \notin queue'[a], NEW c \in m.channels
                 PROVE  lastSeen'[a][c] >= Len(history[c])
      OBVIOUS
    <3>1. m.at \in Nat /\ n.at \in Nat /\ c \in Channels /\ ~(m.at > n.at)
      BY <1>1, <2>1 DEF Notice, Behind
    <3>2. Len(history[c]) \in Nat /\ lastSeen[a][c] \in Nat
      BY <1>1, <3>1
    <3>3. CASE IsStale(m, lastSeen[a], counts)
      BY <1>2, <2>2, <3>1, <3>2, <3>3
    <3>4. CASE ~IsStale(m, lastSeen[a], counts)
      <4>1. n.at <= m.at
        BY <2>1, <3>4 DEF IsOldest, Live
      <4>2. m = n
        BY <3>1, <4>1 DEF NoticeInv, StampsDiffer
      <4>3. CASE c \in Fresh(n, lastSeen[a], counts)
        BY <2>2, <3>1, <3>2, <4>3
      <4>4. CASE c \notin Fresh(n, lastSeen[a], counts)
        BY <1>1, <2>2, <3>1, <3>2, <4>2, <4>4 DEF Fresh
      <4>5. QED BY <4>3, <4>4
    <3>5. QED BY <3>3, <3>4
  <2>5. UNCHANGED <<members, history, op>>
    BY <2>1 DEF router, calls
  <2>6. QED BY <2>2, <2>3, <2>4, <2>5, ReaderNotice
<1>7. QED BY <1>3, <1>4, <1>5, <1>6

\* The stored message is announced once its log write is over; who was behind on
\* the channel already had a notice, for no other call was in its log write.
LEMMA StoreNotice ==
    ASSUME NoticeInv, NEW s \in Sends, Store(s)
    PROVE  UnreadIsAnnounced'
<1> SUFFICES ASSUME NEW a, NEW c, NEW m, a = op[s].agent, c = op[s].chan,
                    m = [n |-> posted, round |-> round, by |-> a]
             PROVE  UnreadIsAnnounced'
  OBVIOUS
<1>1. a \in Agents /\ c \in Channels /\ history \in [Channels -> Seq(Message)]
      /\ op \in [Sends -> Ops] /\ Len(history[c]) \in Nat /\ lastSeen[a][c] \in Nat
  <2>1. a \in Agents /\ c \in Channels /\ op \in [Sends -> Ops]
    BY DEF NoticeInv, ReadInv, TypeOK, Ops
  <2>2. QED BY <2>1 DEF NoticeInv, ReadInv, TypeOK
<1>2. /\ history' = [history EXCEPT ![c] = Append(@, m)]
      /\ op' = [op EXCEPT ![s].pc = "logging",
                          ![s].upToDate = (lastSeen[a][c] = Len(history[c]))]
      /\ UNCHANGED <<members, lastSeen, queue>>
  BY DEF Store, inboxes
<1>3. /\ op'[s].pc = "logging" /\ op'[s].chan = c /\ op'[s].agent = a
      /\ op'[s].upToDate <=> lastSeen[a][c] = Len(history[c])
      /\ \A t \in Sends \ {s} : op'[t] = op[t]
  BY <1>1, <1>2 DEF Ops
<1>4. \A t \in Sends : op[t].pc = "logging" => op[t].chan # c
  BY OneHolder DEF Store, NoticeInv, ReadInv, LogHoldsLock
<1> SUFFICES ASSUME NEW b \in Agents, NEW d \in Channels,
                    b \in members[d], lastSeen[b][d] < Len(history'[d])
             PROVE  \/ \E n \in queue[b] : d \in n.channels
                    \/ \E t \in Sends : /\ op'[t].pc = "logging" /\ op'[t].chan = d
                                        /\ (op'[t].agent = b => op'[t].upToDate)
  BY <1>2 DEF UnreadIsAnnounced
<1>5. CASE d = c /\ (b # a \/ lastSeen[a][c] = Len(history[c]))
  BY <1>3, <1>5
<1>6. CASE d = c /\ b = a /\ lastSeen[a][c] # Len(history[c])
  <2>1. lastSeen[b][d] < Len(history[d])
    BY <1>1, <1>6 DEF NoticeInv, ReadInv, SeenWithinHistory
  <2>2. QED BY <1>4, <1>6, <2>1 DEF NoticeInv, UnreadIsAnnounced
<1>7. CASE d # c
  <2>1. history'[d] = history[d]
    BY <1>1, <1>2, <1>7
  <2>2. CASE \E n \in queue[b] : d \in n.channels
    BY <2>2
  <2>3. CASE \E t \in Sends : /\ op[t].pc = "logging" /\ op[t].chan = d
                              /\ (op[t].agent = b => op[t].upToDate)
    <3>1. PICK t \in Sends : /\ op[t].pc = "logging" /\ op[t].chan = d
                             /\ op[t].agent = b => op[t].upToDate
      BY <2>3
    <3>2. op'[t] = op[t]
      BY <1>3, <1>7, <3>1
    <3>3. QED BY <3>1, <3>2
  <2>4. QED BY <2>1, <2>2, <2>3 DEF NoticeInv, UnreadIsAnnounced
<1>8. QED BY <1>5, <1>6, <1>7

\* The log write ends and every other member is told; a sender that was behind
\* keeps the notice it had.
LEMMA AnnounceNotice ==
    ASSUME NoticeInv, NEW s \in Sends, Announce(s)
    PROVE  UnreadIsAnnounced'
<1> SUFFICES ASSUME NEW a, NEW c, a = op[s].agent, c = op[s].chan
             PROVE  UnreadIsAnnounced'
  OBVIOUS
<1>1. a \in Agents /\ c \in Channels /\ op \in [Sends -> Ops]
      /\ lastSeen \in [Agents -> [Channels -> Nat]] /\ Len(history[c]) \in Nat
  <2>1. a \in Agents /\ c \in Channels /\ op \in [Sends -> Ops]
    BY DEF NoticeInv, ReadInv, TypeOK, Ops
  <2>2. QED BY <2>1 DEF NoticeInv, ReadInv, TypeOK
<1>2. /\ op[s].pc = "logging" /\ UNCHANGED <<members, history>>
      /\ lastSeen' = IF op[s].upToDate THEN [lastSeen EXCEPT ![a][c] = Len(history[c])]
                                       ELSE lastSeen
      /\ \A b \in Agents : queue[b] \subseteq queue'[b]
      /\ \A b \in members[c] \ {a} : b \in Agents => \E n \in queue'[b] : c \in n.channels
      /\ \A t \in Sends \ {s} : op'[t] = op[t]
  <2> DEFINE new(b) == [at |-> pushes[b], kind |-> "messages", channels |-> {c}]
  <2>1. \A b \in Agents : queue'[b] = IF b \in members[c] \ {a} THEN queue[b] \cup {new(b)}
                                                               ELSE queue[b]
    BY DEF Announce, Announced
  <2>2. \A b : c \in new(b).channels
    OBVIOUS
  <2> HIDE DEF new
  <2>3. QED BY <1>1, <2>1, <2>2 DEF Announce, Answer, router
<1>3. \A t \in Sends : op[t].pc = "logging" /\ op[t].chan = c => t = s
  BY <1>2, OneHolder DEF NoticeInv, ReadInv, LogHoldsLock
<1> SUFFICES ASSUME NEW b \in Agents, NEW d \in Channels,
                    b \in members[d], lastSeen'[b][d] < Len(history[d])
             PROVE  \/ \E n \in queue'[b] : d \in n.channels
                    \/ \E t \in Sends : /\ op'[t].pc = "logging" /\ op'[t].chan = d
                                        /\ (op'[t].agent = b => op'[t].upToDate)
  BY <1>2 DEF UnreadIsAnnounced
<1>4. CASE d = c /\ b # a
  BY <1>2, <1>4
<1>5. CASE d # c \/ b = a
  <2>1. ~(d = c /\ op[s].upToDate)
    BY <1>1, <1>2, <1>5
  <2>2. lastSeen[b][d] < Len(history[d])
    BY <1>1, <1>2, <1>5, <2>1
  <2>3. CASE \E n \in queue[b] : d \in n.channels
    BY <1>2, <2>3
  <2>4. CASE \E t \in Sends : /\ op[t].pc = "logging" /\ op[t].chan = d
                              /\ (op[t].agent = b => op[t].upToDate)
    <3>1. PICK t \in Sends : /\ op[t].pc = "logging" /\ op[t].chan = d
                             /\ op[t].agent = b => op[t].upToDate
      BY <2>4
    <3>2. t # s
      BY <1>5, <2>1, <3>1
    <3>3. op'[t] = op[t]
      BY <1>2, <3>2
    <3>4. QED BY <3>1, <3>3
  <2>5. QED BY <2>2, <2>3, <2>4 DEF NoticeInv, UnreadIsAnnounced
<1>6. QED BY <1>4, <1>5

\* Newcomers start at the end, a wiped or unopened channel has no message, and a
\* new occupant's first notice names every channel it is on.
LEMMA MembersNotice ==
    ASSUME NoticeInv,
           \/ \E c \in Channels :
                 \/ ClearHistory(c)
                 \/ \E group \in SUBSET Agents : UpdateMembers(c, group) \/ OpenDirect(c, group)
           \/ \E a \in Agents : \E v : SwapInstall(a, v)
    PROVE  UnreadIsAnnounced'
<1>1. /\ members \in [Channels -> SUBSET Agents]
      /\ history \in [Channels -> Seq(Message)]
      /\ lastSeen \in [Agents -> [Channels -> Nat]]
      /\ queue \in [Agents -> SUBSET Notice]
      /\ \A d \in Channels : Len(history[d]) \in Nat
  BY DEF NoticeInv, ReadInv, TypeOK
<1> DEFINE Behindhand(b, d) == b \in members[d] /\ lastSeen[b][d] < Len(history[d])
<1>2. ASSUME op' = op,
             \A b \in Agents, d \in Channels :
                b \in members'[d] /\ lastSeen'[b][d] < Len(history'[d]) =>
                   \/ Behindhand(b, d) /\ queue[b] \subseteq queue'[b]
                   \/ \E n \in queue'[b] : d \in n.channels
      PROVE  UnreadIsAnnounced'
  BY <1>2 DEF NoticeInv, UnreadIsAnnounced
<1>3. ASSUME NEW c \in Channels, NEW new \in SUBSET Agents, UpdateMembers(c, new)
      PROVE  UnreadIsAnnounced'
  <2>1. /\ UNCHANGED <<history, queue, op>>
        /\ members' = [members EXCEPT ![c] = new]
        /\ lastSeen' = [a \in Agents |-> IF a \in new \ members[c]
                                         THEN [lastSeen[a] EXCEPT ![c] = Len(history[c])]
                                         ELSE lastSeen[a]]
    BY <1>3 DEF UpdateMembers, calls
  <2>2. ASSUME NEW b \in Agents, NEW d \in Channels,
               b \in members'[d], lastSeen'[b][d] < Len(history'[d])
        PROVE  Behindhand(b, d)
    <3>1. CASE d = c /\ b \in new \ members[c]
      BY <1>1, <2>1, <2>2, <3>1
    <3>2. CASE ~(d = c /\ b \in new \ members[c])
      BY <1>1, <2>1, <2>2, <3>2
    <3>3. QED BY <3>1, <3>2
  <2>3. QED BY <1>2, <2>1, <2>2
<1>4. ASSUME NEW c \in Channels, NEW group \in SUBSET Agents, OpenDirect(c, group)
      PROVE  UnreadIsAnnounced'
  <2>1. /\ UNCHANGED <<history, lastSeen, queue, op>> /\ history[c] = <<>>
        /\ members' = [members EXCEPT ![c] = group]
    BY <1>4 DEF OpenDirect, inboxes, calls, NoticeInv, ReadInv, UnopenedIsEmpty
  <2>2. ASSUME NEW b \in Agents, NEW d \in Channels,
               b \in members'[d], lastSeen'[b][d] < Len(history'[d])
        PROVE  Behindhand(b, d)
    BY <1>1, <2>1, <2>2
  <2>3. QED BY <1>2, <2>1, <2>2
<1>5. ASSUME NEW c \in Channels, ClearHistory(c)
      PROVE  UnreadIsAnnounced'
  <2>1. /\ UNCHANGED <<members, queue, op>>
        /\ history' = [history EXCEPT ![c] = <<>>]
        /\ lastSeen' = [a \in Agents |-> [lastSeen[a] EXCEPT ![c] = 0]]
    BY <1>5 DEF ClearHistory, calls
  <2>2. ASSUME NEW b \in Agents, NEW d \in Channels,
               b \in members'[d], lastSeen'[b][d] < Len(history'[d])
        PROVE  Behindhand(b, d)
    BY <1>1, <2>1, <2>2
  <2>3. QED BY <1>2, <2>1, <2>2
<1>6. ASSUME NEW a \in Agents, NEW v, SwapInstall(a, v)
      PROVE  UnreadIsAnnounced'
  <2> DEFINE new == [at |-> pushes[a], kind |-> "messages",
                     channels |-> {c \in Channels : a \in members[c]}]
  <2>1. /\ UNCHANGED <<members, history, op>>
        /\ lastSeen' = [lastSeen EXCEPT ![a] = [c \in Channels |-> 0]]
        /\ queue' = [queue EXCEPT ![a] = {new}]
        /\ \A c \in Channels : c \in new.channels <=> a \in members[c]
    BY <1>6 DEF SwapInstall, calls
  <2> HIDE DEF new
  <2>2. \A b \in Agents, d \in Channels :
           b \in members'[d] /\ lastSeen'[b][d] < Len(history'[d]) =>
              \/ Behindhand(b, d) /\ queue[b] \subseteq queue'[b]
              \/ \E n \in queue'[b] : d \in n.channels
    BY <1>1, <2>1
  <2>3. QED BY <1>2, <2>1, <2>2
<1>7. QED BY <1>3, <1>4, <1>5, <1>6

\* Under the assumption that no call is cancelled while it writes its log, every
\* step keeps the unread messages announced.
LEMMA NextNotice ==
    ASSUME ~CancelsMidLog, NoticeInv, [Next]_vars
    PROVE  NoticeInv'
<1>1. ReadInv' /\ StampsDiffer'
  BY NextRead, NextStamps DEF NoticeInv, ReadInv
<1> SUFFICES UnreadIsAnnounced'
  BY <1>1 DEF NoticeInv
<1>2. ASSUME NEW s \in Sends,
             \/ \E a \in Agents, c \in Channels, force \in BOOLEAN : Send(s, a, c, force)
             \/ TokensCounted(s) \/ CancelSend(s) \/ Refuse(s) \/ Conflict(s)
      PROVE  UnreadIsAnnounced'
  <2>1. op' = [op EXCEPT ![s] = op'[s]]
    BY <1>2, CallMoves DEF NoticeInv, ReadInv
  <2>2. op[s].pc # "logging"
    BY <1>2 DEF Send, TokensCounted, CancelSend, Refuse, Conflict
  <2>3. \A t \in Sends : op[t].pc = "logging" => op'[t] = op[t]
    BY <2>1, <2>2 DEF NoticeInv, ReadInv, TypeOK
  <2>4. UNCHANGED <<members, history, lastSeen, queue>>
    BY <1>2 DEF Send, TokensCounted, CancelSend, Refuse, Conflict, router, inboxes
  <2>5. QED BY <2>3, <2>4, NoticeFrame
<1>3. ASSUME NEW s \in Sends, Store(s) \/ Announce(s)
      PROVE  UnreadIsAnnounced'
  BY <1>3, StoreNotice, AnnounceNotice
<1>4. ASSUME NEW a \in Agents,
             \/ \E c \in Channels : ReadChannel(a, c)
             \/ TakeNotice(a) \/ DiscardStale(a) \/ DrainUnread(a)
      PROVE  UnreadIsAnnounced'
  BY <1>4, ReadersNotice
<1>5. CASE \/ \E c \in Channels :
                 \/ ClearHistory(c)
                 \/ \E group \in SUBSET Agents : UpdateMembers(c, group) \/ OpenDirect(c, group)
           \/ \E a \in Agents : \E v : SwapInstall(a, v)
  BY <1>5, MembersNotice
<1>6. CASE \/ AdvanceRound \/ SnapshotRound \/ OpenRound \/ UNCHANGED vars
           \/ \E a \in Agents : SwapBegin(a)
  <2>1. UNCHANGED <<members, history, lastSeen, queue, op>>
    BY <1>6 DEF AdvanceRound, SnapshotRound, OpenRound, SwapBegin, vars, router, inboxes, calls
  <2>2. QED BY <2>1, NoticeFrame
<1>7. QED BY <1>2, <1>3, <1>4, <1>5, <1>6 DEF Next, SendStep, Swap

\* No message goes unnoticed, unless a call is cancelled inside its log write.
THEOREM UnreadAlwaysAnnounced == ~CancelsMidLog /\ Spec => []UnreadIsAnnounced
<1>1. Init => NoticeInv
  <2>1. Init => UnreadIsAnnounced
    BY DEF Init, UnreadIsAnnounced
  <2>2. QED BY <2>1, InitRead, InitStamps DEF NoticeInv
<1>2. ~CancelsMidLog /\ NoticeInv /\ [Next]_vars => NoticeInv'
  BY NextNotice
<1>3. NoticeInv => UnreadIsAnnounced
  BY DEF NoticeInv
<1>4. CASE ~CancelsMidLog
  <2>1. NoticeInv /\ [Next]_vars => NoticeInv'
    BY <1>2, <1>4
  <2>2. QED BY <1>1, <1>3, <2>1, PTL DEF Spec
<1>5. QED BY <1>4

-----------------------------------------------------------------------------
(* What a swap withholds *)

\* No message is stored twice, on one channel or on two, and the next number
\* is new to everybody.
MessagesDiffer ==
    /\ \A c \in Channels : \A i \in 1..Len(history[c]) : history[c][i].n < posted
    /\ \A c, d \in Channels : \A i \in 1..Len(history[c]), j \in 1..Len(history[d]) :
          history[c][i] = history[d][j] => c = d /\ i = j
    /\ \A a \in Agents : \A m \in withheld[a] : m.n < posted

\* A round's counts divide its messages from the earlier ones, and seats change
\* hands only at a boundary, behind the round's own snapshot.
Snapshotted(r) == r < round \/ (r = round /\ clock # "advancing")

CountsDivideRounds ==
    /\ \A r \in 1..MaxRound : Snapshotted(r) =>
          \A c \in Channels : \A i \in 1..Len(history[c]) :
              i > start[r][c] => history[c][i].round >= r
    /\ draining # {} => clock = "boundary"

\* Nothing withheld lies in a window.
WindowsHide ==
    \A a \in Agents, c \in Channels : \A i \in Window(a, c) : history[c][i] \notin withheld[a]

HideInv == MessagesDiffer /\ CountsDivideRounds /\ WindowsHide /\ WithheldIsNeverTold

LEMMA InitHide == Init => HideInv
BY DEF Init, HideInv, MessagesDiffer, CountsDivideRounds, WindowsHide, WithheldIsNeverTold

\* A window is a part of its channel.
LEMMA WindowInside ==
    ASSUME TypeOK, NEW a \in Agents, NEW c \in Channels
    PROVE  Window(a, c) \subseteq 1..Len(history[c])
<1>1. join[c][a] \in Nat /\ Len(history[c]) \in Nat
  BY DEF TypeOK
<1>2. QED BY <1>1 DEF Window

\* What a window shows is not withheld.
LEMMA VisibleHides ==
    ASSUME WindowsHide, NEW a \in Agents, NEW c \in Channels
    PROVE  Visible(a, c) \cap withheld[a] = {} /\ Unread(a, c) \subseteq Visible(a, c)
BY DEF WindowsHide, Visible, Unread

\* A step that stores nothing, opens no window and tells an agent only what its
\* windows show.
LEMMA QuietHide ==
    ASSUME TypeOK, HideInv, UNCHANGED <<history, posted, withheld, rounds, draining>>,
           \A a \in Agents, c \in Channels : Window(a, c)' \subseteq Window(a, c),
           \A a \in Agents :
              told'[a] \subseteq told[a] \cup UNION {Visible(a, c) : c \in Channels}
    PROVE  HideInv'
<1>1. MessagesDiffer' /\ CountsDivideRounds'
  BY DEF HideInv, MessagesDiffer, CountsDivideRounds, Snapshotted, rounds
<1>2. WindowsHide'
  BY DEF HideInv, WindowsHide
<1>3. WithheldIsNeverTold'
  BY VisibleHides DEF HideInv, WithheldIsNeverTold
<1>4. QED BY <1>1, <1>2, <1>3 DEF HideInv

\* The steps of a call but Store, and the readers.
LEMMA CallsHide ==
    ASSUME TypeOK, HideInv, NEW s \in Sends,
           \/ \E a \in Agents, c \in Channels, force \in BOOLEAN : Send(s, a, c, force)
           \/ TokensCounted(s) \/ CancelSend(s) \/ Refuse(s) \/ Conflict(s) \/ Announce(s)
    PROVE  HideInv'
<1>1. UNCHANGED <<members, history, join, posted, withheld, rounds, draining>>
  BY DEF Send, TokensCounted, CancelSend, Refuse, Conflict, Announce, router, seats, ghosts
<1>2. \A a \in Agents, c \in Channels : Window(a, c)' = Window(a, c)
  BY <1>1 DEF Window
<1>3. \A a \in Agents :
         told'[a] \subseteq told[a] \cup UNION {Visible(a, c) : c \in Channels}
  <2>1. CASE Conflict(s)
    <3>1. op[s].agent \in Agents /\ op[s].chan \in Channels
      BY DEF TypeOK, Ops
    <3>2. \A a \in Agents : told'[a] \subseteq told[a] \/
             (a = op[s].agent /\ told'[a] = told[a] \cup Unread(a, op[s].chan))
      BY <2>1, <3>1 DEF Conflict, TypeOK
    <3>3. Unread(op[s].agent, op[s].chan) \subseteq Visible(op[s].agent, op[s].chan)
      BY DEF Unread, Visible
    <3>4. ASSUME NEW a \in Agents
          PROVE  told'[a] \subseteq told[a] \cup UNION {Visible(a, c) : c \in Channels}
      BY <3>1, <3>2, <3>3
    <3>5. QED BY <3>4
  <2>2. CASE ~Conflict(s)
    <3>1. told' = told
      BY <2>2 DEF Send, TokensCounted, CancelSend, Refuse, Announce, ghosts
    <3>2. QED BY <3>1
  <2>3. QED BY <2>1, <2>2
<1>4. QED BY <1>1, <1>2, <1>3, QuietHide

LEMMA ReadersHide ==
    ASSUME TypeOK, HideInv, NEW a \in Agents,
           \/ TakeNotice(a) \/ DiscardStale(a) \/ DrainUnread(a)
           \/ \E c \in Channels : ReadChannel(a, c)
    PROVE  HideInv'
<1>1. UNCHANGED <<members, history, join, posted, withheld, rounds, draining>>
  BY DEF TakeNotice, DiscardStale, DrainUnread, ReadChannel, router, seats, ghosts
<1>2. \A b \in Agents, c \in Channels : Window(b, c)' = Window(b, c)
  BY <1>1 DEF Window
<1>3. told' = [told EXCEPT ![a] = told'[a]]
      /\ told'[a] \subseteq told[a] \cup UNION {Visible(a, c) : c \in Channels}
  <2>1. ASSUME NEW c \in Channels, ReadChannel(a, c)
        PROVE  told' = [told EXCEPT ![a] = told'[a]]
               /\ told'[a] \subseteq told[a] \cup UNION {Visible(a, d) : d \in Channels}
    BY <2>1 DEF ReadChannel, TypeOK
  <2>2. CASE DiscardStale(a)
    BY <2>2 DEF DiscardStale, ghosts, TypeOK
  <2>3. CASE DrainUnread(a)
    <3>1. told' = [told EXCEPT ![a] = @ \cup UNION {Unread(a, c) : c \in Channels}]
      BY <2>3 DEF DrainUnread
    <3>2. \A c \in Channels : Unread(a, c) \subseteq Visible(a, c)
      BY DEF Unread, Visible
    <3>3. QED BY <3>1, <3>2 DEF TypeOK
  <2>4. CASE TakeNotice(a)
    <3>1. PICK n \in queue[a] :
             told' = [told EXCEPT ![a] = @ \cup
                        UNION {Visible(a, c) : c \in Fresh(n, lastSeen[a], counts)}]
      BY <2>4 DEF TakeNotice
    <3>2. Fresh(n, lastSeen[a], counts) \subseteq Channels
      BY <3>1 DEF TypeOK, Fresh, Notice
    <3>3. QED BY <3>1, <3>2 DEF TypeOK
  <2>5. QED BY <2>1, <2>2, <2>3, <2>4
<1>4. \A b \in Agents :
         told'[b] \subseteq told[b] \cup UNION {Visible(b, c) : c \in Channels}
  <2>1. told \in [Agents -> SUBSET Message]
    BY DEF TypeOK
  <2>2. \A b \in Agents \ {a} : told'[b] = told[b]
    BY <1>3, <2>1
  <2>3. QED BY <1>3, <2>2
<1>5. QED BY <1>1, <1>2, <1>4, QuietHide

\* A stored message is new: it is behind every count, in its own round, and no
\* swap has withheld it.
LEMMA StoreHides ==
    ASSUME TypeOK, HideInv, NEW s \in Sends, Store(s)
    PROVE  HideInv'
<1> DEFINE a == op[s].agent
           c == op[s].chan
           m == [n |-> posted, round |-> round, by |-> a]
<1>1. a \in Agents /\ c \in Channels /\ m \in Message /\ posted \in Nat /\ round \in 1..MaxRound
  <2>1. a \in Agents /\ c \in Channels
    BY DEF TypeOK, Ops
  <2>2. posted \in Nat /\ round \in 1..MaxRound
    BY MessagingAssumption DEF TypeOK
  <2>3. QED BY <2>1, <2>2, MessagingAssumption DEF Message
<1>2. history[c] \in Seq(Message) /\ Len(history[c]) \in Nat
  BY <1>1 DEF TypeOK
<1>3. /\ Len(Append(history[c], m)) = Len(history[c]) + 1
      /\ Append(history[c], m)[Len(history[c]) + 1] = m
      /\ \A i \in 1..Len(history[c]) : Append(history[c], m)[i] = history[c][i]
  BY <1>1, <1>2, AppendProperties
<1>4. /\ history' = [history EXCEPT ![c] = Append(@, m)]
      /\ told' = [told EXCEPT ![a] = @ \cup {m}]
      /\ posted' = posted + 1
      /\ UNCHANGED <<members, join, withheld, rounds, draining>>
  BY DEF Store, seats
<1>5. m.n = posted /\ m.round = round
  OBVIOUS
<1> HIDE DEF m
<1>6. /\ \A d \in Channels : Len(history[d]) \in Nat
      /\ \A d \in Channels : \A i \in 1..Len(history'[d]) :
            \/ i \in 1..Len(history[d]) /\ history'[d][i] = history[d][i]
            \/ d = c /\ i = Len(history[c]) + 1 /\ history'[d][i] = m
  <2>1. \A d \in Channels : Len(history[d]) \in Nat
    BY DEF TypeOK
  <2> SUFFICES ASSUME NEW d \in Channels, NEW i \in 1..Len(history'[d])
               PROVE  \/ i \in 1..Len(history[d]) /\ history'[d][i] = history[d][i]
                      \/ d = c /\ i = Len(history[c]) + 1 /\ history'[d][i] = m
    BY <2>1
  <2>2. CASE d = c
    <3>1. history'[d] = Append(history[c], m)
      BY <1>1, <1>4, <2>2 DEF TypeOK
    <3>2. i \in 1..(Len(history[c]) + 1)
      BY <1>3, <3>1
    <3>3. i \in 1..Len(history[c]) \/ i = Len(history[c]) + 1
      BY <1>2, <3>2
    <3>4. QED BY <1>3, <2>2, <3>1, <3>3
  <2>3. CASE d # c
    <3>1. history'[d] = history[d]
      BY <1>1, <1>4, <2>3 DEF TypeOK
    <3>2. QED BY <3>1
  <2>4. QED BY <2>2, <2>3
<1>7. /\ \A d \in Channels : \A i \in 1..Len(history[d]) :
            history[d][i] \in Message /\ history[d][i].n < posted /\ history[d][i] # m
      /\ \A b \in Agents : m \notin withheld[b]
  <2>1. \A d \in Channels : \A i \in 1..Len(history[d]) : history[d][i] \in Message
    BY ElementOfSeq DEF TypeOK
  <2>2. QED BY <1>1, <1>5, <2>1 DEF HideInv, MessagesDiffer
<1>8. MessagesDiffer'
  <2>1. \A d \in Channels : \A i \in 1..Len(history'[d]) : history'[d][i].n < posted'
    BY <1>1, <1>4, <1>5, <1>6, <1>7 DEF Message
  <2>2. \A b \in Agents : \A x \in withheld'[b] : x.n < posted'
    <3>1. \A b \in Agents : \A x \in withheld[b] : x.n < posted /\ x.n \in Nat
      BY DEF HideInv, MessagesDiffer, TypeOK, Message
    <3>2. QED BY <1>1, <1>4, <3>1
  <2>3. ASSUME NEW d \in Channels, NEW e \in Channels,
               NEW i \in 1..Len(history'[d]), NEW j \in 1..Len(history'[e]),
               history'[d][i] = history'[e][j]
        PROVE  d = e /\ i = j
    <3>1. CASE i \in 1..Len(history[d]) /\ history'[d][i] = history[d][i]
      <4>1. j \in 1..Len(history[e]) /\ history'[e][j] = history[e][j]
        BY <1>6, <1>7, <2>3, <3>1
      <4>2. history[d][i] = history[e][j]
        BY <2>3, <3>1, <4>1
      <4>3. QED BY <3>1, <4>1, <4>2 DEF HideInv, MessagesDiffer
    <3>2. CASE d = c /\ i = Len(history[c]) + 1 /\ history'[d][i] = m
      <4>1. CASE j \in 1..Len(history[e]) /\ history'[e][j] = history[e][j]
        BY <1>7, <2>3, <3>2, <4>1
      <4>2. CASE e = c /\ j = Len(history[c]) + 1
        BY <3>2, <4>2
      <4>3. QED BY <1>6, <4>1, <4>2
    <3>3. QED BY <1>6, <3>1, <3>2
  <2>4. QED BY <2>1, <2>2, <2>3 DEF MessagesDiffer
<1>9. CountsDivideRounds'
  <2>1. UNCHANGED <<round, clock, start, draining>>
    BY <1>4 DEF rounds
  <2>2. ASSUME NEW r \in 1..MaxRound, Snapshotted(r), NEW d \in Channels,
               NEW i \in 1..Len(history'[d]), i > start[r][d]
        PROVE  history'[d][i].round >= r
    <3>1. r <= round
      BY <1>1, <2>2 DEF Snapshotted
    <3>2. CASE i \in 1..Len(history[d]) /\ history'[d][i] = history[d][i]
      BY <2>2, <3>2 DEF HideInv, CountsDivideRounds
    <3>3. CASE history'[d][i] = m
      BY <1>1, <1>5, <3>1, <3>3
    <3>4. QED BY <1>6, <3>2, <3>3
  <2>3. QED BY <2>1, <2>2 DEF HideInv, CountsDivideRounds, Snapshotted
<1>10. WindowsHide'
  <2> SUFFICES ASSUME NEW b \in Agents, NEW d \in Channels, NEW i \in Window(b, d)'
               PROVE  history'[d][i] \notin withheld[b]
    BY <1>4 DEF WindowsHide
  <2>1. join[d][b] \in Nat /\ b \in members[d] /\ i \in (join[d][b] + 1)..Len(history'[d])
    BY <1>4 DEF Window, TypeOK
  <2>2. i \in 1..Len(history'[d])
    BY <2>1
  <2>3. CASE i \in 1..Len(history[d]) /\ history'[d][i] = history[d][i]
    <3>1. i \in Window(b, d)
      BY <1>6, <2>1, <2>3 DEF Window
    <3>2. QED BY <2>3, <3>1 DEF HideInv, WindowsHide
  <2>4. CASE history'[d][i] = m
    BY <1>7, <2>4
  <2>5. QED BY <1>6, <2>2, <2>3, <2>4
<1>11. WithheldIsNeverTold'
  BY <1>1, <1>4, <1>7 DEF HideInv, WithheldIsNeverTold, TypeOK
<1>12. QED BY <1>8, <1>9, <1>10, <1>11 DEF HideInv

\* A newcomer sees nothing, a wiped channel has nothing to see, and a channel
\* nobody had opened is empty.
LEMMA WorldHides ==
    ASSUME ReadInv, HideInv, NEW c \in Channels,
           \/ \E group \in SUBSET Agents : UpdateMembers(c, group) \/ OpenDirect(c, group)
           \/ ClearHistory(c)
    PROVE  HideInv'
<1>1. /\ members \in [Channels -> SUBSET Agents]
      /\ history \in [Channels -> Seq(Message)]
      /\ join \in [Channels -> [Agents -> Nat]]
      /\ TypeOK
      /\ \A d \in Channels : Len(history[d]) \in Nat
  BY DEF ReadInv, TypeOK
<1>2. ASSUME NEW new \in SUBSET Agents, UpdateMembers(c, new)
      PROVE  HideInv'
  <2> DEFINE joining == new \ members[c]
             leaving == members[c] \ new
  <2>1. /\ members' = [members EXCEPT ![c] = new]
        /\ join' = [join EXCEPT ![c] = [a \in Agents |->
              IF a \in joining THEN Len(history[c]) ELSE IF a \in leaving THEN 0 ELSE @[a]]]
        /\ UNCHANGED <<history, posted, rounds, draining, told, withheld>>
    BY <1>2 DEF UpdateMembers, seats
  <2>2. ASSUME NEW b \in Agents, NEW d \in Channels, NEW i \in Window(b, d)'
        PROVE  i \in Window(b, d)
    <3>1. b \in members'[d] /\ i \in (join'[d][b] + 1)..Len(history[d])
      BY <2>1 DEF Window
    <3>2. CASE d = c /\ b \in joining
      <4>1. join'[d][b] = Len(history[d])
        BY <1>1, <2>1, <3>2
      <4>2. QED BY <1>1, <3>1, <4>1
    <3>3. CASE ~(d = c /\ b \in joining)
      <4>1. b \in members[d] /\ join'[d][b] = join[d][b]
        BY <1>1, <2>1, <3>1, <3>3
      <4>2. QED BY <3>1, <4>1 DEF Window
    <3>4. QED BY <3>2, <3>3
  <2>3. QED BY <1>1, <2>1, <2>2, QuietHide
<1>3. ASSUME NEW group \in SUBSET Agents, OpenDirect(c, group)
      PROVE  HideInv'
  <2>1. /\ members' = [members EXCEPT ![c] = group] /\ history[c] = <<>>
        /\ UNCHANGED <<history, join, posted, rounds, draining, told, withheld>>
    BY <1>3 DEF OpenDirect, seats, ghosts, ReadInv, UnopenedIsEmpty
  <2>2. ASSUME NEW b \in Agents, NEW d \in Channels, NEW i \in Window(b, d)'
        PROVE  i \in Window(b, d)
    <3>1. CASE d = c
      <4>1. i \in (join[c][b] + 1)..Len(history[c]) /\ Len(history[c]) = 0 /\ join[c][b] \in Nat
        BY <1>1, <2>1, <2>2, <3>1 DEF Window
      <4>2. QED BY <4>1
    <3>2. CASE d # c
      BY <1>1, <2>1, <2>2, <3>2 DEF Window
    <3>3. QED BY <3>1, <3>2
  <2>3. QED BY <1>1, <2>1, <2>2, QuietHide
<1>4. CASE ClearHistory(c)
  <2>1. /\ history' = [history EXCEPT ![c] = <<>>]
        /\ join' = [join EXCEPT ![c] = [a \in Agents |-> 0]]
        /\ UNCHANGED <<members, posted, rounds, draining, told, withheld>>
    BY <1>4 DEF ClearHistory, seats, ghosts
  <2>2. \A d \in Channels : \A i \in 1..Len(history'[d]) :
           /\ d # c /\ i \in 1..Len(history[d])
           /\ history'[d] = history[d] /\ join'[d] = join[d]
    BY <1>1, <2>1
  <2>3. MessagesDiffer'
    BY <2>1, <2>2 DEF HideInv, MessagesDiffer
  <2>4. CountsDivideRounds'
    BY <2>1, <2>2 DEF HideInv, CountsDivideRounds, Snapshotted, rounds
  <2>5. WindowsHide'
    <3> SUFFICES ASSUME NEW b \in Agents, NEW d \in Channels, NEW i \in Window(b, d)'
                 PROVE  history'[d][i] \notin withheld[b]
      BY <2>1 DEF WindowsHide
    <3>1. b \in members[d] /\ i \in (join'[d][b] + 1)..Len(history'[d]) /\ join'[d][b] \in Nat
      BY <1>1, <2>1 DEF Window
    <3>2. i \in 1..Len(history'[d])
      BY <3>1
    <3>3. i \in Window(b, d) /\ history'[d] = history[d]
      BY <2>2, <3>1, <3>2 DEF Window
    <3>4. QED BY <3>3 DEF HideInv, WindowsHide
  <2>6. QED BY <2>1, <2>3, <2>4, <2>5 DEF HideInv, WithheldIsNeverTold
<1>5. QED BY <1>2, <1>3, <1>4

\* The new occupant's windows open behind everything the swap withholds: at the
\* end of the channel, or at the counts of a round already snapshotted.
LEMMA InstallHides ==
    ASSUME TypeOK, TypeOK', HideInv, NEW a \in Agents,
           NEW v \in [Channels -> {w \in Visibilities : w.from <= round}], SwapInstall(a, v)
    PROVE  HideInv'
<1>1. /\ history \in [Channels -> Seq(Message)]
      /\ join \in [Channels -> [Agents -> Nat]]
      /\ told \in [Agents -> SUBSET Message] /\ withheld \in [Agents -> SUBSET Message]
      /\ start \in [1..MaxRound -> [Channels -> Nat]]
      /\ round \in 1..MaxRound
      /\ \A d \in Channels : Len(history[d]) \in Nat
  BY DEF TypeOK
<1>2. \A d \in Channels : \A i \in 1..Len(history[d]) :
         history[d][i] \in Message /\ history[d][i].round \in Nat /\ history[d][i].n \in Nat
  <2>1. \A d \in Channels : \A i \in 1..Len(history[d]) : history[d][i] \in Message
    BY <1>1, ElementOfSeq
  <2>2. QED BY <2>1 DEF Message
<1> DEFINE Hidden(d) == {m \in Stored(d) : v[d].kind = "none" \/ m.round < v[d].from}
<1>3. /\ members' = members /\ history' = history /\ posted' = posted
      /\ round' = round /\ clock' = clock /\ start' = start
      /\ a \in draining /\ draining' = {}
      /\ told' = [told EXCEPT ![a] = {}]
      /\ withheld' = [withheld EXCEPT ![a] = UNION {Hidden(d) : d \in Channels}]
      /\ join' = [c \in Channels |->
                  IF a \in members[c]
                  THEN [join[c] EXCEPT ![a] = JoinIndex(a, c, v[c])]
                  ELSE join[c]]
  BY DEF SwapInstall, rounds
<1>4. withheld'[a] = UNION {Hidden(d) : d \in Channels} /\ told'[a] = {}
      /\ \A b \in Agents \ {a} : withheld'[b] = withheld[b] /\ told'[b] = told[b]
  BY <1>1, <1>3
<1>5. MessagesDiffer'
  <2>1. \A m \in withheld'[a] : m.n < posted
    BY <1>4 DEF HideInv, MessagesDiffer, Stored
  <2>2. QED BY <1>3, <1>4, <2>1 DEF HideInv, MessagesDiffer
<1>6. CountsDivideRounds'
  BY <1>3 DEF HideInv, CountsDivideRounds, Snapshotted
<1>7. WindowsHide'
  <2> SUFFICES ASSUME NEW b \in Agents, NEW d \in Channels, NEW i \in Window(b, d)'
               PROVE  history[d][i] \notin withheld'[b]
    BY <1>3 DEF WindowsHide
  <2>1. b \in members[d] /\ i \in (join'[d][b] + 1)..Len(history[d]) /\ join'[d][b] \in Nat
    <3>1. b \in members[d] /\ i \in (join'[d][b] + 1)..Len(history[d])
      BY <1>3 DEF Window
    <3>2. join' \in [Channels -> [Agents -> Nat]]
      BY DEF TypeOK
    <3>3. QED BY <3>1, <3>2
  <2>2. i \in 1..Len(history[d])
    BY <1>1, <2>1
  <2>3. CASE b # a
    <3>1. join'[d][b] = join[d][b]
      BY <1>1, <1>3, <2>3
    <3>2. i \in Window(b, d)
      BY <2>1, <3>1 DEF Window
    <3>3. QED BY <1>4, <2>3, <3>2 DEF HideInv, WindowsHide
  <2>4. CASE b = a
    <3>1. join'[d][a] = JoinIndex(a, d, v[d])
      BY <1>1, <1>3, <2>1, <2>4
    <3>2. \A e \in Channels \ {d} : history[d][i] \notin Hidden(e)
      BY <2>2 DEF HideInv, MessagesDiffer, Stored
    <3>3. v[d] \in Visibilities /\ v[d].from <= round
      OBVIOUS
    <3>4. history[d][i] \notin Hidden(d)
      <4>1. CASE v[d].kind = "none"
        <5>1. JoinIndex(a, d, v[d]) = Len(history[d])
          BY <4>1 DEF JoinIndex
        <5>2. QED BY <1>1, <2>1, <2>4, <3>1, <5>1
      <4>2. CASE v[d].kind = "from_round"
        <5>1. JoinIndex(a, d, v[d]) = start[v[d].from][d] /\ v[d].from \in 1..MaxRound
          BY <3>3, <4>2 DEF JoinIndex, Visibilities
        <5>2. Snapshotted(v[d].from)
          BY <1>1, <1>3, <3>3, <5>1 DEF HideInv, CountsDivideRounds, Snapshotted
        <5>3. start[v[d].from][d] \in Nat /\ i > start[v[d].from][d]
          BY <1>1, <2>1, <2>4, <3>1, <5>1
        <5>4. history[d][i].round >= v[d].from
          BY <2>2, <5>1, <5>2, <5>3 DEF HideInv, CountsDivideRounds
        <5>5. QED BY <1>2, <2>2, <4>2, <5>1, <5>4
      <4>3. CASE v[d].kind \in {"unlisted", "full"}
        <5>1. v[d].from = 0 /\ v[d].kind # "none"
          BY <3>3, <4>3 DEF Visibilities
        <5>2. QED BY <1>2, <2>2, <5>1
      <4>4. QED BY <3>3, <4>1, <4>2, <4>3 DEF Visibilities
    <3>5. QED BY <1>4, <2>4, <3>2, <3>4
  <2>5. QED BY <2>3, <2>4
<1>8. WithheldIsNeverTold'
  BY <1>4 DEF HideInv, WithheldIsNeverTold
<1>9. QED BY <1>5, <1>6, <1>7, <1>8 DEF HideInv

\* A new round is unsnapshotted until every message is counted as earlier.
LEMMA ClockHides ==
    ASSUME TypeOK, HideInv,
           AdvanceRound \/ SnapshotRound \/ OpenRound \/ \E a \in Agents : SwapBegin(a)
    PROVE  HideInv'
<1>1. UNCHANGED <<members, history, join, posted, told, withheld>>
  BY DEF AdvanceRound, SnapshotRound, OpenRound, SwapBegin, router, ghosts
<1>2. MessagesDiffer' /\ WindowsHide' /\ WithheldIsNeverTold'
  BY <1>1 DEF HideInv, MessagesDiffer, WindowsHide, WithheldIsNeverTold, Window
<1>3. round \in 1..MaxRound /\ \A c \in Channels : Len(history[c]) \in Nat
  BY DEF TypeOK
<1>4. CASE AdvanceRound
  <2>1. /\ round' = round + 1 /\ start' = start /\ draining' = draining
        /\ clock = "playing" /\ clock' = "advancing"
    BY <1>4 DEF AdvanceRound, seats
  <2>2. \A r \in 1..MaxRound : Snapshotted(r)' => Snapshotted(r)
    BY <1>3, <2>1 DEF Snapshotted
  <2>3. QED BY <1>1, <1>2, <2>1, <2>2 DEF HideInv, CountsDivideRounds
<1>5. CASE SnapshotRound
  <2>1. /\ start' = [start EXCEPT ![round] = counts] /\ round' = round
        /\ clock' = "boundary" /\ draining' = draining
    BY <1>5 DEF SnapshotRound, seats
  <2>2. start'[round] = counts /\ \A r \in 1..MaxRound : r # round => start'[r] = start[r]
    BY <1>3, <2>1 DEF TypeOK
  <2>3. ASSUME NEW r \in 1..MaxRound, Snapshotted(r)', NEW c \in Channels,
               NEW i \in 1..Len(history[c]), i > start'[r][c]
        PROVE  history[c][i].round >= r
    <3>1. CASE r = round
      BY <1>3, <2>2, <2>3, <3>1 DEF counts
    <3>2. CASE r # round
      <4>1. Snapshotted(r)
        BY <1>3, <2>1, <2>3, <3>2 DEF Snapshotted
      <4>2. QED BY <2>2, <2>3, <3>2, <4>1 DEF HideInv, CountsDivideRounds
    <3>3. QED BY <3>1, <3>2
  <2>4. CountsDivideRounds'
    BY <1>1, <2>1, <2>3 DEF CountsDivideRounds
  <2>5. QED BY <1>2, <2>4 DEF HideInv
<1>6. CASE OpenRound \/ \E a \in Agents : SwapBegin(a)
  <2>1. /\ round' = round /\ start' = start /\ clock = "boundary"
        /\ clock' \in {"boundary", "playing"} /\ (draining' # {} => clock' = "boundary")
    BY <1>6 DEF OpenRound, SwapBegin, rounds, seats
  <2>2. \A r \in 1..MaxRound : Snapshotted(r)' => Snapshotted(r)
    BY <2>1 DEF Snapshotted
  <2>3. QED BY <1>1, <1>2, <2>1, <2>2 DEF HideInv, CountsDivideRounds
<1>7. QED BY <1>4, <1>5, <1>6

LEMMA NextHide == ReadInv /\ HideInv /\ [Next]_vars => HideInv'
<1> SUFFICES ASSUME ReadInv, HideInv, [Next]_vars PROVE HideInv'
  OBVIOUS
<1>1. TypeOK /\ TypeOK'
  BY NextLocked DEF ReadInv
<1>2. ASSUME NEW s \in Sends,
             \/ \E a \in Agents, c \in Channels, force \in BOOLEAN : Send(s, a, c, force)
             \/ TokensCounted(s) \/ SendStep(s) \/ CancelSend(s)
      PROVE  HideInv'
  BY <1>1, <1>2, CallsHide, StoreHides DEF SendStep
<1>3. ASSUME NEW a \in Agents,
             \/ TakeNotice(a) \/ DiscardStale(a) \/ DrainUnread(a)
             \/ \E c \in Channels : ReadChannel(a, c)
      PROVE  HideInv'
  BY <1>1, <1>3, ReadersHide
<1>4. ASSUME NEW a \in Agents, Swap(a)
      PROVE  HideInv'
  BY <1>1, <1>4, InstallHides, ClockHides DEF Swap
<1>5. ASSUME NEW c \in Channels,
             ClearHistory(c)
                \/ \E group \in SUBSET Agents : UpdateMembers(c, group) \/ OpenDirect(c, group)
      PROVE  HideInv'
  BY <1>5, WorldHides
<1>6. CASE AdvanceRound \/ SnapshotRound \/ OpenRound
  BY <1>1, <1>6, ClockHides
<1>7. CASE UNCHANGED vars
  <2>1. UNCHANGED <<members, history, join, posted, told, withheld, rounds, draining>>
    BY <1>7 DEF vars, router, ghosts, seats
  <2>2. \A a \in Agents, c \in Channels : Window(a, c)' = Window(a, c)
    BY <2>1 DEF Window
  <2>3. QED BY <1>1, <2>1, <2>2, QuietHide
<1>8. QED BY <1>2, <1>3, <1>4, <1>5, <1>6, <1>7 DEF Next

\* What a swap hid from the new occupant of a seat never reaches it, through no
\* read, drain, notification or conflict answer.
THEOREM WithheldIsAlwaysHidden == Spec => []WithheldIsNeverTold
<1>1. ReadInv /\ HideInv => WithheldIsNeverTold
  BY DEF HideInv
<1>2. QED BY InitRead, NextRead, InitHide, NextHide, <1>1, PTL DEF Spec

-----------------------------------------------------------------------------
(* What a window shows *)

\* While no history is wiped a round's counts stay counts of what its channels still
\* hold, all of it of that round or an earlier one, and no window opens past the end.
CountsLast ==
    /\ \A r \in 1..MaxRound, c \in Channels : start[r][c] <= Len(history[c])
    /\ \A c \in Channels, a \in Agents : join[c][a] <= Len(history[c])
    /\ \A c \in Channels : \A i \in 1..Len(history[c]) : history[c][i].round <= round
    /\ \A r \in 1..MaxRound, c \in Channels : \A i \in 1..Len(history[c]) :
          i <= start[r][c] => history[c][i].round <= r

ShowInv == CountsLast /\ LaterRoundsAreShown

LEMMA InitShow == Init => ShowInv
<1> SUFFICES ASSUME Init PROVE ShowInv
  OBVIOUS
<1>1. \A c \in Channels : Len(history[c]) = 0
  BY EmptySeq DEF Init
<1>2. CountsLast
  BY <1>1 DEF Init, CountsLast
<1>3. LaterRoundsAreShown
  BY <1>1 DEF LaterRoundsAreShown
<1>4. QED BY <1>2, <1>3 DEF ShowInv

\* A step that stores nothing, moves nobody and opens no window.
LEMMA QuietShow ==
    ASSUME ShowInv, UNCHANGED <<members, history, join, floor, start, round>>
    PROVE  ShowInv'
BY DEF ShowInv, CountsLast, LaterRoundsAreShown

\* A stored message lies behind every count and in every window.
LEMMA StoreShows ==
    ASSUME TypeOK, ShowInv, NEW s \in Sends, Store(s)
    PROVE  ShowInv'
<1> DEFINE c == op[s].chan
           m == [n |-> posted, round |-> round, by |-> op[s].agent]
<1>1. c \in Channels /\ op[s].agent \in Agents /\ posted \in Nat /\ round \in Nat
  <2>1. c \in Channels /\ op[s].agent \in Agents
    BY DEF TypeOK, Ops
  <2>2. posted \in Nat /\ round \in Nat
    BY MessagingAssumption DEF TypeOK
  <2>3. QED BY <2>1, <2>2
<1>2. m \in Message /\ m.round = round
  BY <1>1 DEF Message
<1>3. /\ history' = [history EXCEPT ![c] = Append(@, m)]
      /\ UNCHANGED <<members, join, floor, start, round>>
  BY DEF Store, rounds
<1> HIDE DEF m
<1>4. \A d \in Channels :
         /\ Len(history[d]) \in Nat /\ Len(history'[d]) \in Nat
         /\ Len(history[d]) <= Len(history'[d])
         /\ \A i \in 1..Len(history'[d]) :
               \/ i \in 1..Len(history[d]) /\ history'[d][i] = history[d][i]
               \/ i > Len(history[d]) /\ history'[d][i].round = round
  <2> TAKE d \in Channels
  <2>1. history[d] \in Seq(Message) /\ Len(history[d]) \in Nat
    BY DEF TypeOK
  <2>2. CASE d # c
    <3>1. history'[d] = history[d]
      BY <1>3, <2>2 DEF TypeOK
    <3>2. QED BY <2>1, <3>1
  <2>3. CASE d = c
    <3>1. history'[d] = Append(history[d], m)
      BY <1>1, <1>3, <2>3 DEF TypeOK
    <3>2. /\ Len(history'[d]) = Len(history[d]) + 1
          /\ history'[d][Len(history[d]) + 1] = m
          /\ \A i \in 1..Len(history[d]) : history'[d][i] = history[d][i]
      BY <1>2, <2>1, <3>1, AppendProperties
    <3>3. \A i \in 1..Len(history'[d]) : i \in 1..Len(history[d]) \/ i = Len(history[d]) + 1
      BY <2>1, <3>2
    <3>4. Len(history[d]) + 1 > Len(history[d]) /\ Len(history[d]) + 1 \in Nat
      BY <2>1
    <3>5. QED BY <1>2, <2>1, <3>2, <3>3, <3>4
  <2>4. QED BY <2>2, <2>3
<1>5. ASSUME NEW d \in Channels
      PROVE  /\ \A r \in 1..MaxRound : start[r][d] \in Nat
             /\ \A a \in Agents : join[d][a] \in Nat
  <2>1. start \in [1..MaxRound -> [Channels -> Nat]] /\ join \in [Channels -> [Agents -> Nat]]
    BY DEF TypeOK
  <2>2. \A r \in 1..MaxRound : start[r][d] \in Nat
    BY <2>1
  <2>3. \A a \in Agents : join[d][a] \in Nat
    BY <2>1
  <2>4. QED BY <2>2, <2>3
<1>6. CountsLast'
  <2>1. ASSUME NEW d \in Channels
        PROVE  /\ \A r \in 1..MaxRound : start[r][d] <= Len(history'[d])
               /\ \A a \in Agents : join[d][a] <= Len(history'[d])
    <3>1. /\ \A r \in 1..MaxRound : start[r][d] <= Len(history[d])
          /\ \A a \in Agents : join[d][a] <= Len(history[d])
      BY DEF ShowInv, CountsLast
    <3>2. QED BY <1>4, <1>5, <3>1
  <2>2. ASSUME NEW d \in Channels, NEW i \in 1..Len(history'[d])
        PROVE  /\ history'[d][i].round <= round
               /\ \A r \in 1..MaxRound : i <= start[r][d] => history'[d][i].round <= r
    <3>1. CASE i \in 1..Len(history[d]) /\ history'[d][i] = history[d][i]
      BY <3>1 DEF ShowInv, CountsLast
    <3>2. CASE i > Len(history[d]) /\ history'[d][i].round = round
      <4>1. \A r \in 1..MaxRound : start[r][d] <= Len(history[d])
        BY DEF ShowInv, CountsLast
      <4>2. QED BY <1>1, <1>4, <1>5, <3>2, <4>1
    <3>3. QED BY <1>4, <3>1, <3>2
  <2>3. QED BY <1>3, <2>1, <2>2 DEF CountsLast
<1>7. LaterRoundsAreShown'
  <2> SUFFICES ASSUME NEW a \in Agents, NEW d \in Channels, a \in members[d], floor[a][d] > 0,
                      NEW i \in 1..Len(history'[d]), history'[d][i].round > floor[a][d]
               PROVE  i > join[d][a]
    BY <1>3 DEF LaterRoundsAreShown
  <2>1. CASE i \in 1..Len(history[d]) /\ history'[d][i] = history[d][i]
    BY <2>1 DEF ShowInv, LaterRoundsAreShown
  <2>2. CASE i > Len(history[d])
    <3>1. join[d][a] <= Len(history[d])
      BY DEF ShowInv, CountsLast
    <3>2. QED BY <1>4, <1>5, <2>2, <3>1
  <2>3. QED BY <1>4, <2>1, <2>2
<1>8. QED BY <1>6, <1>7 DEF ShowInv

\* Who joins a channel has no floor there, and a direct channel is opened empty.
LEMMA MembersShow ==
    ASSUME ReadInv, ShowInv, NEW c \in Channels, NEW group \in SUBSET Agents,
           UpdateMembers(c, group) \/ OpenDirect(c, group)
    PROVE  ShowInv'
<1>1. /\ members \in [Channels -> SUBSET Agents] /\ join \in [Channels -> [Agents -> Nat]]
      /\ floor \in [Agents -> [Channels -> 0..MaxRound]]
      /\ \A d \in Channels : Len(history[d]) \in Nat
  BY DEF ReadInv, TypeOK
<1>2. ASSUME UpdateMembers(c, group)
      PROVE  ShowInv'
  <2> DEFINE joining == group \ members[c]
             leaving == members[c] \ group
  <2>1. /\ members' = [members EXCEPT ![c] = group]
        /\ join' = [join EXCEPT ![c] = [a \in Agents |->
              IF a \in joining THEN Len(history[c]) ELSE IF a \in leaving THEN 0 ELSE @[a]]]
        /\ floor' = [a \in Agents |-> IF a \in joining \cup leaving
                                      THEN [floor[a] EXCEPT ![c] = 0]
                                      ELSE floor[a]]
        /\ UNCHANGED <<history, start, round>>
    BY <1>2 DEF UpdateMembers, rounds
  <2>2. ASSUME NEW d \in Channels, NEW a \in Agents
        PROVE  /\ join'[d][a] <= Len(history[d])
               /\ a \in members'[d] /\ floor'[a][d] > 0 =>
                     a \in members[d] /\ floor'[a][d] = floor[a][d] /\ join'[d][a] = join[d][a]
    <3>1. join[d][a] <= Len(history[d]) /\ join[d][a] \in Nat
      BY <1>1 DEF ShowInv, CountsLast
    <3>2. CASE d # c
      <4>1. join'[d][a] = join[d][a] /\ members'[d] = members[d] /\ floor'[a][d] = floor[a][d]
        BY <1>1, <2>1, <3>2
      <4>2. QED BY <3>1, <4>1
    <3>3. CASE d = c /\ a \in joining
      <4>1. join'[d][a] = Len(history[d]) /\ floor'[a][d] = 0
        BY <1>1, <2>1, <3>3
      <4>2. QED BY <1>1, <4>1
    <3>4. CASE d = c /\ a \notin joining /\ a \in leaving
      <4>1. join'[d][a] = 0 /\ floor'[a][d] = 0
        BY <1>1, <2>1, <3>4
      <4>2. QED BY <1>1, <4>1
    <3>5. CASE d = c /\ a \notin joining /\ a \notin leaving
      <4>1. join'[d][a] = join[d][a] /\ floor'[a][d] = floor[a][d]
            /\ (a \in members'[d] => a \in members[d])
        BY <1>1, <2>1, <3>5
      <4>2. QED BY <3>1, <4>1
    <3>6. QED BY <3>2, <3>3, <3>4, <3>5
  <2>3. CountsLast'
    BY <2>1, <2>2 DEF ShowInv, CountsLast
  <2>4. LaterRoundsAreShown'
    BY <2>1, <2>2 DEF ShowInv, LaterRoundsAreShown
  <2>5. QED BY <2>3, <2>4 DEF ShowInv
<1>3. ASSUME OpenDirect(c, group)
      PROVE  ShowInv'
  <2>1. /\ members' = [members EXCEPT ![c] = group] /\ history[c] = <<>>
        /\ UNCHANGED <<history, join, floor, start, round>>
    BY <1>3 DEF OpenDirect, rounds, ghosts, ReadInv, UnopenedIsEmpty
  <2>2. CountsLast'
    BY <2>1 DEF ShowInv, CountsLast
  <2>3. Len(history[c]) = 0 /\ \A d \in Channels \ {c} : members'[d] = members[d]
    BY <1>1, <2>1
  <2>4. LaterRoundsAreShown'
    <3> SUFFICES ASSUME NEW a \in Agents, NEW d \in Channels, a \in members'[d],
                        floor[a][d] > 0, NEW i \in 1..Len(history[d]),
                        history[d][i].round > floor[a][d]
                 PROVE  i > join[d][a]
      BY <2>1 DEF LaterRoundsAreShown
    <3>1. d # c
      BY <2>3
    <3>2. QED BY <2>3, <3>1 DEF ShowInv, LaterRoundsAreShown
  <2>5. QED BY <2>2, <2>4 DEF ShowInv
<1>4. QED BY <1>2, <1>3

\* A window from round R opens at that round's count, behind nothing younger.
LEMMA InstallShows ==
    ASSUME TypeOK, ShowInv, NEW a \in Agents,
           NEW v \in [Channels -> {w \in Visibilities : w.from <= round}], SwapInstall(a, v)
    PROVE  ShowInv'
<1>1. /\ join \in [Channels -> [Agents -> Nat]]
      /\ floor \in [Agents -> [Channels -> 0..MaxRound]]
      /\ start \in [1..MaxRound -> [Channels -> Nat]]
      /\ history \in [Channels -> Seq(Message)]
      /\ \A d \in Channels : Len(history[d]) \in Nat
      /\ \A d \in Channels : \A i \in 1..Len(history[d]) : history[d][i].round \in Nat
  <2>1. \A d \in Channels : \A i \in 1..Len(history[d]) : history[d][i] \in Message
    BY ElementOfSeq DEF TypeOK
  <2>2. \A d \in Channels : \A i \in 1..Len(history[d]) : history[d][i].round \in Nat
    BY <2>1 DEF Message
  <2>3. \A d \in Channels : Len(history[d]) \in Nat
    BY DEF TypeOK
  <2>4. QED BY <2>2, <2>3, MessagingAssumption DEF TypeOK
<1>2. /\ UNCHANGED <<members, history, start, round>>
      /\ join' = [c \in Channels |->
                  IF a \in members[c]
                  THEN [join[c] EXCEPT ![a] = JoinIndex(a, c, v[c])]
                  ELSE join[c]]
      /\ floor' = [floor EXCEPT ![a] = [c \in Channels |->
                    CASE v[c].kind = "unlisted" -> @[c]
                      [] v[c].kind # "unlisted" -> v[c].from]]
  BY DEF SwapInstall, rounds
<1>3. ASSUME NEW d \in Channels, NEW b \in Agents
      PROVE  /\ join'[d][b] <= Len(history[d])
             /\ b \in members[d] /\ floor'[b][d] > 0 =>
                   \A i \in 1..Len(history[d]) :
                      history[d][i].round > floor'[b][d] => i > join'[d][b]
  <2>1. /\ join[d][b] <= Len(history[d])
        /\ b \in members[d] /\ floor[b][d] > 0 =>
              \A i \in 1..Len(history[d]) : history[d][i].round > floor[b][d] => i > join[d][b]
    BY DEF ShowInv, CountsLast, LaterRoundsAreShown
  <2>2. CASE b # a
    <3>1. join'[d][b] = join[d][b] /\ floor'[b][d] = floor[b][d]
      BY <1>1, <1>2, <2>2
    <3>2. QED BY <2>1, <3>1
  <2>3. CASE b = a /\ a \notin members[d]
    <3>1. join'[d][b] = join[d][b]
      BY <1>1, <1>2, <2>3
    <3>2. QED BY <2>1, <2>3, <3>1
  <2>4. CASE b = a /\ a \in members[d]
    <3>1. v[d] \in Visibilities /\ join'[d][a] = JoinIndex(a, d, v[d])
      BY <1>1, <1>2, <2>4
    <3>2. floor'[a][d] = IF v[d].kind = "unlisted" THEN floor[a][d] ELSE v[d].from
      BY <1>1, <1>2
    <3>3. CASE v[d].kind = "unlisted"
      <4>1. JoinIndex(a, d, v[d]) = join[d][a]
        BY <3>3 DEF JoinIndex
      <4>2. QED BY <2>1, <2>4, <3>1, <3>2, <3>3, <4>1
    <3>4. CASE v[d].kind = "full"
      <4>1. JoinIndex(a, d, v[d]) = 0 /\ v[d].from = 0
        BY <3>1, <3>4 DEF JoinIndex, Visibilities
      <4>2. QED BY <1>1, <2>4, <3>1, <3>2, <3>4, <4>1
    <3>5. CASE v[d].kind = "none"
      <4>1. JoinIndex(a, d, v[d]) = Len(history[d]) /\ v[d].from = 0
        BY <3>1, <3>5 DEF JoinIndex, Visibilities
      <4>2. QED BY <1>1, <2>4, <3>1, <3>2, <3>5, <4>1
    <3>6. CASE v[d].kind = "from_round"
      <4>1. v[d].from \in 1..MaxRound /\ v[d].from \in Nat
        BY <3>1, <3>6 DEF Visibilities
      <4>2. JoinIndex(a, d, v[d]) = start[v[d].from][d]
        BY <3>6 DEF JoinIndex
      <4>3. /\ start[v[d].from][d] <= Len(history[d]) /\ start[v[d].from][d] \in Nat
            /\ \A i \in 1..Len(history[d]) :
                  i <= start[v[d].from][d] => history[d][i].round <= v[d].from
        BY <1>1, <4>1 DEF ShowInv, CountsLast
      <4>4. \A i \in 1..Len(history[d]) :
               history[d][i].round > v[d].from => i > start[v[d].from][d]
        BY <1>1, <4>1, <4>3
      <4>5. floor'[a][d] = v[d].from
        BY <3>2, <3>6
      <4>6. QED BY <2>4, <3>1, <4>2, <4>3, <4>4, <4>5
    <3>7. v[d].kind \in {"unlisted", "full", "none", "from_round"}
      BY <3>1 DEF Visibilities
    <3>8. QED BY <3>3, <3>4, <3>5, <3>6, <3>7
  <2>5. QED BY <2>2, <2>3, <2>4
<1>4. CountsLast'
  BY <1>2, <1>3 DEF ShowInv, CountsLast
<1>5. LaterRoundsAreShown'
  BY <1>2, <1>3 DEF LaterRoundsAreShown
<1>6. QED BY <1>4, <1>5 DEF ShowInv

\* The clock counts what there is, and rounds only rise.
LEMMA ClockShows ==
    ASSUME TypeOK, ShowInv, AdvanceRound \/ SnapshotRound
    PROVE  ShowInv'
<1>1. /\ round \in Nat /\ round \in 1..MaxRound
      /\ start \in [1..MaxRound -> [Channels -> Nat]]
      /\ \A c \in Channels : Len(history[c]) \in Nat
      /\ \A c \in Channels : \A i \in 1..Len(history[c]) : history[c][i].round \in Nat
  <2>1. \A d \in Channels : \A i \in 1..Len(history[d]) : history[d][i] \in Message
    BY ElementOfSeq DEF TypeOK
  <2>2. \A d \in Channels : \A i \in 1..Len(history[d]) : history[d][i].round \in Nat
    BY <2>1 DEF Message
  <2>3. \A d \in Channels : Len(history[d]) \in Nat
    BY DEF TypeOK
  <2>4. QED BY <2>2, <2>3, MessagingAssumption DEF TypeOK
<1>2. UNCHANGED <<members, history, join, floor>>
  BY DEF AdvanceRound, SnapshotRound, router, ghosts
<1>3. LaterRoundsAreShown'
  BY <1>2 DEF ShowInv, LaterRoundsAreShown
<1>4. CASE AdvanceRound
  <2>1. start' = start /\ round' = round + 1
    BY <1>4 DEF AdvanceRound
  <2>2. \A c \in Channels : \A i \in 1..Len(history[c]) : history[c][i].round <= round'
    BY <1>1, <2>1 DEF ShowInv, CountsLast
  <2>3. CountsLast'
    BY <1>2, <2>1, <2>2 DEF ShowInv, CountsLast
  <2>4. QED BY <1>3, <2>3 DEF ShowInv
<1>5. CASE SnapshotRound
  <2>1. /\ round' = round /\ start'[round] = counts
        /\ \A r \in 1..MaxRound : r # round => start'[r] = start[r]
    BY <1>1, <1>5 DEF SnapshotRound
  <2>2. ASSUME NEW r \in 1..MaxRound, NEW c \in Channels
        PROVE  /\ start'[r][c] <= Len(history[c])
               /\ \A i \in 1..Len(history[c]) : i <= start'[r][c] => history[c][i].round <= r
    <3>1. CASE r = round
      <4>1. start'[r][c] = Len(history[c])
        BY <2>1, <3>1 DEF counts
      <4>2. QED BY <1>1, <3>1, <4>1 DEF ShowInv, CountsLast
    <3>2. CASE r # round
      BY <2>1, <3>2 DEF ShowInv, CountsLast
    <3>3. QED BY <3>1, <3>2
  <2>3. CountsLast'
    BY <1>2, <2>1, <2>2 DEF ShowInv, CountsLast
  <2>4. QED BY <1>3, <2>3 DEF ShowInv
<1>6. QED BY <1>4, <1>5

LEMMA NextShow ==
    ASSUME "clear" \notin World, ReadInv, ShowInv, [Next]_vars
    PROVE  ShowInv'
<1>0. TypeOK
  BY DEF ReadInv
<1>1. ASSUME NEW s \in Sends,
             \/ \E a \in Agents, c \in Channels, force \in BOOLEAN : Send(s, a, c, force)
             \/ TokensCounted(s) \/ SendStep(s) \/ CancelSend(s)
      PROVE  ShowInv'
  <2>1. CASE Store(s)
    BY <1>0, <2>1, StoreShows
  <2>2. CASE ~Store(s)
    <3>1. UNCHANGED <<members, history, join, floor, start, round>>
      BY <1>1, <2>2
         DEF Send, TokensCounted, SendStep, Refuse, Conflict, Announce, CancelSend,
             router, rounds, ghosts
    <3>2. QED BY <3>1, QuietShow
  <2>3. QED BY <2>1, <2>2
<1>2. ASSUME NEW a \in Agents,
             \/ TakeNotice(a) \/ DiscardStale(a) \/ DrainUnread(a)
             \/ \E c \in Channels : ReadChannel(a, c)
      PROVE  ShowInv'
  <2>1. UNCHANGED <<members, history, join, floor, start, round>>
    BY <1>2 DEF TakeNotice, DiscardStale, DrainUnread, ReadChannel, router, rounds, ghosts
  <2>2. QED BY <2>1, QuietShow
<1>3. ASSUME NEW a \in Agents, Swap(a)
      PROVE  ShowInv'
  <2>1. CASE SwapBegin(a)
    <3>1. UNCHANGED <<members, history, join, floor, start, round>>
      BY <2>1 DEF SwapBegin, router, rounds, ghosts
    <3>2. QED BY <3>1, QuietShow
  <2>2. QED BY <1>0, <1>3, <2>1, InstallShows DEF Swap
<1>4. ASSUME NEW c \in Channels,
             ClearHistory(c)
                \/ \E group \in SUBSET Agents : UpdateMembers(c, group) \/ OpenDirect(c, group)
      PROVE  ShowInv'
  BY <1>4, MembersShow DEF ClearHistory
<1>5. CASE AdvanceRound \/ SnapshotRound
  BY <1>0, <1>5, ClockShows
<1>6. CASE OpenRound \/ UNCHANGED vars
  <2>1. UNCHANGED <<members, history, join, floor, start, round>>
    BY <1>6 DEF OpenRound, vars, router, rounds, ghosts
  <2>2. QED BY <2>1, QuietShow
<1>7. QED BY <1>1, <1>2, <1>3, <1>4, <1>5, <1>6 DEF Next

\* Unless the world wipes a history, a window opened at round R hides nothing of the
\* rounds after R, however members, messages, rounds and swaps follow each other;
\* what WithheldIsAlwaysHidden leaves open is only R's own first messages.
THEOREM WindowsShowLaterRounds ==
    ASSUME "clear" \notin World
    PROVE  Spec => []LaterRoundsAreShown
<1>1. ReadInv /\ ShowInv /\ [Next]_vars => ShowInv'
  BY NextShow
<1>2. ReadInv /\ ShowInv => LaterRoundsAreShown
  BY DEF ShowInv
<1>3. QED BY InitRead, NextRead, InitShow, <1>1, <1>2, PTL DEF Spec
-----------------------------------------------------------------------------
(* Who holds a lock *)

\* A lock is queued for by the calls of its channel that are waiting or in their log
\* write, each of them once.
LocksAreQueued ==
    /\ \A c \in Channels : \A i \in DOMAIN lock[c] :
          /\ op[lock[c][i]].chan = c /\ op[lock[c][i]].pc \in {"waiting", "logging"}
          /\ \A j \in DOMAIN lock[c] : lock[c][i] = lock[c][j] => i = j
    /\ \A s \in Sends : op[s].pc \in {"waiting", "logging"} =>
          \E i \in DOMAIN lock[op[s].chan] : lock[op[s].chan][i] = s

\* Where the elements of a queue are once its i-th has left.
LEMMA WithoutAt ==
    ASSUME NEW S, NEW q \in Seq(S), NEW i \in 1..Len(q)
    PROVE  /\ Without(q, i) \in Seq(S) /\ Len(Without(q, i)) = Len(q) - 1
           /\ \A j \in 1..(Len(q) - 1) : Without(q, i)[j] = IF j < i THEN q[j] ELSE q[j + 1]
<1> DEFINE front == SubSeq(q, 1, i - 1)
           back  == SubSeq(q, i + 1, Len(q))
<1>1. Len(q) \in Nat /\ i \in Nat /\ 1 <= i /\ i <= Len(q)
  BY LenProperties
<1>2. (\A j \in 1..(i - 1) : q[j] \in S) /\ (\A j \in (i + 1)..Len(q) : q[j] \in S)
  BY <1>1, ElementOfSeq
<1>3. /\ front \in Seq(S) /\ Len(front) = i - 1
      /\ \A j \in 1..(i - 1) : front[j] = q[j]
  BY <1>1, <1>2, SubSeqProperties
<1>4. /\ back \in Seq(S) /\ Len(back) = Len(q) - i
      /\ \A j \in 1..(Len(q) - i) : back[j] = q[i + j]
  BY <1>1, <1>2, SubSeqProperties
<1>5. Without(q, i) = front \o back
  BY DEF Without
<1> HIDE DEF front, back
<1>6. /\ front \o back \in Seq(S) /\ Len(front \o back) = Len(q) - 1
      /\ \A j \in 1..(Len(q) - 1) : (front \o back)[j] =
             IF j <= i - 1 THEN front[j] ELSE back[j - (i - 1)]
  <2>1. /\ front \o back \in Seq(S) /\ Len(front \o back) = Len(front) + Len(back)
        /\ \A j \in 1..(Len(front) + Len(back)) : (front \o back)[j] =
               IF j <= Len(front) THEN front[j] ELSE back[j - Len(front)]
    BY <1>3, <1>4, ConcatProperties
  <2>2. Len(front) = i - 1 /\ Len(front) + Len(back) = Len(q) - 1
    BY <1>1, <1>3, <1>4
  <2>3. QED BY <2>1, <2>2
<1>7. ASSUME NEW j \in 1..(Len(q) - 1)
      PROVE  (front \o back)[j] = IF j < i THEN q[j] ELSE q[j + 1]
  <2>0. (front \o back)[j] = IF j <= i - 1 THEN front[j] ELSE back[j - (i - 1)]
    BY <1>6
  <2>1. CASE j < i
    <3>1. j <= i - 1 /\ j \in 1..(i - 1)
      BY <1>1, <2>1
    <3>2. QED BY <1>3, <2>0, <2>1, <3>1
  <2>2. CASE j >= i
    <3>1. j - (i - 1) \in 1..(Len(q) - i) /\ i + (j - (i - 1)) = j + 1 /\ ~(j <= i - 1)
      BY <1>1, <2>2
    <3>2. back[j - (i - 1)] = q[i + (j - (i - 1))]
      BY <1>4, <3>1
    <3>3. ~(j < i)
      BY <1>1, <2>2
    <3>4. (front \o back)[j] = q[i + (j - (i - 1))]
      BY <2>0, <3>1, <3>2
    <3>5. (front \o back)[j] = q[j + 1]
      BY <3>1, <3>4
    <3>6. QED BY <3>3, <3>5
  <2>3. j < i \/ j >= i
    BY <1>1
  <2>4. QED BY <2>1, <2>2, <2>3, Zenon
<1>8. QED BY <1>5, <1>6, <1>7

LEMMA TailAt ==
    ASSUME NEW S, NEW q \in Seq(S), q # <<>>
    PROVE  /\ Tail(q) \in Seq(S) /\ Len(Tail(q)) = Len(q) - 1 /\ 1 \in DOMAIN q
           /\ q[1] = Head(q)
           /\ \A j \in 1..(Len(q) - 1) : Tail(q)[j] = IF j < 1 THEN q[j] ELSE q[j + 1]
<1>1. Len(q) \in Nat /\ Len(q) # 0 /\ DOMAIN q = 1..Len(q)
  BY EmptySeq, LenProperties
<1>2. /\ Tail(q) \in Seq(S) /\ Len(Tail(q)) = Len(q) - 1 /\ Head(q) = q[1]
      /\ \A j \in 1..(Len(q) - 1) : Tail(q)[j] = q[j + 1]
  BY HeadTailProperties
<1>3. QED BY <1>1, <1>2

\* A call leaves its place in the queue and is over.
LEMMA LeavesLock ==
    ASSUME TypeOK, LocksAreQueued, NEW s \in Sends, NEW q \in Seq(Sends),
           NEW k \in DOMAIN lock[op[s].chan], lock[op[s].chan][k] = s,
           Len(q) = Len(lock[op[s].chan]) - 1,
           \A j \in 1..(Len(lock[op[s].chan]) - 1) :
              q[j] = IF j < k THEN lock[op[s].chan][j] ELSE lock[op[s].chan][j + 1],
           op' = [op EXCEPT ![s] = NoOp], lock' = [lock EXCEPT ![op[s].chan] = q]
    PROVE  LocksAreQueued'
<1> DEFINE c == op[s].chan
           n == Len(lock[c])
           old(j) == IF j < k THEN j ELSE j + 1
<1>1. c \in Channels /\ lock[c] \in Seq(Sends) /\ n \in Nat
  BY DEF TypeOK, Ops
<1>2. DOMAIN lock[c] = 1..n /\ k \in 1..n /\ DOMAIN q = 1..(n - 1) /\ lock[c][k] = s
  BY <1>1
<1>3. lock'[c] = q /\ \A d \in Channels \ {c} : lock'[d] = lock[d]
  BY <1>1 DEF TypeOK
<1>4. op'[s].pc = "idle" /\ \A t \in Sends \ {s} : op'[t] = op[t]
  BY DEF TypeOK, NoOp
<1>5. \A j \in 1..(n - 1) : old(j) \in 1..n /\ old(j) # k /\ q[j] = lock[c][old(j)]
  <2> TAKE j \in 1..(n - 1)
  <2>1. old(j) \in 1..n /\ old(j) # k
    BY <1>1, <1>2
  <2>2. q[j] = IF j < k THEN lock[c][j] ELSE lock[c][j + 1]
    OBVIOUS
  <2>3. q[j] = lock[c][old(j)]
    BY <2>2, Zenon
  <2>4. QED BY <2>1, <2>3
<1>6. \A i, j \in 1..(n - 1) : old(i) = old(j) => i = j
  BY <1>1, <1>2
<1>7. \A m \in 1..n : m # k => \E j \in 1..(n - 1) : old(j) = m
  <2> SUFFICES ASSUME NEW m \in 1..n, m # k PROVE \E j \in 1..(n - 1) : old(j) = m
    OBVIOUS
  <2>1. CASE m < k
    <3>1. m \in 1..(n - 1) /\ old(m) = m
      BY <1>1, <1>2, <2>1
    <3>2. QED BY <3>1
  <2>2. CASE m > k
    <3>1. m - 1 \in 1..(n - 1) /\ ~(m - 1 < k) /\ (m - 1) + 1 = m
      BY <1>1, <1>2, <2>2
    <3>2. old(m - 1) = m
      BY <3>1
    <3>3. QED BY <3>1, <3>2
  <2>3. m < k \/ m > k
    <3>1. m \in Int /\ k \in Int
      BY <1>1, <1>2
    <3>2. QED BY <3>1
  <2>4. QED BY <2>1, <2>2, <2>3
<1> HIDE DEF old
<1>8. \A i, j \in 1..n : lock[c][i] = lock[c][j] => i = j
  BY <1>1, <1>2 DEF LocksAreQueued
<1>9. ASSUME NEW d \in Channels, NEW i \in DOMAIN lock'[d]
      PROVE  /\ op'[lock'[d][i]].chan = d /\ op'[lock'[d][i]].pc \in {"waiting", "logging"}
             /\ \A j \in DOMAIN lock'[d] : lock'[d][i] = lock'[d][j] => i = j
  <2>1. CASE d = c
    <3>1. lock'[d] = q /\ i \in 1..(n - 1)
      BY <1>2, <1>3, <2>1
    <3>2. q[i] = lock[c][old(i)] /\ old(i) \in DOMAIN lock[c] /\ q[i] \in Sends
      BY <1>1, <1>2, <1>5, <3>1, ElementOfSeq
    <3>3. q[i] # s
      BY <1>2, <1>5, <1>8, <3>1, <3>2
    <3>4. op'[q[i]] = op[q[i]]
      BY <1>4, <3>2, <3>3
    <3>5. op[q[i]].chan = c /\ op[q[i]].pc \in {"waiting", "logging"}
      BY <1>1, <3>2 DEF LocksAreQueued
    <3>6. ASSUME NEW j \in 1..(n - 1), q[i] = q[j] PROVE i = j
      <4>1. q[j] = lock[c][old(j)] /\ old(j) \in 1..n /\ old(i) \in 1..n
        BY <1>5, <3>1
      <4>2. lock[c][old(i)] = lock[c][old(j)]
        BY <3>2, <3>6, <4>1
      <4>3. old(i) = old(j)
        BY <1>8, <4>1, <4>2
      <4>4. QED BY <1>6, <3>1, <4>3
    <3>7. QED BY <1>2, <2>1, <3>1, <3>4, <3>5, <3>6
  <2>2. CASE d # c
    <3>1. lock'[d] = lock[d] /\ lock[d] \in Seq(Sends) /\ i \in DOMAIN lock[d]
      BY <1>3, <2>2 DEF TypeOK
    <3>2. lock[d][i] \in Sends /\ op[lock[d][i]].chan = d
      BY <3>1, ElementOfSeq DEF LocksAreQueued
    <3>3. op'[lock[d][i]] = op[lock[d][i]]
      BY <1>4, <2>2, <3>2
    <3>4. QED BY <3>1, <3>2, <3>3 DEF LocksAreQueued
  <2>3. QED BY <2>1, <2>2
<1>10. ASSUME NEW t \in Sends, op'[t].pc \in {"waiting", "logging"}
       PROVE  \E i \in DOMAIN lock'[op'[t].chan] : lock'[op'[t].chan][i] = t
  <2>1. t # s /\ op'[t] = op[t]
    BY <1>4, <1>10
  <2>2. PICK m \in DOMAIN lock[op[t].chan] : lock[op[t].chan][m] = t
    BY <1>10, <2>1 DEF LocksAreQueued
  <2>3. op[t].chan \in Channels
    BY DEF TypeOK, Ops
  <2>4. CASE op[t].chan # c
    BY <1>3, <2>1, <2>2, <2>3, <2>4
  <2>5. CASE op[t].chan = c
    <3>1. m \in 1..n /\ m # k
      BY <1>2, <2>1, <2>2, <2>5
    <3>2. PICK j \in 1..(n - 1) : old(j) = m
      BY <1>7, <3>1
    <3>3. q[j] = t
      BY <1>5, <2>2, <2>5, <3>2
    <3>4. QED BY <1>2, <1>3, <2>1, <2>5, <3>2, <3>3
  <2>6. QED BY <2>4, <2>5
<1>11. QED BY <1>9, <1>10 DEF LocksAreQueued

\* The holder answers.
LEMMA AnswerLeaves ==
    ASSUME TypeOK, LocksAreQueued, NEW s \in Sends, Holds(s), Answer(s)
    PROVE  LocksAreQueued'
<1> DEFINE q == lock[op[s].chan]
<1>1. q \in Seq(Sends) /\ q # <<>> /\ Head(q) = s
  BY DEF TypeOK, Ops, Holds
<1>2. /\ Tail(q) \in Seq(Sends) /\ Len(Tail(q)) = Len(q) - 1 /\ 1 \in DOMAIN q /\ q[1] = s
      /\ \A j \in 1..(Len(q) - 1) : Tail(q)[j] = IF j < 1 THEN q[j] ELSE q[j + 1]
  BY <1>1, TailAt, Zenon
<1>3. op' = [op EXCEPT ![s] = NoOp] /\ lock' = [lock EXCEPT ![op[s].chan] = Tail(q)]
  BY DEF Answer
<1>4. QED BY <1>2, <1>3, LeavesLock

LEMMA NextQueued ==
    ASSUME TypeOK, LogHoldsLock, LocksAreQueued, [Next]_vars
    PROVE  LocksAreQueued'
<1>1. ASSUME UNCHANGED lock,
             \A s \in Sends : \/ op'[s] = op[s]
                             \/ /\ op'[s].chan = op[s].chan
                                /\ {op[s].pc, op'[s].pc} \subseteq {"waiting", "logging"}
                             \/ {op[s].pc, op'[s].pc} \cap {"waiting", "logging"} = {}
      PROVE  LocksAreQueued'
  <2>1. ASSUME NEW c \in Channels, NEW i \in DOMAIN lock[c]
        PROVE  op'[lock[c][i]].chan = c /\ op'[lock[c][i]].pc \in {"waiting", "logging"}
    <3>1. lock[c][i] \in Sends
      BY ElementOfSeq DEF TypeOK
    <3>2. op[lock[c][i]].chan = c /\ op[lock[c][i]].pc \in {"waiting", "logging"}
      BY DEF LocksAreQueued
    <3>3. QED BY <1>1, <3>1, <3>2
  <2>2. ASSUME NEW s \in Sends, op'[s].pc \in {"waiting", "logging"}
        PROVE  \E i \in DOMAIN lock[op'[s].chan] : lock[op'[s].chan][i] = s
    <3>1. op[s].pc \in {"waiting", "logging"} /\ op'[s].chan = op[s].chan
      BY <1>1, <2>2
    <3>2. QED BY <3>1 DEF LocksAreQueued
  <2>3. QED BY <1>1, <2>1, <2>2 DEF LocksAreQueued
<1>2. ASSUME UNCHANGED calls PROVE LocksAreQueued'
  BY <1>1, <1>2 DEF calls
<1>3. ASSUME NEW s \in Sends, NEW a \in Agents, NEW c \in Channels, NEW force \in BOOLEAN,
             Send(s, a, c, force)
      PROVE  LocksAreQueued'
  <2>1. op[s].pc = "idle" /\ op'[s].pc = "counting" /\ UNCHANGED lock
        /\ \A t \in Sends \ {s} : op'[t] = op[t]
    BY <1>3 DEF Send, TypeOK
  <2>2. QED BY <1>1, <2>1
<1>4. ASSUME NEW s \in Sends, TokensCounted(s)
      PROVE  LocksAreQueued'
  <2> DEFINE c == op[s].chan
             q == lock[c]
  <2>1. c \in Channels /\ q \in Seq(Sends) /\ Len(q) \in Nat /\ DOMAIN q = 1..Len(q)
    BY DEF TypeOK, Ops
  <2>2. /\ op[s].pc = "counting" /\ op'[s].pc = "waiting" /\ op'[s].chan = c
        /\ \A t \in Sends \ {s} : op'[t] = op[t]
        /\ lock'[c] = Append(q, s) /\ \A d \in Channels \ {c} : lock'[d] = lock[d]
    BY <1>4, <2>1 DEF TokensCounted, TypeOK, Ops
  <2>3. /\ DOMAIN lock'[c] = 1..(Len(q) + 1) /\ lock'[c][Len(q) + 1] = s
        /\ \A i \in 1..Len(q) : lock'[c][i] = q[i]
    BY <2>1, <2>2, AppendProperties
  <2>4. \A d \in Channels : \A i \in DOMAIN lock[d] : lock[d][i] \in Sends \ {s}
    <3> TAKE d \in Channels
    <3> TAKE i \in DOMAIN lock[d]
    <3>1. lock[d] \in Seq(Sends)
      BY DEF TypeOK
    <3>2. lock[d][i] \in Sends
      BY <3>1
    <3>3. op[lock[d][i]].pc \in {"waiting", "logging"}
      BY DEF LocksAreQueued
    <3>4. QED BY <2>2, <3>2, <3>3
  <2>5. \A i \in DOMAIN lock'[c] : i \in DOMAIN q \/ i = Len(q) + 1
    BY <2>1, <2>3
  <2>6. \A i \in DOMAIN q : lock'[c][i] = q[i] /\ i \in DOMAIN lock'[c]
    BY <2>1, <2>3
  <2>7. Len(q) + 1 \in DOMAIN lock'[c]
    BY <2>1, <2>3
  <2> HIDE DEF q
  <2>8. ASSUME NEW d \in Channels, NEW i \in DOMAIN lock'[d]
        PROVE  /\ op'[lock'[d][i]].chan = d /\ op'[lock'[d][i]].pc \in {"waiting", "logging"}
               /\ \A j \in DOMAIN lock'[d] : lock'[d][i] = lock'[d][j] => i = j
    <3>1. CASE d # c
      <4>1. lock'[d] = lock[d]
        BY <2>2, <3>1
      <4>2. op'[lock[d][i]] = op[lock[d][i]]
        BY <2>2, <2>4, <4>1
      <4>3. QED BY <4>1, <4>2 DEF LocksAreQueued
    <3>2. CASE d = c /\ i \in DOMAIN q
      <4>1. lock'[d][i] = q[i] /\ q[i] \in Sends \ {s}
        BY <2>1, <2>4, <2>6, <3>2 DEF q
      <4>2. op'[q[i]] = op[q[i]]
        BY <2>2, <4>1
      <4>3. /\ op[q[i]].chan = c /\ op[q[i]].pc \in {"waiting", "logging"}
            /\ \A j \in DOMAIN q : q[i] = q[j] => i = j
        BY <2>1, <3>2 DEF LocksAreQueued, q
      <4>4. \A j \in DOMAIN lock'[d] : lock'[d][i] = lock'[d][j] => i = j
        BY <2>3, <2>5, <2>6, <3>2, <4>1, <4>3
      <4>5. QED BY <3>2, <4>1, <4>2, <4>3, <4>4
    <3>3. CASE d = c /\ i = Len(q) + 1
      <4>1. lock'[d][i] = s
        BY <2>3, <3>3
      <4>2. \A j \in DOMAIN q : q[j] # s
        BY <2>1, <2>4 DEF q
      <4>3. \A j \in DOMAIN lock'[d] : lock'[d][j] = s => i = j
        BY <2>5, <2>6, <3>3, <4>2
      <4>4. QED BY <2>2, <3>3, <4>1, <4>3
    <3>4. QED BY <2>5, <3>1, <3>2, <3>3
  <2>9. ASSUME NEW t \in Sends, op'[t].pc \in {"waiting", "logging"}
        PROVE  \E i \in DOMAIN lock'[op'[t].chan] : lock'[op'[t].chan][i] = t
    <3>1. CASE t = s
      BY <2>2, <2>3, <2>7, <3>1
    <3>2. CASE t # s
      <4>1. op'[t] = op[t] /\ op[t].chan \in Channels
        BY <2>2, <3>2 DEF TypeOK, Ops
      <4>2. PICK i \in DOMAIN lock[op[t].chan] : lock[op[t].chan][i] = t
        BY <2>9, <4>1 DEF LocksAreQueued
      <4>3. CASE op[t].chan = c
        <5>1. i \in DOMAIN q /\ q[i] = t
          BY <4>2, <4>3 DEF q
        <5>2. QED BY <2>6, <4>1, <4>3, <5>1
      <4>4. CASE op[t].chan # c
        BY <2>2, <4>1, <4>2, <4>4
      <4>5. QED BY <4>3, <4>4
    <3>3. QED BY <3>1, <3>2
  <2>10. QED BY <2>8, <2>9 DEF LocksAreQueued
<1>5. ASSUME NEW s \in Sends, CancelSend(s)
      PROVE  LocksAreQueued'
  <2>1. op' = [op EXCEPT ![s] = NoOp]
    BY <1>5 DEF CancelSend
  <2>2. CASE op[s].pc = "counting" /\ UNCHANGED lock
    <3>1. op'[s].pc = "idle" /\ \A t \in Sends \ {s} : op'[t] = op[t]
      BY <2>1 DEF TypeOK, NoOp
    <3>2. QED BY <1>1, <2>2, <3>1
  <2>3. ASSUME NEW i \in 1..Len(lock[op[s].chan]), lock[op[s].chan][i] = s,
               lock' = [lock EXCEPT ![op[s].chan] = Without(@, i)]
        PROVE  LocksAreQueued'
    <3> DEFINE q == lock[op[s].chan]
    <3>1. q \in Seq(Sends) /\ i \in DOMAIN q
      BY <2>3 DEF TypeOK, Ops
    <3>2. /\ Without(q, i) \in Seq(Sends) /\ Len(Without(q, i)) = Len(q) - 1
          /\ \A j \in 1..(Len(q) - 1) : Without(q, i)[j] = IF j < i THEN q[j] ELSE q[j + 1]
      BY <3>1, WithoutAt
    <3>3. lock' = [lock EXCEPT ![op[s].chan] = Without(q, i)]
      BY <2>3
    <3>4. QED BY <2>1, <2>3, <3>1, <3>2, <3>3, LeavesLock
  <2>4. QED BY <1>5, <2>2, <2>3 DEF CancelSend
<1>6. ASSUME NEW s \in Sends, SendStep(s)
      PROVE  LocksAreQueued'
  <2>1. CASE Refuse(s) \/ Conflict(s)
    BY <2>1, AnswerLeaves DEF Refuse, Conflict
  <2>2. CASE Announce(s)
    <3>1. Holds(s) /\ Answer(s)
      BY <2>2 DEF Announce, LogHoldsLock
    <3>2. QED BY <3>1, AnswerLeaves
  <2>3. CASE Store(s)
    <3>1. /\ op[s].pc = "waiting" /\ op'[s].pc = "logging" /\ op'[s].chan = op[s].chan
          /\ UNCHANGED lock /\ \A t \in Sends \ {s} : op'[t] = op[t]
      BY <2>3 DEF Store, TypeOK, Ops
    <3>2. QED BY <1>1, <3>1
  <2>4. QED BY <1>6, <2>1, <2>2, <2>3 DEF SendStep
<1>7. ASSUME NEW a \in Agents,
             \/ TakeNotice(a) \/ DiscardStale(a) \/ DrainUnread(a) \/ Swap(a)
             \/ \E c \in Channels : ReadChannel(a, c)
      PROVE  LocksAreQueued'
  BY <1>2, <1>7 DEF TakeNotice, DiscardStale, DrainUnread, Swap, SwapBegin, SwapInstall, ReadChannel
<1>8. ASSUME NEW c \in Channels,
             ClearHistory(c)
                \/ \E group \in SUBSET Agents : UpdateMembers(c, group) \/ OpenDirect(c, group)
      PROVE  LocksAreQueued'
  BY <1>2, <1>8 DEF ClearHistory, UpdateMembers, OpenDirect
<1>9. CASE AdvanceRound \/ SnapshotRound \/ OpenRound \/ UNCHANGED vars
  BY <1>2, <1>9 DEF AdvanceRound, SnapshotRound, OpenRound, vars
<1>10. QED BY <1>3, <1>4, <1>5, <1>6, <1>7, <1>8, <1>9 DEF Next

\* The lock of a channel is never left with a call that is over: whoever waits for it
\* waits behind calls of its channel, the first of which can answer, store or, its log
\* written, announce. With the fairness of the event loop this is why sends finish.
THEOREM LocksGoOn == Spec => []HolderGoesOn
<1>1. Init => LocksAreQueued
  <2> SUFFICES ASSUME Init PROVE LocksAreQueued
    OBVIOUS
  <2>1. \A c \in Channels : DOMAIN lock[c] = {}
    <3>1. \A c \in Channels : lock[c] = <<>>
      BY DEF Init
    <3>2. DOMAIN <<>> = {}
      OBVIOUS
    <3>3. QED BY <3>1, <3>2
  <2>2. \A s \in Sends : op[s].pc = "idle"
    BY DEF Init, NoOp
  <2>3. QED BY <2>1, <2>2 DEF LocksAreQueued
<1>2. (TypeOK /\ LogHoldsLock) /\ LocksAreQueued /\ [Next]_vars => LocksAreQueued'
  BY NextQueued
<1>3. (TypeOK /\ LogHoldsLock) /\ LocksAreQueued => HolderGoesOn
  <2> SUFFICES ASSUME TypeOK, LocksAreQueued, NEW s \in Sends, op[s].pc = "waiting"
               PROVE  LET held == lock[op[s].chan] IN
                      /\ \E i \in DOMAIN held : held[i] = s
                      /\ op[Head(held)].chan = op[s].chan
                      /\ op[Head(held)].pc \in {"waiting", "logging"}
    BY DEF HolderGoesOn
  <2> DEFINE held == lock[op[s].chan]
  <2>1. held \in Seq(Sends) /\ op[s].chan \in Channels
    BY DEF TypeOK, Ops
  <2>2. \E i \in DOMAIN held : held[i] = s
    BY DEF LocksAreQueued
  <2>3. held # <<>>
    BY <2>2
  <2>4. 1 \in DOMAIN held /\ held[1] = Head(held)
    BY <2>1, <2>3, TailAt
  <2>5. QED BY <2>1, <2>2, <2>4 DEF LocksAreQueued
<1>4. QED BY <1>1, <1>2, <1>3, TypeAlways, PTL DEF Spec
=============================================================================
