----------------------------- MODULE Messaging -----------------------------
(***************************************************************************)
(* Channels and the messages on them: ChannelRouter (channel_router.py),   *)
(* the send, announce and drain paths of SimulationRuntime                 *)
(* (simulation_state.py), read_channel, WorldContext's membership and      *)
(* history operations, and the part of a mid-run agent swap that touches   *)
(* channels (agent_swap.py).                                               *)
(*                                                                         *)
(* A send awaits three times: the token counter, the channel's lock and    *)
(* the MessageSent log. Between those any other agent, the world and the   *)
(* clock may run. The log is written while the lock is held.               *)
(***************************************************************************)
EXTENDS Notifications, Sequences

CONSTANTS
    Agents,
    DirectChannels, \* the channels agents open by addressing teammates
    Sends,          \* send_message calls that can be in flight at once
    MaxMessages,    \* bound: messages stored in the run
    MaxRound,       \* bound: rounds played
    MaxSwaps,       \* bound: scheduled agent swaps
    World,          \* subset of {"members", "clear"}: what the scenario's world does
    CancelsMidLog   \* whether a send can be cancelled inside its log write

ASSUME MessagingAssumption ==
    /\ Agents # {} /\ Channels # {}
    /\ DirectChannels \subseteq Channels
    /\ MaxMessages \in Nat
    /\ MaxRound \in Nat \ {0}
    /\ MaxSwaps \in Nat
    /\ World \subseteq {"members", "clear"}
    /\ CancelsMidLog \in BOOLEAN

VARIABLES
    members,    \* members[c]: Channel.member_agent_ids
    history,    \* history[c]: the router's message list
    join,       \* join[c][a]: member_join_index, 0 when absent
    lastSeen,   \* lastSeen[a][c]: session._last_seen_counts
    queue,      \* queue[a]: the message notices in the session's queue
    pushes,     \* pushes[a]: the next arrival stamp
    terminated, \* agents whose session has its done notice
    op,         \* op[s]: the send_message call s
    lock,       \* lock[c]: the channel lock's holder and waiters, in order
    round,      \* _current_round
    clock,      \* where the clock's round boundary stands
    start,      \* start[r][c]: _channel_message_count_at_round_start
    draining,   \* the agent a swap is waiting for, as a set of at most one
    swaps,      \* swaps performed
    posted,     \* messages ever stored
    told,       \* told[a]: messages the seat's occupant was shown or told of
    withheld,   \* withheld[a]: messages a swap hid from the occupant
    floor       \* floor[a][c]: the round a swap's window opens at, 0 for none

router  == <<members, history, join, posted>>
inboxes == <<lastSeen, queue, pushes>>
calls   == <<op, lock>>
rounds  == <<round, clock, start>>
seats   == <<terminated, draining, swaps>>
ghosts  == <<told, withheld, floor>>
vars    == <<router, inboxes, calls, rounds, seats, ghosts>>

Message == [n : Nat, round : Nat, by : Agents]
Ops == [pc : {"idle", "counting", "waiting", "logging"}, agent : Agents,
        chan : Channels, force : BOOLEAN, upToDate : BOOLEAN]
\* A call slot nothing is using.
NoOp == [pc |-> "idle", agent |-> CHOOSE a \in Agents : TRUE,
         chan |-> CHOOSE c \in Channels : TRUE, force |-> FALSE, upToDate |-> FALSE]

Visibilities ==
    [kind : {"unlisted", "full", "none"}, from : {0}] \cup [kind : {"from_round"}, from : 1..MaxRound]

counts == [c \in Channels |-> Len(history[c])]

Stored(c) == {history[c][i] : i \in 1..Len(history[c])}

\* The positions of c a member may read: those behind its join index.
Window(a, c) == IF a \in members[c] THEN (join[c][a] + 1)..Len(history[c]) ELSE {}
Visible(a, c) == {history[c][i] : i \in Window(a, c)}

\* Bug: the unseen messages are cut from the whole history, not the window.
Unread_IgnoresWindow(a, c) ==
    {history[c][i] : i \in {j \in 1..Len(history[c]) : a \in members[c] /\ j > lastSeen[a][c]}}

Unread(a, c) == {history[c][i] : i \in {j \in Window(a, c) : j > lastSeen[a][c]}}

InFlight(a) == {s \in Sends : op[s].pc # "idle" /\ op[s].agent = a}
Holds(s) == lock[op[s].chan] # <<>> /\ Head(lock[op[s].chan]) = s

-----------------------------------------------------------------------------
(* send_message *)

\* publish_message up to its first await: a member that is not being torn down
\* starts counting tokens.
Send(s, a, c, force) ==
    /\ op[s].pc = "idle"
    /\ a \in members[c]
    /\ a \notin terminated
    /\ op' = [op EXCEPT ![s] = [pc |-> "counting", agent |-> a, chan |-> c,
                                force |-> force, upToDate |-> FALSE]]
    /\ UNCHANGED <<router, inboxes, lock, rounds, seats, ghosts>>

\* The count is in and the call queues for the channel's lock.
TokensCounted(s) ==
    /\ op[s].pc = "counting"
    /\ op' = [op EXCEPT ![s].pc = "waiting"]
    /\ lock' = [lock EXCEPT ![op[s].chan] = Append(@, s)]
    /\ UNCHANGED <<router, inboxes, rounds, seats, ghosts>>

\* The call leaves the lock and answers.
Answer(s) ==
    /\ op' = [op EXCEPT ![s] = NoOp]
    /\ lock' = [lock EXCEPT ![op[s].chan] = Tail(@)]

MayPost(a, c) == a \in members[c] /\ a \notin terminated

\* A sender no longer a member or terminated, or a scenario that refuses.
Refuse(s) ==
    /\ op[s].pc = "waiting" /\ Holds(s)
    /\ Answer(s)
    /\ UNCHANGED <<router, inboxes, rounds, seats, ghosts>>

\* Bug: the conflict answer returns without releasing the channel's lock.
Conflict_KeepsLock(s) ==
    LET a == op[s].agent  c == op[s].chan IN
    /\ op[s].pc = "waiting" /\ Holds(s)
    /\ MayPost(a, c)
    /\ ~op[s].force
    /\ Len(history[c]) > lastSeen[a][c]
    /\ op' = [op EXCEPT ![s] = NoOp]
    /\ told' = [told EXCEPT ![a] = @ \cup Unread(a, c)]
    /\ UNCHANGED <<router, inboxes, lock, rounds, seats, withheld, floor>>

\* _conflict_result
Conflict(s) ==
    LET a == op[s].agent  c == op[s].chan IN
    /\ op[s].pc = "waiting" /\ Holds(s)
    /\ MayPost(a, c)
    /\ ~op[s].force
    /\ Len(history[c]) > lastSeen[a][c]
    /\ Answer(s)
    /\ told' = [told EXCEPT ![a] = @ \cup Unread(a, c)]
    /\ UNCHANGED <<router, inboxes, rounds, seats, withheld, floor>>

\* Bug: the read position is not compared again under the lock.
Store_Unseen(s) ==
    LET a == op[s].agent
        c == op[s].chan
        m == [n |-> posted, round |-> round, by |-> a]
    IN
    /\ op[s].pc = "waiting" /\ Holds(s)
    /\ MayPost(a, c)
    /\ posted < MaxMessages
    /\ posted' = posted + 1
    /\ history' = [history EXCEPT ![c] = Append(@, m)]
    /\ op' = [op EXCEPT ![s].pc = "logging",
                        ![s].upToDate = (lastSeen[a][c] = Len(history[c]))]
    /\ told' = [told EXCEPT ![a] = @ \cup {m}]
    /\ UNCHANGED <<members, join, inboxes, lock, rounds, seats, withheld, floor>>

\* _store_message up to its log write.
Store(s) ==
    LET a == op[s].agent
        c == op[s].chan
        m == [n |-> posted, round |-> round, by |-> a]
    IN
    /\ op[s].pc = "waiting" /\ Holds(s)
    /\ MayPost(a, c)
    /\ op[s].force \/ Len(history[c]) <= lastSeen[a][c]
    /\ posted < MaxMessages
    /\ posted' = posted + 1
    /\ history' = [history EXCEPT ![c] = Append(@, m)]
    /\ op' = [op EXCEPT ![s].pc = "logging",
                        ![s].upToDate = (lastSeen[a][c] = Len(history[c]))]
    /\ told' = [told EXCEPT ![a] = @ \cup {m}]
    /\ UNCHANGED <<members, join, inboxes, lock, rounds, seats, withheld, floor>>

\* The channel's message notice pushed to each of chosen.
Announced(chosen, c) ==
    /\ queue' = [a \in Agents |->
                   IF a \in chosen
                   THEN queue[a] \cup {[at |-> pushes[a], kind |-> "messages", channels |-> {c}]}
                   ELSE queue[a]]
    /\ pushes' = [a \in Agents |-> IF a \in chosen THEN pushes[a] + 1 ELSE pushes[a]]

\* Bug: the sender's position becomes the last index, not the count.
Announce_LastIndex(s) ==
    LET a == op[s].agent  c == op[s].chan IN
    /\ op[s].pc = "logging"
    /\ lastSeen' = IF op[s].upToDate
                   THEN [lastSeen EXCEPT ![a][c] = Len(history[c]) - 1]
                   ELSE lastSeen
    /\ Announced(members[c] \ {a}, c)
    /\ Answer(s)
    /\ UNCHANGED <<router, rounds, seats, ghosts>>

\* Bug: sending always moves the sender's position to the end.
Announce_AlwaysReads(s) ==
    LET a == op[s].agent  c == op[s].chan IN
    /\ op[s].pc = "logging"
    /\ lastSeen' = [lastSeen EXCEPT ![a][c] = Len(history[c])]
    /\ Announced(members[c] \ {a}, c)
    /\ Answer(s)
    /\ UNCHANGED <<router, rounds, seats, ghosts>>

\* The rest of _store_message: the log is written, the sender's own position
\* moves, the members of now are told.
Announce(s) ==
    LET a == op[s].agent  c == op[s].chan IN
    /\ op[s].pc = "logging"
    /\ lastSeen' = IF op[s].upToDate
                   THEN [lastSeen EXCEPT ![a][c] = Len(history[c])]
                   ELSE lastSeen
    /\ Announced(members[c] \ {a}, c)
    /\ Answer(s)
    /\ UNCHANGED <<router, rounds, seats, ghosts>>

\* q without its i-th element.
Without(q, i) == SubSeq(q, 1, i - 1) \o SubSeq(q, i + 1, Len(q))

\* The call's task is cancelled: its runner is being torn down, or a scenario
\* tool that sends has run out of time. It gives up its place at the lock.
CancelSend(s) ==
    /\ \/ op[s].pc = "counting" /\ UNCHANGED lock
       \/ /\ op[s].pc = "waiting" \/ (op[s].pc = "logging" /\ CancelsMidLog)
          /\ \E i \in 1..Len(lock[op[s].chan]) :
                /\ lock[op[s].chan][i] = s
                /\ lock' = [lock EXCEPT ![op[s].chan] = Without(@, i)]
    /\ op' = [op EXCEPT ![s] = NoOp]
    /\ UNCHANGED <<router, inboxes, rounds, seats, ghosts>>

-----------------------------------------------------------------------------
(* Reading *)

\* read_channel: the whole window counts as read, whatever last_n was.
ReadChannel(a, c) ==
    /\ a \in members[c]
    /\ a \notin terminated
    /\ lastSeen' = [lastSeen EXCEPT ![a][c] = Len(history[c])]
    /\ told' = [told EXCEPT ![a] = @ \cup Visible(a, c)]
    /\ UNCHANGED <<router, queue, pushes, calls, rounds, seats, withheld, floor>>

\* A read_notifications result: the oldest live notice, its channels now read.
TakeNotice(a) ==
    LET live == Live(queue[a], lastSeen[a], counts) IN
    \E n \in queue[a] :
        LET fresh == Fresh(n, lastSeen[a], counts) IN
        /\ IsOldest(n, live)
        /\ queue' = [queue EXCEPT ![a] = Behind(n, @)]
        /\ lastSeen' = [lastSeen EXCEPT ![a] = ReadUpTo(fresh, @, counts)]
        /\ told' = [told EXCEPT ![a] = @ \cup UNION {Visible(a, c) : c \in fresh}]
        /\ UNCHANGED <<router, pushes, calls, rounds, seats, withheld, floor>>

\* The registry discards stale notices when it judges a wait.
DiscardStale(a) ==
    /\ queue' = [queue EXCEPT ![a] = Live(@, lastSeen[a], counts)]
    /\ queue' # queue
    /\ UNCHANGED <<router, lastSeen, pushes, calls, rounds, seats, ghosts>>

\* drain_unread_channel_messages
DrainUnread(a) ==
    /\ lastSeen' = [lastSeen EXCEPT ![a] = [c \in Channels |->
                       IF a \in members[c] THEN Len(history[c]) ELSE @[c]]]
    /\ told' = [told EXCEPT ![a] = @ \cup UNION {Unread(a, c) : c \in Channels}]
    /\ UNCHANGED <<router, queue, pushes, calls, rounds, seats, withheld, floor>>

-----------------------------------------------------------------------------
(* The world's channel operations *)

\* Bug: a newcomer keeps the read position of its earlier membership.
UpdateMembers_KeepsPosition(c, new) ==
    LET joining == new \ members[c]  leaving == members[c] \ new IN
    /\ "members" \in World
    /\ c \notin DirectChannels
    /\ new # {}
    /\ members' = [members EXCEPT ![c] = new]
    /\ join' = [join EXCEPT ![c] = [a \in Agents |->
                   IF a \in joining THEN Len(history[c]) ELSE IF a \in leaving THEN 0 ELSE @[a]]]
    /\ floor' = [a \in Agents |-> IF a \in joining \cup leaving
                                  THEN [floor[a] EXCEPT ![c] = 0]
                                  ELSE floor[a]]
    /\ UNCHANGED <<history, posted, inboxes, calls, rounds, seats, told, withheld>>

\* update_channel_members: newcomers join at the end of the history.
UpdateMembers(c, new) ==
    LET joining == new \ members[c]  leaving == members[c] \ new IN
    /\ "members" \in World
    /\ c \notin DirectChannels
    /\ new # {}
    /\ members' = [members EXCEPT ![c] = new]
    /\ join' = [join EXCEPT ![c] = [a \in Agents |->
                   IF a \in joining THEN Len(history[c]) ELSE IF a \in leaving THEN 0 ELSE @[a]]]
    /\ lastSeen' = [a \in Agents |-> IF a \in joining
                                     THEN [lastSeen[a] EXCEPT ![c] = Len(history[c])]
                                     ELSE lastSeen[a]]
    /\ floor' = [a \in Agents |-> IF a \in joining \cup leaving
                                  THEN [floor[a] EXCEPT ![c] = 0]
                                  ELSE floor[a]]
    /\ UNCHANGED <<history, posted, queue, pushes, calls, rounds, seats, told, withheld>>

\* clear_channel_history: the channel, every join index and every read position.
ClearHistory(c) ==
    /\ "clear" \in World
    /\ history' = [history EXCEPT ![c] = <<>>]
    /\ join' = [join EXCEPT ![c] = [a \in Agents |-> 0]]
    /\ lastSeen' = [a \in Agents |-> [lastSeen[a] EXCEPT ![c] = 0]]
    /\ UNCHANGED <<members, posted, queue, pushes, calls, rounds, seats, ghosts>>

\* direct_channel_for, when the channel does not exist yet.
OpenDirect(c, participants) ==
    /\ c \in DirectChannels
    /\ members[c] = {}
    /\ \E a, b \in participants : a # b /\ a \notin terminated
    /\ members' = [members EXCEPT ![c] = participants]
    /\ UNCHANGED <<history, join, posted, inboxes, calls, rounds, seats, ghosts>>

-----------------------------------------------------------------------------
(* Round boundaries and swaps *)

\* _advance_round counts the round before it logs RoundAdvanced.
AdvanceRound ==
    /\ clock = "playing"
    /\ round < MaxRound
    /\ round' = round + 1
    /\ clock' = "advancing"
    /\ UNCHANGED <<router, inboxes, calls, start, seats, ghosts>>

\* The boundary hook, after that log: snapshot_round_start.
SnapshotRound ==
    /\ clock = "advancing"
    /\ start' = [start EXCEPT ![round] = counts]
    /\ clock' = "boundary"
    /\ UNCHANGED <<router, inboxes, calls, round, seats, ghosts>>

\* The hook's events are done and the round's briefings go out.
OpenRound ==
    /\ clock = "boundary"
    /\ draining = {}
    /\ clock' = "playing"
    /\ UNCHANGED <<router, inboxes, calls, round, start, seats, ghosts>>

\* _drain_old_runner tells the outgoing occupant to stop and waits for it.
SwapBegin(a) ==
    /\ clock = "boundary"
    /\ draining = {}
    /\ swaps < MaxSwaps
    /\ draining' = {a}
    /\ swaps' = swaps + 1
    /\ terminated' = terminated \cup {a}
    /\ UNCHANGED <<router, inboxes, calls, rounds, ghosts>>

\* compute_per_channel_join_index for one channel of the swap's visibility.
JoinIndex(a, c, v) ==
    CASE v.kind = "full"       -> 0
      [] v.kind = "none"       -> Len(history[c])
      [] v.kind = "from_round" -> start[v.from][c]
      [] v.kind = "unlisted"   -> join[c][a]

\* The old runner is gone, and its calls with it. Visibility, session and
\* wake-up notice of the new occupant go in without an await between them.
SwapInstall(a, visibility) ==
    /\ a \in draining
    /\ InFlight(a) = {}
    /\ draining' = {}
    /\ terminated' = terminated \ {a}
    /\ join' = [c \in Channels |->
                  IF a \in members[c]
                  THEN [join[c] EXCEPT ![a] = JoinIndex(a, c, visibility[c])]
                  ELSE join[c]]
    /\ lastSeen' = [lastSeen EXCEPT ![a] = [c \in Channels |-> 0]]
    /\ queue' = [queue EXCEPT ![a] = {[at |-> pushes[a], kind |-> "messages",
                                       channels |-> {c \in Channels : a \in members[c]}]}]
    /\ pushes' = [pushes EXCEPT ![a] = @ + 1]
    /\ told' = [told EXCEPT ![a] = {}]
    /\ floor' = [floor EXCEPT ![a] = [c \in Channels |->
                    CASE visibility[c].kind = "unlisted" -> @[c]
                      [] visibility[c].kind # "unlisted" -> visibility[c].from]]
    /\ withheld' = [withheld EXCEPT ![a] = UNION {
          {m \in Stored(c) : visibility[c].kind = "none" \/ m.round < visibility[c].from} :
          c \in Channels}]
    /\ UNCHANGED <<members, history, posted, calls, rounds, swaps>>

-----------------------------------------------------------------------------
\* Agents start after the first round is advanced to and snapshotted.
Init ==
    /\ members \in {f \in [Channels -> SUBSET Agents] :
                     \A c \in Channels : f[c] = {} <=> c \in DirectChannels}
    /\ history = [c \in Channels |-> <<>>]
    /\ join = [c \in Channels |-> [a \in Agents |-> 0]]
    /\ posted = 0
    /\ lastSeen = [a \in Agents |-> [c \in Channels |-> 0]]
    /\ queue = [a \in Agents |-> {}]
    /\ pushes = [a \in Agents |-> 0]
    /\ terminated = {} /\ draining = {} /\ swaps = 0
    /\ op = [s \in Sends |-> NoOp]
    /\ lock = [c \in Channels |-> <<>>]
    /\ round = 1 /\ clock = "playing"
    /\ start = [r \in 1..MaxRound |-> [c \in Channels |-> 0]]
    /\ told = [a \in Agents |-> {}]
    /\ withheld = [a \in Agents |-> {}]
    /\ floor = [a \in Agents |-> [c \in Channels |-> 0]]

\* A swap's windows open no later than its own round (SwapAgent).
Swap(a) ==
    \/ SwapBegin(a)
    \/ \E v \in [Channels -> {w \in Visibilities : w.from <= round}] : SwapInstall(a, v)

SendStep(s) == Refuse(s) \/ Conflict(s) \/ Store(s) \/ Announce(s)

Next ==
    \/ \E s \in Sends :
          \/ \E a \in Agents, c \in Channels, force \in BOOLEAN : Send(s, a, c, force)
          \/ TokensCounted(s) \/ SendStep(s) \/ CancelSend(s)
    \/ \E a \in Agents :
          \/ TakeNotice(a) \/ DiscardStale(a) \/ DrainUnread(a) \/ Swap(a)
          \/ \E c \in Channels : ReadChannel(a, c)
    \/ \E c \in Channels :
          \/ ClearHistory(c)
          \/ \E group \in SUBSET Agents : UpdateMembers(c, group) \/ OpenDirect(c, group)
    \/ AdvanceRound \/ SnapshotRound \/ OpenRound

Spec == Init /\ [][Next]_vars

\* A lock's holder runs, and a log write completes. Token counting may never
\* answer, and no agent has to call anything.
SendFairness == \A s \in Sends : WF_vars(SendStep(s))

FairSpec == Spec /\ SendFairness

-----------------------------------------------------------------------------
(* Properties *)

\* Every variable has its type; no index or read position becomes negative, and
\* the seat a swap waits for is one that was told to stop.
TypeOK ==
    /\ members \in [Channels -> SUBSET Agents]
    /\ history \in [Channels -> Seq(Message)]
    /\ join \in [Channels -> [Agents -> Nat]]
    /\ lastSeen \in [Agents -> [Channels -> Nat]]
    /\ queue \in [Agents -> SUBSET Notice]
    /\ pushes \in [Agents -> Nat]
    /\ terminated \subseteq Agents
    /\ op \in [Sends -> Ops]
    /\ lock \in [Channels -> Seq(Sends)]
    /\ round \in 1..MaxRound
    /\ clock \in {"playing", "advancing", "boundary"}
    /\ start \in [1..MaxRound -> [Channels -> Nat]]
    /\ draining \subseteq terminated
    /\ swaps \in 0..MaxSwaps
    /\ posted \in 0..MaxMessages
    /\ told \in [Agents -> SUBSET Message]
    /\ withheld \in [Agents -> SUBSET Message]
    /\ floor \in [Agents -> [Channels -> 0..MaxRound]]

\* A read position never runs ahead of the agent: every message a member may
\* read that lies before its position has been shown or announced to it. A
\* position set after the log write must not swallow what arrived meanwhile.
ReadMeansTold ==
    \A a \in Agents, c \in Channels : \A i \in Window(a, c) :
        i <= lastSeen[a][c] => history[c][i] \in told[a]

\* No message goes unnoticed: a member behind on a channel has a notice for it
\* queued, or the sender of what it has not seen is still in its log write.
UnreadIsAnnounced ==
    \A a \in Agents, c \in Channels :
        a \in members[c] /\ lastSeen[a][c] < Len(history[c]) =>
            \/ \E n \in queue[a] : c \in n.channels
            \/ \E s \in Sends : /\ op[s].pc = "logging" /\ op[s].chan = c
                                /\ (op[s].agent = a => op[s].upToDate)

\* What ReadMeansTold and UnreadIsAnnounced rest on: a call in its log write
\* holds its channel's lock; no read position lies past the end of its channel;
\* a call that found its sender up to date has told it the whole channel; a channel
\* nobody has opened is empty; and a queue's stamps are all different.
LogHoldsLock == \A s \in Sends : op[s].pc = "logging" => Holds(s)

SeenWithinHistory ==
    \A a \in Agents, c \in Channels : lastSeen[a][c] <= Len(history[c])

UpToDateSenderKnows ==
    \A s \in Sends : op[s].pc = "logging" /\ op[s].upToDate =>
        Visible(op[s].agent, op[s].chan) \subseteq told[op[s].agent]

UnopenedIsEmpty == \A c \in Channels : members[c] = {} => history[c] = <<>>

StampsDiffer ==
    \A a \in Agents : \A n \in queue[a] :
        n.at < pushes[a] /\ \A m \in queue[a] : m.at = n.at => m = n

\* What a swap hid from the new occupant of a seat reaches it by no route: not
\* read_channel, not a drain, not the unseen messages of a conflict answer.
WithheldIsNeverTold == \A a \in Agents : told[a] \cap withheld[a] = {}

\* A window opened at round R shows every message of the rounds from R on
\* (channel_router.py:27, scheduled_events.py:53).
WindowIsComplete ==
    \A a \in Agents, c \in Channels :
        a \in members[c] /\ floor[a][c] > 0 =>
            \A i \in 1..Len(history[c]) :
                history[c][i].round >= floor[a][c] => i > join[c][a]

\* Short of that, it shows every message of the rounds after R.
LaterRoundsAreShown ==
    \A a \in Agents, c \in Channels :
        a \in members[c] /\ floor[a][c] > 0 =>
            \A i \in 1..Len(history[c]) :
                history[c][i].round > floor[a][c] => i > join[c][a]

StoredBy(s) == op[s].pc = "waiting" /\ op'[s].pc = "logging"

\* An unforced message is stored only by a sender that has been told of every
\* message it can see on the channel, however long its tokens took to count.
NoBlindSend ==
    [][\A s \in Sends : StoredBy(s) /\ ~op[s].force =>
          Visible(op[s].agent, op[s].chan) \subseteq told[op[s].agent]]_vars

\* An agent removed from the channel, or told to stop, while its send was on the
\* way stores nothing there.
PostersAreCurrent ==
    [][\A s \in Sends : StoredBy(s) =>
          op[s].agent \in members[op[s].chan] /\ op[s].agent \notin terminated]_vars

\* A channel's lock is never held by a call that is over or was cancelled: its first
\* call is there to answer, store or announce, and whoever waits for it is behind.
HolderGoesOn ==
    \A s \in Sends : op[s].pc = "waiting" =>
        LET held == lock[op[s].chan] IN
        /\ \E i \in DOMAIN held : held[i] = s
        /\ op[Head(held)].chan = op[s].chan /\ op[Head(held)].pc \in {"waiting", "logging"}

\* A send that has counted its tokens is answered: the lock is always passed on,
\* whatever its holder answers and whoever is cancelled.
SendsFinish == \A s \in Sends : op[s].pc = "waiting" ~> op[s].pc = "idle"

=============================================================================
