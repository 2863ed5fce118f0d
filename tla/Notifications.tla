--------------------------- MODULE Notifications ---------------------------
(***************************************************************************)
(* What an agent's session queue holds and how a read_notifications call   *)
(* judges it: AgentSession's deque, the staleness test and wake conditions *)
(* of wait_registry.py and NotificationInbox of notification_payload.py.   *)
(*                                                                         *)
(* The deque is a set of notices stamped with their arrival (at): "oldest  *)
(* first" is "smallest stamp first".                                       *)
(***************************************************************************)
EXTENDS Naturals

CONSTANT Channels

\* WaitFor
WaitKinds == {"any", "message", "next_round"}

\* WakeReason
WakeReasons ==
    {"new_notification", "new_message", "next_round", "done", "timeout", "released"}

\* NewMessagesNotification, NewInfoNotification with kind "injection" or
\* "world", DoneNotification. NoActivityNotification is never queued.
NoticeKinds == {"messages", "injection", "world", "done"}

\* channels is empty for every kind but "messages".
Notice == [at : Nat, kind : NoticeKinds, channels : SUBSET Channels]

\* The channels of a notice with more messages than the agent has read; seen
\* and counts are functions on Channels.
Fresh(n, seen, counts) == {c \in n.channels : counts[c] > seen[c]}

\* Bug: all() over no channels is true, so every other kind counts as stale.
IsStale_AnyKind(n, seen, counts) == Fresh(n, seen, counts) = {}

\* is_stale_message_notice
IsStale(n, seen, counts) == n.kind = "messages" /\ Fresh(n, seen, counts) = {}

\* session.discard_notifications(is_stale_message_notice)
Live(queue, seen, counts) == {n \in queue : ~IsStale(n, seen, counts)}

\* Which conditions of a wait a queue rid of stale notices satisfies.
SatisfiedByQueue(waitFor, queued) ==
    {r \in {"new_notification", "new_message", "next_round"} :
        \/ r = "new_notification" /\ waitFor = "any" /\ queued # {}
        \/ /\ r = "new_message" /\ waitFor = "message"
           /\ \E n \in queued : n.kind = "messages"
        \/ /\ r = "next_round" /\ waitFor # "any"
           /\ \E n \in queued : n.kind = "injection"}

\* Bug: an agent that declared its round finished waits for an injection only.
Satisfied_FinishedIgnoresDone(waitFor, queued, terminated) ==
    SatisfiedByQueue(waitFor, queued)
        \cup {r \in {"done"} : terminated /\ waitFor # "next_round"}

\* The tail of _satisfied_reasons: the session's own flag says the run is over.
Satisfied(waitFor, queued, terminated) ==
    SatisfiedByQueue(waitFor, queued) \cup {r \in {"done"} : terminated}

IsOldest(n, queued) == n \in queued /\ \A m \in queued : n.at <= m.at

\* NotificationInbox.take_next: n is delivered, everything older was stale and
\* is dropped with it, and the channels it announces count as read.
Behind(n, queue) == {m \in queue : m.at > n.at}

\* Bug: the read position is set one past the end.
ReadUpTo_PastEnd(chans, seen, counts) ==
    [c \in Channels |-> IF c \in chans THEN counts[c] + 1 ELSE seen[c]]

ReadUpTo(chans, seen, counts) ==
    [c \in Channels |-> IF c \in chans THEN counts[c] ELSE seen[c]]
=============================================================================
