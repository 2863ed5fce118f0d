------------------------------ MODULE EventLog ------------------------------
(***************************************************************************)
(* The event log (event_logger.py), the bus it publishes to (event_bus.py) *)
(* and the streams the embedded server reads from it                       *)
(* (simulation_server.py), as the supervisor opens, ends and closes them.  *)
(*                                                                         *)
(* A call of log queues for the write lock, which asyncio grants in order; *)
(* its write runs in a thread of the executor, and outlives a caller that  *)
(* is cancelled. An action is the code between two awaits, or a thread's   *)
(* job.                                                                    *)
(***************************************************************************)
EXTENDS Naturals, Sequences, FiniteSets

CONSTANTS
    Subscribers,   \* streams of the embedded server
    QueueSize,     \* EVENT_BUS_MAX_QUEUE_SIZE
    MaxCalls,      \* bound: calls of log
    MaxTransient   \* bound: events published without being logged

ASSUME BoundsAssumption ==
    QueueSize \in Nat \ {0} /\ MaxCalls \in Nat /\ MaxTransient \in Nat

VARIABLES
    calls,      \* every call of log, in order: who made it and where it is
    queue,      \* the calls that hold or wait for the lock, its holder first
    threads,    \* calls whose write is with the executor
    disk,       \* the file: the calls whose lines it holds
    file,       \* the state of the file and of EventLogger._file
    run,        \* what the supervisor is doing
    published,  \* history: everything published on the bus
    stream      \* per subscriber: its queue and what it has been sent

vars == <<calls, queue, threads, disk, file, run, published, stream>>

\* A call made in a runner's own task, which can be cancelled; by a task the runner
\* awaits before it returns; by a task nobody awaits; by the supervisor, at the end.
Callers == {"direct", "collected", "loose", "end"}

States == {"queued", "writing", "written", "refused", "logged", "failed", "cancelled"}

\* Open; with its close in the executor; closed there; and _file is None.
Files == {"open", "closing", "shut", "gone"}

\* An event published without being logged: a cost update or a debug log record.
Transient == 0

NoStream == [on |-> FALSE, queue |-> <<>>, sent |-> <<>>, since |-> 0]

Elements(seq) == {seq[i] : i \in DOMAIN seq}
Becomes(e, state) == calls' = [calls EXCEPT ![e].state = state]

\* publish makes room in a full queue by dropping its oldest event.
Delivered(events, e) == Append(IF Len(events) = QueueSize THEN Tail(events) ELSE events, e)

Publish(e) ==
    /\ published' = Append(published, e)
    /\ stream' = [s \in Subscribers |->
          IF stream[s].on THEN [stream[s] EXCEPT !.queue = Delivered(@, e)] ELSE stream[s]]

-----------------------------------------------------------------------------
(* EventLogger.log *)

Enqueue(caller) ==
    /\ Len(calls) < MaxCalls
    /\ calls' = Append(calls, [caller |-> caller, state |-> "queued"])
    /\ queue' = Append(queue, Len(calls) + 1)

\* A call is made while runners play, or, when the run has failed, for as long as
\* the file is there; after that it raises RuntimeError. A last call is kept for the
\* supervisor.
Log(caller) ==
    /\ run \in {"playing", "failed"}
    /\ file # "gone"
    /\ run = "playing" => Len(calls) < MaxCalls - 1
    /\ Enqueue(caller)
    /\ UNCHANGED <<threads, disk, file, run, published, stream>>

\* Bug: nothing orders the writes of two calls.
Submit_Unlocked(e) ==
    /\ e \in Elements(queue)
    /\ calls[e].state = "queued"
    /\ file # "gone"
    /\ threads' = threads \cup {e} /\ Becomes(e, "writing")
    /\ UNCHANGED <<queue, disk, file, run, published, stream>>

\* The holder of the lock hands its line to the executor; without a file it raises.
Submit(e) ==
    /\ queue # <<>> /\ e = Head(queue)
    /\ calls[e].state = "queued"
    /\ IF file = "gone"
       THEN queue' = Tail(queue) /\ Becomes(e, "failed") /\ UNCHANGED threads
       ELSE threads' = threads \cup {e} /\ Becomes(e, "writing") /\ UNCHANGED queue
    /\ UNCHANGED <<disk, file, run, published, stream>>

\* A thread writes the line, or finds the file closed.
Write(e) ==
    /\ e \in threads
    /\ threads' = threads \ {e}
    /\ disk' = IF file \in {"open", "closing"} THEN Append(disk, e) ELSE disk
    /\ IF calls[e].state = "cancelled" THEN UNCHANGED calls
       ELSE Becomes(e, IF file \in {"open", "closing"} THEN "written" ELSE "refused")
    /\ UNCHANGED <<queue, file, run, published, stream>>

\* Bug: the event is published whether or not its write went through.
Return_Always(e) ==
    /\ queue # <<>> /\ e = Head(queue)
    /\ calls[e].state \in {"writing", "written", "refused"}
    /\ queue' = Tail(queue)
    /\ Becomes(e, "logged") /\ Publish(e)
    /\ UNCHANGED <<threads, disk, file, run>>

\* The flush is done, the lock is released and the event published; or the write or
\* the flush has raised.
Return(e) ==
    /\ queue # <<>> /\ e = Head(queue)
    /\ calls[e].state \in {"written", "refused"}
    /\ queue' = Tail(queue)
    /\ IF calls[e].state = "written" /\ file \in {"open", "closing"}
       THEN Becomes(e, "logged") /\ Publish(e)
       ELSE Becomes(e, "failed") /\ UNCHANGED <<published, stream>>
    /\ UNCHANGED <<threads, disk, file, run>>

\* q without its i-th element.
Without(q, i) == SubSeq(q, 1, i - 1) \o SubSeq(q, i + 1, Len(q))

\* Bug: a cancelled holder keeps the lock.
Cancel_KeepsLock(e) ==
    /\ calls[e].caller = "direct"
    /\ \E i \in DOMAIN queue :
          /\ queue[i] = e
          /\ queue' = IF calls[e].state = "queued" THEN Without(queue, i) ELSE queue
    /\ Becomes(e, "cancelled")
    /\ UNCHANGED <<threads, disk, file, run, published, stream>>

\* A runner is cancelled in its call: it leaves the queue, or releases the lock
\* while its line is still with the executor.
Cancel(e) ==
    /\ calls[e].caller = "direct"
    /\ \E i \in DOMAIN queue : queue[i] = e /\ queue' = Without(queue, i)
    /\ Becomes(e, "cancelled")
    /\ UNCHANGED <<threads, disk, file, run, published, stream>>

-----------------------------------------------------------------------------
(* The supervisor *)

\* The runners have returned or been cancelled and awaited, the world's task as
\* well: only tasks nobody awaits may still be in the log. SimulationEnded follows.
Finish ==
    /\ run = "playing"
    /\ \A e \in Elements(queue) : calls[e].caller = "loose"
    /\ run' = "finished"
    /\ Enqueue("end")
    /\ UNCHANGED <<threads, disk, file, published, stream>>

\* The run fails: SimulationEnded(ERROR) is logged while everything else goes on.
Fail ==
    /\ run = "playing"
    /\ run' = "failed"
    /\ Enqueue("end")
    /\ UNCHANGED <<threads, disk, file, published, stream>>

Ended == \E e \in DOMAIN calls : calls[e].caller = "end" /\ calls[e].state = "logged"

\* close: the file is closed by the executor, then forgotten.
Close ==
    /\ file = "open"
    /\ Ended
    /\ file' = "closing"
    /\ UNCHANGED <<calls, queue, threads, disk, run, published, stream>>

CloseFile ==
    /\ file = "closing"
    /\ file' = "shut"
    /\ UNCHANGED <<calls, queue, threads, disk, run, published, stream>>

Forget ==
    /\ file = "shut"
    /\ file' = "gone"
    /\ UNCHANGED <<calls, queue, threads, disk, run, published, stream>>

-----------------------------------------------------------------------------
(* The bus and its streams *)

\* A cost update or a log record is published and not logged, before the end and after.
PublishTransient ==
    /\ Cardinality({i \in DOMAIN published : published[i] = Transient}) < MaxTransient
    /\ Publish(Transient)
    /\ UNCHANGED <<calls, queue, threads, disk, file, run>>

\* A client opens a stream, which gets what is published from now on.
Subscribe(s) ==
    /\ ~stream[s].on
    /\ stream' = [stream EXCEPT ![s] = [NoStream EXCEPT !.on = TRUE, !.since = Len(published)]]
    /\ UNCHANGED <<calls, queue, threads, disk, file, run, published>>

IsEnd(e) == e # Transient /\ calls[e].caller = "end"

\* The next event is sent; after the end the stream is over.
Send(s) ==
    LET e == Head(stream[s].queue) IN
    /\ stream[s].on
    /\ stream[s].queue # <<>>
    /\ stream' = [stream EXCEPT ![s] =
          [stream[s] EXCEPT !.sent = Append(@, e),
                            !.queue = IF IsEnd(e) THEN <<>> ELSE Tail(@),
                            !.on = ~IsEnd(e)]]
    /\ UNCHANGED <<calls, queue, threads, disk, file, run, published>>

\* The client goes away.
Disconnect(s) ==
    /\ stream[s].on
    /\ stream' = [stream EXCEPT ![s] = NoStream]
    /\ UNCHANGED <<calls, queue, threads, disk, file, run, published>>

Init ==
    /\ calls = <<>> /\ queue = <<>> /\ threads = {} /\ disk = <<>>
    /\ file = "open"
    /\ run = "playing"
    /\ published = <<>>
    /\ stream = [s \in Subscribers |-> NoStream]

Next ==
    \/ \E caller \in Callers \ {"end"} : Log(caller)
    \/ \E e \in DOMAIN calls : Submit(e) \/ Write(e) \/ Return(e) \/ Cancel(e)
    \/ Finish \/ Fail \/ Close \/ CloseFile \/ Forget
    \/ PublishTransient
    \/ \E s \in Subscribers : Subscribe(s) \/ Send(s) \/ Disconnect(s)

\* The event loop runs every call on, and the executor every job.
Fairness ==
    \A e \in 1..MaxCalls :
        WF_vars(e \in DOMAIN calls /\ (Submit(e) \/ Write(e) \/ Return(e)))

Spec == Init /\ [][Next]_vars
FairSpec == Spec /\ Fairness

-----------------------------------------------------------------------------
(* Properties *)

CallIds == 1..MaxCalls

\* What is published: an event, by the call that logged it, or a transient one.
Events == {Transient} \cup DOMAIN calls

\* Every variable has its type, and no stream queues more than QueueSize events.
TypeOK ==
    /\ calls \in Seq([caller : Callers, state : States]) /\ Len(calls) <= MaxCalls
    /\ queue \in Seq(DOMAIN calls)
    /\ threads \subseteq DOMAIN calls
    /\ disk \in Seq(DOMAIN calls)
    /\ file \in Files
    /\ run \in {"playing", "finished", "failed"}
    /\ published \in Seq(Events)
    /\ stream \in [Subscribers -> [on : BOOLEAN, queue : Seq(Events), sent : Seq(Events),
                                   since : 0..Len(published)]]
    /\ \A s \in Subscribers : Len(stream[s].queue) <= QueueSize

\* The file holds e before f.
Before(lines, e, f) == \E i, j \in DOMAIN lines : i < j /\ lines[i] = e /\ lines[j] = f

\* What a stream has sent and holds.
Seen(s) == stream[s].sent \o stream[s].queue

InOrderOf(lines, seen) ==
    /\ \A i \in DOMAIN seen : seen[i] # Transient => seen[i] \in Elements(lines)
    /\ \A i, j \in DOMAIN seen :
          i < j /\ seen[i] # Transient /\ seen[j] # Transient => Before(lines, seen[i], seen[j])

\* seen ends with the QueueSize newest of the events published after the first n.
HasNewest(seen, events, n) ==
    \A k \in 0..(QueueSize - 1) : k < Len(events) - n =>
        k < Len(seen) /\ seen[Len(seen) - k] = events[Len(events) - k]

\* What a stream has sent and holds is in the log, in the log's order, whoever was
\* cancelled while writing; and it has lost none of the QueueSize newest events, so
\* a slow client still comes to the end of the run.
StreamFollowsTheLog ==
    \A s \in Subscribers :
        /\ InOrderOf(disk, Seen(s))
        /\ stream[s].on => HasNewest(Seen(s), published, stream[s].since)

\* Nothing that was logged before the end is lost or comes after it, the calls
\* nobody waits for included; and a run that did not fail logs nothing more. Only a
\* call whose runner was cancelled may do without.
TheEndIsLast ==
    \A e, f \in DOMAIN calls :
        /\ calls[e].caller = "end" /\ calls[e].state \in {"written", "logged"}
        /\ f # e /\ calls[f].state # "cancelled"
        /\ f < e \/ run = "finished"
        => Before(disk, f, e)

\* Whoever is first in the lock's queue goes on: it has its line to hand over, or the
\* executor has it, or its answer is there. The lock never waits for a call that was
\* cancelled, or for a write nobody does.
HolderGoesOn ==
    queue # <<>> => \/ calls[Head(queue)].state \in {"queued", "written", "refused"}
                    \/ Head(queue) \in threads

\* Every call of log comes to its end, whoever else is cancelled or fails: the
\* lock is always passed on.
LogCallsReturn == \A e \in CallIds : e \in Elements(queue) ~> e \notin Elements(queue)
=============================================================================
