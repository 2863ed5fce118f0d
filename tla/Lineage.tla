------------------------------ MODULE Lineage ------------------------------
(***************************************************************************)
(* Runs made from runs: replace_agent.py and cross_run_replace_agent.py    *)
(* cut a source's log at the end of a round and leave a manifest beside    *)
(* the clone; resume_state_loader.py and message_rewind.py rebuild a       *)
(* process from the log and the manifest, as often as it stops; and        *)
(* agent_swap.py gives a seat to another agent within a run.               *)
(*                                                                         *)
(* A seat is an agent_id. The agents that sit on it one after the other    *)
(* share its name in the log, so the log alone does not say whose words    *)
(* are whose. The field by of a line and the variables first and given are *)
(* history variables that do; no action reads them.                        *)
(*                                                                         *)
(* Runs share nothing but the files a fork reads, so at most one process   *)
(* is up at a time and a fork is made when none is. Timestamps are         *)
(* positions in the log; RunHistory is about where they differ.            *)
(***************************************************************************)
EXTENDS Naturals, Sequences, FiniteSets

CONSTANTS
    Seats,
    Channels,
    Blocked,       \* get_replace_agent_blocked_tool_call_channels
    Swaps,         \* the swap_agent events every run schedules: seat, round, hidden channels
    Views,         \* what a replacement may be shown: visible channels, and from which round
    SourceRounds,  \* round_count of a run that is not derived
    DerivedRounds, \* round_counts that callers give to derived runs
    Nobody,        \* no replaced_agent_id
    NoChannel,     \* what a tool call that is not about a channel names
    Avoided,       \* what does not happen in an instance, see AvoidedAssumption
    MaxRuns, MaxRounds,
    MaxCalls,
    MaxLaunches    \* bounds on all runs together; a stop or a fork counts as a launch

Runs   == 1..MaxRuns
Rounds == 1..MaxRounds

\* late_calls: an agent calls a tool between the end of the run and its own notice of it;
\* late_stops: the process stops between the end of the run and SimulationEnded;
\* resume_after_swap: a run is resumed after a swap within it;
\* import_endings: an agent is imported from a run whose agents were told it was over.
ASSUME AvoidedAssumption ==
    Avoided \subseteq {"late_calls", "late_stops", "resume_after_swap", "import_endings"}

ASSUME LineageAssumption ==
    /\ Nobody \notin Seats /\ NoChannel \notin Channels
    /\ Blocked \subseteq Channels
    /\ MaxRuns \in Nat /\ MaxRounds \in Nat /\ MaxCalls \in Nat /\ MaxLaunches \in Nat
    /\ SourceRounds \in Rounds /\ DerivedRounds \subseteq Rounds
    /\ Swaps \subseteq [seat : Seats, round : Rounds \ {1}, hidden : SUBSET Channels]
    /\ Views \subseteq [visible : SUBSET Channels, floor : 0..MaxRounds]

VARIABLES
    log,       \* log[r]: the lines of run r; empty before it exists
    manifest,  \* manifest[r]: what its directory says of its making
    up,        \* the run whose process is up, or 0
    phase,     \* where that process is
    round,     \* its current_round
    mind,      \* mind[s]: the lines the agent on seat s has in its message history
    joins,     \* joins[s][c]: its member_join_index
    midCycle,  \* seats whose response is not logged yet
    told,      \* seats told that the run is over
    first,     \* first[r][s]: who had the seat when the run was made
    given,     \* given[r][s]: what its present agent was given of what was before it
    calls, launches

\* RoundAdvanced; InjectionDelivered; ToolCallInvoked to ToolResultReceived with the
\* MessageSent between them; LLMResponseReceived; AgentSwappedMidRun; a terminated
\* AgentResumed by a swap or by the end of the run, with the result it wakes to; a call
\* answered with the end of the run; RoundEnded to the last line of the round;
\* SimulationEnded, complete or not; and one that was dropped. A launch's
\* AgentRegistered and AgentConnected are left out, no rebuilding reads them.
Kinds == {"advanced", "injected", "call", "said", "swapped", "relieved", "over", "refused",
          "closed", "complete", "failed", "dropped"}

LineSet == [at : Nat \X Nat, kind : Kinds, seat : Seats \cup {Nobody},
            chan : Channels \cup {NoChannel}, round : Nat, by : Nat \X Nat]

process == <<up, phase, round, mind, joins, midCycle, told>>
vars == <<log, manifest, process, first, given, calls, launches>>

-----------------------------------------------------------------------------
(* The log *)

Line(r, kind, s, c, n, agent) ==
    [at |-> <<r, Len(log[r]) + 1>>, kind |-> kind, seat |-> s, chan |-> c, round |-> n, by |-> agent]

Sys(r, kind, n) == Line(r, kind, Nobody, NoChannel, n, <<0, 0>>)

Lines(l) == {l[i] : i \in DOMAIN l}
At(l, kind) == {i \in DOMAIN l : l[i].kind = kind}
Latest(S) == IF S = {} THEN 0 ELSE CHOOSE i \in S : \A j \in S : j <= i
Earliest(S) == CHOOSE i \in S : \A j \in S : i <= j

AdvancedTo(l, n) == {i \in At(l, "advanced") : l[i].round = n}
LastRound(l) == IF At(l, "advanced") = {} THEN 0 ELSE l[Latest(At(l, "advanced"))].round
Swapped(l) == {l[i].seat : i \in At(l, "swapped")}

\* Messages of channel c in the lines of l.
Count(l, c) == Cardinality({i \in At(l, "call") : l[i].chan = c})

\* Who has seat s of a run after line p of its log l.
Sitting(l, m, f, s, p) ==
    LET swaps == {i \in At(l, "swapped") : l[i].seat = s /\ m.target < i /\ i <= p} IN
    IF swaps = {} THEN f[s] ELSE l[Latest(swaps)].by

Occupant(r, s, p) == Sitting(log[r], manifest[r], first[r], s, p)
Who(r, s) == Occupant(r, s, Len(log[r]))

-----------------------------------------------------------------------------
(* The cut *)

Ends(l) == At(l, "complete") \cup At(l, "failed")

\* _last_round_closing_index
Closing(l) ==
    LET before == {i \in DOMAIN l : i < Latest(Ends(l))}
        closed == At(l, "closed") \cap before
    IN  IF closed # {} THEN Latest(closed) ELSE Latest(At(l, "advanced") \cap before)

\* Mutant: the clone keeps the done notices.
GameOver_BeforeTheEnd(l) == Latest(Ends(l)) - 1

\* _last_event_before_game_over: wakes before the closing lines are those of swaps.
GameOver(l) ==
    LET wakes == {i \in At(l, "over") \cup At(l, "relieved") :
                     Closing(l) <= i /\ i < Latest(Ends(l))}
    IN  IF wakes # {} THEN Earliest(wakes) - 1 ELSE Latest(Ends(l)) - 1

\* resolve_fork_boundary: whether a fork after round n is made, and its last line.
Completed(l, n) ==
    \/ AdvancedTo(l, n + 1) # {}
    \/ /\ LastRound(l) >= n
       /\ Ends(l) # {} /\ l[Latest(Ends(l))].kind = "complete"
       /\ \E i \in At(l, "closed") : l[i].round = n

Boundary(l, n) ==
    IF AdvancedTo(l, n + 1) # {} THEN Earliest(AdvancedTo(l, n + 1)) ELSE GameOver(l)

\* copy_run_at_event and drop_simulation_ended. A dropped line keeps its place here.
Clone(l, p) ==
    [i \in 1..p |-> IF i \in Ends(l) THEN [l[i] EXCEPT !.kind = "dropped"] ELSE l[i]]

\* Mutant: forks of replace-agent runs are not refused.
Forkable_Replaced(r, s) == manifest[r].kind # "import"

\* refuse_unforkable_source
Forkable(r, s) ==
    /\ manifest[r].kind # "import"
    /\ manifest[r].kind = "replace" => manifest[r].seat = s

\* refuse_boundary_with_swapped_seats
UnswappedBut(s, l) == Swapped(l) \subseteq {s}

\* refuse_source_b_with_mixed_seat
Unmixed(r, s) == manifest[r].kind \in {"replace", "import"} => manifest[r].seat # s

\* _resolve_source_b_cutoff_event_id, and Sim B's last line without one.
Cutoff(l, n) == IF AdvancedTo(l, n + 1) # {} THEN Earliest(AdvancedTo(l, n + 1)) ELSE Len(l)

ManifestSet ==
    [kind : {"none", "fork", "replace", "import"}, seat : Seats \cup {Nobody},
     visible : SUBSET Channels, floor : Nat, target : Nat, entry : Nat, rounds : Nat,
     imported : Seq(LineSet), importEnd : Nat]

NoManifest ==
    [kind |-> "none", seat |-> Nobody, visible |-> {}, floor |-> 0, target |-> 0,
     entry |-> 0, rounds |-> SourceRounds, imported |-> <<>>, importEnd |-> 0]

-----------------------------------------------------------------------------
(* The rebuilding *)

\* classify_fork_progress. A wake carries the result of the agent's call.
Progress(r) ==
    LET since == {log[r][i].kind : i \in (manifest[r].target + 1)..Len(log[r])} IN
    IF since \cap {"call", "said", "relieved", "over", "refused"} # {} THEN "played"
    ELSE IF since = {} THEN "pristine"
    ELSE "advanced"

Derived(r) == manifest[r].kind # "none"
Fresh(r) == Derived(r) /\ Progress(r) = "pristine"

\* _resume_anchor_event_id, build_rewind_state_from_log_end
Walked(r) == SubSeq(log[r], 1, IF Fresh(r) THEN manifest[r].target ELSE Len(log[r]))

\* A wake that ends a runner answers a read_notifications call.
IsCall(e) == e.kind \in {"call", "relieved", "over", "refused"}

\* _tool_call_filtered_by_visibility and _nonchannel_call_below_floor, with a floor on
\* every visible channel or on none.
Withheld(e, m) ==
    \/ e.chan \in Blocked
    \/ e.round < m.floor /\ (e.chan \in m.visible \ Blocked \/ e.chan = NoChannel)

\* The lines of l that come back to seat s without a filter (build_message_history).
Rebuilt(l, s) == {e \in Lines(l) : e.seat = s /\ (IsCall(e) \/ e.kind = "said")}

\* _PASS_THROUGH_FILTER, replaced_seat_history_filter, imported_seat_history_filter
History(r, s) ==
    LET m == manifest[r]
        own == {e \in Rebuilt(Walked(r), s) :
                   Fresh(r) /\ m.kind \in {"replace", "import"} => e.round < m.entry}
    IN  CASE m.kind = "replace" /\ m.seat = s ->
               {e \in own : e.round < m.entry => IsCall(e) /\ ~Withheld(e, m)}
          [] m.kind = "import" /\ m.seat = s ->
               {e \in Rebuilt(m.imported, s) :
                   /\ e.round < m.importEnd + 1
                   /\ IsCall(e) => e.chan \notin Blocked}
          [] OTHER -> own

\* channel_message_count_at_round_start, and what apply_fork_boundary adds to it.
Snapshot(l, n, c) ==
    IF AdvancedTo(l, n) # {} THEN Count(SubSeq(l, 1, Latest(AdvancedTo(l, n))), c) ELSE Count(l, c)

\* Mutant: a recovered run hides what its replacement has already seen.
JoinIndex_AtTheCrash(r, s, c) ==
    LET m == manifest[r] IN
    IF m.seat # s THEN 0
    ELSE IF c \in Blocked THEN Count(Walked(r), c)
    ELSE IF c \in m.visible /\ m.floor > 0 THEN Snapshot(Walked(r), m.floor, c)
    ELSE 0

\* compute_per_channel_join_index over _channel_visibility_from_manifest; a channel
\* named by neither list is left alone. _boundary_anchored_visibility moves a hidden
\* channel of a recovered run to the fork's boundary.
JoinIndex(r, s, c) ==
    LET m == manifest[r] IN
    IF m.seat # s THEN 0
    ELSE IF c \in Blocked
         THEN IF m.kind = "replace" /\ ~Fresh(r)
              THEN Snapshot(Walked(r), m.entry, c)
              ELSE Count(Walked(r), c)
    ELSE IF c \in m.visible /\ m.floor > 0 THEN Snapshot(Walked(r), m.floor, c)
    ELSE 0

\* Mutant: the round to enter is looked up in the manifest, not in the log.
Advances_ByTheManifest(r) ==
    Derived(r) /\ LastRound(SubSeq(log[r], 1, manifest[r].target)) < manifest[r].entry

\* apply_fork_boundary
Advances(r) == Derived(r) /\ LastRound(Walked(r)) < manifest[r].entry
Consistent(r) == Derived(r) => LastRound(Walked(r)) >= manifest[r].entry - 1

-----------------------------------------------------------------------------
(* The process of a run *)

Down ==
    /\ up' = 0 /\ phase' = "down" /\ round' = 0
    /\ mind' = [s \in Seats |-> {}] /\ joins' = [s \in Seats |-> [c \in Channels |-> 0]]
    /\ midCycle' = {} /\ told' = {}

Append1(e) == log' = [log EXCEPT ![up] = Append(@, e)]

\* What its agents were given of what was before them.
Gift(r, m, j) == [s \in Seats |-> [calls |-> {e \in m[s] : e.by # first[r][s]}, joins |-> j[s]]]

Init ==
    /\ log = [r \in Runs |-> <<>>]
    /\ manifest = [r \in Runs |-> NoManifest]
    /\ up = 0 /\ phase = "down" /\ round = 0
    /\ mind = [s \in Seats |-> {}] /\ joins = [s \in Seats |-> [c \in Channels |-> 0]]
    /\ midCycle = {} /\ told = {}
    /\ first = [r \in Runs |-> [s \in Seats |-> <<r, 0>>]]
    /\ given = [r \in Runs |-> Gift(r, mind, joins)]
    /\ calls = 0 /\ launches = 0

\* The directory claim_run_dir makes next.
New(r) == log[r] = <<>> /\ \A q \in 1..(r - 1) : log[q] # <<>>

\* A run that is not derived, to the boundary of its first round (start_initial_round).
Start(r) ==
    /\ up = 0 /\ New(r) /\ launches < MaxLaunches
    /\ log' = [log EXCEPT ![r] = <<Sys(r, "advanced", 1)>>]
    /\ up' = r /\ phase' = "boundary" /\ round' = 1
    /\ launches' = launches + 1
    /\ UNCHANGED <<manifest, mind, joins, midCycle, told, first, given, calls>>

\* A seat of the run was swapped since the run was made.
SwappedHere(r) == \E i \in At(log[r], "swapped") : manifest[r].target < i

\* load_resume_state and the supervisor up to start_initial_round. A run that is over
\* is not resumed. Runs do not disturb each other, so each is played before the next is
\* made.
Launch(r) ==
    /\ up = 0 /\ log[r] # <<>> /\ \A q \in Runs : q > r => log[q] = <<>>
    /\ launches < MaxLaunches
    /\ At(log[r], "complete") = {}
    /\ "resume_after_swap" \in Avoided => ~SwappedHere(r)
    /\ manifest[r].kind = "import" => Progress(r) # "played"
    /\ Consistent(r)
    /\ up' = r
    /\ round' = LastRound(Walked(r)) + (IF Advances(r) THEN 1 ELSE 0)
    /\ phase' = IF Advances(r) THEN "entering" ELSE "boundary"
    /\ mind' = [s \in Seats |-> History(r, s)]
    /\ joins' = [s \in Seats |-> [c \in Channels |-> JoinIndex(r, s, c)]]
    /\ given' = IF Fresh(r) THEN [given EXCEPT ![r] = Gift(r, mind', joins')] ELSE given
    /\ launches' = launches + 1
    /\ UNCHANGED <<log, manifest, midCycle, told, first, calls>>

\* start_initial_round of a run that enters its round by advancing.
Enter ==
    /\ phase = "entering"
    /\ Append1(Sys(up, "advanced", round))
    /\ phase' = "boundary"
    /\ UNCHANGED <<manifest, up, round, mind, joins, midCycle, told, first, given, calls, launches>>

Due == {sw \in Swaps : /\ sw.round = round
                       /\ \A i \in At(log[up], "swapped") :
                             log[up][i].seat = sw.seat => log[up][i].round # round}

\* execute_agent_swap. A parked runner wakes to the notice, in the round it parked in;
\* one that is in the middle of a response is cancelled.
Swap(sw, n) ==
    LET s    == sw.seat
        wake == Line(up, "relieved", s, NoChannel, n, Who(up, s))
        l    == IF s \in midCycle THEN log[up] ELSE Append(log[up], wake)
        new  == <<up, Len(l) + 1>>
        kept == {e \in Rebuilt(l, s) : IsCall(e) /\ e.round < round /\ e.chan \notin sw.hidden}
        join == [c \in Channels |-> IF c \in sw.hidden THEN Count(l, c) ELSE joins[s][c]]
    IN  /\ phase = "boundary" /\ sw \in Due
        /\ log' = [log EXCEPT ![up] =
                     Append(l, [Line(up, "swapped", s, NoChannel, round, new) EXCEPT !.at = new])]
        /\ mind' = [mind EXCEPT ![s] = kept]
        /\ joins' = [joins EXCEPT ![s] = join]
        /\ midCycle' = midCycle \ {s}
        /\ given' = [given EXCEPT ![up][s] = [calls |-> kept, joins |-> join]]
        /\ UNCHANGED <<manifest, up, phase, round, told, first, calls, launches>>

\* deliver_initial_round_injections, or those of a round that was advanced to
Open ==
    /\ phase = "boundary" /\ Due = {}
    /\ Append1(Sys(up, "injected", round))
    /\ phase' = "playing"
    /\ UNCHANGED <<manifest, up, round, mind, joins, midCycle, told, first, given, calls, launches>>

\* A tool call of an agent, to its result: a message on c, or another tool.
Call(s, c) ==
    LET e == Line(up, IF phase = "done" THEN "refused" ELSE "call", s, c, round, Who(up, s)) IN
    /\ phase \in {"boundary", "playing", "closed", "done"}
    /\ "late_calls" \in Avoided => phase # "done"
    /\ s \notin midCycle /\ s \notin told /\ calls < MaxCalls
    /\ Append1(e)
    /\ mind' = [mind EXCEPT ![s] = @ \cup {e}]
    /\ midCycle' = midCycle \cup {s}
    /\ calls' = calls + 1
    /\ UNCHANGED <<manifest, up, phase, round, joins, told, first, given, launches>>

\* The response with that call is logged, in whichever round it ends.
Say(s) ==
    LET e == Line(up, "said", s, NoChannel, round, Who(up, s)) IN
    /\ s \in midCycle
    /\ Append1(e)
    /\ mind' = [mind EXCEPT ![s] = @ \cup {e}]
    /\ midCycle' = midCycle \ {s}
    /\ UNCHANGED <<manifest, up, phase, round, joins, told, first, given, calls, launches>>

\* The clock closes the round (RoundEnded).
Close ==
    /\ phase = "playing"
    /\ Append1(Sys(up, "closed", round))
    /\ phase' = "closed"
    /\ UNCHANGED <<manifest, up, round, mind, joins, midCycle, told, first, given, calls, launches>>

\* _advance_round
Advance ==
    /\ phase = "closed" /\ round < manifest[up].rounds
    /\ Append1(Sys(up, "advanced", round + 1))
    /\ phase' = "boundary" /\ round' = round + 1
    /\ UNCHANGED <<manifest, up, mind, joins, midCycle, told, first, given, calls, launches>>

\* The last round is closed, or the scenario is finished early, before or after closing.
Finish ==
    /\ phase \in {"playing", "closed"}
    /\ phase' = "done"
    /\ UNCHANGED <<log, manifest, up, round, mind, joins, midCycle, told, first, given, calls,
                   launches>>

\* A waiting agent wakes to the done notice (broadcast_done).
Tell(s) ==
    LET e == Line(up, "over", s, NoChannel, round, Who(up, s)) IN
    /\ phase = "done" /\ s \notin told /\ s \notin midCycle
    /\ Append1(e)
    /\ mind' = [mind EXCEPT ![s] = @ \cup {e}]
    /\ told' = told \cup {s}
    /\ UNCHANGED <<manifest, up, phase, round, joins, midCycle, first, given, calls, launches>>

\* SimulationEnded(scenario_complete), after the runners are drained
End ==
    /\ phase = "done"
    /\ Append1(Sys(up, "complete", round))
    /\ Down
    /\ UNCHANGED <<manifest, first, given, calls, launches>>

\* The process fails or is killed and this is logged, or it just stops.
Stop(logged) ==
    /\ up # 0 /\ launches < MaxLaunches
    /\ "late_stops" \in Avoided => phase # "done"
    /\ IF logged THEN Append1(Sys(up, "failed", round)) ELSE log' = log
    /\ Down
    /\ launches' = launches + 1
    /\ UNCHANGED <<manifest, first, given, calls>>

-----------------------------------------------------------------------------
(* Derivation *)

\* What both flows check of source a for a run r that gives seat s away.
Admitted(r, a, n, s) ==
    /\ up = 0 /\ New(r) /\ launches < MaxLaunches
    /\ Completed(log[a], n)
    /\ Forkable(a, s)
    /\ UnswappedBut(s, SubSeq(log[a], 1, Boundary(log[a], n)))

\* The clone and its manifest, for a caller's choice of how many rounds the fork plays
\* (resolve_rounds_after).
Derive(r, a, n, s, m, owner) ==
    LET p == Boundary(log[a], n) IN
    /\ log' = [log EXCEPT ![r] = Clone(log[a], p)]
    /\ \E rounds \in DerivedRounds :
          /\ rounds > n
          /\ manifest' = [manifest EXCEPT ![r] =
                            [m EXCEPT !.seat = s, !.target = p, !.entry = n + 1, !.rounds = rounds]]
    /\ first' = [first EXCEPT ![r] =
                   [q \in Seats |-> IF q = s THEN owner ELSE Occupant(a, q, p)]]
    /\ launches' = launches + 1
    /\ UNCHANGED <<process, given, calls>>

\* prepare_replace_agent_run without a replaced_agent_id
ForkAtRound(r, a, n) ==
    /\ Admitted(r, a, n, Nobody)
    /\ Derive(r, a, n, Nobody, [NoManifest EXCEPT !.kind = "fork"], <<r, 0>>)

\* prepare_replace_agent_run
Replace(r, a, n, s, v) ==
    /\ Admitted(r, a, n, s)
    /\ v.floor <= n + 1
    /\ Derive(r, a, n, s,
              [NoManifest EXCEPT !.kind = "replace", !.visible = v.visible, !.floor = v.floor],
              <<r, 0>>)

\* prepare_cross_run_replace_agent_run: the agent that sat on s in b after bEnd rounds
Import(r, a, b, n, bEnd, s) ==
    LET p == Cutoff(log[b], bEnd) IN
    /\ Admitted(r, a, n, s)
    /\ Unmixed(b, s)
    /\ LastRound(log[b]) >= bEnd
    /\ s \notin Swapped(SubSeq(log[b], 1, p))
    /\ "import_endings" \in Avoided =>
          \A i \in At(log[b], "over") \cup At(log[b], "refused") :
              log[b][i].seat = s => log[b][i].round > bEnd
    /\ Derive(r, a, n, s,
              [NoManifest EXCEPT !.kind = "import", !.imported = log[b], !.importEnd = bEnd],
              Occupant(b, s, p))

Next ==
    \/ \E r \in Runs : Start(r) \/ Launch(r)
    \/ Enter \/ Open \/ Close \/ Advance \/ Finish \/ End
    \/ \E sw \in Swaps : \E n \in {round - 1, round} : Swap(sw, n)
    \/ \E s \in Seats : Say(s) \/ Tell(s) \/ \E c \in Channels \cup {NoChannel} : Call(s, c)
    \/ \E logged \in BOOLEAN : Stop(logged)
    \/ \E r \in Runs : \E a \in 1..(r - 1) : \E n \in Rounds :
          \/ ForkAtRound(r, a, n)
          \/ \E s \in Seats : \E v \in Views : Replace(r, a, n, s, v)
          \/ \E s \in Seats : \E b \in 1..(r - 1) : \E bEnd \in Rounds :
                Import(r, a, b, n, bEnd, s)

Spec == Init /\ [][Next]_vars

-----------------------------------------------------------------------------
(* Properties *)

\* Types: lines, manifests, and what a process and its agents hold.
TypeOK ==
    /\ log \in [Runs -> Seq(LineSet)]
    /\ manifest \in [Runs -> ManifestSet]
    /\ up \in 0..MaxRuns /\ round \in Nat
    /\ phase \in {"down", "entering", "boundary", "playing", "closed", "done"}
    /\ mind \in [Seats -> SUBSET LineSet]
    /\ joins \in [Seats -> [Channels -> Nat]]
    /\ midCycle \subseteq Seats /\ told \subseteq Seats
    /\ first \in [Runs -> [Seats -> Nat \X Nat]]
    /\ given \in [Runs -> [Seats -> [calls : SUBSET LineSet, joins : [Channels -> Nat]]]]
    /\ calls \in Nat /\ launches \in Nat

\* The lines that are the memory of the agent on seat s of the run that is up. What an
\* imported agent did before its import is in the other run.
Own(s) ==
    LET m == manifest[up]
        imported == m.kind = "import" /\ m.seat = s
        here == {e \in Rebuilt(log[up], s) : imported => e.at[1] = up}
        there == {e \in Rebuilt(m.imported, s) :
                    imported /\ e.round <= m.importEnd /\ (IsCall(e) => e.chan \notin Blocked)}
    IN  {e \in here \cup there : e.by = Who(up, s)}

\* An agent that comes back, from a crash, in a fork or in another run, has all that it
\* did and was answered, and it never has the words of another agent of its seat for its
\* own (docs/running-simulations.md:283, docs/agent-swaps.md; the filters of
\* resume_state_loader.py and the refusals of replace_agent.py).
EachGetsItsHistoryBack ==
    up # 0 => \A s \in Seats :
        /\ Own(s) \subseteq mind[s]
        /\ \A e \in mind[s] : e.kind = "said" => e.by = Who(up, s)

\* A crash changes neither what an agent was given of its predecessor nor the messages
\* it may read: those from the boundary on are not hidden, older ones not shown
\* (_boundary_anchored_visibility, filter_below_round).
KeepsItsView ==
    up # 0 => \A s \in Seats :
        /\ joins[s] = given[up][s].joins
        /\ {e \in mind[s] : e.by # Who(up, s)} = given[up][s].calls

\* However often a run was cut, cloned and resumed, its log has its rounds once each, in
\* order, and every one of them closed before the next (apply_fork_boundary).
PlaysEachRoundOnce ==
    up # 0 => \A i \in At(log[up], "advanced") :
        LET n == log[up][i].round
            before == {j \in At(log[up], "advanced") : j < i}
        IN  /\ {log[up][j].round : j \in before} = 1..(n - 1)
            /\ n > 1 => \E j \in At(log[up], "closed") :
                           Latest(before) < j /\ j < i /\ log[up][j].round = n - 1

\* No agent that still plays remembers the end of its game (_last_event_before_game_over,
\* docs/agent-swaps.md:166-168): the cut comes before the first closing wake. The code
\* lets the end through in three ways, against that doc, and this is for runs without
\* them (Avoided): a call logged after the end (late_calls), a process stopped between
\* the done notices and SimulationEnded (late_stops), and an agent imported with the
\* other run's last round as its end, which is the default (import_endings).
EndIsForgotten ==
    up # 0 /\ phase # "done" => \A s \in Seats : \A e \in mind[s] : e.kind \notin {"over", "refused"}

=============================================================================
