------------------------- MODULE AgentRunnerProofs -------------------------
(***************************************************************************)
(* What holds of a runner for every bound: its variables have their types, *)
(* a response that calls tools is logged whole and once, every response is *)
(* dated as it began, a retry forgets nothing, and what a resume gives back*)
(* and reopens is what the order of the log allows.                        *)
(***************************************************************************)
EXTENDS AgentRunner, SequenceTheorems, FiniteSetTheorems, NaturalsInduction,
        WellFoundedInduction, TLAPS

Playing == {"ready", "requesting", "gating", "tools", "failed", "ended"}

\* What the place in the graph says of the counters, of what is accumulated, and of
\* the resume point.
Shape ==
    /\ mark = {}
    /\ node \in Playing => turns < MaxTurns
    /\ node \in Playing \ {"failed"} => attempts < Attempts
    /\ node \in {"requesting", "gating", "tools", "failed"} => checkpoint = context
    /\ node = "down" => context = {} /\ turns = 0 /\ attempts = 0
    /\ node \in {"requesting", "gating", "ended"} => Calls(accumulated) = {}
    /\ node \in {"failed", "leaving", "gone", "down"} =>
          accumulated = {} /\ start = NotStarted

\* The response in hand is the last one, and its calls are numbered.
InHand ==
    /\ IsFiniteSet(current.parts)
    /\ Calls(current.parts) =
          {<<current.number, k>> : k \in 1..Cardinality(Calls(current.parts))}
    /\ node \in {"gating", "tools"} => current.number = responses
    /\ node = "gating" => returned = {}

\* No call invoked for a response these parts are of is missing from them.
Complete(parts) ==
    \A j \in DOMAIN lines : lines[j].kind = "invoked" =>
        \A c \in lines[j].parts : (\E p \in parts : p[1] = c[1]) => c \in parts

\* What is accumulated has not been logged; its calls are the last response's, they
\* were invoked, those that returned were answered, and none that was invoked for a
\* response it speaks of is missing.
Pending ==
    /\ \A p \in accumulated : p[1] <= responses
    /\ \A c \in Calls(accumulated) : c[1] = responses
    /\ node = "tools" => Calls(accumulated) = Calls(current.parts)
    /\ Calls(accumulated) # {} => Started
    /\ \A c \in Calls(accumulated) : \E j \in DOMAIN lines :
          lines[j].kind = "invoked" /\ c \in lines[j].parts
    /\ \A c \in Calls(accumulated) : (node = "tools" => c \in returned) =>
          \E j \in DOMAIN lines : lines[j].kind = "result" /\ c \in lines[j].parts
    /\ \A i \in Responses : lines[i].parts \cap accumulated = {}
    /\ Complete(accumulated)

\* No line speaks of a response still to come, and an invocation is of a call.
Numbered ==
    /\ \A i \in DOMAIN lines : \A p \in lines[i].parts :
          p[1] <= responses /\ (node = "gating" => p[1] < responses)
    /\ \A i \in DOMAIN lines : lines[i].kind = "invoked" =>
          \E p \in lines[i].parts : IsCall(p)

\* The block was started after everything the log holds but the calls it is about.
Dates ==
    /\ \A i \in DOMAIN lines : lines[i].at <= now
    /\ Started =>
          /\ start.at <= now /\ start.round <= round
          /\ \A i \in DOMAIN lines :
                /\ lines[i].kind = "result" => \A q \in lines[i].parts :
                      lines[i].at < start.at \/ (Calls(accumulated) # {} /\ q[1] = responses)
                /\ lines[i].kind = "invoked" /\ lines[i].parts \subseteq accumulated =>
                      start.at < lines[i].at /\ start.round <= lines[i].round

IInv == TypeOK /\ Shape /\ InHand /\ Pending /\ Numbered /\ Dates /\ LoggedWhole /\ LoggedWhenBegun

-----------------------------------------------------------------------------
(* The log grows *)

Parts == Nat \X Nat

\* A step that only appends to the log, and the lines it appends.
Extends ==
    /\ lines' \in Seq(Event)
    /\ Len(lines) <= Len(lines')
    /\ \A i \in 1..Len(lines) : lines'[i] = lines[i]

NewLines == (Len(lines) + 1)..Len(lines')

\* Calls are parts.
LEMMA CallsArePartsOf ==
    ASSUME NEW S PROVE Calls(S) = {p \in S : p[2] > 0}
BY DEF Calls, IsCall

\* One more line is one more event at the end.
LEMMA AppendExtends ==
    ASSUME TypeOK, NEW e \in Event, lines' = Append(lines, e)
    PROVE  Extends /\ NewLines = {Len(lines) + 1} /\ lines'[Len(lines) + 1] = e
           /\ Len(lines') = Len(lines) + 1
<1>1. lines \in Seq(Event) /\ Len(lines) \in Nat
  BY DEF TypeOK
<1>2. QED BY <1>1, AppendProperties DEF Extends, NewLines

\* Every line is an event.
LEMMA EventFields ==
    ASSUME TypeOK, NEW i \in DOMAIN lines
    PROVE  /\ lines[i] \in Event /\ lines[i].at \in Nat /\ lines[i].round \in Nat
           /\ lines[i].parts \in SUBSET Parts
<1>1. lines[i] \in Event
  BY DEF TypeOK
<1>2. QED BY <1>1 DEF Event, Parts

\* The lines after the step are those before it and the new ones.
LEMMA ExtendsBy ==
    ASSUME lines \in Seq(Event), Extends
    PROVE  /\ DOMAIN lines' = DOMAIN lines \cup NewLines /\ NewLines \subseteq DOMAIN lines'
           /\ \A i \in DOMAIN lines : lines'[i] = lines[i]
<1>1. Len(lines) \in Nat /\ Len(lines') \in Nat /\ Len(lines) <= Len(lines')
  BY DEF Extends
<1>2. DOMAIN lines = 1..Len(lines) /\ DOMAIN lines' = 1..Len(lines')
  BY DEF Extends
<1>3. QED BY <1>1, <1>2 DEF Extends, NewLines

\* A log that grows by no response, and by no call of a response it has logged, still
\* logs each response whole.
LEMMA GrowsWhole ==
    ASSUME TypeOK, LoggedWhole, Extends, \A i \in NewLines : lines'[i].kind # "response",
           \A j \in NewLines, i \in Responses : lines'[j].kind = "invoked" =>
               \A c \in lines'[j].parts, p \in lines[i].parts : p[1] # c[1]
    PROVE  LoggedWhole'
<1>1. DOMAIN lines = 1..Len(lines) /\ DOMAIN lines' = 1..Len(lines') /\ Len(lines) \in Nat
      /\ Len(lines') \in Nat
  BY DEF TypeOK, Extends
<1>2. Responses' = Responses
  BY <1>1 DEF Responses, Extends, NewLines
<1>3. \A i \in Responses : i \in 1..Len(lines) /\ lines'[i] = lines[i]
  BY <1>1 DEF Responses, Extends
<1>4. ASSUME NEW i \in Responses, NEW c \in Calls(lines[i].parts)
      PROVE  \E j, k \in 1..i : /\ lines'[j].kind = "invoked" /\ c \in lines'[j].parts
                                /\ lines'[k].kind = "result" /\ c \in lines'[k].parts
  <2>1. PICK j, k \in 1..i : /\ lines[j].kind = "invoked" /\ c \in lines[j].parts
                             /\ lines[k].kind = "result" /\ c \in lines[k].parts
    BY DEF LoggedWhole
  <2>2. lines'[j] = lines[j] /\ lines'[k] = lines[k]
    BY <1>1, <1>3 DEF Extends
  <2>3. QED BY <2>1, <2>2
<1>5. ASSUME NEW i \in Responses, NEW j \in DOMAIN lines', lines'[j].kind = "invoked",
             NEW c \in lines'[j].parts, NEW p \in lines[i].parts, p[1] = c[1]
      PROVE  c \in lines[i].parts
  <2>1. j \in DOMAIN lines
    BY <1>1, <1>5 DEF NewLines
  <2>2. QED BY <1>1, <1>5, <2>1 DEF LoggedWhole, Extends
<1>6. QED
  BY <1>2, <1>3, <1>4, <1>5 DEF LoggedWhole, Calls

\* Nor does it change what the responses' dates say, if the lines it grows by are
\* about no call of theirs and answer no call before them.
LEMMA GrowsDated ==
    ASSUME TypeOK, LoggedWhenBegun, Extends,
           \A i \in NewLines : lines'[i].kind # "response",
           \A j \in NewLines, i \in Responses :
               /\ lines'[j].kind = "invoked" => ~(lines'[j].parts \subseteq lines[i].parts)
               /\ lines'[j].kind = "result" =>
                     \A p \in lines[i].parts, q \in lines'[j].parts : ~(q[1] < p[1])
    PROVE  LoggedWhenBegun'
<1>1. DOMAIN lines = 1..Len(lines) /\ DOMAIN lines' = 1..Len(lines') /\ Len(lines) \in Nat
      /\ Len(lines') \in Nat
  BY DEF TypeOK, Extends
<1>2. Responses' = Responses
  BY <1>1 DEF Responses, Extends, NewLines
<1>3. \A i \in Responses : i \in 1..Len(lines) /\ lines'[i] = lines[i]
  BY <1>1 DEF Responses, Extends
<1>4. ASSUME NEW i \in Responses, NEW j \in DOMAIN lines'
      PROVE  /\ lines'[j].kind = "invoked" /\ lines'[j].parts \subseteq lines'[i].parts =>
                    lines'[i].at < lines'[j].at /\ lines'[i].round <= lines'[j].round
             /\ lines'[j].kind = "result" /\ (\E p \in lines'[i].parts, q \in lines'[j].parts :
                                                 q[1] < p[1]) =>
                    lines'[j].at < lines'[i].at
  <2>1. CASE j \in DOMAIN lines
    BY <2>1, <1>1, <1>3 DEF LoggedWhenBegun, Extends
  <2>2. CASE j \in NewLines
    BY <2>2, <1>3
  <2>3. QED BY <2>1, <2>2, <1>1 DEF NewLines
<1>5. QED
  BY <1>2, <1>4 DEF LoggedWhenBegun

-----------------------------------------------------------------------------
(* The response block *)

\* A flush logs what is accumulated, if anything is, dated as it began.
LEMMA FlushLine ==
    ASSUME IInv, NEW a \in BOOLEAN, FlushResponse(a)
    PROVE  /\ Extends /\ now' \in Nat /\ now <= now'
           /\ \A i \in NewLines :
                 /\ i = Len(lines) + 1 /\ Len(lines') = i
                 /\ lines'[i].kind = "response" /\ lines'[i].parts = accumulated
                 /\ lines'[i].at = IF Started THEN start.at ELSE now + 1
                 /\ lines'[i].round = IF Started THEN start.round ELSE round
                 /\ lines'[i].at <= now'
<1>1. lines \in Seq(Event) /\ Len(lines) \in Nat /\ now \in Nat
  BY DEF IInv, TypeOK
<1>2. CASE accumulated = {}
  BY <1>1, <1>2 DEF FlushResponse, Extends, NewLines
<1>3. CASE accumulated # {}
  <2> DEFINE e == [kind |-> "response", parts |-> accumulated,
                   round |-> IF Started THEN start.round ELSE round,
                   at |-> IF Started THEN start.at ELSE now + 1,
                   awaited |-> a]
  <2>1. e \in Event
    BY DEF IInv, TypeOK, Event, Kinds
  <2>2. lines' = Append(lines, e) /\ now' = NotedAt
    BY <1>3 DEF FlushResponse
  <2>3. e.at <= now'
    BY <2>2, <1>1 DEF IInv, Dates, NotedAt, TypeOK
  <2>4. Extends /\ NewLines = {Len(lines) + 1} /\ lines'[Len(lines) + 1] = e
        /\ Len(lines') = Len(lines) + 1
    <3> HIDE DEF e
    <3> QED BY <2>1, <2>2, AppendExtends DEF IInv
  <2>5. now' \in Nat /\ now <= now'
    BY <2>2, <1>1 DEF NotedAt
  <2>6. QED BY <2>3, <2>4, <2>5
<1>4. QED BY <1>2, <1>3

\* Once the calls of the block have returned, it is logged whole: they were invoked
\* and answered before, and no other line has a part of it.
LEMMA FlushWhole ==
    ASSUME IInv, NEW a \in BOOLEAN, FlushResponse(a), node # "tools"
    PROVE  LoggedWhole'
<1>1. lines \in Seq(Event) /\ DOMAIN lines = 1..Len(lines) /\ Len(lines) \in Nat
  BY DEF IInv, TypeOK
<1>2. Extends /\ \A i \in NewLines : i = Len(lines) + 1 /\ Len(lines') = i
              /\ lines'[i].kind = "response" /\ lines'[i].parts = accumulated
  BY FlushLine
<1>3. DOMAIN lines' = 1..Len(lines') /\ Len(lines') \in Nat
  BY <1>2 DEF Extends
<1>4. \A i \in Responses : i \in 1..Len(lines) /\ lines'[i] = lines[i]
  BY <1>1, <1>2 DEF Responses, Extends
<1>5. Responses' = Responses \cup NewLines
  <2>1. DOMAIN lines' = DOMAIN lines \cup NewLines /\ NewLines \subseteq DOMAIN lines'
    BY <1>1, <1>2, ExtendsBy
  <2>2. \A i \in DOMAIN lines : lines'[i] = lines[i]
    BY <1>1, <1>2 DEF Extends
  <2>3. QED BY <1>2, <2>1, <2>2 DEF Responses
<1>6. \A j \in DOMAIN lines' : lines'[j].kind = "invoked" =>
         j \in DOMAIN lines /\ lines'[j] = lines[j]
  BY <1>1, <1>2, ExtendsBy
<1>7. ASSUME NEW i \in Responses'
      PROVE  /\ \A c \in Calls(lines'[i].parts), p \in lines'[i].parts : p[1] <= c[1]
             /\ \A c \in Calls(lines'[i].parts) : \E j, k \in 1..i :
                   /\ lines'[j].kind = "invoked" /\ c \in lines'[j].parts
                   /\ lines'[k].kind = "result" /\ c \in lines'[k].parts
             /\ \A j \in DOMAIN lines' : lines'[j].kind = "invoked" =>
                   \A c \in lines'[j].parts :
                       (\E p \in lines'[i].parts : p[1] = c[1]) => c \in lines'[i].parts
             /\ \A j \in Responses' \ {i} : lines'[i].parts \cap lines'[j].parts = {}
  <2>1. CASE i \in Responses
    <3>1. \A c \in Calls(lines[i].parts), p \in lines[i].parts : p[1] <= c[1]
      BY <2>1 DEF IInv, LoggedWhole
    <3>2. ASSUME NEW c \in Calls(lines[i].parts)
          PROVE  \E j, k \in 1..i : /\ lines'[j].kind = "invoked" /\ c \in lines'[j].parts
                                    /\ lines'[k].kind = "result" /\ c \in lines'[k].parts
      <4>1. PICK j, k \in 1..i : /\ lines[j].kind = "invoked" /\ c \in lines[j].parts
                                 /\ lines[k].kind = "result" /\ c \in lines[k].parts
        BY <2>1, <3>2 DEF IInv, LoggedWhole
      <4>2. lines'[j] = lines[j] /\ lines'[k] = lines[k]
        BY <1>1, <1>2, <1>4, <2>1 DEF Extends
      <4>3. QED BY <4>1, <4>2
    <3>3. \A j \in Responses \ {i} : lines[i].parts \cap lines[j].parts = {}
      BY <2>1 DEF IInv, LoggedWhole
    <3>4. lines[i].parts \cap accumulated = {}
      BY <2>1 DEF IInv, Pending
    <3>5. Complete(lines[i].parts)
      BY <2>1 DEF IInv, LoggedWhole, Complete
    <3>6. \A j \in DOMAIN lines' : lines'[j].kind = "invoked" =>
             \A c \in lines'[j].parts :
                 (\E p \in lines'[i].parts : p[1] = c[1]) => c \in lines'[i].parts
      BY <1>4, <1>6, <2>1, <3>5 DEF Complete
    <3>7. QED
      BY <1>2, <1>4, <1>5, <2>1, <3>1, <3>2, <3>3, <3>4, <3>6 DEF Calls
  <2>2. CASE i \in NewLines
    <3>1. lines'[i].parts = accumulated /\ i = Len(lines) + 1
      BY <1>2, <2>2
    <3>2. \A c \in Calls(accumulated), p \in accumulated : p[1] <= c[1]
      BY DEF IInv, Pending
    <3>3. ASSUME NEW c \in Calls(accumulated)
          PROVE  \E j, k \in 1..i : /\ lines'[j].kind = "invoked" /\ c \in lines'[j].parts
                                    /\ lines'[k].kind = "result" /\ c \in lines'[k].parts
      <4>1. PICK j \in DOMAIN lines : lines[j].kind = "invoked" /\ c \in lines[j].parts
        BY <3>3 DEF IInv, Pending
      <4>2. PICK k \in DOMAIN lines : lines[k].kind = "result" /\ c \in lines[k].parts
        BY <3>3 DEF IInv, Pending
      <4>3. lines'[j] = lines[j] /\ lines'[k] = lines[k] /\ j \in 1..i /\ k \in 1..i
        BY <1>1, <1>2, <3>1 DEF Extends
      <4>4. QED BY <4>1, <4>2, <4>3
    <3>4. \A j \in Responses : lines[j].parts \cap accumulated = {}
      BY DEF IInv, Pending
    <3>5. \A j \in Responses' \ {i} : j \in Responses
      BY <1>2, <1>5, <2>2
    <3>6. \A j \in DOMAIN lines' : lines'[j].kind = "invoked" =>
             \A c \in lines'[j].parts :
                 (\E p \in lines'[i].parts : p[1] = c[1]) => c \in lines'[i].parts
      BY <1>6, <3>1 DEF IInv, Pending, Complete
    <3>7. QED
      BY <1>4, <3>1, <3>2, <3>3, <3>4, <3>5, <3>6 DEF Calls
  <2>3. QED BY <1>5, <2>1, <2>2
<1>8. QED BY <1>7 DEF LoggedWhole, Calls

\* And it carries the round and time it began in.
LEMMA FlushDated ==
    ASSUME IInv, NEW a \in BOOLEAN, FlushResponse(a)
    PROVE  LoggedWhenBegun'
<1>1. lines \in Seq(Event) /\ DOMAIN lines = 1..Len(lines) /\ Len(lines) \in Nat /\ now \in Nat
  BY DEF IInv, TypeOK
<1>2. Extends /\ \A i \in NewLines : i = Len(lines) + 1 /\ Len(lines') = i
              /\ lines'[i].kind = "response" /\ lines'[i].parts = accumulated
              /\ lines'[i].at = (IF Started THEN start.at ELSE now + 1)
              /\ lines'[i].round = (IF Started THEN start.round ELSE round)
  BY FlushLine
<1>3. DOMAIN lines' = 1..Len(lines')
  BY <1>2 DEF Extends
<1>4. \A i \in Responses : i \in 1..Len(lines) /\ lines'[i] = lines[i]
  BY <1>1, <1>2 DEF Responses, Extends
<1>5. Responses' = Responses \cup NewLines
  <2>1. DOMAIN lines' = DOMAIN lines \cup NewLines /\ NewLines \subseteq DOMAIN lines'
    BY <1>1, <1>2, ExtendsBy
  <2>2. \A i \in DOMAIN lines : lines'[i] = lines[i]
    BY <1>1, <1>2 DEF Extends
  <2>3. QED BY <1>2, <2>1, <2>2 DEF Responses
<1>6. ASSUME NEW i \in Responses', NEW j \in DOMAIN lines'
      PROVE  /\ lines'[j].kind = "invoked" /\ lines'[j].parts \subseteq lines'[i].parts =>
                    lines'[i].at < lines'[j].at /\ lines'[i].round <= lines'[j].round
             /\ lines'[j].kind = "result" /\ (\E p \in lines'[i].parts, q \in lines'[j].parts :
                                                 q[1] < p[1]) =>
                    lines'[j].at < lines'[i].at
  <2>1. CASE j \in NewLines
    BY <2>1, <1>2
  <2>2. CASE j \in DOMAIN lines /\ i \in Responses
    BY <2>2, <1>1, <1>2, <1>4 DEF IInv, LoggedWhenBegun, Extends
  <2>3. CASE j \in DOMAIN lines /\ i \in NewLines
    <3>1. lines'[j] = lines[j] /\ lines[j] \in Event /\ lines[j].at <= now
      BY <2>3, <1>1, <1>2 DEF IInv, Dates, Extends, TypeOK
    <3>2. lines'[i].parts = accumulated
      BY <1>2, <2>3
    <3>3. CASE Started
      <4>1. lines'[i].at = start.at /\ lines'[i].round = start.round
        BY <1>2, <2>3, <3>3
      <4>2. \A p \in accumulated : p[1] <= responses
        BY DEF IInv, Pending
      <4>3. ASSUME NEW p \in accumulated, NEW q \in lines[j].parts, q[1] < p[1]
            PROVE  q[1] # responses
        <5>1. p \in Parts /\ q \in Parts /\ responses \in Nat
          BY <3>1, BoundsAssumption DEF IInv, TypeOK, Event, Parts
        <5>2. QED BY <4>2, <4>3, <5>1 DEF Parts
      <4>4. QED BY <2>3, <3>1, <3>2, <3>3, <4>1, <4>3 DEF IInv, Dates
    <3>4. CASE ~Started
      <4>1. lines'[i].at = now + 1
        BY <1>2, <2>3, <3>4
      <4>2. Calls(accumulated) = {}
        BY <3>4 DEF IInv, Pending
      <4>3. lines[j].kind = "invoked" => ~(lines[j].parts \subseteq accumulated)
        BY <2>3, <4>2 DEF IInv, Numbered, Calls
      <4>4. lines[j].at \in Nat
        BY <3>1 DEF Event
      <4>5. QED BY <1>1, <3>1, <3>2, <4>1, <4>3, <4>4
    <3>5. QED BY <3>3, <3>4
  <2>4. QED BY <1>1, <1>3, <1>5, <2>1, <2>2, <2>3 DEF NewLines
<1>7. QED BY <1>6 DEF LoggedWhenBegun

-----------------------------------------------------------------------------
(* The steps of the graph *)

\* A step that leaves the log alone leaves what is logged as it was.
LEMMA LogUntouched ==
    ASSUME LoggedWhole, LoggedWhenBegun, UNCHANGED lines
    PROVE  LoggedWhole' /\ LoggedWhenBegun'
<1>1. Responses' = Responses
  BY DEF Responses
<1>2. QED BY <1>1 DEF LoggedWhole, LoggedWhenBegun

\* Nothing is in hand once the response is dropped.
LEMMA Dropped ==
    ASSUME DropResponse
    PROVE  /\ current' \in [number : Nat, parts : SUBSET Parts, ends : BOOLEAN]
           /\ returned' = {} /\ current'.parts = {} /\ Calls(current'.parts) = {}
           /\ IsFiniteSet(current'.parts)
           /\ Calls(current'.parts) =
                 {<<current'.number, k>> : k \in 1..Cardinality(Calls(current'.parts))}
<1>1. IsFiniteSet({}) /\ Cardinality({}) = 0
  BY FS_EmptySet
<1>2. current' = [number |-> 0, parts |-> {}, ends |-> FALSE] /\ returned' = {}
  BY DEF DropResponse, NoResponse
<1>3. Calls({}) = {}
  BY DEF Calls
<1>4. current'.parts = {}
  BY <1>2
<1>5. current' \in [number : Nat, parts : SUBSET Parts, ends : BOOLEAN]
  BY <1>2 DEF Parts
<1>6. {<<current'.number, k>> : k \in 1..0} = {}
  BY SMT
<1>7. Calls(current'.parts) = {} /\ Cardinality(Calls(current'.parts)) = 0
  BY <1>1, <1>3, <1>4
<1>8. Calls(current'.parts) =
         {<<current'.number, k>> : k \in 1..Cardinality(Calls(current'.parts))}
  BY <1>6, <1>7
<1>9. QED BY <1>1, <1>2, <1>4, <1>5, <1>7, <1>8

LEMMA IssueRequestStep == ASSUME IInv, IssueRequest PROVE IInv'
<1>1. CASE Calls(accumulated) # {}
  <2>1. FlushResponse(TRUE) /\ node = "ready"
    BY <1>1 DEF IssueRequest
  <2>2. Extends /\ now' \in Nat /\ now <= now'
        /\ \A i \in NewLines : i = Len(lines) + 1 /\ Len(lines') = i
             /\ lines'[i].kind = "response" /\ lines'[i].parts = accumulated
             /\ lines'[i].at <= now'
    BY <2>1, FlushLine
  <2>3. LoggedWhole' /\ LoggedWhenBegun'
    BY <2>1, FlushWhole, FlushDated
  <2>4. accumulated' = {} /\ mark' = {} /\ start' = NotStarted
        /\ started' = started /\ written' = written
        /\ node' = "requesting" /\ checkpoint' = context
        /\ UNCHANGED <<round, context, turns, attempts, completed, responses, mode, crashes>>
    BY <2>1 DEF IssueRequest, FlushResponse, cycleVars
  <2>5. TypeOK'
    <3>1. NotStarted \in [round : Nat, at : Nat]
      BY DEF NotStarted
    <3>2. started' \in 0..Len(lines') /\ written' \in 0..started'
      BY <2>2, <2>4 DEF IInv, TypeOK, Extends
    <3>3. current' \in [number : Nat, parts : SUBSET (Nat \X Nat), ends : BOOLEAN]
          /\ returned' \in SUBSET (Nat \X Nat)
      BY Dropped DEF IssueRequest, Parts
    <3>4. QED BY <2>2, <2>4, <3>1, <3>2, <3>3 DEF IInv, TypeOK, Extends, Nodes
  <2>6. Shape' /\ InHand'
    BY <2>1, <2>4, Dropped DEF IInv, Shape, InHand, Playing, IssueRequest, Calls
  <2>7. DOMAIN lines' = DOMAIN lines \cup NewLines /\ \A i \in DOMAIN lines : lines'[i] = lines[i]
    BY <2>2, ExtendsBy DEF IInv, TypeOK
  <2>8. Pending' /\ Numbered'
    BY <2>1, <2>2, <2>4, <2>7 DEF IInv, Pending, Numbered, Calls, Complete
  <2>9. Dates'
    <3>1. ~Started'
      BY <2>4 DEF Started
    <3>2. \A i \in DOMAIN lines : lines[i].at <= now /\ lines[i].at \in Nat
      BY EventFields DEF IInv, Dates
    <3>3. now \in Nat
      BY DEF IInv, TypeOK
    <3>4. \A i \in DOMAIN lines' : lines'[i].at <= now'
      BY <2>2, <2>7, <3>2, <3>3
    <3>5. QED BY <3>1, <3>4 DEF Dates
  <2>10. QED BY <2>3, <2>5, <2>6, <2>8, <2>9 DEF IInv
<1>2. CASE Calls(accumulated) = {}
  <2>1. node = "ready" /\ node' = "requesting" /\ checkpoint' = context
        /\ UNCHANGED <<lines, started, written, now, accumulated, mark, start, round,
                       context, turns, attempts, completed, responses, mode, crashes>>
    BY <1>2 DEF IssueRequest, logVars, stateVars, cycleVars
  <2>2. current' \in [number : Nat, parts : SUBSET (Nat \X Nat), ends : BOOLEAN]
        /\ returned' \in SUBSET (Nat \X Nat)
    BY Dropped DEF IssueRequest, Parts
  <2>3. TypeOK'
    BY <2>1, <2>2 DEF IInv, TypeOK, Nodes
  <2>4. Shape' /\ InHand'
    BY <1>2, <2>1, Dropped DEF IInv, Shape, InHand, Playing, IssueRequest, Calls
  <2>5. Pending' /\ Numbered'
    BY <1>2, <2>1 DEF IInv, Pending, Numbered, Calls, Started, Responses, Complete
  <2>6. Dates'
    BY <2>1 DEF IInv, Dates, Started, Calls
  <2>7. QED BY <2>1, <2>3, <2>4, <2>5, <2>6, LogUntouched DEF IInv
<1>3. QED BY <1>1, <1>2

\* There are as many numbered calls as numbers.
LEMMA CallsCounted ==
    ASSUME NEW r \in Nat, NEW n \in Nat
    PROVE  IsFiniteSet({<<r, k>> : k \in 1..n}) /\ Cardinality({<<r, k>> : k \in 1..n}) = n
<1> DEFINE S == {<<r, k>> : k \in 1..n}
           f == [k \in 1..n |-> <<r, k>>]
<1>1. f \in Bijection(1..n, S)
  BY DEF Bijection, Injection, Surjection, IsInjective
<1>2. IsFiniteSet(1..n) /\ Cardinality(1..n) = n
  BY FS_Interval
<1>3. ExistsBijection(1..n, S)
  BY <1>1 DEF ExistsBijection
<1>4. IsFiniteSet(S) /\ Cardinality(S) = n
  <2> HIDE DEF S
  <2> QED BY <1>2, <1>3, FS_Bijection
<1>5. QED BY <1>4

LEMMA ResponseArrivesStep ==
    ASSUME IInv, NEW words \in BOOLEAN, NEW calls \in 0..MaxCalls, NEW ends \in BOOLEAN,
           ResponseArrives(words, calls, ends)
    PROVE  IInv'
<1> DEFINE r == responses + 1
           said == IF words THEN {<<r, 0>>} ELSE {}
           made == {<<r, k>> : k \in 1..calls}
<1>1. r \in Nat /\ calls \in Nat /\ responses \in Nat /\ now \in Nat /\ round \in Nat
      /\ r <= MaxResponses
  BY BoundsAssumption DEF IInv, TypeOK, ResponseArrives
<1>2. /\ node = "requesting" /\ node' = "gating"
      /\ current' = [number |-> r, parts |-> said \cup made, ends |-> ends]
      /\ returned' = {} /\ responses' = r
      /\ accumulated' = accumulated \cup said
      /\ (IF words /\ mode = "streaming" THEN start' = NoteStart /\ now' = NotedAt
         ELSE UNCHANGED <<start, now>>)
      /\ started' = Len(lines)
      /\ UNCHANGED <<lines, written, round, context, checkpoint, mark, turns, attempts,
                      completed, mode, crashes>>
  BY DEF ResponseArrives, cycleVars
<1>3. said \subseteq Parts /\ made \subseteq Parts
  BY <1>1 DEF Parts
<1>4. Calls(said) = {} /\ Calls(said \cup made) = made
  BY <1>1 DEF Calls, IsCall
<1>5. IsFiniteSet(said) /\ IsFiniteSet(made) /\ Cardinality(made) = calls
  BY <1>1, CallsCounted, FS_EmptySet, FS_Singleton
<1>6. IsFiniteSet(said \cup made)
  BY <1>5, FS_Union
<1>7. Calls(accumulated) = {} /\ Calls(accumulated') = {}
  BY <1>2, <1>4 DEF IInv, Shape, Calls
<1>8. /\ start' \in [round : Nat, at : Nat] /\ now' \in Nat /\ now <= now'
      /\ start' # NotStarted => start'.at <= now' /\ start'.round <= round
      /\ start' = start \/ (start = NotStarted /\ start'.at = now + 1)
  <2>1. start \in [round : Nat, at : Nat]
    BY DEF IInv, TypeOK
  <2>2. CASE words /\ mode = "streaming" /\ ~Started
    BY <1>1, <1>2, <2>2 DEF NoteStart, NotedAt, Started
  <2>3. CASE ~(words /\ mode = "streaming" /\ ~Started)
    BY <1>1, <1>2, <2>1, <2>3 DEF NoteStart, NotedAt, Started, IInv, Dates
  <2>4. QED BY <2>2, <2>3
<1> HIDE DEF said, made
<1>9. TypeOK'
  <2>1. current' \in [number : Nat, parts : SUBSET Parts, ends : BOOLEAN]
    BY <1>1, <1>2, <1>3
  <2>2. accumulated' \in SUBSET Parts
    BY <1>2, <1>3 DEF IInv, TypeOK, Parts
  <2>3. responses' \in 0..MaxResponses
    BY <1>1, <1>2, BoundsAssumption
  <2>4. started' \in 0..Len(lines') /\ written' \in 0..started'
    BY <1>2 DEF IInv, TypeOK
  <2>5. QED BY <1>2, <1>8, <2>1, <2>2, <2>3, <2>4 DEF IInv, TypeOK, Nodes, Parts
<1>10. Shape'
  BY <1>2, <1>7 DEF IInv, Shape, Playing
<1>11. InHand'
  <2>1. current'.parts = said \cup made /\ current'.number = r
    BY <1>2
  <2>2. Calls(current'.parts) = {<<current'.number, k>> : k \in 1..Cardinality(Calls(current'.parts))}
    BY <1>4, <1>5, <2>1 DEF made
  <2>3. QED BY <1>2, <1>6, <2>1, <2>2 DEF InHand, Calls
<1>12. Numbered'
  <2>1. \A i \in DOMAIN lines : \A p \in lines[i].parts : p[1] \in Nat /\ p[1] <= responses
    BY EventFields DEF IInv, Numbered, Parts
  <2>2. QED BY <1>1, <1>2, <2>1 DEF IInv, Numbered
<1>13. Pending'
  <2>1. \A p \in accumulated : p[1] \in Nat /\ p[1] <= responses
    BY DEF IInv, Pending, TypeOK
  <2>2. \A p \in said : p[1] = r
    BY DEF said
  <2>3. \A p \in accumulated' : p[1] <= responses'
    BY <1>1, <1>2, <2>1, <2>2
  <2>4. ASSUME NEW i \in Responses PROVE lines[i].parts \cap said = {}
    <3>1. \A p \in lines[i].parts : p[1] \in Nat /\ p[1] <= responses
      BY EventFields DEF IInv, Numbered, Parts, Responses
    <3>2. QED BY <1>1, <2>2, <3>1
  <2>5. \A i \in Responses' : lines'[i].parts \cap accumulated' = {}
    BY <1>2, <2>4 DEF IInv, Pending, Responses
  <2>6. ASSUME NEW j \in DOMAIN lines, lines[j].kind = "invoked", NEW c \in lines[j].parts,
               NEW p \in accumulated', p[1] = c[1]
        PROVE  c \in accumulated'
    <3>1. c[1] \in Nat /\ c[1] <= responses
      BY <2>6, EventFields DEF IInv, Numbered, Parts
    <3>2. p \in accumulated
      BY <1>1, <1>2, <2>2, <2>6, <3>1
    <3>3. QED BY <1>2, <2>6, <3>2 DEF IInv, Pending, Complete
  <2>7. QED BY <1>2, <1>7, <2>3, <2>5, <2>6 DEF Pending, Calls, Complete
<1>14. Dates'
  <2>1. \A i \in DOMAIN lines : lines[i].at \in Nat /\ lines[i].at <= now
    BY EventFields DEF IInv, Dates
  <2>2. ASSUME Started', NEW i \in DOMAIN lines
        PROVE  /\ lines[i].kind = "result" => \A q \in lines[i].parts : lines[i].at < start'.at
               /\ lines[i].kind = "invoked" => ~(lines[i].parts \subseteq accumulated')
    <3>1. CASE start' = start
      <4>1. Started
        BY <2>2, <3>1 DEF Started
      <4>2. QED BY <1>7, <3>1, <4>1 DEF IInv, Dates, Numbered, Calls
    <3>2. CASE start'.at = now + 1
      BY <1>1, <1>7, <2>1, <3>2 DEF IInv, Numbered, Calls
    <3>3. QED BY <1>8, <3>1, <3>2
  <2>3. \A i \in DOMAIN lines' : lines'[i].at <= now'
    BY <1>1, <1>2, <1>8, <2>1
  <2>4. QED BY <1>2, <1>8, <2>2, <2>3 DEF Dates, Started
<1>15. QED BY <1>2, <1>9, <1>10, <1>11, <1>12, <1>13, <1>14, LogUntouched DEF IInv

\* Announcing the calls logs each of them, after the block began.
LEMMA AnnounceLines ==
    ASSUME IInv, PassGate, Cardinality(Calls(current.parts)) > 0
    PROVE  LET n == Cardinality(Calls(current.parts)) IN
           /\ n \in Nat /\ Extends /\ Len(lines') = Len(lines) + n
           /\ \A i \in NewLines : \E k \in 1..n :
                 /\ lines'[i].kind = "invoked" /\ lines'[i].parts = {<<responses, k>>}
                 /\ lines'[i].at = NotedAt + k /\ lines'[i].round = round
           /\ \A k \in 1..n : Len(lines) + k \in NewLines
                              /\ lines'[Len(lines) + k].at = NotedAt + k
                              /\ lines'[Len(lines) + k].kind = "invoked"
                              /\ lines'[Len(lines) + k].parts = {<<responses, k>>}
<1> DEFINE n == Cardinality(Calls(current.parts))
<1>1. n \in Nat
  <2>1. Calls(current.parts) \in SUBSET current.parts
    BY DEF Calls
  <2>2. QED BY <2>1, FS_Subset, FS_CardinalityType DEF IInv, InHand
<1>2. lines' = lines \o Announced /\ current.number = responses
  BY DEF PassGate, IInv, InHand
<1>3. responses \in Nat /\ NotedAt \in Nat /\ round \in Nat /\ lines \in Seq(Event)
  BY DEF IInv, TypeOK, NotedAt
<1>4. ASSUME NEW k \in 1..n
      PROVE  /\ Announced[k] \in Event /\ Announced[k].kind = "invoked" /\ Announced[k].round = round
             /\ Announced[k].parts = {<<responses, k>>} /\ Announced[k].at = NotedAt + k
  <2>1. {<<responses, k>>} \in SUBSET (Nat \X Nat) /\ NotedAt + k \in Nat
    BY <1>1, <1>3
  <2>2. Announced[k] = [kind |-> "invoked", at |-> NotedAt + k, round |-> round,
                    parts |-> {<<responses, k>>}, awaited |-> TRUE]
    BY <1>2 DEF NewEvent, Announced
  <2>3. QED BY <1>3, <2>1, <2>2 DEF Event, Kinds
<1>5. Announced \in Seq(Event) /\ Len(Announced) = n
  <2>1. Announced \in [1..n -> Event]
    BY <1>4 DEF Announced
  <2>2. QED BY <1>1, <2>1
<1> HIDE DEF n
<1>6. /\ lines' \in Seq(Event) /\ Len(lines') = Len(lines) + n
      /\ \A i \in 1..(Len(lines) + n) :
            lines'[i] = IF i <= Len(lines) THEN lines[i] ELSE Announced[i - Len(lines)]
  BY <1>2, <1>3, <1>5, ConcatProperties
<1>7. Len(lines) \in Nat
  BY <1>3
<1>8. Extends
  BY <1>1, <1>6, <1>7 DEF Extends
<1>9. \A i \in NewLines : i - Len(lines) \in 1..n /\ lines'[i] = Announced[i - Len(lines)]
  BY <1>1, <1>6, <1>7 DEF NewLines
<1>10. \A k \in 1..n : Len(lines) + k \in NewLines /\ lines'[Len(lines) + k] = Announced[k]
  BY <1>1, <1>6, <1>7 DEF NewLines
<1>11. ASSUME NEW i \in NewLines
       PROVE  \E k \in 1..n :
                 /\ lines'[i].kind = "invoked" /\ lines'[i].parts = {<<responses, k>>}
                 /\ lines'[i].at = NotedAt + k /\ lines'[i].round = round
  <2>1. i - Len(lines) \in 1..n /\ lines'[i] = Announced[i - Len(lines)]
    BY <1>9
  <2>2. QED BY <1>4, <2>1
<1>12. \A k \in 1..n : Len(lines) + k \in NewLines
                      /\ lines'[Len(lines) + k].at = NotedAt + k
                      /\ lines'[Len(lines) + k].kind = "invoked"
                      /\ lines'[Len(lines) + k].parts = {<<responses, k>>}
  BY <1>4, <1>10
<1>13. QED
  BY <1>1, <1>6, <1>8, <1>11, <1>12 DEF n

LEMMA PassGateStep == ASSUME IInv, PassGate PROVE IInv'
<1> DEFINE n == Cardinality(Calls(current.parts))
<1>1. /\ node = "gating" /\ Calls(accumulated) = {} /\ current.number = responses
      /\ UNCHANGED <<started, written, round, current, returned, checkpoint, mark, turns,
                     attempts, completed, responses, mode, crashes>>
  BY DEF PassGate, cycleVars, IInv, Shape, InHand
<1>2. responses \in Nat /\ now \in Nat /\ round \in Nat /\ lines \in Seq(Event)
      /\ Calls(current.parts) \in SUBSET Parts /\ context \in SUBSET Parts
      /\ accumulated \in SUBSET Parts /\ current.parts \in SUBSET Parts
      /\ start \in [round : Nat, at : Nat]
  BY BoundsAssumption DEF IInv, TypeOK, Calls, Parts
<1>3. CASE n > 0
  <2>1. /\ start' = NoteStart
        /\ accumulated' = accumulated \cup Calls(current.parts)
        /\ now' = NotedAt + n /\ node' = "tools" /\ context' = context
    BY <1>3 DEF PassGate
  <2>2. /\ n \in Nat /\ Extends
        /\ \A i \in NewLines : \E k \in 1..n :
              /\ lines'[i].kind = "invoked" /\ lines'[i].parts = {<<responses, k>>}
              /\ lines'[i].at = NotedAt + k /\ lines'[i].round = round
        /\ \A k \in 1..n : Len(lines) + k \in NewLines
                           /\ lines'[Len(lines) + k].kind = "invoked"
                           /\ lines'[Len(lines) + k].parts = {<<responses, k>>}
    BY <1>3, AnnounceLines
  <2>3. DOMAIN lines' = DOMAIN lines \cup NewLines /\ NewLines \subseteq DOMAIN lines'
        /\ \A i \in DOMAIN lines : lines'[i] = lines[i]
    BY <1>2, <2>2, ExtendsBy
  <2>4. Calls(accumulated') = Calls(current.parts)
    BY <1>1, <2>1 DEF Calls
  <2>5. Calls(current.parts) = {<<responses, k>> : k \in 1..n}
    BY <1>1 DEF IInv, InHand
  <2>6. /\ NotedAt \in Nat /\ now <= NotedAt /\ now' \in Nat /\ now <= now'
        /\ start' \in [round : Nat, at : Nat] /\ start' # NotStarted
        /\ start'.at <= NotedAt /\ start'.round <= round
        /\ start' = start \/ (start = NotStarted /\ start'.at = now + 1)
    <3>1. CASE Started
      BY <1>2, <2>1, <2>2, <3>1 DEF NoteStart, NotedAt, IInv, Dates, Started
    <3>2. CASE ~Started
      <4>1. start' = [round |-> round, at |-> now + 1] /\ NotedAt = now + 1 /\ start = NotStarted
        BY <2>1, <3>2 DEF NoteStart, NotedAt, Started
      <4>2. start'.at # 0
        BY <1>2, <4>1
      <4>3. QED BY <1>2, <2>1, <2>2, <4>1, <4>2 DEF NotStarted
    <3>3. QED BY <3>1, <3>2
  <2>7. \A i \in DOMAIN lines : \A p \in lines[i].parts : p[1] \in Nat /\ p[1] < responses
    BY <1>1, EventFields DEF IInv, Numbered, Parts
  <2>8. TypeOK'
    <3>1. accumulated' \in SUBSET Parts
      BY <1>2, <2>1
    <3>2. started' \in 0..Len(lines') /\ written' \in 0..started'
      BY <1>1, <1>2, <2>2 DEF IInv, TypeOK, Extends
    <3>3. QED BY <1>1, <2>1, <2>2, <2>6, <3>1, <3>2 DEF IInv, TypeOK, Nodes, Parts, Extends
  <2>9. Shape' /\ InHand'
    BY <1>1, <2>1 DEF IInv, Shape, InHand, Playing, Calls
  <2>10. Numbered'
    <3>1. \A k \in 1..n : <<responses, k>>[1] = responses /\ IsCall(<<responses, k>>)
      BY <2>2 DEF IsCall
    <3>2. ASSUME NEW i \in NewLines
          PROVE  /\ \A p \in lines'[i].parts : p[1] <= responses
                 /\ \E p \in lines'[i].parts : IsCall(p)
      <4>1. PICK k \in 1..n : lines'[i].parts = {<<responses, k>>}
        BY <2>2
      <4>2. k > 0 /\ responses <= responses
        BY <1>2, <2>2
      <4>3. QED BY <3>1, <4>1, <4>2
    <3>3. QED BY <1>1, <2>1, <2>3, <2>7, <3>2 DEF IInv, Numbered
  <2>11. LoggedWhole'
    <3>1. \A i \in NewLines : lines'[i].kind # "response"
      BY <2>2
    <3>2. ASSUME NEW j \in NewLines, NEW i \in Responses,
                 NEW c \in lines'[j].parts, NEW p \in lines[i].parts
          PROVE  p[1] # c[1]
      <4>1. c[1] = responses
        BY <2>2
      <4>2. p[1] \in Nat /\ p[1] < responses
        BY <2>7 DEF Responses
      <4>3. QED BY <1>2, <4>1, <4>2
    <3>3. QED BY <2>2, <3>1, <3>2, GrowsWhole DEF IInv
  <2>12. LoggedWhenBegun'
    <3>1. ASSUME NEW j \in NewLines, NEW i \in Responses
          PROVE  /\ lines'[j].kind = "invoked" /\ ~(lines'[j].parts \subseteq lines[i].parts)
      <4>1. PICK k \in 1..n : lines'[j].kind = "invoked" /\ lines'[j].parts = {<<responses, k>>}
        BY <2>2
      <4>2. <<responses, k>> \notin lines[i].parts
        BY <1>2, <2>7 DEF Responses
      <4>3. QED BY <4>1, <4>2
    <3>2. \A i \in NewLines : lines'[i].kind # "response"
      BY <2>2
    <3>3. QED BY <2>2, <3>1, <3>2, GrowsDated DEF IInv
  <2>13. Pending'
    <3>1. \A p \in accumulated' : p[1] <= responses
      BY <1>2, <2>1, <2>5 DEF IInv, Pending
    <3>2. \A c \in Calls(accumulated') : c[1] = responses
      BY <2>4, <2>5
    <3>3. \A c \in Calls(accumulated') : \E j \in DOMAIN lines' :
             lines'[j].kind = "invoked" /\ c \in lines'[j].parts
      BY <2>2, <2>3, <2>4, <2>5
    <3>4. \A c \in Calls(accumulated') : c \in returned =>
             \E j \in DOMAIN lines' : lines'[j].kind = "result" /\ c \in lines'[j].parts
      BY <1>1 DEF IInv, InHand
    <3>5. Responses' = Responses
      BY <2>2, <2>3 DEF Responses
    <3>6. ASSUME NEW i \in Responses PROVE lines[i].parts \cap accumulated' = {}
      <4>1. lines[i].parts \cap accumulated = {}
        BY DEF IInv, Pending
      <4>2. lines[i].parts \cap Calls(current.parts) = {}
        BY <1>2, <2>5, <2>7 DEF Responses
      <4>3. QED BY <2>1, <4>1, <4>2
    <3>7. \A i \in Responses' : lines'[i].parts \cap accumulated' = {}
      BY <2>3, <3>5, <3>6 DEF Responses
    <3>8. ASSUME NEW j \in DOMAIN lines', lines'[j].kind = "invoked", NEW c \in lines'[j].parts,
                 NEW p \in accumulated', p[1] = c[1]
          PROVE  c \in accumulated'
      <4>1. CASE j \in DOMAIN lines
        <5>1. lines'[j] = lines[j] /\ c[1] \in Nat /\ c[1] < responses
          BY <2>3, <2>7, <3>8, <4>1
        <5>2. p \in accumulated
          BY <1>2, <2>1, <2>5, <3>8, <5>1
        <5>3. QED BY <2>1, <3>8, <4>1, <5>1, <5>2 DEF IInv, Pending, Complete
      <4>2. CASE j \in NewLines
        BY <2>1, <2>2, <2>5, <3>8, <4>2
      <4>3. QED BY <2>3, <4>1, <4>2
    <3>9. QED
      BY <1>1, <2>1, <2>4, <2>6, <3>1, <3>2, <3>3, <3>4, <3>7, <3>8
      DEF Pending, Calls, Started, Complete
  <2>14. Dates'
    <3>1. \A i \in DOMAIN lines : lines[i].at \in Nat /\ lines[i].at <= now
      BY EventFields DEF IInv, Dates
    <3>2. \A i \in DOMAIN lines' : lines'[i].at <= now'
      BY <1>2, <2>1, <2>2, <2>3, <2>6, <3>1
    <3>3. ASSUME NEW i \in DOMAIN lines
          PROVE  /\ lines[i].kind = "result" => \A q \in lines[i].parts : lines[i].at < start'.at
                 /\ lines[i].kind = "invoked" => ~(lines[i].parts \subseteq accumulated')
      <4>1. lines[i].kind = "result" => \A q \in lines[i].parts : lines[i].at < start'.at
        <5>1. CASE start'.at = now + 1
          BY <1>2, <3>1, <5>1
        <5>2. QED BY <1>1, <2>6, <5>1 DEF IInv, Dates, Started
      <4>2. ASSUME lines[i].kind = "invoked" PROVE ~(lines[i].parts \subseteq accumulated')
        <5>1. PICK p \in lines[i].parts : IsCall(p)
          BY <4>2 DEF IInv, Numbered
        <5>2. p \in accumulated' => p \in Calls(accumulated')
          BY <5>1 DEF Calls
        <5>3. p \in Calls(accumulated') => p[1] = responses
          BY <2>4, <2>5
        <5>4. QED BY <1>2, <2>7, <5>1, <5>2, <5>3
      <4>3. QED BY <4>1, <4>2
    <3>4. ASSUME NEW i \in NewLines
          PROVE  lines'[i].kind = "invoked" /\ start'.at < lines'[i].at
                 /\ start'.round <= lines'[i].round
      <4>1. PICK k \in 1..n : /\ lines'[i].kind = "invoked" /\ lines'[i].at = NotedAt + k
                              /\ lines'[i].round = round
        BY <2>2
      <4>2. k \in Nat /\ k > 0 /\ start'.at \in Nat
        BY <2>2, <2>6
      <4>3. QED BY <1>2, <2>6, <4>1, <4>2
    <3>5. start'.at <= now' /\ start'.round <= round'
      BY <1>1, <2>1, <2>2, <2>6
    <3>6. ASSUME NEW i \in DOMAIN lines'
          PROVE  /\ lines'[i].kind = "result" => \A q \in lines'[i].parts : lines'[i].at < start'.at
                 /\ lines'[i].kind = "invoked" /\ lines'[i].parts \subseteq accumulated' =>
                       start'.at < lines'[i].at /\ start'.round <= lines'[i].round
      <4>1. CASE i \in DOMAIN lines
        BY <2>3, <3>3, <4>1
      <4>2. CASE i \in NewLines
        BY <3>4, <4>2
      <4>3. QED BY <2>3, <4>1, <4>2
    <3>7. QED BY <3>2, <3>5, <3>6 DEF Dates
  <2>15. QED BY <2>8, <2>9, <2>10, <2>11, <2>12, <2>13, <2>14 DEF IInv
<1>4. CASE n = 0
  <2>1. /\ context' = context \cup current.parts
        /\ node' = IF current.ends THEN "ended" ELSE "ready"
        /\ UNCHANGED <<lines, now, start, accumulated>>
    BY <1>4 DEF PassGate
  <2>2. TypeOK'
    BY <1>1, <1>2, <2>1 DEF IInv, TypeOK, Nodes, Parts
  <2>3. Shape' /\ InHand' /\ Pending' /\ Numbered'
    BY <1>1, <2>1 DEF IInv, Shape, InHand, Playing, Calls, Pending, Numbered, Started, Responses,
                          Complete
  <2>4. Dates'
    BY <1>1, <2>1 DEF IInv, Dates, Calls, Started
  <2>5. QED BY <2>1, <2>2, <2>3, <2>4, LogUntouched DEF IInv
<1>5. QED
  BY <1>3, <1>4 DEF PassGate

LEMMA ToolReturnsStep ==
    ASSUME IInv, NEW call \in Calls(current.parts), ToolReturns(call)
    PROVE  IInv'
<1> DEFINE e == NewEvent("result", now + 1, {call}, TRUE)
           L == Len(lines) + 1
<1>1. /\ node = "tools" /\ call \in Calls(current.parts) \ returned
      /\ returned' = returned \cup {call}
      /\ lines' = Append(lines, e) /\ now' = now + 1
      /\ started' \in {started, Len(lines)}
      /\ UNCHANGED <<written, round, current, checkpoint, turns, attempts, completed,
                     accumulated, mark, start, responses, mode, crashes>>
  BY DEF ToolReturns, cycleVars, stateVars
<1>2. \/ returned' = Calls(current.parts) /\ node' = "ready" /\ context' = context \cup current.parts
      \/ returned' # Calls(current.parts) /\ node' = "tools" /\ context' = context
  BY <1>1 DEF ToolReturns
<1>3. responses \in Nat /\ now \in Nat /\ round \in Nat /\ lines \in Seq(Event)
      /\ Calls(current.parts) \in SUBSET Parts /\ context \in SUBSET Parts
      /\ returned \in SUBSET Parts /\ current.parts \in SUBSET Parts
      /\ Len(lines) \in Nat
  BY BoundsAssumption DEF IInv, TypeOK, Calls, Parts
<1>4. e \in Event /\ e.kind = "result" /\ e.parts = {call} /\ e.at = now + 1
  BY <1>3 DEF NewEvent, Event, Kinds, Parts
<1> HIDE DEF e
<1>5. Extends /\ NewLines = {L} /\ lines'[L] = e /\ Len(lines') = L
  BY <1>1, <1>4, AppendExtends DEF IInv
<1>6. DOMAIN lines' = DOMAIN lines \cup {L} /\ \A i \in DOMAIN lines : lines'[i] = lines[i]
  BY <1>3, <1>5, ExtendsBy
<1>7. Calls(accumulated) = Calls(current.parts) /\ call \in Calls(accumulated)
      /\ call[1] = responses
  BY <1>1 DEF IInv, Pending
<1>8. TypeOK'
  <2>1. context' \in SUBSET Parts /\ returned' \in SUBSET Parts
    BY <1>1, <1>2, <1>3
  <2>2. started' \in 0..Len(lines') /\ written' \in 0..started'
    BY <1>1, <1>3, <1>5 DEF IInv, TypeOK
  <2>3. node' \in Nodes /\ now' \in Nat /\ lines' \in Seq(Event)
    BY <1>1, <1>2, <1>3, <1>5 DEF Nodes, Extends
  <2>4. QED BY <1>1, <2>1, <2>2, <2>3 DEF IInv, TypeOK, Parts
<1>9. Shape' /\ InHand'
  BY <1>1, <1>2 DEF IInv, Shape, InHand, Playing, Calls
<1>10. Numbered'
  BY <1>1, <1>2, <1>3, <1>4, <1>5, <1>6, <1>7 DEF IInv, Numbered
<1>11. LoggedWhole'
  BY <1>4, <1>5, GrowsWhole DEF IInv
<1>12. LoggedWhenBegun'
  <2>1. ASSUME NEW i \in Responses, NEW p \in lines[i].parts PROVE ~(call[1] < p[1])
    <3>1. p \in Parts /\ p[1] <= responses
      BY EventFields DEF IInv, Numbered, Responses
    <3>2. QED BY <1>3, <1>7, <3>1 DEF Parts
  <2>2. QED BY <1>4, <1>5, <2>1, GrowsDated DEF IInv
<1>13. Pending'
  <2>1. \A c \in Calls(accumulated') : \E j \in DOMAIN lines' :
           lines'[j].kind = "invoked" /\ c \in lines'[j].parts
    BY <1>1, <1>6 DEF IInv, Pending, Calls
  <2>2. ASSUME NEW c \in Calls(accumulated), node' = "tools" => c \in returned'
        PROVE  \E j \in DOMAIN lines' : lines'[j].kind = "result" /\ c \in lines'[j].parts
    <3>1. CASE c = call
      BY <1>4, <1>5, <1>6, <3>1
    <3>2. CASE c # call
      <4>1. c \in returned
        BY <1>1, <1>2, <1>7, <2>2, <3>2
      <4>2. PICK j \in DOMAIN lines : lines[j].kind = "result" /\ c \in lines[j].parts
        BY <4>1, <2>2 DEF IInv, Pending
      <4>3. QED BY <1>6, <4>2
    <3>3. QED BY <3>1, <3>2
  <2>3. Responses' = Responses
    BY <1>4, <1>5, <1>6 DEF Responses
  <2>4. \A i \in Responses' : lines'[i].parts \cap accumulated' = {}
    BY <1>1, <1>6, <2>3 DEF IInv, Pending, Responses
  <2>5. Complete(accumulated)'
    BY <1>1, <1>4, <1>5, <1>6 DEF IInv, Pending, Complete
  <2>6. QED BY <1>1, <1>2, <2>1, <2>2, <2>4, <2>5 DEF IInv, Pending, Calls, Started
<1>14. Dates'
  <2>1. \A i \in DOMAIN lines' : lines'[i].at <= now'
    BY <1>1, <1>3, <1>4, <1>5, <1>6, EventFields DEF IInv, Dates
  <2>2. start' = start /\ accumulated' = accumulated /\ Calls(accumulated) # {}
        /\ responses' = responses
    BY <1>1, <1>7
  <2>3. ASSUME Started
        PROVE  /\ start'.at <= now' /\ start'.round <= round'
               /\ lines'[L].kind = "result" => \A q \in lines'[L].parts : q[1] = responses
               /\ lines'[L].kind # "invoked"
    BY <1>1, <1>3, <1>4, <1>5, <1>7, <2>3 DEF IInv, Dates, TypeOK
  <2>4. QED BY <1>6, <2>1, <2>2, <2>3 DEF IInv, Dates, Started, Calls
<1>15. QED BY <1>8, <1>9, <1>10, <1>11, <1>12, <1>13, <1>14 DEF IInv

LEMMA AttemptFailsStep == ASSUME IInv, AttemptFails PROVE IInv'
<1>1. /\ node \in {"requesting", "gating", "tools"} /\ node' = "failed"
      /\ accumulated' = {} /\ start' = NotStarted
      /\ attempts' = attempts + 1 /\ attempts < Attempts
      /\ DropResponse
      /\ UNCHANGED <<lines, started, written, now, round, context, checkpoint, turns, completed,
                     mark, responses, mode, crashes>>
  BY DEF AttemptFails, DiscardAttempt, logVars, IInv, Shape, Playing
<1>2. TypeOK'
  <2>1. attempts' \in 0..Attempts
    BY <1>1, BoundsAssumption DEF IInv, TypeOK
  <2>2. start' \in [round : Nat, at : Nat]
    BY <1>1 DEF NotStarted
  <2>3. current' \in [number : Nat, parts : SUBSET (Nat \X Nat), ends : BOOLEAN]
        /\ returned' \in SUBSET (Nat \X Nat)
    BY <1>1, Dropped DEF Parts
  <2>4. QED BY <1>1, <2>1, <2>2, <2>3 DEF IInv, TypeOK, Nodes
<1>3. Calls({}) = {}
  BY DEF Calls
<1>4. Shape' /\ InHand'
  BY <1>1, <1>3, Dropped DEF IInv, Shape, InHand, Playing, Calls
<1>5. Pending' /\ Numbered' /\ Dates'
  BY <1>1, <1>3 DEF IInv, Pending, Numbered, Dates, Started, Calls, Responses, Complete
<1>6. QED BY <1>1, <1>2, <1>4, <1>5, LogUntouched DEF IInv

LEMMA RetryStep == ASSUME IInv, Retry PROVE IInv'
<1>1. /\ node = "failed" /\ node' = "ready" /\ attempts < Attempts
      /\ mark' = {} /\ context' = checkpoint /\ accumulated = {} /\ start = NotStarted
      /\ started' = Len(lines)
      /\ UNCHANGED <<lines, written, now, round, current, returned, checkpoint, turns, attempts,
                     completed, accumulated, start, responses, mode, crashes>>
  BY DEF Retry, cycleVars, IInv, Shape
<1>2. TypeOK'
  BY <1>1 DEF IInv, TypeOK, Nodes
<1>3. Shape' /\ InHand' /\ Pending' /\ Numbered' /\ Dates'
  BY <1>1 DEF IInv, Shape, InHand, Playing, Pending, Numbered, Dates, Started, Calls, Responses,
              Complete
<1>4. QED BY <1>1, <1>2, <1>3, LogUntouched DEF IInv

-----------------------------------------------------------------------------
(* The steps of the cycle, the clock and the process *)

\* A line at the end that speaks of no part changes nothing that is said of the responses.
LEMMA QuietLine ==
    ASSUME IInv, NEW e \in Event, lines' = Append(lines, e), now' = now + 1,
           e.kind = "failed", e.parts = {}, e.at = now + 1,
           responses' = responses, node' # "gating" \/ node = "gating"
    PROVE  /\ lines' \in Seq(Event) /\ Len(lines') = Len(lines) + 1
           /\ LoggedWhole' /\ LoggedWhenBegun' /\ Numbered'
           /\ \A i \in DOMAIN lines' : lines'[i].at <= now'
           /\ DOMAIN lines' = DOMAIN lines \cup {Len(lines) + 1}
           /\ lines'[Len(lines) + 1] = e
           /\ \A i \in DOMAIN lines : lines'[i] = lines[i]
           /\ Responses' = Responses
<1>1. now \in Nat /\ lines \in Seq(Event) /\ Len(lines) \in Nat
  BY DEF IInv, TypeOK
<1>2. Extends /\ NewLines = {Len(lines) + 1} /\ lines'[Len(lines) + 1] = e
      /\ Len(lines') = Len(lines) + 1
  BY AppendExtends DEF IInv
<1>3. DOMAIN lines' = DOMAIN lines \cup {Len(lines) + 1} /\ \A i \in DOMAIN lines : lines'[i] = lines[i]
  BY <1>1, <1>2, ExtendsBy
<1>4. LoggedWhole'
  BY <1>2, GrowsWhole DEF IInv
<1>5. LoggedWhenBegun'
  BY <1>2, GrowsDated DEF IInv
<1>6. Numbered'
  BY <1>2, <1>3 DEF IInv, Numbered
<1>7. \A i \in DOMAIN lines' : lines'[i].at <= now'
  BY <1>1, <1>2, <1>3, EventFields DEF IInv, Dates
<1>8. Responses' = Responses
  BY <1>2, <1>3 DEF Responses
<1>9. QED BY <1>2, <1>3, <1>4, <1>5, <1>6, <1>7, <1>8 DEF Extends

\* A cycle that starts has a turn left and its first attempt before it.
LEMMA NextCycleShape ==
    ASSUME IInv, node \in Playing, NEW history \in SUBSET Parts, NEW leave \in BOOLEAN,
           NextCycle(history, leave)
    PROVE  /\ turns' \in 0..MaxTurns /\ attempts' = 0 /\ turns' = turns + 1
           /\ context' = history /\ checkpoint' = history /\ DropResponse
           /\ node' \in {"leaving", "ready"}
           /\ node' = "ready" => turns' < MaxTurns
<1>1. turns \in Nat /\ turns < MaxTurns /\ MaxTurns \in Nat
  BY BoundsAssumption DEF IInv, TypeOK, Shape
<1>2. turns' = turns + 1 /\ node' = IF leave \/ turns' = MaxTurns THEN "leaving" ELSE "ready"
  BY DEF NextCycle
<1>3. QED BY <1>1, <1>2 DEF NextCycle

LEMMA CycleFailsStep == ASSUME IInv, CycleFails PROVE IInv'
<1> DEFINE e == NewEvent("failed", now + 1, {}, TRUE)
<1>1. /\ node = "failed" /\ lines' = Append(lines, e) /\ now' = now + 1
      /\ NextCycle(completed, FALSE)
      /\ accumulated' = {} /\ mark' = {} /\ start' = NotStarted
      /\ UNCHANGED <<started, written, round, completed, responses, mode, crashes>>
  BY DEF CycleFails
<1>2. e \in Event /\ e.kind = "failed" /\ e.parts = {} /\ e.at = now + 1
  BY DEF IInv, TypeOK, NewEvent, Event, Kinds
<1> HIDE DEF e
<1>3. completed \in SUBSET Parts
  BY DEF IInv, TypeOK, Parts
<1>4. /\ turns' \in 0..MaxTurns /\ attempts' = 0 /\ turns' = turns + 1
      /\ context' = completed /\ checkpoint' = completed /\ DropResponse
      /\ node' \in {"leaving", "ready"}
      /\ node' = "ready" => turns' < MaxTurns
  BY <1>1, <1>3, NextCycleShape DEF Playing
<1>5. /\ lines' \in Seq(Event) /\ Len(lines') = Len(lines) + 1
      /\ LoggedWhole' /\ LoggedWhenBegun' /\ Numbered'
      /\ \A i \in DOMAIN lines' : lines'[i].at <= now'
  BY <1>1, <1>2, <1>4, QuietLine
<1>6. TypeOK'
  <2>1. start' \in [round : Nat, at : Nat] /\ attempts' \in 0..Attempts /\ now' \in Nat
    BY <1>1, <1>4, BoundsAssumption DEF NotStarted, IInv, TypeOK
  <2>2. current' \in [number : Nat, parts : SUBSET (Nat \X Nat), ends : BOOLEAN]
        /\ returned' \in SUBSET (Nat \X Nat)
    BY <1>4, Dropped DEF Parts
  <2>3. started' \in 0..Len(lines') /\ written' \in 0..started'
    BY <1>1, <1>5 DEF IInv, TypeOK
  <2>4. QED BY <1>1, <1>3, <1>4, <1>5, <2>1, <2>2, <2>3 DEF IInv, TypeOK, Nodes, Parts
<1>7. Calls({}) = {}
  BY DEF Calls
<1>8. Shape' /\ InHand'
  <2>1. node' # "ready" \/ attempts' < Attempts
    BY <1>4, BoundsAssumption
  <2>2. QED BY <1>1, <1>4, <1>7, <2>1, Dropped, BoundsAssumption DEF Shape, InHand, Playing, Calls
<1>9. Pending' /\ Dates'
  BY <1>1, <1>4, <1>5, <1>7 DEF Pending, Dates, Calls, Started, Complete
<1>10. QED BY <1>5, <1>6, <1>8, <1>9 DEF IInv

LEMMA CycleEndsStep == ASSUME IInv, NEW stop \in BOOLEAN, CycleEnds(stop) PROVE IInv'
<1>1. /\ node = "ended" /\ FlushResponse(FALSE) /\ completed' = context
      /\ NextCycle(context, stop)
      /\ UNCHANGED <<round, responses, mode, crashes>>
  BY DEF CycleEnds
<1>2. context \in SUBSET Parts
  BY DEF IInv, TypeOK, Parts
<1>3. /\ turns' \in 0..MaxTurns /\ attempts' = 0 /\ turns' = turns + 1
      /\ context' = context /\ checkpoint' = context /\ DropResponse
      /\ node' \in {"leaving", "ready"}
      /\ node' = "ready" => turns' < MaxTurns
  BY <1>1, <1>2, NextCycleShape DEF Playing
<1>4. Extends /\ now' \in Nat /\ now <= now'
      /\ \A i \in NewLines : i = Len(lines) + 1 /\ Len(lines') = i
           /\ lines'[i].kind = "response" /\ lines'[i].parts = accumulated
           /\ lines'[i].at <= now'
  BY <1>1, FlushLine
<1>5. LoggedWhole' /\ LoggedWhenBegun'
  BY <1>1, FlushWhole, FlushDated
<1>6. accumulated' = {} /\ mark' = {} /\ start' = NotStarted /\ started' = started
      /\ written' = written
  BY <1>1 DEF FlushResponse
<1>7. TypeOK'
  <2>1. start' \in [round : Nat, at : Nat] /\ attempts' \in 0..Attempts
    BY <1>3, <1>6, BoundsAssumption DEF NotStarted
  <2>2. current' \in [number : Nat, parts : SUBSET (Nat \X Nat), ends : BOOLEAN]
        /\ returned' \in SUBSET (Nat \X Nat)
    BY <1>3, Dropped DEF Parts
  <2>3. started' \in 0..Len(lines') /\ written' \in 0..started'
    BY <1>4, <1>6 DEF IInv, TypeOK, Extends
  <2>4. QED BY <1>1, <1>2, <1>3, <1>4, <1>6, <2>1, <2>2, <2>3
        DEF IInv, TypeOK, Nodes, Parts, Extends
<1>8. Calls({}) = {}
  BY DEF Calls
<1>9. Shape' /\ InHand'
  BY <1>3, <1>6, <1>8, Dropped, BoundsAssumption DEF Shape, InHand, Playing, Calls
<1>10. DOMAIN lines' = DOMAIN lines \cup NewLines /\ \A i \in DOMAIN lines : lines'[i] = lines[i]
  BY <1>4, ExtendsBy DEF IInv, TypeOK
<1>11. Numbered'
  <2>1. \A p \in accumulated : p[1] <= responses
    BY DEF IInv, Pending
  <2>2. QED BY <1>1, <1>3, <1>4, <1>10, <2>1 DEF IInv, Numbered
<1>12. \A i \in DOMAIN lines' : lines'[i].at <= now'
  <2>1. \A i \in DOMAIN lines : lines[i].at <= now /\ lines[i].at \in Nat
    BY EventFields DEF IInv, Dates
  <2>2. now \in Nat
    BY DEF IInv, TypeOK
  <2>3. QED BY <1>4, <1>10, <2>1, <2>2
<1>13. Pending' /\ Dates'
  BY <1>3, <1>6, <1>8, <1>12 DEF Pending, Dates, Calls, Started, Complete
<1>14. QED BY <1>5, <1>7, <1>9, <1>11, <1>13 DEF IInv

LEMMA CancelRunnerStep == ASSUME IInv, CancelRunner PROVE IInv'
<1>1. /\ node \notin {"leaving", "gone", "down"} /\ node' = "leaving" /\ DropResponse
      /\ accumulated' = {} /\ mark' = {} /\ start' = NotStarted
      /\ checkpoint' = {} /\ completed' = {} /\ turns' = 0 /\ attempts' = 0
      /\ UNCHANGED <<lines, started, written, now, round, context, responses, mode, crashes>>
  BY DEF CancelRunner, logVars
<1>2. Calls({}) = {}
  BY DEF Calls
<1>3. TypeOK'
  <2>1. start' \in [round : Nat, at : Nat] /\ attempts' \in 0..Attempts /\ turns' \in 0..MaxTurns
    BY <1>1, BoundsAssumption DEF NotStarted
  <2>2. current' \in [number : Nat, parts : SUBSET (Nat \X Nat), ends : BOOLEAN]
        /\ returned' \in SUBSET (Nat \X Nat)
    BY <1>1, Dropped DEF Parts
  <2>3. QED BY <1>1, <2>1, <2>2 DEF IInv, TypeOK, Nodes
<1>4. Shape' /\ InHand'
  BY <1>1, <1>2, Dropped DEF Shape, InHand, Playing, Calls
<1>5. Pending' /\ Numbered' /\ Dates'
  BY <1>1, <1>2 DEF IInv, Pending, Numbered, Dates, Calls, Started, Complete
<1>6. QED BY <1>1, <1>3, <1>4, <1>5, LogUntouched DEF IInv

LEMMA LeaveStep == ASSUME IInv, Leave PROVE IInv'
<1>1. /\ node = "leaving" /\ node' = "gone" /\ written' \in written..Len(lines)
      /\ started' = Len(lines)
      /\ context' = {} /\ checkpoint' = {} /\ completed' = {} /\ turns' = 0 /\ attempts' = 0
      /\ UNCHANGED <<lines, now, round, current, returned, accumulated, mark, start, responses,
                     mode, crashes>>
  BY DEF Leave, stateVars
<1>2. TypeOK'
  <2>1. attempts' \in 0..Attempts /\ turns' \in 0..MaxTurns
    BY <1>1, BoundsAssumption
  <2>2. started' \in 0..Len(lines') /\ written' \in 0..started'
    BY <1>1 DEF IInv, TypeOK
  <2>3. QED BY <1>1, <2>1, <2>2 DEF IInv, TypeOK, Nodes
<1>3. Shape' /\ InHand'
  BY <1>1 DEF IInv, Shape, InHand, Playing, Calls
<1>4. Pending' /\ Numbered'
  BY <1>1 DEF IInv, Pending, Numbered, Started, Calls, Responses, Complete
<1>5. Dates'
  BY <1>1 DEF IInv, Dates, Started, Calls
<1>6. QED BY <1>1, <1>2, <1>3, <1>4, <1>5, LogUntouched DEF IInv

\* The clock's line goes between the first k lines and the others.
LEMMA AdvancedLine ==
    ASSUME TypeOK, AdvanceRound
    PROVE  \E k \in started..Len(lines) :
              /\ k \in Nat
              /\ lines' \in Seq(Event) /\ Len(lines') = Len(lines) + 1
              /\ DOMAIN lines' = 1..(Len(lines) + 1)
              /\ lines'[k + 1] = Advanced
              /\ \A i \in 1..k : lines'[i] = lines[i]
              /\ \A i \in (k + 1)..Len(lines) : lines'[i + 1] = lines[i]
<1>1. lines \in Seq(Event) /\ Len(lines) \in Nat /\ started \in Nat
      /\ \A i \in 1..Len(lines) : lines[i] \in Event
  BY DEF TypeOK
<1>2. Advanced \in Event
  BY DEF TypeOK, Advanced, Event, Kinds
<1>3. PICK k \in started..Len(lines) :
         lines' = Append(SubSeq(lines, 1, k), Advanced) \o SubSeq(lines, k + 1, Len(lines))
  BY DEF AdvanceRound
<1> DEFINE before == SubSeq(lines, 1, k)
           after == SubSeq(lines, k + 1, Len(lines))
<1>4. k \in Nat /\ k <= Len(lines)
  BY <1>1
<1>5. before \in Seq(Event) /\ Len(before) = k /\ \A i \in 1..k : before[i] = lines[i]
  <2>1. \A i \in 1..k : lines[i] \in Event
    BY <1>1, <1>4
  <2>2. QED BY <1>4, <2>1, SubSeqProperties
<1>6. after \in Seq(Event) /\ Len(after) = Len(lines) - k
      /\ \A i \in 1..(Len(lines) - k) : after[i] = lines[k + i]
  <2>1. \A i \in (k + 1)..Len(lines) : lines[i] \in Event
    BY <1>1, <1>4
  <2>2. k + 1 \in Int /\ Len(lines) \in Int
    BY <1>1, <1>4
  <2>3. /\ after \in Seq(Event)
        /\ Len(after) = IF k + 1 <= Len(lines) THEN Len(lines) - (k + 1) + 1 ELSE 0
        /\ \A i \in 1..(Len(lines) - (k + 1) + 1) : after[i] = lines[(k + 1) + i - 1]
    BY <2>1, <2>2, SubSeqProperties
  <2> HIDE DEF after
  <2>4. Len(after) = Len(lines) - k /\ Len(lines) - (k + 1) + 1 = Len(lines) - k
    BY <1>1, <1>4, <2>3
  <2>5. \A i \in 1..(Len(lines) - k) : (k + 1) + i - 1 = k + i
    BY <1>1, <1>4
  <2>6. QED BY <2>3, <2>4, <2>5
<1> HIDE DEF before, after
<1> DEFINE upto == Append(before, Advanced)
<1>7. upto \in Seq(Event) /\ Len(upto) = k + 1 /\ upto[k + 1] = Advanced
      /\ \A i \in 1..k : upto[i] = lines[i]
  BY <1>2, <1>4, <1>5, AppendProperties
<1>8. lines' = upto \o after
  BY <1>3 DEF before, after
<1> HIDE DEF upto
<1>9. /\ lines' \in Seq(Event) /\ Len(lines') = Len(lines) + 1
      /\ \A i \in 1..(Len(lines) + 1) :
            lines'[i] = IF i <= k + 1 THEN upto[i] ELSE after[i - (k + 1)]
  <2>1. Len(upto) + Len(after) = Len(lines) + 1
    BY <1>1, <1>4, <1>6, <1>7
  <2>2. QED BY <1>6, <1>7, <1>8, <2>1, ConcatProperties
<1>10. ASSUME NEW i \in (k + 1)..Len(lines) PROVE lines'[i + 1] = lines[i]
  <2>1. i + 1 \in 1..(Len(lines) + 1) /\ ~(i + 1 <= k + 1) /\ i + 1 - (k + 1) = i - k
        /\ i - k \in 1..(Len(lines) - k) /\ k + (i - k) = i
    BY <1>1, <1>4
  <2>2. lines'[i + 1] = after[i - k]
    BY <1>9, <2>1
  <2>3. QED BY <1>6, <2>1, <2>2
<1>11. lines'[k + 1] = Advanced /\ \A i \in 1..k : lines'[i] = lines[i]
  <2>1. k + 1 \in 1..(Len(lines) + 1) /\ k + 1 <= k + 1
        /\ \A i \in 1..k : i \in 1..(Len(lines) + 1) /\ i <= k + 1
    BY <1>1, <1>4
  <2>2. QED BY <1>7, <1>9, <2>1
<1>12. QED BY <1>1, <1>4, <1>9, <1>10, <1>11

\* So every line is the clock's or was there before, and keeps its place among those
\* that were.
LEMMA AdvancedBetween ==
    ASSUME TypeOK, AdvanceRound
    PROVE  \E k \in started..Len(lines) :
              /\ k \in Nat /\ Len(lines) \in Nat /\ DOMAIN lines = 1..Len(lines)
              /\ lines' \in Seq(Event) /\ Len(lines') = Len(lines) + 1
              /\ DOMAIN lines' = 1..(Len(lines) + 1)
              /\ k + 1 \in DOMAIN lines' /\ lines'[k + 1] = Advanced
              /\ \A i \in 1..k : i \in DOMAIN lines /\ lines'[i] = lines[i]
              /\ \A i \in (k + 1)..Len(lines) : i \in DOMAIN lines /\ lines'[i + 1] = lines[i]
              /\ \A i \in DOMAIN lines' : \/ i = k + 1
                                          \/ i \in 1..k /\ lines'[i] = lines[i]
                                          \/ /\ i - 1 \in (k + 1)..Len(lines)
                                             /\ i - 1 \in DOMAIN lines
                                             /\ lines'[i] = lines[i - 1]
              /\ \A i \in DOMAIN lines : \E j \in {i, i + 1} :
                    j \in DOMAIN lines' /\ j # k + 1 /\ lines'[j] = lines[i]
<1>1. PICK k \in started..Len(lines) :
         /\ k \in Nat
         /\ lines' \in Seq(Event) /\ Len(lines') = Len(lines) + 1
         /\ DOMAIN lines' = 1..(Len(lines) + 1)
         /\ lines'[k + 1] = Advanced
         /\ \A i \in 1..k : lines'[i] = lines[i]
         /\ \A i \in (k + 1)..Len(lines) : lines'[i + 1] = lines[i]
  BY AdvancedLine
<1>2. Len(lines) \in Nat /\ DOMAIN lines = 1..Len(lines) /\ started \in Nat
  BY DEF TypeOK
<1>3. k <= Len(lines) /\ k + 1 \in DOMAIN lines'
  BY <1>1, <1>2
<1>4. ASSUME NEW i \in DOMAIN lines'
      PROVE  \/ i = k + 1
             \/ i \in 1..k /\ lines'[i] = lines[i]
             \/ i - 1 \in (k + 1)..Len(lines) /\ i - 1 \in DOMAIN lines /\ lines'[i] = lines[i - 1]
  <2>1. i = k + 1 \/ i \in 1..k \/ (i - 1 \in (k + 1)..Len(lines) /\ (i - 1) + 1 = i)
    <3>1. i \in 1..(Len(lines) + 1) /\ k \in Nat /\ Len(lines) \in Nat
      BY <1>1, <1>2
    <3>2. QED BY <3>1
  <2>2. ASSUME i - 1 \in (k + 1)..Len(lines), (i - 1) + 1 = i
        PROVE  i - 1 \in DOMAIN lines /\ lines'[i] = lines[i - 1]
    <3>1. lines'[(i - 1) + 1] = lines[i - 1]
      BY <1>1, <2>2
    <3>2. QED BY <1>1, <1>2, <2>2, <3>1
  <2>3. QED BY <1>1, <2>1, <2>2
<1>5. ASSUME NEW i \in DOMAIN lines
      PROVE  \E j \in {i, i + 1} : j \in DOMAIN lines' /\ j # k + 1 /\ lines'[j] = lines[i]
  <2>1. CASE i \in 1..k
    <3>1. i \in DOMAIN lines' /\ i # k + 1
      BY <1>1, <1>2, <1>3, <2>1
    <3>2. QED BY <1>1, <2>1, <3>1
  <2>2. CASE i \in (k + 1)..Len(lines)
    <3>1. i + 1 \in DOMAIN lines' /\ i + 1 # k + 1
      BY <1>1, <1>2, <1>3, <2>2
    <3>2. QED BY <1>1, <2>2, <3>1
  <2>3. QED BY <1>1, <1>2, <1>3, <2>1, <2>2
<1>6. /\ \A i \in 1..k : i \in DOMAIN lines
      /\ \A i \in (k + 1)..Len(lines) : i \in DOMAIN lines
  BY <1>1, <1>2, <1>3
<1>7. QED BY <1>1, <1>2, <1>3, <1>4, <1>5, <1>6

\* Nothing that is said of the responses depends on where it went.
LEMMA AdvanceRoundStep == ASSUME IInv, AdvanceRound PROVE IInv'
<1>1. /\ now' = now + 1 /\ round' = round + 1 /\ started' = Len(lines')
      /\ UNCHANGED <<written, node, current, returned, context, checkpoint, turns, attempts,
                     completed, accumulated, mark, start, responses, mode, crashes>>
  BY DEF AdvanceRound, graphVars, cycleVars, stateVars
<1>2. now \in Nat /\ round \in Nat /\ started \in Nat /\ written \in Nat /\ Len(lines) \in Nat
      /\ written <= started /\ started <= Len(lines)
  BY DEF IInv, TypeOK
<1>3. Advanced.kind = "advanced" /\ Advanced.parts = {} /\ Advanced.at = now + 1
  BY DEF Advanced
<1>4. PICK k \in started..Len(lines) :
         /\ k \in Nat /\ DOMAIN lines = 1..Len(lines)
         /\ lines' \in Seq(Event) /\ Len(lines') = Len(lines) + 1
         /\ DOMAIN lines' = 1..(Len(lines) + 1)
         /\ lines'[k + 1] = Advanced
         /\ \A i \in DOMAIN lines' : \/ i = k + 1
                                     \/ i \in 1..k /\ lines'[i] = lines[i]
                                     \/ /\ i - 1 \in (k + 1)..Len(lines)
                                        /\ i - 1 \in DOMAIN lines
                                        /\ lines'[i] = lines[i - 1]
         /\ \A i \in 1..k : i \in DOMAIN lines /\ lines'[i] = lines[i]
         /\ \A i \in DOMAIN lines : \E j \in {i, i + 1} :
               j \in DOMAIN lines' /\ j # k + 1 /\ lines'[j] = lines[i]
  BY AdvancedBetween DEF IInv
<1>5. \A i \in DOMAIN lines' : lines'[i] = Advanced \/ \E j \in DOMAIN lines : lines'[i] = lines[j]
  BY <1>4
<1>6. \A i \in DOMAIN lines : \E j \in DOMAIN lines' : lines'[j] = lines[i]
  BY <1>4
<1>7. TypeOK'
  <2>1. started' \in 0..Len(lines') /\ written' \in 0..started' /\ now' \in Nat /\ round' \in Nat
    BY <1>1, <1>2, <1>4
  <2>2. QED BY <1>1, <1>4, <2>1 DEF IInv, TypeOK
<1>8. Shape' /\ InHand'
  BY <1>1 DEF IInv, Shape, InHand, Playing, Calls
<1>9. \A i \in Responses' : \E j \in Responses : lines'[i] = lines[j]
  BY <1>3, <1>5 DEF Responses
<1>10. Numbered'
  BY <1>1, <1>3, <1>5 DEF IInv, Numbered
<1>11. Dates'
  <2>1. \A i \in DOMAIN lines' : lines'[i].at <= now'
    BY <1>1, <1>2, <1>3, <1>5, EventFields DEF IInv, Dates
  <2>2. Started => start.at <= now' /\ start.round <= round'
    BY <1>1 DEF IInv, Dates, TypeOK
  <2>3. QED BY <1>1, <1>3, <1>5, <2>1, <2>2 DEF IInv, Dates, Calls, Started
<1>12. Pending'
  <2>1. \A i \in Responses' : lines'[i].parts \cap accumulated' = {}
    BY <1>1, <1>9 DEF IInv, Pending
  <2>2. Calls(accumulated') = Calls(accumulated) /\ Calls(current'.parts) = Calls(current.parts)
        /\ Started' = Started
    BY <1>1 DEF Calls, Started
  <2>3. \A c, kind : (\E j \in DOMAIN lines : lines[j].kind = kind /\ c \in lines[j].parts) =>
           \E j \in DOMAIN lines' : lines'[j].kind = kind /\ c \in lines'[j].parts
    BY <1>6
  <2>4. \A c \in Calls(accumulated') : \E j \in DOMAIN lines' :
           lines'[j].kind = "invoked" /\ c \in lines'[j].parts
    BY <2>2, <2>3 DEF IInv, Pending
  <2>5. \A c \in Calls(accumulated') : (node' = "tools" => c \in returned') =>
           \E j \in DOMAIN lines' : lines'[j].kind = "result" /\ c \in lines'[j].parts
    BY <1>1, <2>2, <2>3 DEF IInv, Pending
  <2>6. Complete(accumulated)'
    BY <1>1, <1>3, <1>5 DEF IInv, Pending, Complete
  <2>7. QED BY <1>1, <2>1, <2>2, <2>4, <2>5, <2>6 DEF IInv, Pending
<1>13. LoggedWhenBegun'
  BY <1>3, <1>5, <1>9 DEF IInv, LoggedWhenBegun
<1>14. LoggedWhole'
  <2>1. ASSUME NEW i \in Responses'
        PROVE  \E h \in Responses :
                  lines'[i] = lines[h] /\ ((i = h /\ h <= k) \/ (i = h + 1 /\ h > k))
    <3>1. i \in DOMAIN lines' /\ i # k + 1
      BY <1>3, <1>4, <2>1 DEF Responses
    <3>2. CASE i \in 1..k /\ lines'[i] = lines[i]
      BY <1>4, <2>1, <3>2 DEF Responses
    <3>3. CASE i - 1 \in (k + 1)..Len(lines) /\ i - 1 \in DOMAIN lines /\ lines'[i] = lines[i - 1]
      <4>1. i = (i - 1) + 1 /\ i - 1 > k
        BY <1>2, <1>4, <3>1, <3>3
      <4>2. i - 1 \in Responses
        BY <2>1, <3>3 DEF Responses
      <4>3. QED BY <3>3, <4>1, <4>2
    <3>4. QED BY <1>4, <3>1, <3>2, <3>3
  <2>2. ASSUME NEW i \in Responses', NEW c \in Calls(lines'[i].parts)
        PROVE  \E j, m \in 1..i : /\ lines'[j].kind = "invoked" /\ c \in lines'[j].parts
                                  /\ lines'[m].kind = "result" /\ c \in lines'[m].parts
    <3>1. PICK h \in Responses : lines'[i] = lines[h] /\ ((i = h /\ h <= k) \/ (i = h + 1 /\ h > k))
      BY <2>1
    <3>2. PICK j, m \in 1..h : /\ lines[j].kind = "invoked" /\ c \in lines[j].parts
                               /\ lines[m].kind = "result" /\ c \in lines[m].parts
      BY <2>2, <3>1 DEF IInv, LoggedWhole
    <3>3. ASSUME NEW x \in 1..h PROVE \E y \in 1..i : lines'[y] = lines[x]
      <4>1. h \in 1..Len(lines) /\ x \in DOMAIN lines
        BY <1>4 DEF Responses
      <4>2. CASE h <= k
        <5>1. x \in 1..k
          BY <1>2, <1>4, <4>1, <4>2
        <5>2. QED BY <1>2, <1>4, <3>1, <4>1, <4>2, <5>1
      <4>3. CASE h > k
        <5>1. i = h + 1
          BY <1>2, <1>4, <3>1, <4>1, <4>3
        <5>2. PICK y \in {x, x + 1} : lines'[y] = lines[x]
          BY <1>4, <4>1
        <5>3. y \in 1..i
          BY <1>2, <4>1, <5>1, <5>2
        <5>4. QED BY <5>2, <5>3
      <4>4. QED BY <1>2, <1>4, <4>1, <4>2, <4>3
    <3>4. QED BY <3>2, <3>3
  <2>3. \A i \in Responses' : \A c \in Calls(lines'[i].parts), p \in lines'[i].parts : p[1] <= c[1]
    BY <1>9 DEF IInv, LoggedWhole
  <2>4. ASSUME NEW i \in Responses', NEW j \in Responses' \ {i}
        PROVE  lines'[i].parts \cap lines'[j].parts = {}
    <3>1. PICK h \in Responses : lines'[i] = lines[h] /\ ((i = h /\ h <= k) \/ (i = h + 1 /\ h > k))
      BY <2>1
    <3>2. PICK m \in Responses : lines'[j] = lines[m] /\ ((j = m /\ m <= k) \/ (j = m + 1 /\ m > k))
      BY <2>1
    <3>3. h # m
      <4>1. h \in Nat /\ m \in Nat
        BY <1>2, <1>4 DEF Responses
      <4>2. QED BY <1>4, <2>4, <3>1, <3>2, <4>1
    <3>4. QED BY <3>1, <3>2, <3>3 DEF IInv, LoggedWhole
  <2>5. \A i \in Responses' : \A j \in DOMAIN lines' : lines'[j].kind = "invoked" =>
           \A c \in lines'[j].parts :
               (\E p \in lines'[i].parts : p[1] = c[1]) => c \in lines'[i].parts
    BY <1>3, <1>5, <1>9 DEF IInv, LoggedWhole
  <2>6. QED BY <2>2, <2>3, <2>4, <2>5 DEF LoggedWhole, Calls
<1>15. QED BY <1>7, <1>8, <1>10, <1>11, <1>12, <1>13, <1>14 DEF IInv

\* What the process leaves behind is what its log began with.
LEMMA CrashStep == ASSUME IInv, Crash PROVE IInv'
<1>1. /\ node' = "down" /\ DropResponse /\ crashes < MaxCrashes /\ crashes' = crashes + 1
      /\ context' = {} /\ checkpoint' = {} /\ completed' = {}
      /\ accumulated' = {} /\ mark' = {} /\ start' = NotStarted
      /\ turns' = 0 /\ attempts' = 0 /\ round' = 0
      /\ lines' \in Disks /\ started' = Len(lines') /\ written' = Len(lines')
      /\ now' \in Latest(lines')
      /\ UNCHANGED <<mode, responses>>
  BY DEF Crash
<1>2. lines \in Seq(Event) /\ Len(lines) \in Nat /\ written \in Nat
      /\ DOMAIN lines = 1..Len(lines)
  BY DEF IInv, TypeOK
<1>3. PICK w \in written..Len(lines) : lines' = SubSeq(lines, 1, w)
  BY <1>1 DEF Disks
<1>4. /\ lines' \in Seq(Event) /\ DOMAIN lines' = 1..w /\ w \in Nat /\ w <= Len(lines)
      /\ \A i \in 1..w : lines'[i] = lines[i]
  <2>1. w \in Nat /\ w <= Len(lines) /\ \A i \in 1..w : lines[i] \in Event
    BY <1>2, <1>3
  <2>2. SubSeq(lines, 1, w) \in Seq(Event) /\ Len(SubSeq(lines, 1, w)) = w
        /\ \A i \in 1..w : SubSeq(lines, 1, w)[i] = lines[i]
    BY <2>1, SubSeqProperties
  <2>3. QED BY <1>3, <2>1, <2>2
<1>5. \A i \in DOMAIN lines' : i \in DOMAIN lines /\ lines'[i] = lines[i]
  BY <1>2, <1>4
<1>6. now' \in Nat /\ \A i \in DOMAIN lines' : lines'[i].at <= now'
  BY <1>1, <1>5, EventFields DEF Latest, IInv
<1>7. Calls({}) = {}
  BY DEF Calls
<1>8. TypeOK'
  <2>1. start' \in [round : Nat, at : Nat] /\ attempts' \in 0..Attempts /\ turns' \in 0..MaxTurns
        /\ crashes' \in 0..MaxCrashes
    <3>1. crashes \in 0..MaxCrashes /\ crashes + 1 \in 0..MaxCrashes
      BY <1>1, BoundsAssumption DEF IInv, TypeOK
    <3>2. QED BY <1>1, <3>1, BoundsAssumption DEF NotStarted
  <2>2. current' \in [number : Nat, parts : SUBSET (Nat \X Nat), ends : BOOLEAN]
        /\ returned' \in SUBSET (Nat \X Nat)
    BY <1>1, Dropped DEF Parts
  <2>3. started' \in 0..Len(lines') /\ written' \in 0..started' /\ round' \in Nat
    BY <1>1, <1>4
  <2>4. context' = {} /\ checkpoint' = {} /\ completed' = {} /\ accumulated' = {} /\ mark' = {}
        /\ node' \in Nodes /\ mode' \in Modes /\ responses' \in 0..MaxResponses
    BY <1>1 DEF Nodes, IInv, TypeOK
  <2>5. QED BY <1>4, <1>6, <2>1, <2>2, <2>3, <2>4 DEF TypeOK
<1>9. Shape' /\ InHand'
  BY <1>1, <1>7, Dropped DEF Shape, InHand, Playing, Calls
<1>10. Pending' /\ Dates'
  BY <1>1, <1>6, <1>7 DEF Pending, Dates, Calls, Started, Complete
<1>11. Numbered'
  BY <1>1, <1>5 DEF IInv, Numbered
<1>12. \A i \in Responses' : i \in Responses /\ lines'[i] = lines[i]
  BY <1>5 DEF Responses
<1>13. LoggedWhole'
  <2>1. ASSUME NEW i \in Responses', NEW c \in Calls(lines'[i].parts)
        PROVE  \E j, k \in 1..i : /\ lines'[j].kind = "invoked" /\ c \in lines'[j].parts
                                  /\ lines'[k].kind = "result" /\ c \in lines'[k].parts
    <3>1. i \in Responses /\ c \in Calls(lines[i].parts)
      BY <1>12, <2>1
    <3>2. PICK j, k \in 1..i : /\ lines[j].kind = "invoked" /\ c \in lines[j].parts
                               /\ lines[k].kind = "result" /\ c \in lines[k].parts
      BY <3>1 DEF IInv, LoggedWhole
    <3>3. i \in 1..w
      BY <1>4 DEF Responses
    <3>4. lines'[j] = lines[j] /\ lines'[k] = lines[k]
      BY <1>4, <3>3
    <3>5. QED BY <3>2, <3>4
  <2>2. \A i \in Responses' : \A c \in Calls(lines'[i].parts), p \in lines'[i].parts : p[1] <= c[1]
    BY <1>12 DEF IInv, LoggedWhole
  <2>3. \A i \in Responses' : \A j \in Responses' \ {i} : lines'[i].parts \cap lines'[j].parts = {}
    BY <1>12 DEF IInv, LoggedWhole
  <2>4. \A i \in Responses' : \A j \in DOMAIN lines' : lines'[j].kind = "invoked" =>
           \A c \in lines'[j].parts :
               (\E p \in lines'[i].parts : p[1] = c[1]) => c \in lines'[i].parts
    BY <1>5, <1>12 DEF IInv, LoggedWhole
  <2>5. QED BY <2>1, <2>2, <2>3, <2>4 DEF LoggedWhole, Calls
<1>14. LoggedWhenBegun'
  BY <1>5, <1>12 DEF IInv, LoggedWhenBegun
<1>15. QED BY <1>8, <1>9, <1>10, <1>11, <1>13, <1>14 DEF IInv

\* A set of positions in a log has a last one.
LEMMA LastOf ==
    ASSUME NEW n \in Nat, NEW S \in SUBSET (1..n), S # {}
    PROVE  \E x \in S : \A y \in S : y <= x
<1> DEFINE T == {n - y : y \in S}
<1>1. T \in SUBSET Nat /\ T # {}
  <2>1. \A y \in S : n - y \in Nat
    BY SMT
  <2>2. PICK y : y \in S
    BY Zenon
  <2>3. n - y \in T
    BY <2>2, Zenon
  <2>4. QED BY <2>1, <2>3
<1> HIDE DEF T
<1>2. PICK m \in T : \A y \in T : ~ (<<y, m>> \in OpToRel(<, Nat))
  BY <1>1, NatLessThanWellFounded, WFMin
<1>3. \A y \in T : ~ (y < m)
  BY <1>1, <1>2 DEF OpToRel
<1>4. PICK x \in S : m = n - x
  BY <1>2 DEF T
<1>5. ASSUME NEW y \in S PROVE y <= x
  <2>1. n - y \in T
    BY DEF T
  <2>2. QED BY <1>3, <1>4, <2>1
<1>6. QED BY <1>5

LEMMA ResumeStep == ASSUME IInv, Resume PROVE IInv'
<1>1. /\ node = "down" /\ node' = "ready"
      /\ round' = LastAdvanced(lines, Walked(lines))
      /\ context' = Remembered(lines) /\ checkpoint' = Remembered(lines)
      /\ completed' = Remembered(lines)
      /\ UNCHANGED <<lines, started, written, now, current, returned, turns, attempts, accumulated,
                     mark, start, responses, mode, crashes>>
  BY DEF Resume, logVars, stateVars
<1>2. \A i \in DOMAIN lines : lines[i].parts \in SUBSET Parts
  BY EventFields DEF IInv
<1>3. Remembered(lines) \in SUBSET Parts
  BY <1>2 DEF Remembered, KeptCalls, KeptWords
<1>4. LastAdvanced(lines, Walked(lines)) \in Nat
  <2> DEFINE advances == {i \in Walked(lines) : lines[i].kind = "advanced"}
             x == CHOOSE i \in advances : \A j \in advances : j <= i
  <2>1. advances \in SUBSET (1..Len(lines)) /\ Len(lines) \in Nat
    BY DEF Walked, IInv, TypeOK
  <2>2. CASE advances # {}
    <3>1. \E i \in advances : \A j \in advances : j <= i
      <4> HIDE DEF advances
      <4> QED BY <2>1, <2>2, LastOf
    <3>2. x \in advances
      BY <3>1
    <3>3. lines[x].round \in Nat
      BY <3>2, EventFields DEF Walked, IInv
    <3>4. QED BY <2>2, <3>3 DEF LastAdvanced
  <2>3. CASE advances = {}
    BY <2>3 DEF LastAdvanced
  <2>4. QED BY <2>2, <2>3
<1>5. TypeOK'
  BY <1>1, <1>3, <1>4 DEF IInv, TypeOK, Nodes, Parts
<1>6. turns < MaxTurns /\ attempts < Attempts
  BY <1>1, BoundsAssumption DEF IInv, Shape
<1>7. Shape' /\ InHand' /\ Pending' /\ Numbered' /\ Dates'
  BY <1>1, <1>6 DEF IInv, Shape, InHand, Playing, Pending, Numbered, Dates, Started, Calls,
                    Responses, Complete
<1>8. QED BY <1>1, <1>5, <1>7, LogUntouched DEF IInv

-----------------------------------------------------------------------------
(* The theorems *)

LEMMA Begins == ASSUME Init PROVE IInv
<1> DEFINE e == [kind |-> "advanced", at |-> 1, round |-> 1, parts |-> {}, awaited |-> FALSE]
<1>1. e \in Event
  BY DEF Event, Kinds
<1>2. lines = <<e>> /\ lines \in Seq(Event) /\ Len(lines) = 1 /\ DOMAIN lines = {1}
      /\ lines[1] = e
  BY <1>1 DEF Init
<1>3. current \in [number : Nat, parts : SUBSET Parts, ends : BOOLEAN]
      /\ returned = {} /\ current.parts = {} /\ current.number = 0
  BY DEF Init, NoResponse, Parts
<1>4. IsFiniteSet({}) /\ Cardinality({}) = 0 /\ Calls({}) = {}
  BY FS_EmptySet DEF Calls
<1>5. {<<0, k>> : k \in 1..0} = {}
  BY SMT
<1>6. InHand
  BY <1>3, <1>4, <1>5 DEF Init, InHand
<1>7. TypeOK
  <2>1. start \in [round : Nat, at : Nat]
    BY DEF Init, NotStarted
  <2>2. attempts \in 0..Attempts /\ turns \in 0..MaxTurns /\ responses \in 0..MaxResponses
        /\ crashes \in 0..MaxCrashes
    BY BoundsAssumption DEF Init
  <2>3. QED BY <1>2, <1>3, <2>1, <2>2 DEF Init, TypeOK, Nodes, Parts
<1>8. Shape
  BY <1>4, BoundsAssumption DEF Init, Shape, Playing
<1>9. e.kind = "advanced" /\ e.parts = {} /\ e.at = 1
  OBVIOUS
<1>10. Responses = {}
  BY <1>2, <1>9 DEF Responses
<1>11. Pending /\ Numbered /\ LoggedWhole /\ LoggedWhenBegun
  BY <1>2, <1>4, <1>9, <1>10
  DEF Init, Pending, Numbered, LoggedWhole, LoggedWhenBegun, Complete
<1>12. Dates
  BY <1>2, <1>9 DEF Init, Dates, Started
<1>13. QED BY <1>6, <1>7, <1>8, <1>11, <1>12 DEF IInv

LEMMA Continues == ASSUME IInv, [Next]_vars PROVE IInv'
<1>1. CASE Next
  <2>1. CASE Respond
    BY <2>1, ResponseArrivesStep DEF Respond
  <2>2. CASE Return
    BY <2>2, ToolReturnsStep DEF Return
  <2>3. CASE End
    BY <2>3, CycleEndsStep DEF End
  <2>4. QED
    BY <1>1, <2>1, <2>2, <2>3, IssueRequestStep, PassGateStep, AttemptFailsStep, RetryStep,
       CycleFailsStep, CancelRunnerStep, LeaveStep, AdvanceRoundStep, CrashStep, ResumeStep
       DEF Next
<1>2. CASE UNCHANGED vars
  <2>1. UNCHANGED <<lines, started, written, now, round, node, current, returned, context,
                    checkpoint, turns, attempts, completed, accumulated, mark, start, mode, responses, crashes>>
    BY <1>2 DEF vars, logVars, graphVars, cycleVars, stateVars
  <2>2. TypeOK' /\ Shape' /\ InHand'
    BY <2>1 DEF IInv, TypeOK, Shape, InHand, Calls
  <2>3. Pending' /\ Numbered'
    BY <2>1 DEF IInv, Pending, Numbered, Started, Calls, Responses, Complete
  <2>4. Dates'
    BY <2>1 DEF IInv, Dates, Started, Calls
  <2>5. QED BY <2>1, <2>2, <2>3, <2>4, LogUntouched DEF IInv
<1>3. QED BY <1>1, <1>2

\* Every variable keeps its type, whatever the bounds.
THEOREM RunnerIsTyped == Spec => []TypeOK
<1>1. IInv => TypeOK
  BY DEF IInv
<1>2. QED BY <1>1, Begins, Continues, PTL DEF Spec

\* A response that calls tools is logged whole, in one line, once, and after the results
\* of its calls; only words of responses that called nothing may share its line.
THEOREM ResponsesAreLoggedWhole == Spec => []LoggedWhole
<1>1. IInv => LoggedWhole
  BY DEF IInv
<1>2. QED BY <1>1, Begins, Continues, PTL DEF Spec

\* Each logged response is dated after what it answers and before what it asks for.
THEOREM ResponsesAreDated == Spec => []LoggedWhenBegun
<1>1. IInv => LoggedWhenBegun
  BY DEF IInv
<1>2. QED BY <1>1, Begins, Continues, PTL DEF Spec

\* Within a cycle the conversation only grows, retries included.
THEOREM NothingIsForgotten == Spec => RetriesForgetNothing
<1> DEFINE Grows == turns' = turns /\ node' \notin {"gone", "down"} => context \subseteq context'
<1>1. ASSUME IInv, [Next]_vars PROVE [Grows]_vars
  <2>1. CASE UNCHANGED vars
    BY <2>1
  <2>2. CASE CycleFails
    <3>1. turns' = turns + 1
      BY <2>2 DEF CycleFails, NextCycle
    <3>2. turns \in Nat
      BY <1>1, BoundsAssumption DEF IInv, TypeOK
    <3>3. QED BY <3>1, <3>2
  <2>3. CASE End
    <3>1. turns' = turns + 1
      BY <2>3 DEF End, CycleEnds, NextCycle
    <3>2. turns \in Nat
      BY <1>1, BoundsAssumption DEF IInv, TypeOK
    <3>3. QED BY <3>1, <3>2
  <2>4. CASE IssueRequest \/ AttemptFails \/ CancelRunner
    BY <2>4 DEF IssueRequest, AttemptFails, CancelRunner
  <2>5. CASE Respond
    BY <2>5 DEF Respond, ResponseArrives
  <2>6. CASE PassGate
    BY <2>6 DEF PassGate
  <2>7. CASE Return
    <3>1. PICK call \in Calls(current.parts) : ToolReturns(call)
      BY <2>7 DEF Return
    <3>2. context' = context \/ context' = context \cup current.parts
      BY <3>1 DEF ToolReturns
    <3>3. QED BY <3>2
  <2>8. CASE Retry
    BY <1>1, <2>8 DEF Retry, IInv, Shape
  <2>9. CASE Leave \/ Crash
    BY <2>9 DEF Leave, Crash
  <2>10. CASE AdvanceRound
    BY <2>10 DEF AdvanceRound, graphVars
  <2>11. CASE Resume
    BY <1>1, <2>11 DEF Resume, IInv, Shape
  <2>12. QED
    BY <1>1, <2>1, <2>2, <2>3, <2>4, <2>5, <2>6, <2>7, <2>8, <2>9, <2>10, <2>11 DEF Next
<1>2. QED BY <1>1, Begins, Continues, PTL DEF Spec, RetriesForgetNothing

-----------------------------------------------------------------------------
(* What a resume is given back *)

\* e comes before f in a log: what is dated before a line that precedes it is a line
\* the clock overtook, or a response that its own calls precede.
Follows(e, f) ==
    \/ e.at <= f.at
    \/ f.kind # "advanced" /\ e.kind = "advanced"
    \/ f.kind = "response" /\ e.kind \in {"invoked", "result"} /\ e.parts \subseteq f.parts

\* The log is in order but for that, and the block to come will be.
Ordered ==
    /\ \A j \in DOMAIN lines : \A i \in 1..j : Follows(lines[i], lines[j])
    /\ Started => \A i \in DOMAIN lines :
          \/ lines[i].at <= start.at
          \/ lines[i].kind = "advanced"
          \/ lines[i].kind \in {"invoked", "result"} /\ lines[i].parts \subseteq accumulated

\* The clock has overtaken a line that is no response at most once, so with at most one
\* of its own lines, and no line whose task has not started.
Overtaking ==
    /\ \A j \in DOMAIN lines : \A i \in 1..j :
          lines[i].kind = "advanced" /\ lines[j].kind # "response" /\ ~(lines[i].at <= lines[j].at)
          => \A k \in (i + 1)..j : lines[k].kind # "advanced"
    /\ \A j \in DOMAIN lines : j > started =>
          /\ lines[j].kind # "advanced"
          /\ lines[j].kind # "response" => \A i \in 1..j : lines[i].at <= lines[j].at

\* No line of the clock is behind one whose task has not started.
LEMMA QueuedLater ==
    ASSUME TypeOK, Overtaking, NEW k \in started..Len(lines), NEW j \in (k + 1)..Len(lines)
    PROVE  /\ j \in DOMAIN lines /\ j > started /\ lines[j].kind # "advanced"
           /\ lines[j].kind # "response" => \A i \in 1..j : lines[i].at <= lines[j].at
<1>1. started \in Nat /\ Len(lines) \in Nat /\ DOMAIN lines = 1..Len(lines)
  BY DEF TypeOK
<1>2. j \in DOMAIN lines /\ j > started
  BY <1>1
<1>3. QED BY <1>2 DEF Overtaking

\* A log that grows by lines that follow every line before them stays in order.
LEMMA GrowsInOrder ==
    ASSUME TypeOK, Ordered, Extends,
           \A j \in NewLines : \A i \in 1..j : Follows(lines'[i], lines'[j])
    PROVE  \A j \in DOMAIN lines' : \A i \in 1..j : Follows(lines'[i], lines'[j])
<1>1. DOMAIN lines' = DOMAIN lines \cup NewLines /\ DOMAIN lines = 1..Len(lines)
      /\ Len(lines) \in Nat /\ \A i \in DOMAIN lines : lines'[i] = lines[i]
  BY ExtendsBy DEF TypeOK
<1>2. ASSUME NEW j \in DOMAIN lines, NEW i \in 1..j PROVE Follows(lines'[i], lines'[j])
  <2>1. i \in DOMAIN lines /\ Follows(lines[i], lines[j])
    BY <1>1, <1>2 DEF Ordered
  <2>2. QED BY <1>1, <2>1
<1>3. QED BY <1>1, <1>2

\* Every file the process may leave is what the log began with.
LEMMA DisksArePrefixes ==
    ASSUME TypeOK, NEW log \in Disks
    PROVE  /\ log \in Seq(Event) /\ Len(log) <= Len(lines)
           /\ \A j \in DOMAIN log : j \in DOMAIN lines /\ \A i \in 1..j :
                 log[i] = lines[i] /\ log[j] = lines[j]
<1>1. PICK w \in written..Len(lines) : log = SubSeq(lines, 1, w)
  BY DEF Disks
<1>2. w \in Nat /\ w <= Len(lines) /\ DOMAIN lines = 1..Len(lines) /\ Len(lines) \in Nat
      /\ \A i \in 1..w : lines[i] \in Event
  BY <1>1 DEF TypeOK
<1>3. log \in Seq(Event) /\ Len(log) = w /\ \A i \in 1..w : log[i] = lines[i]
  BY <1>1, <1>2, SubSeqProperties
<1>4. DOMAIN log = 1..w
  BY <1>3
<1>5. QED BY <1>2, <1>3, <1>4

\* One line dated after all the others is in order, whatever it says.
LEMMA LaterLineInOrder ==
    ASSUME IInv, Ordered, NEW e \in Event, lines' = Append(lines, e), e.at = now + 1
    PROVE  /\ \A j \in DOMAIN lines' : \A i \in 1..j : Follows(lines'[i], lines'[j])
           /\ \A i \in DOMAIN lines' : (i \in DOMAIN lines /\ lines'[i] = lines[i]) \/ lines'[i] = e
<1>1. Extends /\ NewLines = {Len(lines) + 1} /\ lines'[Len(lines) + 1] = e
  BY AppendExtends DEF IInv
<1>2. Len(lines) \in Nat /\ now \in Nat /\ DOMAIN lines = 1..Len(lines)
  BY DEF IInv, TypeOK
<1>3. DOMAIN lines' = DOMAIN lines \cup NewLines /\ \A i \in DOMAIN lines : lines'[i] = lines[i]
  BY <1>1, ExtendsBy DEF IInv, TypeOK
<1>4. ASSUME NEW i \in 1..(Len(lines) + 1) PROVE Follows(lines'[i], e)
  <2>1. CASE i \in DOMAIN lines
    <3>1. lines[i].at <= now /\ lines[i].at \in Nat
      BY <2>1, EventFields DEF IInv, Dates
    <3>2. QED BY <1>2, <1>3, <2>1, <3>1 DEF Follows
  <2>2. CASE i = Len(lines) + 1
    BY <1>1, <1>2, <2>2 DEF Follows
  <2>3. QED BY <1>2, <2>1, <2>2
<1>5. QED BY <1>1, <1>3, <1>4, GrowsInOrder DEF IInv

\* The block, when it is logged, follows every line before it.
LEMMA FlushInOrder ==
    ASSUME IInv, Ordered, NEW a \in BOOLEAN, FlushResponse(a)
    PROVE  Ordered'
<1>1. Extends /\ \A i \in NewLines :
         /\ i = Len(lines) + 1
         /\ lines'[i].kind = "response" /\ lines'[i].parts = accumulated
         /\ lines'[i].at = IF Started THEN start.at ELSE now + 1
  BY FlushLine
<1>2. DOMAIN lines = 1..Len(lines) /\ Len(lines) \in Nat /\ now \in Nat
      /\ start \in [round : Nat, at : Nat]
  BY DEF IInv, TypeOK
<1>3. \A i \in DOMAIN lines : lines'[i] = lines[i]
  BY <1>1, ExtendsBy DEF IInv, TypeOK
<1>4. ASSUME NEW j \in NewLines, NEW i \in 1..j PROVE Follows(lines'[i], lines'[j])
  <2>1. CASE i \in DOMAIN lines
    <3>1. lines'[i] = lines[i] /\ lines[i].at <= now /\ lines[i].at \in Nat
      BY <1>3, <2>1, EventFields DEF IInv, Dates
    <3>2. CASE Started
      BY <1>1, <1>4, <2>1, <3>1, <3>2 DEF Ordered, Follows
    <3>3. CASE ~Started
      BY <1>1, <1>2, <1>4, <3>1, <3>3 DEF Follows
    <3>4. QED BY <3>2, <3>3
  <2>2. CASE i = j
    BY <1>1, <1>2, <2>2 DEF Follows
  <2>3. QED BY <1>1, <1>2, <1>4, <2>1, <2>2
<1>5. ~Started'
  BY DEF FlushResponse, Started
<1>6. QED BY <1>1, <1>4, <1>5, GrowsInOrder DEF IInv, Ordered

LEMMA StaysInOrder == ASSUME IInv, Ordered, Overtaking, [Next]_vars PROVE Ordered'
<1>1. CASE IssueRequest
  <2>1. CASE Calls(accumulated) # {}
    BY <1>1, <2>1, FlushInOrder DEF IssueRequest
  <2>2. CASE Calls(accumulated) = {}
    BY <1>1, <2>2 DEF IssueRequest, Ordered, Started, logVars, stateVars
  <2>3. QED BY <2>1, <2>2
<1>2. CASE Respond
  <2>1. lines' = lines /\ accumulated \subseteq accumulated'
    BY <1>2 DEF Respond, ResponseArrives
  <2>2. start' = start \/ start'.at = now + 1
    BY <1>2 DEF Respond, ResponseArrives, NoteStart
  <2>3. now \in Nat /\ \A i \in DOMAIN lines : lines[i].at \in Nat /\ lines[i].at <= now
    BY EventFields DEF IInv, Dates, TypeOK
  <2>4. CASE start' = start
    BY <2>1, <2>4 DEF Ordered, Started
  <2>5. CASE start'.at = now + 1
    BY <2>1, <2>3, <2>5 DEF Ordered
  <2>6. QED BY <2>2, <2>4, <2>5
<1>3. CASE PassGate
  <2> DEFINE n == Cardinality(Calls(current.parts))
  <2>1. CASE n = 0
    BY <1>3, <2>1 DEF PassGate, Ordered, Started
  <2>2. CASE n > 0
    <3>1. /\ n \in Nat /\ Extends /\ Len(lines') = Len(lines) + n
          /\ \A i \in NewLines : \E k \in 1..n :
                lines'[i].kind = "invoked" /\ lines'[i].parts = {<<responses, k>>}
          /\ \A k \in 1..n : lines'[Len(lines) + k].at = NotedAt + k
      BY <1>3, <2>2, AnnounceLines
    <3>2. start' = NoteStart /\ accumulated' = accumulated \cup Calls(current.parts)
          /\ Calls(current.parts) = {<<responses, k>> : k \in 1..n}
      BY <1>3, <2>2 DEF PassGate, IInv, InHand
    <3> HIDE DEF n
    <3>3. NotedAt \in Nat /\ now \in Nat /\ now <= NotedAt /\ Len(lines) \in Nat
          /\ DOMAIN lines = 1..Len(lines)
      BY DEF NotedAt, IInv, TypeOK
    <3>4. \A i \in DOMAIN lines : lines'[i] = lines[i] /\ lines[i].at \in Nat /\ lines[i].at <= now
      BY <3>1, ExtendsBy, EventFields DEF IInv, TypeOK, Dates
    <3>5. ASSUME NEW j \in NewLines, NEW i \in 1..j PROVE Follows(lines'[i], lines'[j])
      <4>1. j - Len(lines) \in 1..n /\ lines'[j].at = NotedAt + (j - Len(lines))
        <5>1. j - Len(lines) \in 1..n /\ Len(lines) + (j - Len(lines)) = j
          BY <3>1, <3>3 DEF NewLines
        <5>2. QED BY <3>1, <5>1
      <4>2. CASE i <= Len(lines)
        BY <3>3, <3>4, <4>1, <4>2 DEF Follows
      <4>3. CASE i > Len(lines)
        <5>1. i - Len(lines) \in 1..n /\ Len(lines) + (i - Len(lines)) = i
          BY <3>1, <3>3, <4>3 DEF NewLines
        <5>2. lines'[i].at = NotedAt + (i - Len(lines))
          BY <3>1, <5>1
        <5>3. i \in Nat /\ j \in Nat /\ i <= j
          BY <3>3, <4>3 DEF NewLines
        <5>4. NotedAt + (i - Len(lines)) <= NotedAt + (j - Len(lines))
          BY <3>3, <5>3
        <5>5. QED BY <4>1, <5>2, <5>4 DEF Follows
      <4>4. QED BY <3>3, <4>2, <4>3 DEF NewLines
    <3>6. \A j \in DOMAIN lines' : \A i \in 1..j : Follows(lines'[i], lines'[j])
      BY <3>1, <3>5, GrowsInOrder DEF IInv
    <3>7. DOMAIN lines' = DOMAIN lines \cup NewLines
      BY <3>1, ExtendsBy DEF IInv, TypeOK
    <3>8. \A i \in NewLines : lines'[i].kind = "invoked" /\ lines'[i].parts \subseteq accumulated'
      BY <3>1, <3>2
    <3>9. ASSUME NEW i \in DOMAIN lines
          PROVE  \/ lines[i].at <= start'.at \/ lines[i].kind = "advanced"
                 \/ lines[i].kind \in {"invoked", "result"} /\ lines[i].parts \subseteq accumulated'
      <4>1. CASE Started
        BY <3>2, <4>1 DEF Ordered, NoteStart
      <4>2. CASE ~Started
        BY <3>2, <3>3, <3>4, <4>2 DEF NoteStart
      <4>3. QED BY <4>1, <4>2
    <3>10. QED BY <3>4, <3>6, <3>7, <3>8, <3>9 DEF Ordered
  <2>3. QED BY <1>3, <2>1, <2>2 DEF PassGate
<1>4. CASE Return
  <2>1. PICK call \in Calls(current.parts) : ToolReturns(call)
    BY <1>4 DEF Return
  <2> DEFINE e == NewEvent("result", now + 1, {call}, TRUE)
  <2>2. lines' = Append(lines, e) /\ start' = start /\ accumulated' = accumulated
        /\ node = "tools"
    BY <2>1 DEF ToolReturns, stateVars
  <2>3. e \in Event /\ e.at = now + 1 /\ e.kind = "result" /\ e.parts = {call}
    <3>1. now \in Nat /\ round \in Nat /\ call \in Nat \X Nat
      BY DEF IInv, TypeOK, Calls
    <3>2. QED BY <3>1 DEF NewEvent, Event, Kinds
  <2>4. call \in accumulated
    BY <2>2 DEF IInv, Pending, Calls
  <2> HIDE DEF e
  <2>5. /\ \A j \in DOMAIN lines' : \A i \in 1..j : Follows(lines'[i], lines'[j])
        /\ \A i \in DOMAIN lines' : (i \in DOMAIN lines /\ lines'[i] = lines[i]) \/ lines'[i] = e
    BY <2>2, <2>3, LaterLineInOrder
  <2>6. QED BY <2>2, <2>3, <2>4, <2>5 DEF Ordered, Started
<1>5. CASE AttemptFails
  BY <1>5, AttemptFailsStep DEF AttemptFails, Ordered, IInv, Shape, Started, logVars
<1>6. CASE Retry
  BY <1>6 DEF Retry, Ordered, Started
<1>7. CASE CycleFails
  <2> DEFINE e == NewEvent("failed", now + 1, {}, TRUE)
  <2>1. lines' = Append(lines, e) /\ ~Started'
    BY <1>7 DEF CycleFails, Started
  <2>2. e \in Event /\ e.at = now + 1
    BY DEF IInv, TypeOK, NewEvent, Event, Kinds
  <2> HIDE DEF e
  <2>3. QED BY <2>1, <2>2, LaterLineInOrder DEF Ordered
<1>8. CASE End
  BY <1>8, FlushInOrder DEF End, CycleEnds
<1>9. CASE CancelRunner
  BY <1>9 DEF CancelRunner, Ordered, Started, logVars
<1>10. CASE Leave \/ Resume
  BY <1>10 DEF Leave, Resume, Ordered, Started, logVars, stateVars
<1>11. CASE AdvanceRound
  <2>1. /\ start' = start /\ accumulated' = accumulated
        /\ Advanced.kind = "advanced" /\ Advanced.at = now + 1
    BY <1>11 DEF AdvanceRound, stateVars, Advanced
  <2>2. PICK k \in started..Len(lines) :
           /\ k \in Nat /\ Len(lines) \in Nat /\ DOMAIN lines = 1..Len(lines)
           /\ DOMAIN lines' = 1..(Len(lines) + 1)
           /\ lines'[k + 1] = Advanced
           /\ \A i \in DOMAIN lines' : \/ i = k + 1
                                       \/ i \in 1..k /\ lines'[i] = lines[i]
                                       \/ /\ i - 1 \in (k + 1)..Len(lines)
                                          /\ i - 1 \in DOMAIN lines
                                          /\ lines'[i] = lines[i - 1]
           /\ \A i \in 1..k : i \in DOMAIN lines
    BY <1>11, AdvancedBetween DEF IInv
  <2>3. now \in Nat /\ \A i \in DOMAIN lines : lines[i].at \in Nat /\ lines[i].at <= now
    BY EventFields DEF IInv, Dates, TypeOK
  <2>4. ASSUME NEW j \in (k + 1)..Len(lines), j \in DOMAIN lines
        PROVE  Follows(Advanced, lines[j])
    <3>1. lines[j].kind # "advanced"
      BY <2>2, <2>4, QueuedLater DEF IInv
    <3>2. QED BY <2>1, <3>1 DEF Follows
  <2>5. ASSUME NEW j \in DOMAIN lines', NEW i \in 1..j PROVE Follows(lines'[i], lines'[j])
    <3>1. i \in DOMAIN lines'
      BY <2>2
    <3>2. CASE j \in 1..k /\ lines'[j] = lines[j]
      <4>1. i \in 1..k /\ i \in 1..j /\ j \in DOMAIN lines
        BY <2>2, <3>1, <3>2
      <4>2. lines'[i] = lines[i]
        BY <2>2, <3>1, <4>1
      <4>3. QED BY <3>2, <4>1, <4>2 DEF Ordered
    <3>3. CASE j = k + 1
      <4>1. lines'[i] = Advanced \/ (i \in DOMAIN lines /\ lines'[i] = lines[i])
        BY <2>2, <3>1, <3>3
      <4>2. lines'[i].at <= Advanced.at
        BY <2>1, <2>3, <4>1
      <4>3. QED BY <2>2, <3>3, <4>2 DEF Follows
    <3>4. CASE j - 1 \in (k + 1)..Len(lines) /\ j - 1 \in DOMAIN lines /\ lines'[j] = lines[j - 1]
      <4>1. CASE i \in 1..k /\ lines'[i] = lines[i]
        <5>1. i \in 1..(j - 1)
          BY <2>2, <3>4, <4>1
        <5>2. QED BY <3>4, <4>1, <5>1 DEF Ordered
      <4>2. CASE i = k + 1
        BY <2>2, <2>4, <3>4, <4>2
      <4>3. CASE i - 1 \in (k + 1)..Len(lines) /\ lines'[i] = lines[i - 1]
        <5>1. i - 1 \in 1..(j - 1)
          BY <2>2, <3>4, <4>3
        <5>2. QED BY <3>4, <4>3, <5>1 DEF Ordered
      <4>4. QED BY <2>2, <3>1, <4>1, <4>2, <4>3
    <3>5. QED BY <2>2, <3>2, <3>3, <3>4
  <2>6. \A i \in DOMAIN lines' : lines'[i] = Advanced \/ \E j \in DOMAIN lines : lines'[i] = lines[j]
    BY <2>2
  <2>7. QED BY <2>1, <2>5, <2>6 DEF Ordered, Started
<1>12. CASE Crash
  <2>1. lines' \in Disks /\ ~Started'
    BY <1>12 DEF Crash, Started
  <2>2. \A j \in DOMAIN lines' : j \in DOMAIN lines /\ \A i \in 1..j :
           lines'[i] = lines[i] /\ lines'[j] = lines[j]
    BY <2>1, DisksArePrefixes DEF IInv
  <2>3. QED BY <2>1, <2>2 DEF Ordered
<1>13. CASE UNCHANGED vars
  BY <1>13 DEF vars, Ordered, Started, logVars, stateVars
<1>14. QED
  BY <1>1, <1>2, <1>3, <1>4, <1>5, <1>6, <1>7, <1>8, <1>9, <1>10, <1>11, <1>12, <1>13 DEF Next

\* A log that grows at its end by lines dated after those before them, responses apart,
\* is overtaken by nothing.
LEMMA NotOvertaken ==
    ASSUME TypeOK, Overtaking, Extends, started' \in started..Len(lines'),
           \A j \in NewLines :
              /\ lines'[j].kind # "advanced"
              /\ lines'[j].kind # "response" => \A i \in 1..j : lines'[i].at <= lines'[j].at
    PROVE  Overtaking'
<1>1. DOMAIN lines' = DOMAIN lines \cup NewLines /\ DOMAIN lines = 1..Len(lines)
      /\ Len(lines) \in Nat /\ \A i \in DOMAIN lines : lines'[i] = lines[i]
  BY ExtendsBy DEF TypeOK
<1>2. started \in Nat /\ started' \in Nat /\ started <= started' /\ NewLines \subseteq Nat
      /\ Len(lines') \in Nat
  BY DEF TypeOK, Extends, NewLines
<1>3. \A j \in DOMAIN lines : \A i \in 1..j : i \in DOMAIN lines /\ lines'[i] = lines[i]
  BY <1>1
<1>4. ASSUME NEW j \in DOMAIN lines', NEW i \in 1..j,
             lines'[i].kind = "advanced", lines'[j].kind # "response",
             ~(lines'[i].at <= lines'[j].at), NEW k \in (i + 1)..j
      PROVE  lines'[k].kind # "advanced"
  <2>1. CASE j \in DOMAIN lines
    <3>1. k \in 1..j
      BY <1>1, <2>1
    <3>2. QED BY <1>3, <1>4, <2>1, <3>1 DEF Overtaking
  <2>2. CASE j \in NewLines
    BY <1>4, <2>2
  <2>3. QED BY <1>1, <2>1, <2>2
<1>5. ASSUME NEW j \in DOMAIN lines', j > started'
      PROVE  /\ lines'[j].kind # "advanced"
             /\ lines'[j].kind # "response" => \A i \in 1..j : lines'[i].at <= lines'[j].at
  <2>1. CASE j \in DOMAIN lines
    <3>1. j > started /\ lines'[j] = lines[j]
      BY <1>1, <1>2, <1>5, <2>1
    <3>2. QED BY <1>3, <2>1, <3>1 DEF Overtaking
  <2>2. CASE j \in NewLines
    BY <2>2
  <2>3. QED BY <1>1, <2>1, <2>2
<1>6. QED BY <1>4, <1>5 DEF Overtaking

LEMMA StaysOvertaken == ASSUME IInv, Overtaking, [Next]_vars PROVE Overtaking'
<1>1. /\ lines \in Seq(Event) /\ Len(lines) \in Nat /\ now \in Nat /\ DOMAIN lines = 1..Len(lines)
      /\ started \in Nat /\ started <= Len(lines) /\ TypeOK
  BY DEF IInv, TypeOK
<1>2. \A i \in DOMAIN lines : lines[i].at \in Nat /\ lines[i].at <= now
  BY EventFields DEF IInv, Dates
<1>3. ASSUME UNCHANGED lines, started' \in {started, Len(lines)} PROVE Overtaking'
  <2>1. Extends /\ NewLines = {} /\ started' \in started..Len(lines')
    BY <1>1, <1>3 DEF Extends, NewLines
  <2>2. QED BY <1>1, <2>1, NotOvertaken
<1>4. ASSUME NEW e \in Event, lines' = Append(lines, e), e.kind # "advanced", e.at = now + 1,
             started' \in {started, Len(lines)}
      PROVE  Overtaking'
  <2>1. Extends /\ NewLines = {Len(lines) + 1} /\ lines'[Len(lines) + 1] = e
        /\ Len(lines') = Len(lines) + 1
    BY <1>4, AppendExtends DEF IInv
  <2>2. \A i \in DOMAIN lines : lines'[i] = lines[i]
    BY <1>1, <2>1, ExtendsBy
  <2>3. \A i \in 1..(Len(lines) + 1) : lines'[i].at <= e.at
    <3> TAKE i \in 1..(Len(lines) + 1)
    <3>1. i \in DOMAIN lines \/ i = Len(lines) + 1
      BY <1>1
    <3>2. QED BY <1>1, <1>2, <1>4, <2>1, <2>2, <3>1
  <2>4. started' \in started..Len(lines')
    BY <1>1, <1>4, <2>1
  <2>5. QED BY <1>1, <1>4, <2>1, <2>3, <2>4, NotOvertaken
<1>5. ASSUME NEW a \in BOOLEAN, FlushResponse(a) PROVE Overtaking'
  <2>1. Extends /\ \A i \in NewLines : lines'[i].kind = "response"
    BY <1>5, FlushLine
  <2>2. started' \in started..Len(lines')
    BY <1>1, <1>5, <2>1 DEF FlushResponse, Extends
  <2>3. QED BY <1>1, <2>1, <2>2, NotOvertaken
<1>6. CASE IssueRequest
  BY <1>3, <1>5, <1>6 DEF IssueRequest, logVars
<1>7. CASE Respond \/ Retry \/ Leave
  BY <1>3, <1>7 DEF Respond, ResponseArrives, Retry, Leave
<1>8. CASE PassGate
  <2> DEFINE n == Cardinality(Calls(current.parts))
  <2>1. CASE n = 0
    BY <1>3, <1>8, <2>1 DEF PassGate
  <2>2. CASE n > 0
    <3>1. /\ n \in Nat /\ Extends /\ Len(lines') = Len(lines) + n
          /\ \A i \in NewLines : \E k \in 1..n : lines'[i].kind = "invoked"
          /\ \A k \in 1..n : lines'[Len(lines) + k].at = NotedAt + k
      BY <1>8, <2>2, AnnounceLines
    <3>2. started' = started
      BY <1>8 DEF PassGate
    <3> HIDE DEF n
    <3>3. NotedAt \in Nat /\ now <= NotedAt
      BY <1>1 DEF NotedAt
    <3>4. \A i \in DOMAIN lines : lines'[i] = lines[i]
      BY <1>1, <3>1, ExtendsBy
    <3>5. ASSUME NEW i \in 1..Len(lines'), i > Len(lines)
          PROVE  lines'[i].at = NotedAt + (i - Len(lines))
      <4>1. i - Len(lines) \in 1..n /\ Len(lines) + (i - Len(lines)) = i
        BY <1>1, <3>1, <3>5
      <4>2. QED BY <3>1, <4>1
    <3>6. ASSUME NEW j \in NewLines, NEW i \in 1..j PROVE lines'[i].at <= lines'[j].at
      <4>1. j \in 1..Len(lines') /\ j > Len(lines) /\ i \in 1..Len(lines') /\ i <= j
        BY <1>1, <3>1 DEF NewLines
      <4>2. lines'[j].at = NotedAt + (j - Len(lines))
        BY <3>5, <4>1
      <4>3. CASE i \in DOMAIN lines
        BY <1>1, <1>2, <3>3, <3>4, <4>1, <4>2, <4>3
      <4>4. CASE i > Len(lines)
        <5>1. lines'[i].at = NotedAt + (i - Len(lines))
          BY <3>5, <4>1, <4>4
        <5>2. QED BY <1>1, <3>1, <3>3, <4>1, <4>2, <5>1
      <4>5. QED BY <1>1, <4>1, <4>3, <4>4
    <3>7. started' \in started..Len(lines')
      BY <1>1, <3>1, <3>2
    <3>8. \A j \in NewLines : lines'[j].kind = "invoked"
      BY <3>1
    <3>9. QED BY <1>1, <3>1, <3>6, <3>7, <3>8, NotOvertaken
  <2>3. QED BY <1>8, <2>1, <2>2 DEF PassGate
<1>9. CASE Return
  <2>1. PICK call \in Calls(current.parts) : ToolReturns(call)
    BY <1>9 DEF Return
  <2> DEFINE e == NewEvent("result", now + 1, {call}, TRUE)
  <2>2. lines' = Append(lines, e) /\ started' \in {started, Len(lines)}
    BY <2>1 DEF ToolReturns
  <2>3. e \in Event /\ e.at = now + 1 /\ e.kind # "advanced"
    <3>1. round \in Nat /\ call \in Nat \X Nat
      BY DEF IInv, TypeOK, Calls
    <3>2. QED BY <1>1, <3>1 DEF NewEvent, Event, Kinds
  <2> HIDE DEF e
  <2>4. QED BY <1>4, <2>2, <2>3
<1>10. CASE AttemptFails \/ CancelRunner \/ Resume
  BY <1>3, <1>10 DEF AttemptFails, CancelRunner, Resume, logVars
<1>11. CASE CycleFails
  <2> DEFINE e == NewEvent("failed", now + 1, {}, TRUE)
  <2>1. lines' = Append(lines, e) /\ started' = started
    BY <1>11 DEF CycleFails
  <2>2. e \in Event /\ e.at = now + 1 /\ e.kind # "advanced"
    BY DEF IInv, TypeOK, NewEvent, Event, Kinds
  <2> HIDE DEF e
  <2>3. QED BY <1>4, <2>1, <2>2
<1>12. CASE End
  BY <1>5, <1>12 DEF End, CycleEnds
<1>13. CASE AdvanceRound
  <2>1. started' = Len(lines')
    BY <1>13 DEF AdvanceRound
  <2>2. PICK k \in started..Len(lines) :
           /\ k \in Nat
           /\ DOMAIN lines' = 1..(Len(lines) + 1) /\ Len(lines') = Len(lines) + 1
           /\ lines'[k + 1] = Advanced
           /\ \A i \in DOMAIN lines' : \/ i = k + 1
                                       \/ i \in 1..k /\ lines'[i] = lines[i]
                                       \/ /\ i - 1 \in (k + 1)..Len(lines)
                                          /\ i - 1 \in DOMAIN lines
                                          /\ lines'[i] = lines[i - 1]
           /\ \A i \in 1..k : i \in DOMAIN lines
    BY <1>13, AdvancedBetween DEF IInv
  <2>3. Advanced.at = now + 1
    BY DEF Advanced
  <2>4. \A i \in (k + 2)..(Len(lines) + 1) : lines'[i].kind # "advanced"
    <3> TAKE i \in (k + 2)..(Len(lines) + 1)
    <3>1. i - 1 \in (k + 1)..Len(lines) /\ lines'[i] = lines[i - 1]
      BY <1>1, <2>2
    <3>2. QED BY <1>1, <3>1, QueuedLater
  <2>5. ASSUME NEW j \in DOMAIN lines', NEW i \in 1..j,
               lines'[i].kind = "advanced", lines'[j].kind # "response",
               ~(lines'[i].at <= lines'[j].at), NEW m \in (i + 1)..j
        PROVE  lines'[m].kind # "advanced"
    <3>1. i \in DOMAIN lines' /\ m \in DOMAIN lines' /\ i < m /\ m <= j /\ j <= Len(lines) + 1
      BY <1>1, <2>2
    <3>2. CASE i >= k + 1
      BY <1>1, <2>2, <2>4, <3>1, <3>2
    <3>3. CASE i \in 1..k /\ lines'[i] = lines[i]
      <4>1. CASE j \in 1..k /\ lines'[j] = lines[j]
        <5>1. m \in 1..k /\ m \in (i + 1)..j /\ lines'[m] = lines[m]
          BY <1>1, <2>2, <3>1, <4>1
        <5>2. QED BY <2>2, <2>5, <3>3, <4>1, <5>1 DEF Overtaking
      <4>2. CASE j = k + 1
        BY <1>1, <1>2, <2>2, <2>3, <2>5, <3>3, <4>2
      <4>3. CASE j - 1 \in (k + 1)..Len(lines) /\ lines'[j] = lines[j - 1]
        <5>1. i \in 1..(j - 1)
          BY <1>1, <2>2, <3>3, <4>3
        <5>2. lines[i].at <= lines[j - 1].at
          BY <1>1, <2>5, <4>3, <5>1, QueuedLater
        <5>3. QED BY <2>5, <3>3, <4>3, <5>2
      <4>4. QED BY <2>2, <4>1, <4>2, <4>3
    <3>4. QED BY <1>1, <2>2, <3>1, <3>2, <3>3
  <2>6. \A j \in DOMAIN lines' : ~(j > started')
    BY <1>1, <2>1, <2>2
  <2>7. QED BY <2>5, <2>6 DEF Overtaking
<1>14. CASE Crash
  <2>1. lines' \in Disks /\ started' = Len(lines')
    BY <1>14 DEF Crash
  <2>2. lines' \in Seq(Event) /\ \A j \in DOMAIN lines' : j \in DOMAIN lines /\ \A i \in 1..j :
           lines'[i] = lines[i] /\ lines'[j] = lines[j]
    BY <1>1, <2>1, DisksArePrefixes
  <2>3. DOMAIN lines' = 1..Len(lines') /\ Len(lines') \in Nat
    BY <2>2
  <2>4. \A j \in DOMAIN lines' : ~(j > started')
    BY <2>1, <2>3
  <2>5. \A j \in DOMAIN lines' : \A i \in 1..j : \A k \in (i + 1)..j : k \in 1..j
    BY <2>3
  <2>6. QED BY <2>2, <2>4, <2>5 DEF Overtaking
<1>15. CASE UNCHANGED vars
  BY <1>3, <1>15 DEF vars, logVars
<1>16. QED
  BY <1>6, <1>7, <1>8, <1>9, <1>10, <1>11, <1>12, <1>13, <1>14, <1>15 DEF Next

\* In an ordered log a part that is neither given back nor in the last line is missing
\* a line.
LEMMA OrderedIsEnough ==
    ASSUME IInv, Ordered
    PROVE  ResumeForgetsAtMostTheLast
<1> SUFFICES ASSUME NEW log \in Disks,
                    NEW part \in context \ (Remembered(log) \cup log[Len(log)].parts)
             PROVE  \E kind \in IF IsCall(part) THEN {"invoked", "result"} ELSE {"response"} :
                       \A i \in DOMAIN log : log[i].kind = kind => part \notin log[i].parts
  BY DEF ResumeForgetsAtMostTheLast
<1>1. /\ log \in Seq(Event) /\ Len(log) <= Len(lines)
      /\ \A j \in DOMAIN log : j \in DOMAIN lines /\ \A i \in 1..j :
            log[i] = lines[i] /\ log[j] = lines[j]
  BY DisksArePrefixes DEF IInv
<1>2. ASSUME NEW i \in DOMAIN log
      PROVE  Follows(log[i], log[Len(log)])
  <2>1. Len(log) \in DOMAIN log /\ i \in 1..Len(log)
    BY <1>1, <1>2
  <2>2. log[i] = lines[i] /\ log[Len(log)] = lines[Len(log)] /\ Len(log) \in DOMAIN lines
    BY <1>1, <2>1
  <2>3. QED BY <2>1, <2>2 DEF Ordered
<1>3. CASE IsCall(part)
  <2> SUFFICES ASSUME NEW i \in DOMAIN log, log[i].kind = "invoked", part \in log[i].parts,
                      NEW k \in DOMAIN log, log[k].kind = "result", part \in log[k].parts
               PROVE  FALSE
    BY <1>3
  <2>1. log[i].at <= Target(log)
    BY <1>2 DEF Follows, Target
  <2>2. part \in KeptCalls(log)
    BY <2>1 DEF KeptCalls
  <2>3. QED BY <2>2 DEF Remembered
<1>4. CASE ~IsCall(part)
  <2> SUFFICES ASSUME NEW i \in DOMAIN log, log[i].kind = "response", part \in log[i].parts
               PROVE  FALSE
    BY <1>4
  <2>1. log[i].at <= Target(log)
    BY <1>2 DEF Follows, Target
  <2>2. part \in KeptWords(log)
    BY <1>4, <2>1 DEF KeptWords
  <2>3. QED BY <2>2 DEF Remembered
<1>5. QED BY <1>3, <1>4

\* Whenever the process stops, what a resumed agent is not given back has a line
\* missing from the disk or is in the last line of the log.
THEOREM ResumesForgetAtMostTheLast == Spec => []ResumeForgetsAtMostTheLast
<1>1. Init => Ordered
  <2> SUFFICES ASSUME Init PROVE Ordered
    OBVIOUS
  <2>1. DOMAIN lines = {1} /\ lines[1].at = 1 /\ ~Started
    BY DEF Init, Started
  <2>2. \A j \in DOMAIN lines : \A i \in 1..j : i = 1 /\ j = 1
    BY <2>1
  <2>3. Follows(lines[1], lines[1])
    BY <2>1 DEF Follows
  <2>4. QED BY <2>1, <2>2, <2>3 DEF Ordered
<1>2. Init => Overtaking
  BY DEF Init, Overtaking
<1>3. QED
  BY <1>1, <1>2, Begins, Continues, StaysInOrder, StaysOvertaken, OrderedIsEnough, PTL DEF Spec

-----------------------------------------------------------------------------
(* The round a resume reopens *)

\* In a log that does not end with a response, the walk leaves out no line of the clock
\* but the last: the only one that may have overtaken the line the log ends with.
THEOREM OnlyResponsesTurnFarBack == Spec => []OnlyAResponseTurnsFarBack
<1>1. ASSUME IInv, Ordered, Overtaking PROVE OnlyAResponseTurnsFarBack
  <2> SUFFICES ASSUME NEW log \in Disks, log[Len(log)].kind # "response",
                      NEW i \in DOMAIN log \ Walked(log), log[i].kind = "advanced",
                      NEW j \in DOMAIN log, log[j].kind = "advanced", ~(j <= i)
               PROVE  FALSE
    BY DEF OnlyAResponseTurnsFarBack
  <2> DEFINE n == Len(log)
  <2>1. /\ log \in Seq(Event) /\ n \in Nat /\ DOMAIN log = 1..n
        /\ \A h \in DOMAIN log : h \in DOMAIN lines /\ log[h] = lines[h]
    <3>1. log \in Seq(Event) /\ \A h \in DOMAIN log : h \in DOMAIN lines /\ \A m \in 1..h :
             log[m] = lines[m] /\ log[h] = lines[h]
      BY <1>1, DisksArePrefixes DEF IInv
    <3>2. n \in Nat /\ DOMAIN log = 1..n /\ \A h \in DOMAIN log : h \in 1..h
      BY <3>1
    <3>3. QED BY <3>1, <3>2
  <2> HIDE DEF n
  <2>2. n \in DOMAIN log /\ i \in 1..n /\ j \in 1..n /\ i < j
    BY <2>1
  <2>3. PICK h \in 1..i : ~(log[h].at <= log[n].at)
    BY DEF Walked, Target, n
  <2>4. h \in DOMAIN log /\ h \in 1..n /\ j \in (h + 1)..n
    BY <2>1, <2>2
  <2>5. log[h] = lines[h] /\ log[n] = lines[n] /\ log[j] = lines[j] /\ n \in DOMAIN lines
    BY <2>1, <2>2, <2>4
  <2>6. Follows(lines[h], lines[n])
    BY <1>1, <2>4, <2>5 DEF Ordered
  <2>7. lines[n].kind # "response"
    BY <2>5 DEF n
  <2>8. lines[h].kind = "advanced"
    BY <2>3, <2>5, <2>6, <2>7 DEF Follows
  <2>9. QED BY <1>1, <2>3, <2>4, <2>5, <2>7, <2>8 DEF Overtaking
<1>2. Init => Ordered /\ Overtaking
  BY DEF Init, Ordered, Overtaking, Follows, Started
<1>3. QED
  BY <1>1, <1>2, Begins, Continues, StaysInOrder, StaysOvertaken, PTL DEF Spec

\* By time at, the rounds the first n lines of a log advance to have come to r, and
\* the last of them is no earlier.
Reached(log, n, at, r) ==
    \E i \in 1..n :
        /\ log[i].kind = "advanced" /\ log[i].at <= at /\ r <= log[i].round
        /\ \A k \in (i + 1)..n : log[k].kind = "advanced" => at < log[k].at

\* Every line, the block to come and the clock are in a round the log had advanced to.
Rounds ==
    /\ written > 0
    /\ \A j \in DOMAIN lines : Reached(lines, j, lines[j].at, lines[j].round)
    /\ Started => Reached(lines, Len(lines), start.at, start.round)
    /\ node # "down" => Reached(lines, Len(lines), now, round)

\* Until the first stop of the process rounds are numbered as they come.
Rising ==
    /\ crashes = 0 => \A i \in DOMAIN lines : lines[i].kind = "advanced" => lines[i].round <= round
    /\ crashes = 0 \/ node = "down" =>
          \A j \in DOMAIN lines : \A i \in 1..j :
              lines[i].kind = "advanced" /\ lines[j].kind = "advanced"
              => lines[i].round <= lines[j].round
    /\ node = "down" => crashes # 0

\* What was reached stays so in a log that goes on with later rounds only.
LEMMA ReachedKept ==
    ASSUME NEW log, NEW next, NEW n \in Nat, NEW m \in Nat, n <= m,
           \A i \in 1..n : next[i] = log[i],
           NEW at, NEW r, Reached(log, n, at, r),
           \A k \in (n + 1)..m : next[k].kind = "advanced" => at < next[k].at
    PROVE  Reached(next, m, at, r)
<1>1. PICK i \in 1..n :
         /\ log[i].kind = "advanced" /\ log[i].at <= at /\ r <= log[i].round
         /\ \A k \in (i + 1)..n : log[k].kind = "advanced" => at < log[k].at
  BY DEF Reached
<1>2. i \in 1..m /\ next[i] = log[i]
  BY <1>1
<1>3. ASSUME NEW k \in (i + 1)..m, next[k].kind = "advanced" PROVE at < next[k].at
  <2>1. k \in (i + 1)..n \/ k \in (n + 1)..m
    BY <1>1
  <2>2. CASE k \in (i + 1)..n
    BY <1>1, <1>3, <2>2
  <2>3. CASE k \in (n + 1)..m
    BY <1>3, <2>3
  <2>4. QED BY <2>1, <2>2, <2>3
<1>4. QED BY <1>1, <1>2, <1>3 DEF Reached

\* What was reached when the last line was dated is reached at any time after.
LEMMA ReachedLater ==
    ASSUME TypeOK, NEW at \in Nat, NEW later \in Nat, at <= later, NEW r,
           \A i \in DOMAIN lines : lines[i].at <= at,
           Reached(lines, Len(lines), at, r)
    PROVE  Reached(lines, Len(lines), later, r)
<1>1. PICK i \in 1..Len(lines) :
         /\ lines[i].kind = "advanced" /\ lines[i].at <= at /\ r <= lines[i].round
         /\ \A k \in (i + 1)..Len(lines) : lines[k].kind = "advanced" => at < lines[k].at
  BY DEF Reached
<1>2. DOMAIN lines = 1..Len(lines) /\ \A k \in DOMAIN lines : lines[k].at \in Nat
  <2>1. DOMAIN lines = 1..Len(lines)
    BY DEF TypeOK
  <2>2. QED BY <2>1, EventFields
<1>3. \A k \in (i + 1)..Len(lines) : lines[k].kind # "advanced"
  <2> TAKE k \in (i + 1)..Len(lines)
  <2>1. k \in DOMAIN lines
    BY <1>2
  <2>2. ~(at < lines[k].at)
    BY <1>2, <2>1
  <2>3. QED BY <1>1, <2>2
<1>4. lines[i].at <= later
  BY <1>1, <1>2
<1>5. QED BY <1>1, <1>3, <1>4 DEF Reached

\* A step that advances no round keeps this, if its lines and the block it begins are
\* of the round the clock is in, or of the one the block was begun in.
LEMMA SameRound ==
    ASSUME IInv, Rounds, Rising, Extends, node # "down", node' # "down",
           now' \in Nat, now <= now', round' = round, crashes' = crashes,
           written' \in Nat, written <= written',
           \A j \in NewLines :
              /\ lines'[j].kind # "advanced"
              /\ \/ lines'[j].at \in Nat /\ now <= lines'[j].at /\ lines'[j].round = round
                 \/ Started /\ lines'[j].at = start.at /\ lines'[j].round = start.round,
           \/ start' = start
           \/ ~Started'
           \/ start'.at \in Nat /\ now <= start'.at /\ start'.round = round
    PROVE  Rounds' /\ Rising'
<1>1. DOMAIN lines' = DOMAIN lines \cup NewLines /\ DOMAIN lines = 1..Len(lines)
      /\ Len(lines) \in Nat /\ \A i \in DOMAIN lines : lines'[i] = lines[i]
  BY ExtendsBy DEF IInv, TypeOK
<1>2. Len(lines') \in Nat /\ Len(lines) <= Len(lines') /\ DOMAIN lines' = 1..Len(lines')
  BY DEF Extends
<1>3. now \in Nat /\ written \in Nat /\ written > 0 /\ \A i \in DOMAIN lines : lines[i].at <= now
  BY DEF IInv, TypeOK, Dates, Rounds
<1>4. ASSUME NEW m \in Len(lines)..Len(lines'), NEW at, NEW r, Reached(lines, Len(lines), at, r)
      PROVE  Reached(lines', m, at, r)
  <2>1. m \in Nat /\ Len(lines) <= m /\ \A k \in (Len(lines) + 1)..m : k \in NewLines
    BY <1>1, <1>2 DEF NewLines
  <2>2. \A k \in (Len(lines) + 1)..m : lines'[k].kind # "advanced"
    BY <2>1
  <2>3. QED BY <1>1, <1>4, <2>1, <2>2, ReachedKept
<1>5. ASSUME NEW at \in Nat, now <= at PROVE Reached(lines, Len(lines), at, round)
  BY <1>3, <1>5, ReachedLater DEF Rounds, IInv
<1>6. ASSUME NEW j \in DOMAIN lines' PROVE Reached(lines', j, lines'[j].at, lines'[j].round)
  <2>1. CASE j \in DOMAIN lines
    <3>1. Reached(lines, j, lines[j].at, lines[j].round) /\ lines'[j] = lines[j] /\ j \in Nat
          /\ \A i \in 1..j : lines'[i] = lines[i]
      BY <1>1, <2>1 DEF Rounds
    <3>2. QED BY <3>1, ReachedKept
  <2>2. CASE j \in NewLines
    <3>1. j \in Len(lines)..Len(lines')
      BY <1>1, <1>2, <2>2 DEF NewLines
    <3>2. CASE lines'[j].at \in Nat /\ now <= lines'[j].at /\ lines'[j].round = round
      BY <1>4, <1>5, <3>1, <3>2
    <3>3. CASE Started /\ lines'[j].at = start.at /\ lines'[j].round = start.round
      BY <1>4, <3>1, <3>3 DEF Rounds
    <3>4. QED BY <2>2, <3>2, <3>3
  <2>3. QED BY <1>1, <2>1, <2>2
<1>7. Len(lines') \in Len(lines)..Len(lines')
  BY <1>1, <1>2
<1>8. Started' => Reached(lines', Len(lines'), start'.at, start'.round)
  <2>1. CASE start' = start
    BY <1>4, <1>7, <2>1 DEF Rounds, Started
  <2>2. CASE start'.at \in Nat /\ now <= start'.at /\ start'.round = round
    BY <1>4, <1>5, <1>7, <2>2
  <2>3. QED BY <2>1, <2>2
<1>9. Reached(lines', Len(lines'), now', round')
  BY <1>4, <1>5, <1>7
<1>10. written' > 0
  BY <1>3
<1>11. Rounds'
  BY <1>6, <1>8, <1>9, <1>10 DEF Rounds
<1>12. \A j \in DOMAIN lines' : lines'[j].kind = "advanced" =>
          j \in DOMAIN lines /\ lines'[j] = lines[j]
  BY <1>1
<1>13. \A j \in DOMAIN lines : \A i \in 1..j : lines'[i] = lines[i]
  BY <1>1
<1>14. Rising'
  BY <1>12, <1>13 DEF Rising
<1>15. QED BY <1>11, <1>14

\* The log is never empty: a line it ends with is one that every round, block and date
\* is reckoned from.
LEMMA RoundsStay ==
    ASSUME IInv, Overtaking, Rounds, Rising, MaxCrashes <= 1, [Next]_vars
    PROVE  Rounds' /\ Rising'
<1>1. IInv' /\ now' \in Nat /\ written' \in Nat
  <2>1. IInv' /\ TypeOK'
    BY Continues DEF IInv
  <2>2. lines' \in Seq(Event) /\ started' \in 0..Len(lines') /\ written' \in 0..started'
        /\ now' \in Nat
    BY <2>1 DEF TypeOK
  <2>3. Len(lines') \in Nat
    BY <2>2
  <2>4. QED BY <2>1, <2>2, <2>3
<1>2. lines \in Seq(Event) /\ Len(lines) \in Nat /\ now \in Nat /\ round \in Nat /\ written \in Nat
      /\ DOMAIN lines = 1..Len(lines)
  BY DEF IInv, TypeOK
<1>3. \A i \in DOMAIN lines : lines[i] \in Event /\ lines[i].at \in Nat /\ lines[i].at <= now
                              /\ lines[i].round \in Nat
  BY EventFields DEF IInv, Dates
<1>4. ASSUME UNCHANGED lines PROVE Extends /\ NewLines = {}
  BY <1>2, <1>4 DEF Extends, NewLines
<1>5. ASSUME NEW a \in BOOLEAN, FlushResponse(a), UNCHANGED <<round, crashes>>,
             node # "down", node' # "down"
      PROVE  Rounds' /\ Rising'
  <2>1. /\ Extends /\ now' \in Nat /\ now <= now'
        /\ \A i \in NewLines :
              /\ lines'[i].kind = "response"
              /\ lines'[i].at = IF Started THEN start.at ELSE now + 1
              /\ lines'[i].round = IF Started THEN start.round ELSE round
    BY <1>5, FlushLine
  <2>2. ~Started' /\ written' = written
    BY <1>5 DEF FlushResponse, Started
  <2>3. now + 1 \in Nat /\ now <= now + 1
    BY <1>2
  <2>4. QED BY <1>1, <1>2, <1>5, <2>1, <2>2, <2>3, SameRound
<1>6. ASSUME NEW e \in Event, lines' = Append(lines, e), e.at = now + 1, e.round = round,
             e.kind # "advanced", now' = now + 1, start' = start \/ ~Started',
             UNCHANGED <<round, crashes, written>>, node # "down", node' # "down"
      PROVE  Rounds' /\ Rising'
  <2>1. Extends /\ NewLines = {Len(lines) + 1} /\ lines'[Len(lines) + 1] = e
    BY <1>6, AppendExtends DEF IInv
  <2>2. now + 1 \in Nat /\ now <= now + 1
    BY <1>2
  <2>3. QED BY <1>1, <1>2, <1>6, <2>1, <2>2, SameRound
<1>7. ASSUME UNCHANGED <<lines, round, crashes>>, now <= now', written <= written',
             \/ start' = start \/ ~Started'
             \/ start'.at \in Nat /\ now <= start'.at /\ start'.round = round,
             node # "down", node' # "down"
      PROVE  Rounds' /\ Rising'
  BY <1>1, <1>4, <1>7, SameRound
<1>8. CASE IssueRequest
  <2>1. CASE Calls(accumulated) # {}
    BY <1>5, <1>8, <2>1 DEF IssueRequest
  <2>2. CASE Calls(accumulated) = {}
    BY <1>2, <1>7, <1>8, <2>2 DEF IssueRequest, logVars, stateVars
  <2>3. QED BY <2>1, <2>2
<1>9. CASE Respond
  <2>1. /\ UNCHANGED <<lines, round, crashes, written>> /\ node = "requesting" /\ node' = "gating"
        /\ \/ start' = NoteStart /\ now' = NotedAt
           \/ UNCHANGED <<start, now>>
    BY <1>9 DEF Respond, ResponseArrives
  <2>2. now <= now'
    BY <1>2, <2>1 DEF NotedAt
  <2>3. start' = start \/ (start'.at \in Nat /\ now <= start'.at /\ start'.round = round)
    BY <1>2, <2>1 DEF NoteStart
  <2>4. QED BY <1>2, <1>7, <2>1, <2>2, <2>3
<1>10. CASE PassGate
  <2> DEFINE n == Cardinality(Calls(current.parts))
  <2>1. /\ node = "gating" /\ node' # "down" /\ UNCHANGED <<written, round, crashes>>
    BY <1>10 DEF PassGate
  <2>2. CASE n = 0
    BY <1>2, <1>7, <1>10, <2>1, <2>2 DEF PassGate
  <2>3. CASE n > 0
    <3>1. /\ n \in Nat /\ Extends
          /\ \A i \in NewLines : \E k \in 1..n :
                lines'[i].kind = "invoked" /\ lines'[i].at = NotedAt + k /\ lines'[i].round = round
      BY <1>10, <2>3, AnnounceLines
    <3>2. start' = NoteStart /\ now' = NotedAt + n
      BY <1>10, <2>3 DEF PassGate
    <3> HIDE DEF n
    <3>3. NotedAt \in Nat /\ now <= NotedAt
      BY <1>2 DEF NotedAt
    <3>4. \A i \in NewLines : /\ lines'[i].kind # "advanced"
                              /\ lines'[i].at \in Nat /\ now <= lines'[i].at
                              /\ lines'[i].round = round
      BY <1>2, <3>1, <3>3
    <3>5. start' = start \/ (start'.at \in Nat /\ now <= start'.at /\ start'.round = round)
      BY <1>2, <3>2 DEF NoteStart
    <3>6. now <= now'
      BY <1>2, <3>1, <3>2, <3>3
    <3>7. QED BY <1>1, <1>2, <2>1, <3>1, <3>4, <3>5, <3>6, SameRound
  <2>4. QED BY <1>10, <2>2, <2>3 DEF PassGate
<1>11. CASE Return
  <2>1. PICK call \in Calls(current.parts) : ToolReturns(call)
    BY <1>11 DEF Return
  <2> DEFINE e == NewEvent("result", now + 1, {call}, TRUE)
  <2>2. /\ lines' = Append(lines, e) /\ now' = now + 1 /\ start' = start
        /\ UNCHANGED <<round, crashes, written>> /\ node = "tools" /\ node' # "down"
    BY <2>1 DEF ToolReturns, stateVars
  <2>3. e \in Event /\ e.at = now + 1 /\ e.kind # "advanced" /\ e.round = round
    <3>1. call \in Nat \X Nat
      BY DEF IInv, TypeOK, Calls
    <3>2. QED BY <1>2, <3>1 DEF NewEvent, Event, Kinds
  <2> HIDE DEF e
  <2>4. QED BY <1>6, <2>2, <2>3
<1>12. CASE AttemptFails
  <2>1. start' = start \/ ~Started'
    BY <1>12 DEF AttemptFails, DiscardAttempt, Started
  <2>2. QED BY <1>2, <1>7, <1>12, <2>1 DEF AttemptFails, logVars
<1>13. CASE Retry
  BY <1>2, <1>7, <1>13 DEF Retry
<1>14. CASE CycleFails
  <2> DEFINE e == NewEvent("failed", now + 1, {}, TRUE)
  <2>1. /\ lines' = Append(lines, e) /\ now' = now + 1 /\ ~Started'
        /\ UNCHANGED <<round, crashes, written>> /\ node = "failed" /\ node' # "down"
    BY <1>14 DEF CycleFails, NextCycle, Started
  <2>2. e \in Event /\ e.at = now + 1 /\ e.kind # "advanced" /\ e.round = round
    BY <1>2 DEF NewEvent, Event, Kinds
  <2> HIDE DEF e
  <2>3. QED BY <1>6, <2>1, <2>2
<1>15. CASE End
  BY <1>5, <1>15 DEF End, CycleEnds, NextCycle
<1>16. CASE CancelRunner
  <2>1. ~Started'
    BY <1>16 DEF CancelRunner, Started
  <2>2. QED BY <1>2, <1>7, <1>16, <2>1 DEF CancelRunner, logVars
<1>17. CASE Leave
  <2>1. written <= written'
    BY <1>2, <1>17 DEF Leave
  <2>2. QED BY <1>2, <1>7, <1>17, <2>1 DEF Leave, stateVars
<1>18. CASE AdvanceRound
  <2>1. /\ now' = now + 1 /\ round' = round + 1 /\ start' = start
        /\ UNCHANGED <<written, node, crashes>> /\ node # "down"
    BY <1>18 DEF AdvanceRound, graphVars, stateVars
  <2>2. Advanced.at = now + 1 /\ Advanced.kind = "advanced" /\ Advanced.round = round + 1
    BY DEF Advanced
  <2>3. PICK k \in started..Len(lines) :
           /\ k \in Nat
           /\ Len(lines') = Len(lines) + 1 /\ DOMAIN lines' = 1..(Len(lines) + 1)
           /\ k + 1 \in DOMAIN lines' /\ lines'[k + 1] = Advanced
           /\ \A i \in 1..k : i \in DOMAIN lines /\ lines'[i] = lines[i]
           /\ \A i \in DOMAIN lines' : \/ i = k + 1
                                       \/ i \in 1..k /\ lines'[i] = lines[i]
                                       \/ /\ i - 1 \in (k + 1)..Len(lines)
                                          /\ i - 1 \in DOMAIN lines
                                          /\ lines'[i] = lines[i - 1]
    BY <1>18, AdvancedBetween DEF IInv
  <2>4. \A i \in (k + 1)..Len(lines) : lines[i].kind # "advanced"
    BY QueuedLater DEF IInv
  <2>5. \A i \in (k + 2)..(Len(lines) + 1) : lines'[i].kind # "advanced"
    <3> TAKE i \in (k + 2)..(Len(lines) + 1)
    <3>1. i - 1 \in (k + 1)..Len(lines) /\ lines'[i] = lines[i - 1]
      BY <1>2, <2>3
    <3>2. QED BY <2>4, <3>1
  <2>6. ASSUME NEW m \in k..Len(lines), NEW at, NEW r, Reached(lines, m, at, r), at < now + 1
        PROVE  Reached(lines', m + 1, at, r)
    <3>1. PICK i \in 1..m :
             /\ lines[i].kind = "advanced" /\ lines[i].at <= at /\ r <= lines[i].round
             /\ \A h \in (i + 1)..m : lines[h].kind = "advanced" => at < lines[h].at
      BY <2>6 DEF Reached
    <3>2. m \in Nat /\ m <= Len(lines) /\ k <= m
      BY <1>2, <2>3
    <3>3. i \in 1..k
      BY <1>2, <2>3, <2>4, <3>1, <3>2
    <3>4. ASSUME NEW h \in (i + 1)..(m + 1), lines'[h].kind = "advanced" PROVE at < lines'[h].at
      <4>1. CASE h \in 1..k
        <5>1. h \in (i + 1)..m /\ lines'[h] = lines[h]
          BY <2>3, <3>2, <3>4, <4>1
        <5>2. QED BY <3>1, <3>4, <5>1
      <4>2. CASE h = k + 1
        BY <2>2, <2>3, <2>6, <4>2
      <4>3. CASE h > k + 1
        BY <1>2, <2>3, <2>5, <3>2, <3>4, <4>3
      <4>4. QED BY <2>3, <3>2, <3>3, <4>1, <4>2, <4>3
    <3>5. i \in 1..(m + 1) /\ lines'[i] = lines[i]
      BY <2>3, <3>2, <3>3
    <3>6. QED BY <3>1, <3>4, <3>5 DEF Reached
  <2>7. ASSUME NEW m \in (k + 1)..(Len(lines) + 1) PROVE Reached(lines', m, now + 1, round + 1)
    <3>1. k + 1 \in 1..m /\ \A h \in (k + 1 + 1)..m : h \in (k + 2)..(Len(lines) + 1)
      BY <1>2, <2>3
    <3>2. now + 1 <= now + 1 /\ round + 1 <= round + 1
      BY <1>2
    <3>3. QED BY <2>2, <2>3, <2>5, <3>1, <3>2 DEF Reached
  <2>8. ASSUME NEW j \in DOMAIN lines' PROVE Reached(lines', j, lines'[j].at, lines'[j].round)
    <3>1. CASE j = k + 1
      <4>1. j \in (k + 1)..(Len(lines) + 1)
        BY <1>2, <2>3, <3>1
      <4>2. QED BY <2>2, <2>3, <2>7, <3>1, <4>1
    <3>2. CASE j \in 1..k /\ lines'[j] = lines[j]
      <4>1. j \in DOMAIN lines /\ Reached(lines, j, lines[j].at, lines[j].round) /\ j \in Nat
            /\ \A i \in 1..j : lines'[i] = lines[i]
        BY <1>2, <2>3, <3>2 DEF Rounds
      <4>2. \A i \in (j + 1)..j : lines'[i].kind = "advanced" => lines'[j].at < lines'[i].at
        BY <4>1
      <4>3. QED BY <3>2, <4>1, <4>2, ReachedKept
    <3>3. CASE /\ j - 1 \in (k + 1)..Len(lines) /\ j - 1 \in DOMAIN lines
               /\ lines'[j] = lines[j - 1]
      <4>1. Reached(lines, j - 1, lines[j - 1].at, lines[j - 1].round)
            /\ j - 1 \in k..Len(lines) /\ (j - 1) + 1 = j
        BY <1>2, <2>3, <3>3 DEF Rounds
      <4>2. lines[j - 1].at < now + 1
        BY <1>2, <1>3, <3>3
      <4>3. Reached(lines', (j - 1) + 1, lines[j - 1].at, lines[j - 1].round)
        BY <2>6, <4>1, <4>2
      <4>4. QED BY <3>3, <4>1, <4>3
    <3>4. QED BY <2>3, <3>1, <3>2, <3>3
  <2>9. Started' => Reached(lines', Len(lines'), start'.at, start'.round)
    <3> SUFFICES ASSUME Started PROVE Reached(lines', Len(lines) + 1, start.at, start.round)
      BY <2>1, <2>3 DEF Started
    <3>1. Reached(lines, Len(lines), start.at, start.round) /\ start.at < now + 1
      BY <1>2 DEF Rounds, IInv, Dates, TypeOK
    <3>2. Len(lines) \in k..Len(lines)
      BY <1>2, <2>3
    <3>3. QED BY <2>6, <3>1, <3>2
  <2>10. Reached(lines', Len(lines'), now', round')
    <3>1. Len(lines') \in (k + 1)..(Len(lines) + 1)
      BY <1>2, <2>3
    <3>2. QED BY <2>1, <2>7, <3>1
  <2>11. Rounds'
    BY <2>1, <2>8, <2>9, <2>10 DEF Rounds
  <2>12. Rising'
    <3> SUFFICES ASSUME crashes = 0
                 PROVE  /\ \A i \in DOMAIN lines' : lines'[i].kind = "advanced" =>
                              lines'[i].round <= round + 1
                        /\ \A j \in DOMAIN lines' : \A i \in 1..j :
                              lines'[i].kind = "advanced" /\ lines'[j].kind = "advanced"
                              => lines'[i].round <= lines'[j].round
      BY <2>1 DEF Rising
    <3>1. ASSUME NEW i \in DOMAIN lines', lines'[i].kind = "advanced"
          PROVE  \/ i = k + 1 /\ lines'[i].round = round + 1
                 \/ /\ i \in 1..k /\ i \in DOMAIN lines
                    /\ lines'[i] = lines[i] /\ lines[i].round <= round
      <4>1. i \notin (k + 2)..(Len(lines) + 1)
        BY <2>5, <3>1
      <4>2. i = k + 1 \/ i \in 1..k
        BY <1>2, <2>3, <4>1
      <4>3. QED BY <2>2, <2>3, <3>1, <4>2 DEF Rising
    <3>2. ASSUME NEW i \in DOMAIN lines', lines'[i].kind = "advanced"
          PROVE  lines'[i].round <= round + 1
      BY <1>2, <1>3, <3>1, <3>2
    <3>3. ASSUME NEW j \in DOMAIN lines', NEW i \in 1..j,
                 lines'[i].kind = "advanced", lines'[j].kind = "advanced"
          PROVE  lines'[i].round <= lines'[j].round
      <4>1. i \in DOMAIN lines'
        BY <2>3
      <4>2. CASE j = k + 1
        BY <2>2, <2>3, <3>2, <3>3, <4>1, <4>2
      <4>3. CASE j \in 1..k
        <5>1. i \in 1..k /\ lines'[i] = lines[i] /\ lines'[j] = lines[j] /\ j \in DOMAIN lines
          BY <2>3, <4>3
        <5>2. QED BY <3>3, <5>1 DEF Rising
      <4>4. QED BY <3>1, <3>3, <4>2, <4>3
    <3>4. QED BY <3>2, <3>3
  <2>13. QED BY <2>11, <2>12
<1>19. CASE Crash
  <2>1. lines' \in Disks /\ written' = Len(lines') /\ node' = "down" /\ ~Started'
        /\ crashes = 0 /\ crashes' = 1
    BY <1>19, BoundsAssumption DEF Crash, Started, IInv, TypeOK
  <2>2. /\ Len(lines') > 0
        /\ \A j \in DOMAIN lines' : j \in DOMAIN lines /\ \A i \in 1..j :
              lines'[i] = lines[i] /\ lines'[j] = lines[j]
    <3>1. PICK w \in written..Len(lines) : lines' = SubSeq(lines, 1, w)
      BY <2>1 DEF Disks
    <3>2. w \in Nat /\ w > 0 /\ w <= Len(lines) /\ \A i \in 1..w : lines[i] \in Event
      BY <1>2, <1>3, <3>1 DEF Rounds
    <3>3. Len(lines') = w
      BY <3>1, <3>2, SubSeqProperties
    <3>4. QED BY <2>1, <3>2, <3>3, DisksArePrefixes DEF IInv
  <2>3. \A j \in DOMAIN lines' : Reached(lines', j, lines'[j].at, lines'[j].round)
    <3> TAKE j \in DOMAIN lines'
    <3>1. j \in DOMAIN lines /\ lines'[j] = lines[j] /\ j \in Nat
          /\ \A i \in 1..j : lines'[i] = lines[i]
      BY <1>2, <2>2
    <3>2. QED BY <3>1, ReachedKept DEF Rounds
  <2>4. Rounds'
    BY <2>1, <2>2, <2>3 DEF Rounds
  <2>5. Rising'
    BY <2>1, <2>2 DEF Rising
  <2>6. QED BY <2>4, <2>5
<1>20. CASE Resume
  <2>1. /\ node = "down" /\ round' = LastAdvanced(lines, Walked(lines)) /\ start' = start
        /\ UNCHANGED <<lines, started, written, now, crashes>>
    BY <1>20 DEF Resume, logVars, stateVars
  <2>2. crashes # 0
    BY <2>1 DEF Rising
  <2>3. Reached(lines, Len(lines), now, round')
    <3> DEFINE all == {i \in DOMAIN lines : lines[i].kind = "advanced"}
               walked == {i \in Walked(lines) : lines[i].kind = "advanced"}
               x == CHOOSE i \in walked : \A j \in walked : j <= i
    <3>1. all # {}
      <4>1. 1 \in DOMAIN lines
        BY <1>2 DEF Rounds, IInv, TypeOK
      <4>2. QED BY <4>1 DEF Rounds, Reached
    <3>2. PICK m \in all : \A i \in all : i <= m
      <4>1. all \in SUBSET (1..Len(lines))
        BY <1>2
      <4> HIDE DEF all
      <4>2. QED BY <1>2, <3>1, <4>1, LastOf
    <3>3. round' <= lines[m].round
      <4>1. CASE walked = {}
        BY <1>3, <2>1, <3>2, <4>1 DEF LastAdvanced
      <4>2. CASE walked # {}
        <5>1. walked \in SUBSET (1..Len(lines)) /\ walked \subseteq all
          BY <1>2 DEF Walked
        <5>2. \E i \in walked : \A j \in walked : j <= i
          <6> HIDE DEF walked
          <6> QED BY <1>2, <4>2, <5>1, LastOf
        <5>3. x \in all
          BY <5>1, <5>2
        <5>4. round' = lines[x].round
          BY <2>1, <4>2 DEF LastAdvanced
        <5> HIDE DEF x
        <5>5. x \in 1..m /\ m \in DOMAIN lines
          BY <1>2, <3>2, <5>3
        <5>6. lines[x].round <= lines[m].round
          BY <2>1, <3>2, <5>3, <5>5 DEF Rising
        <5>7. QED BY <5>4, <5>6
      <4>3. QED BY <4>1, <4>2
    <3>4. \A k \in (m + 1)..Len(lines) : lines[k].kind # "advanced"
      <4> SUFFICES ASSUME NEW k \in (m + 1)..Len(lines), lines[k].kind = "advanced" PROVE FALSE
        OBVIOUS
      <4>1. k \in all /\ m \in Nat
        BY <1>2
      <4>2. QED BY <3>2, <4>1
    <3>5. QED BY <1>2, <1>3, <3>2, <3>3, <3>4 DEF Reached
  <2>4. QED BY <2>1, <2>2, <2>3 DEF Rounds, Rising, Started
<1>21. CASE UNCHANGED vars
  BY <1>21 DEF vars, Rounds, Rising, Started, logVars, stateVars, graphVars
<1>22. QED
  BY <1>8, <1>9, <1>10, <1>11, <1>12, <1>13, <1>14, <1>15, <1>16, <1>17, <1>18, <1>19, <1>20,
     <1>21 DEF Next

\* In a run resumed at most once, the round a resume reopens is no earlier than the one
\* the last line on disk is of: its agents never play on before what their log ends with.
THEOREM NoRoundComesBeforeTheLastLine ==
    ASSUME MaxCrashes <= 1
    PROVE  Spec => []NoRoundBeforeTheLastLine
<1>1. ASSUME Init PROVE Rounds /\ Rising
  <2>1. /\ DOMAIN lines = {1} /\ Len(lines) = 1 /\ ~Started /\ written = 1 /\ crashes = 0
        /\ node = "ready" /\ now = 1 /\ round = 1
        /\ lines[1].kind = "advanced" /\ lines[1].at = 1 /\ lines[1].round = 1
    BY <1>1 DEF Init, Started
  <2>2. Reached(lines, 1, 1, 1)
    <3>1. 1 \in 1..1 /\ \A k \in (1 + 1)..1 : FALSE
      BY SMT
    <3>2. QED BY <2>1, <3>1 DEF Reached
  <2>3. \A j \in DOMAIN lines : \A i \in 1..j : i = 1 /\ j = 1
    BY <2>1
  <2>4. QED BY <2>1, <2>2, <2>3 DEF Rounds, Rising
<1>2. ASSUME IInv, Ordered, Rounds PROVE NoRoundBeforeTheLastLine
  <2> SUFFICES ASSUME NEW log \in Disks
               PROVE  log[Len(log)].round <= LastAdvanced(log, Walked(log))
    BY DEF NoRoundBeforeTheLastLine
  <2>1. /\ log \in Seq(Event) /\ Len(log) \in Nat /\ Len(log) > 0 /\ Len(log) <= Len(lines)
        /\ DOMAIN log = 1..Len(log)
        /\ \A i \in DOMAIN log : log[i] = lines[i] /\ i \in DOMAIN lines
    <3>1. PICK w \in written..Len(lines) : log = SubSeq(lines, 1, w)
      BY DEF Disks
    <3>2. w \in Nat /\ w > 0 /\ w <= Len(lines) /\ \A i \in 1..w : lines[i] \in Event
      BY <1>2, <3>1 DEF IInv, TypeOK, Rounds
    <3>3. Len(log) = w
      BY <3>1, <3>2, SubSeqProperties
    <3>4. log \in Seq(Event) /\ \A j \in DOMAIN log : j \in DOMAIN lines /\ \A i \in 1..j :
             log[i] = lines[i] /\ log[j] = lines[j]
      BY <1>2, DisksArePrefixes DEF IInv
    <3>5. DOMAIN log = 1..Len(log) /\ \A i \in DOMAIN log : i \in 1..i
      BY <3>4
    <3>6. QED BY <1>2, <3>2, <3>3, <3>4, <3>5 DEF IInv, TypeOK
  <2> DEFINE n == Len(log)
             advances == {i \in Walked(log) : log[i].kind = "advanced"}
             x == CHOOSE i \in advances : \A j \in advances : j <= i
  <2>2. PICK i \in 1..n :
           /\ lines[i].kind = "advanced" /\ lines[i].at <= lines[n].at
           /\ lines[n].round <= lines[i].round
           /\ \A k \in (i + 1)..n : lines[k].kind = "advanced" => lines[n].at < lines[k].at
    BY <1>2, <2>1 DEF Rounds, Reached
  <2>3. \A k \in DOMAIN log : log[k].at \in Nat
    BY <1>2, <2>1, EventFields DEF IInv
  <2>4. i \in advances
    <3>1. \A j \in 1..i : Follows(lines[j], lines[i])
      BY <1>2, <2>1, <2>2 DEF Ordered
    <3>2. \A j \in 1..i : j \in DOMAIN log /\ log[j].at <= log[i].at
      BY <2>1, <2>2, <3>1 DEF Follows
    <3>3. \A j \in 1..i : log[j].at <= Target(log)
      BY <2>1, <2>2, <2>3, <3>2 DEF Target
    <3>4. i \in DOMAIN log /\ log[i] = lines[i]
      BY <2>1, <2>2
    <3>5. QED BY <2>2, <3>3, <3>4 DEF Walked
  <2>5. \A k \in advances : k <= i
    <3> SUFFICES ASSUME NEW k \in advances, k > i PROVE FALSE
      BY <2>1, <2>2 DEF Walked
    <3>1. k \in DOMAIN log /\ k \in (i + 1)..n /\ k \in 1..k
      BY <2>1, <2>2 DEF Walked
    <3>2. log[k].at <= Target(log) /\ log[k] = lines[k] /\ Target(log) = lines[n].at
      BY <2>1, <3>1 DEF Walked, Target
    <3>3. QED BY <2>1, <2>2, <2>3, <3>1, <3>2
  <2>6. x = i
    <3>1. x \in advances /\ \A j \in advances : j <= x
      BY <2>4, <2>5
    <3>2. advances \subseteq Nat
      BY <2>1 DEF Walked
    <3> HIDE DEF x, advances
    <3>3. QED BY <2>4, <2>5, <3>1, <3>2
  <2>7. LastAdvanced(log, Walked(log)) = log[x].round
    BY <2>4 DEF LastAdvanced
  <2>8. log[n] = lines[n] /\ log[i] = lines[i]
    BY <2>1, <2>2
  <2> HIDE DEF n, x, advances
  <2>9. lines[n].round <= LastAdvanced(log, Walked(log))
    BY <2>2, <2>6, <2>7, <2>8
  <2>10. QED BY <2>8, <2>9 DEF n
<1>3. Init => Ordered /\ Overtaking
  BY DEF Init, Ordered, Overtaking, Follows, Started
<1>4. IInv /\ Ordered /\ Overtaking /\ Rounds /\ Rising /\ [Next]_vars
      => (IInv /\ Ordered /\ Overtaking /\ Rounds /\ Rising)'
  BY Continues, StaysInOrder, StaysOvertaken, RoundsStay
<1>5. QED BY <1>1, <1>2, <1>3, <1>4, Begins, PTL DEF Spec
=============================================================================
