--------------------------- MODULE LineageProofs ---------------------------
(***************************************************************************)
(* What holds of runs made from runs for any number of them, of seats,     *)
(* channels, rounds, swaps and calls: every agent has its whole history    *)
(* and nobody else's words, as long as no run is resumed after a swap      *)
(* within it.                                                              *)
(***************************************************************************)
EXTENDS Lineage, SequenceTheorems, FiniteSetTheorems, WellFoundedInduction, NaturalsInduction, TLAPS

\* A line that some agent remembers.
Memory(e) == e.seat \in Seats /\ (IsCall(e) \/ e.kind = "said")

\* Lines after the cut are this run's.
OwnLine(r, k, e) ==
    /\ e.at[1] = r
    /\ e.by[1] <= r
    /\ e.by[1] = r => e.by[2] <= k

\* The rounds of a log come one by one, and a line is logged in a round there is.
RoundsInOrder(l) ==
    /\ \A i \in At(l, "advanced") : l[i].round >= 1
    /\ \A i, j \in DOMAIN l : /\ i < j /\ l[i].kind = "advanced"
                             /\ l[j].kind \in {"advanced", "said"}
                             => l[i].round <= l[j].round
    /\ \A i \in At(l, "advanced") : \A n \in 1..l[i].round :
          \E j \in At(l, "advanced") : j <= i /\ l[j].round = n
    /\ \A j \in DOMAIN l : Memory(l[j]) =>
          \E i \in At(l, "advanced") : i < j /\ l[i].round = l[j].round

\* What is remembered up to the cut is of rounds before the entry round, and what comes
\* after it is of others, but for the wake of an agent that parked before.
CutAtTheRound(l, m) ==
    m.kind # "none" => \A i \in DOMAIN l : Memory(l[i]) =>
        /\ i <= m.target => l[i].round < m.entry
        /\ i > m.target /\ l[i].kind # "relieved" => l[i].round >= m.entry

\* Words are those of the agent that sat there, but for the cut part of a seat given away.
WordsAreTheSitters(l, m, f) ==
    \A i \in DOMAIN l :
        l[i].kind = "said" /\ l[i].seat \in Seats /\ (i > m.target \/ l[i].seat # m.seat)
        => l[i].by = Sitting(l, m, f, l[i].seat, i)

\* Agents and lines are named after the run they come from.
NamedApart(r, l, m) ==
    \A i \in DOMAIN l :
        /\ i <= m.target => l[i].at[1] < r /\ l[i].by[1] < r
        /\ i > m.target => OwnLine(r, Len(l), l[i])

GoodLog(r, l, m, f) ==
    /\ l \in Seq(LineSet) /\ l # <<>> /\ l[1].kind = "advanced"
    /\ m.target \in 0..Len(l)
    /\ RoundsInOrder(l) /\ CutAtTheRound(l, m) /\ WordsAreTheSitters(l, m, f)
    /\ NamedApart(r, l, m)

GoodManifest(r, m, f) ==
    /\ m.kind \in {"none", "fork"} => m.seat = Nobody
    /\ m.kind \in {"replace", "import"} => m.seat \in Seats
    /\ m.kind = "none" <=> m.target = 0
    /\ m.kind # "none" => m.entry >= 2
    /\ \A s \in Seats : f[s][1] <= r /\ (f[s][1] = r => f[s][2] = 0)
    /\ m.kind = "replace" => f[m.seat] = <<r, 0>>
    /\ \A e \in Lines(m.imported) : e.by[1] < r
    /\ m.kind = "import" => \A e \in Lines(m.imported) :
          e.seat = m.seat /\ e.kind = "said" /\ e.round <= m.importEnd => e.by = f[m.seat]

\* A run that does not exist has no manifest and is not up.
RunsExist ==
    \A r \in Runs :
        /\ GoodManifest(r, manifest[r], first[r])
        /\ log[r] # <<>> => GoodLog(r, log[r], manifest[r], first[r])
        /\ log[r] = <<>> => manifest[r] = NoManifest /\ up # r

RelievedBySwaps ==
    \A r \in Runs : \A i \in DOMAIN log[r] :
        i > manifest[r].target /\ log[r][i].kind = "relieved" => SwappedHere(r)

\* The process is in the last round of its log, or about to enter the next, and nobody
\* remembers or says anything before it runs.
InTheRound ==
    /\ up = 0 <=> phase = "down"
    /\ up = 0 => \A s \in Seats : mind[s] = {}
    /\ phase \in {"down", "entering"} => midCycle = {}
    /\ up # 0 =>
        /\ round >= 1
        /\ \A i \in At(log[up], "advanced") : log[up][i].round <= round
        /\ phase # "entering" => \E i \in At(log[up], "advanced") : log[up][i].round = round
        /\ phase = "entering" => \E i \in At(log[up], "advanced") : log[up][i].round = round - 1
        /\ Derived(up) => round >= manifest[up].entry

\* What comes back, as long as no run is resumed after a swap.
HistoriesBack == "resume_after_swap" \in Avoided => EachGetsItsHistoryBack

IInv == TypeOK /\ RunsExist /\ RelievedBySwaps /\ InTheRound /\ HistoriesBack

-----------------------------------------------------------------------------
(* Positions *)

LEMMA FirstPosition ==
    ASSUME NEW T \in SUBSET Nat, T # {}
    PROVE  \E x \in T : \A y \in T : x <= y
<1>1. PICK x \in T : \A y \in T : ~ (<<y, x>> \in OpToRel(<, Nat))
  BY NatLessThanWellFounded, WFMin
<1>2. \A y \in T : ~ (y < x)
  BY <1>1 DEF OpToRel
<1>3. QED BY <1>2

\* A set of positions of a log has a first and a last one.
LEMMA EarliestIsFirst ==
    ASSUME NEW n \in Nat, NEW T \in SUBSET (1..n), T # {}
    PROVE  Earliest(T) \in T /\ \A i \in T : Earliest(T) <= i
<1>1. \E x \in T : \A y \in T : x <= y
  BY FirstPosition
<1>2. QED BY <1>1 DEF Earliest

LEMMA LatestIsLast ==
    ASSUME NEW n \in Nat, NEW T \in SUBSET (1..n), T # {}
    PROVE  Latest(T) \in T /\ \A i \in T : i <= Latest(T)
<1> DEFINE back == {n - i : i \in T}
<1>1. back \in SUBSET Nat /\ back # {}
  <2>1. \A i \in T : i \in 1..n /\ n - i \in Nat
    OBVIOUS
  <2>2. QED BY <2>1
<1>2. PICK x \in back : \A y \in back : x <= y
  BY <1>1, FirstPosition
<1>3. PICK i \in T : x = n - i
  BY <1>2
<1>4. \A j \in T : j <= i
  <2> SUFFICES ASSUME NEW j \in T PROVE j <= i
    OBVIOUS
  <2>1. n - j \in back
    OBVIOUS
  <2>2. QED BY <1>2, <1>3, <2>1
<1>5. QED BY <1>4 DEF Latest

LEMMA LatestIsAPosition ==
    ASSUME NEW n \in Nat, NEW T \in SUBSET (1..n)
    PROVE  Latest(T) \in 0..n
<1>1. CASE T = {}
  BY <1>1 DEF Latest
<1>2. CASE T # {}
  <2>1. Latest(T) \in T
    BY <1>2, LatestIsLast
  <2>2. Latest(T) \in 1..n
    BY <2>1
  <2>3. QED BY <2>2
<1>3. QED BY <1>1, <1>2

\* A log and one more line.
LEMMA OneMore ==
    ASSUME NEW l \in Seq(LineSet), NEW e \in LineSet
    PROVE  /\ Append(l, e) \in Seq(LineSet) /\ Len(Append(l, e)) = Len(l) + 1
           /\ Len(l) \in Nat /\ DOMAIN l = 1..Len(l) /\ DOMAIN Append(l, e) = 1..(Len(l) + 1)
           /\ Append(l, e)[Len(l) + 1] = e /\ Append(l, e) # <<>>
           /\ \A i \in 1..Len(l) : Append(l, e)[i] = l[i] /\ l[i] \in LineSet
<1>1. Len(l) \in Nat /\ DOMAIN l = 1..Len(l)
  BY LenProperties
<1>2. /\ Append(l, e) \in Seq(LineSet) /\ Len(Append(l, e)) = Len(l) + 1
      /\ Append(l, e)[Len(l) + 1] = e /\ Append(l, e) # <<>>
      /\ \A i \in 1..Len(l) : Append(l, e)[i] = l[i]
  BY AppendProperties
<1>3. DOMAIN Append(l, e) = 1..(Len(l) + 1)
  BY <1>2, LenProperties
<1>4. \A i \in 1..Len(l) : l[i] \in LineSet
  BY ElementOfSeq
<1>5. QED BY <1>1, <1>2, <1>3, <1>4

LEMMA InALog ==
    ASSUME NEW l \in Seq(LineSet)
    PROVE  /\ Len(l) \in Nat /\ DOMAIN l = 1..Len(l)
           /\ \A i \in 1..Len(l) : l[i] \in LineSet
           /\ l # <<>> => Len(l) >= 1
<1>1. Len(l) \in Nat /\ DOMAIN l = 1..Len(l)
  BY LenProperties
<1>2. l # <<>> => Len(l) >= 1
  BY <1>1, EmptySeq
<1>3. QED BY <1>1, <1>2, ElementOfSeq

-----------------------------------------------------------------------------
(* Who sits where *)

SwapsOf(l, m, s, p) == {i \in At(l, "swapped") : l[i].seat = s /\ m.target < i /\ i <= p}

LEMMA SittingDef ==
    ASSUME NEW l, NEW m, NEW f, NEW s, NEW p
    PROVE  Sitting(l, m, f, s, p) =
             IF SwapsOf(l, m, s, p) = {} THEN f[s] ELSE l[Latest(SwapsOf(l, m, s, p))].by
BY DEF Sitting, SwapsOf

\* A line more changes who sits where only if it is the line of a swap.
LEMMA SittingAfter ==
    ASSUME NEW l \in Seq(LineSet), NEW e \in LineSet, NEW m, NEW f, NEW s,
           m.target \in 0..Len(l)
    PROVE  /\ \A p \in 0..Len(l) : Sitting(Append(l, e), m, f, s, p) = Sitting(l, m, f, s, p)
           /\ e.kind # "swapped" \/ e.seat # s =>
                 Sitting(Append(l, e), m, f, s, Len(l) + 1) = Sitting(l, m, f, s, Len(l))
<1> DEFINE k == Len(l)
           L == Append(l, e)
<1>1. /\ k \in Nat /\ DOMAIN l = 1..k /\ DOMAIN L = 1..(k + 1) /\ L[k + 1] = e
      /\ \A i \in 1..k : L[i] = l[i]
  BY OneMore
<1>2. \A p \in 0..k : SwapsOf(L, m, s, p) = SwapsOf(l, m, s, p) /\ SwapsOf(l, m, s, p) \subseteq 1..k
  BY <1>1 DEF SwapsOf, At
<1>3. \A p \in 0..k : SwapsOf(l, m, s, p) # {} =>
           L[Latest(SwapsOf(l, m, s, p))] = l[Latest(SwapsOf(l, m, s, p))]
  <2> SUFFICES ASSUME NEW p \in 0..k, SwapsOf(l, m, s, p) # {}
               PROVE  Latest(SwapsOf(l, m, s, p)) \in 1..k
    BY <1>1
  <2>1. Latest(SwapsOf(l, m, s, p)) \in SwapsOf(l, m, s, p)
    BY <1>1, <1>2, LatestIsLast
  <2>2. QED BY <1>2, <2>1
<1>4. \A p \in 0..k : Sitting(L, m, f, s, p) = Sitting(l, m, f, s, p)
  BY <1>2, <1>3, SittingDef
<1>5. ASSUME e.kind # "swapped" \/ e.seat # s
      PROVE  Sitting(L, m, f, s, k + 1) = Sitting(l, m, f, s, k)
  <2>1. SwapsOf(L, m, s, k + 1) = SwapsOf(l, m, s, k)
    BY <1>1, <1>5 DEF SwapsOf, At
  <2>2. k \in 0..k
    BY <1>1
  <2>3. QED BY <1>3, <2>1, <2>2, SittingDef
<1>6. QED BY <1>4, <1>5

LEMMA SittingAfterASwap ==
    ASSUME NEW l \in Seq(LineSet), NEW e \in LineSet, NEW m, NEW f, NEW s,
           m.target \in 0..Len(l), e.kind = "swapped", e.seat = s
    PROVE  Sitting(Append(l, e), m, f, s, Len(l) + 1) = e.by
<1> DEFINE k == Len(l)
           L == Append(l, e)
<1>1. k \in Nat /\ DOMAIN l = 1..k /\ DOMAIN L = 1..(k + 1) /\ L[k + 1] = e
  BY OneMore
<1>2. k + 1 \in SwapsOf(L, m, s, k + 1) /\ SwapsOf(L, m, s, k + 1) \subseteq 1..(k + 1)
  BY <1>1 DEF SwapsOf, At
<1>3. /\ Latest(SwapsOf(L, m, s, k + 1)) \in SwapsOf(L, m, s, k + 1)
      /\ k + 1 <= Latest(SwapsOf(L, m, s, k + 1))
  <2>1. k + 1 \in Nat /\ SwapsOf(L, m, s, k + 1) # {}
    BY <1>1, <1>2
  <2>2. QED BY <1>2, <2>1, LatestIsLast
<1>4. Latest(SwapsOf(L, m, s, k + 1)) = k + 1
  BY <1>1, <1>2, <1>3
<1>5. QED BY <1>1, <1>2, <1>4, SittingDef

\* A seat that was not swapped since the run was made is its first agent's.
LEMMA SittingUnswapped ==
    ASSUME NEW l, NEW m, NEW f, NEW s, NEW p,
           \A i \in At(l, "swapped") : l[i].seat = s => ~(m.target < i /\ i <= p)
    PROVE  Sitting(l, m, f, s, p) = f[s]
<1>1. SwapsOf(l, m, s, p) = {}
  BY DEF SwapsOf
<1>2. QED BY <1>1, SittingDef

-----------------------------------------------------------------------------
(* A log stays good as the process adds to it *)

LEMMA GoodAfter ==
    ASSUME NEW r \in Runs, NEW l, NEW m \in ManifestSet, NEW f, NEW e \in LineSet,
           GoodLog(r, l, m, f),
           OwnLine(r, Len(l) + 1, e),
           e.kind = "advanced" =>
               /\ e.round >= 1
               /\ \A i \in At(l, "advanced") : l[i].round <= e.round
               /\ \A n \in 1..e.round :
                     n = e.round \/ \E j \in At(l, "advanced") : l[j].round = n,
           Memory(e) =>
               /\ \E i \in At(l, "advanced") : l[i].round = e.round
               /\ e.kind = "relieved" \/ m.kind = "none" \/ e.round >= m.entry,
           e.kind = "said" =>
               /\ \A i \in At(l, "advanced") : l[i].round <= e.round
               /\ e.by = Sitting(l, m, f, e.seat, Len(l))
    PROVE  GoodLog(r, Append(l, e), m, f)
<1> DEFINE k == Len(l)
           L == Append(l, e)
<1>0. l \in Seq(LineSet) /\ l # <<>> /\ l[1].kind = "advanced" /\ m.target \in 0..k
  BY DEF GoodLog
<1>1. /\ k \in Nat /\ DOMAIN l = 1..k /\ DOMAIN L = 1..(k + 1) /\ L[k + 1] = e /\ Len(L) = k + 1
      /\ L \in Seq(LineSet) /\ L # <<>>
      /\ \A i \in 1..k : L[i] = l[i] /\ l[i] \in LineSet
  BY <1>0, OneMore
<1>2. L[1].kind = "advanced" /\ m.target \in 0..Len(L)
  BY <1>0, <1>1, InALog
<1>3. At(l, "advanced") \subseteq At(L, "advanced") /\ At(l, "advanced") \subseteq 1..k
  BY <1>1 DEF At
<1>4. \A i \in At(L, "advanced") : i \in At(l, "advanced") \/ (i = k + 1 /\ e.kind = "advanced")
  BY <1>1 DEF At
<1>5. RoundsInOrder(l) /\ CutAtTheRound(l, m) /\ WordsAreTheSitters(l, m, f) /\ NamedApart(r, l, m)
  BY DEF GoodLog
<1>6. \A i \in 1..k : l[i].round \in Nat
  BY <1>1 DEF LineSet
<1>7. e.round \in Nat
  BY DEF LineSet
<1>8. RoundsInOrder(L)
  <2>1. \A i \in At(L, "advanced") : L[i].round >= 1
    BY <1>1, <1>3, <1>4, <1>5 DEF RoundsInOrder
  <2>2. ASSUME NEW i \in DOMAIN L, NEW j \in DOMAIN L, i < j, L[i].kind = "advanced",
               L[j].kind \in {"advanced", "said"}
        PROVE  L[i].round <= L[j].round
    <3>1. i \in 1..k /\ L[i] = l[i] /\ i \in At(l, "advanced")
      BY <1>1, <2>2 DEF At
    <3>2. CASE j \in 1..k
      BY <1>1, <1>5, <2>2, <3>1, <3>2 DEF RoundsInOrder
    <3>3. CASE j = k + 1
      BY <1>1, <2>2, <3>1, <3>3
    <3>4. QED BY <1>1, <3>2, <3>3
  <2>3. ASSUME NEW i \in At(L, "advanced"), NEW n \in 1..L[i].round
        PROVE  \E j \in At(L, "advanced") : j <= i /\ L[j].round = n
    <3>1. CASE i \in At(l, "advanced")
      <4>1. i \in 1..k /\ L[i] = l[i]
        BY <1>1, <1>3, <3>1
      <4>2. PICK j \in At(l, "advanced") : j <= i /\ l[j].round = n
        BY <1>5, <3>1, <4>1 DEF RoundsInOrder
      <4>3. QED BY <1>1, <1>3, <4>2
    <3>2. CASE i = k + 1 /\ e.kind = "advanced"
      <4>1. CASE n = e.round
        BY <1>1, <3>2, <4>1
      <4>2. CASE n # e.round
        <5>1. n \in 1..e.round
          BY <1>1, <3>2
        <5>2. PICK j \in At(l, "advanced") : l[j].round = n
          BY <3>2, <4>2, <5>1
        <5>3. j \in At(L, "advanced") /\ L[j] = l[j] /\ j <= i
          BY <1>1, <1>3, <3>2
        <5>4. QED BY <5>2, <5>3
      <4>3. QED BY <4>1, <4>2
    <3>3. QED BY <1>4, <3>1, <3>2
  <2>4. ASSUME NEW j \in DOMAIN L, Memory(L[j])
        PROVE  \E i \in At(L, "advanced") : i < j /\ L[i].round = L[j].round
    <3>1. CASE j \in 1..k
      <4>1. PICK i \in At(l, "advanced") : i < j /\ l[i].round = l[j].round
        BY <1>1, <1>5, <2>4, <3>1 DEF RoundsInOrder
      <4>2. i \in At(L, "advanced") /\ L[i] = l[i] /\ L[j] = l[j]
        BY <1>1, <1>3, <3>1
      <4>3. i < j /\ L[i].round = L[j].round
        BY <4>1, <4>2
      <4>4. QED BY <4>2, <4>3
    <3>2. CASE j = k + 1
      <4>1. PICK i \in At(l, "advanced") : l[i].round = e.round
        BY <1>1, <2>4, <3>2
      <4>2. i \in At(L, "advanced") /\ L[i] = l[i] /\ i < j
        BY <1>1, <1>3, <3>2
      <4>3. QED BY <1>1, <3>2, <4>1, <4>2
    <3>3. j \in 1..k \/ j = k + 1
      BY <1>1
    <3>4. QED BY <3>1, <3>2, <3>3
  <2>5. QED BY <2>1, <2>2, <2>3, <2>4 DEF RoundsInOrder
<1>9. CutAtTheRound(L, m)
  <2> SUFFICES ASSUME m.kind # "none", NEW i \in DOMAIN L, Memory(L[i])
               PROVE  /\ i <= m.target => L[i].round < m.entry
                      /\ i > m.target /\ L[i].kind # "relieved" => L[i].round >= m.entry
    BY DEF CutAtTheRound
  <2>1. CASE i \in 1..k
    BY <1>1, <1>5, <2>1 DEF CutAtTheRound
  <2>2. CASE i = k + 1
    <3>1. m.target < i /\ m.target \in Nat
      BY <1>0, <1>1, <2>2
    <3>2. QED BY <1>1, <2>2, <3>1
  <2>3. QED BY <1>1, <2>1, <2>2
<1>10. WordsAreTheSitters(L, m, f)
  <2> SUFFICES ASSUME NEW i \in DOMAIN L, L[i].kind = "said", L[i].seat \in Seats,
                      i > m.target \/ L[i].seat # m.seat
               PROVE  L[i].by = Sitting(L, m, f, L[i].seat, i)
    BY DEF WordsAreTheSitters
  <2>1. CASE i \in 1..k
    <3>1. l[i].by = Sitting(l, m, f, l[i].seat, i) /\ i \in 0..k
      BY <1>1, <1>5, <2>1 DEF WordsAreTheSitters
    <3>2. Sitting(L, m, f, l[i].seat, i) = Sitting(l, m, f, l[i].seat, i)
      BY <1>0, <3>1, SittingAfter
    <3>3. QED BY <1>1, <2>1, <3>1, <3>2
  <2>2. CASE i = k + 1
    <3>1. e.kind # "swapped"
      BY <1>1, <2>2
    <3>2. Sitting(L, m, f, e.seat, k + 1) = Sitting(l, m, f, e.seat, k)
      BY <1>0, <3>1, SittingAfter
    <3>3. QED BY <1>1, <2>2, <3>2
  <2>3. QED BY <1>1, <2>1, <2>2
<1>11. NamedApart(r, L, m)
  <2> SUFFICES ASSUME NEW i \in DOMAIN L
               PROVE  /\ i <= m.target => L[i].at[1] < r /\ L[i].by[1] < r
                      /\ i > m.target => OwnLine(r, k + 1, L[i])
    BY <1>1 DEF NamedApart
  <2>1. CASE i \in 1..k
    <3>1. /\ i <= m.target => l[i].at[1] < r /\ l[i].by[1] < r
          /\ i > m.target => OwnLine(r, k, l[i])
      BY <1>1, <1>5, <2>1 DEF NamedApart
    <3>2. l[i].by[2] \in Nat
      BY <1>1, <2>1 DEF LineSet
    <3>3. QED BY <1>1, <2>1, <3>1, <3>2 DEF OwnLine
  <2>2. CASE i = k + 1
    <3>1. ~(i <= m.target)
      BY <1>0, <1>1, <2>2
    <3>2. QED BY <1>1, <2>2, <3>1
  <2>3. QED BY <1>1, <2>1, <2>2
<1>12. QED BY <1>1, <1>2, <1>8, <1>9, <1>10, <1>11 DEF GoodLog

-----------------------------------------------------------------------------
(* Types *)

LEMMA LineTyped ==
    ASSUME TypeOK, NEW r \in Runs, NEW kind \in Kinds, NEW s \in Seats \cup {Nobody},
           NEW c \in Channels \cup {NoChannel}, NEW n \in Nat, NEW agent \in Nat \X Nat
    PROVE  /\ Line(r, kind, s, c, n, agent) \in LineSet
           /\ LET e == Line(r, kind, s, c, n, agent) IN
              /\ e.kind = kind /\ e.seat = s /\ e.round = n /\ e.by = agent /\ e.chan = c
              /\ e.at = <<r, Len(log[r]) + 1>>
<1>1. r \in Nat /\ Len(log[r]) \in Nat
  BY LineageAssumption, InALog DEF TypeOK, Runs
<1>2. QED BY <1>1 DEF Line, LineSet

LEMMA SysTyped ==
    ASSUME TypeOK, NEW r \in Runs, NEW kind \in Kinds, NEW n \in Nat
    PROVE  /\ Sys(r, kind, n) \in LineSet
           /\ Sys(r, kind, n).kind = kind /\ Sys(r, kind, n).seat = Nobody
           /\ Sys(r, kind, n).round = n /\ Sys(r, kind, n).by = <<0, 0>>
           /\ Sys(r, kind, n).at = <<r, Len(log[r]) + 1>>
<1>1. Nobody \in Seats \cup {Nobody} /\ NoChannel \in Channels \cup {NoChannel} /\ <<0, 0>> \in Nat \X Nat
  OBVIOUS
<1>2. QED BY <1>1, LineTyped DEF Sys

LEMMA SittingTyped ==
    ASSUME NEW l \in Seq(LineSet), NEW m, NEW f \in [Seats -> Nat \X Nat], NEW s \in Seats, NEW p
    PROVE  Sitting(l, m, f, s, p) \in Nat \X Nat
<1>1. Len(l) \in Nat /\ SwapsOf(l, m, s, p) \subseteq 1..Len(l)
  BY InALog DEF SwapsOf, At
<1>2. CASE SwapsOf(l, m, s, p) = {}
  BY <1>2, SittingDef
<1>3. CASE SwapsOf(l, m, s, p) # {}
  <2>1. Latest(SwapsOf(l, m, s, p)) \in 1..Len(l)
    BY <1>1, <1>3, LatestIsLast
  <2>2. l[Latest(SwapsOf(l, m, s, p))] \in LineSet
    BY <2>1, InALog
  <2>3. QED BY <1>3, <2>2, SittingDef DEF LineSet
<1>4. QED BY <1>2, <1>3

LEMMA WhoTyped ==
    ASSUME TypeOK, NEW r \in Runs, NEW s \in Seats
    PROVE  Who(r, s) \in Nat \X Nat
BY SittingTyped DEF Who, Occupant, TypeOK

LEMMA CountTyped ==
    ASSUME NEW l \in Seq(LineSet), NEW c
    PROVE  Count(l, c) \in Nat
<1>1. Len(l) \in Nat /\ DOMAIN l = 1..Len(l)
  BY InALog
<1>2. IsFiniteSet(1..Len(l))
  BY <1>1, FS_Interval
<1>3. {i \in At(l, "call") : l[i].chan = c} \in SUBSET (1..Len(l))
  BY <1>1 DEF At
<1>4. IsFiniteSet({i \in At(l, "call") : l[i].chan = c})
  BY <1>2, <1>3, FS_Subset
<1>5. QED BY <1>4, FS_CardinalityType DEF Count

LEMMA PrefixTyped ==
    ASSUME NEW l \in Seq(LineSet), NEW p \in 0..Len(l)
    PROVE  /\ SubSeq(l, 1, p) \in Seq(LineSet) /\ Len(SubSeq(l, 1, p)) = p
           /\ DOMAIN SubSeq(l, 1, p) = 1..p
           /\ \A i \in 1..p : SubSeq(l, 1, p)[i] = l[i]
<1>1. Len(l) \in Nat /\ \A i \in 1..Len(l) : l[i] \in LineSet
  BY InALog
<1>2. p \in Int /\ 1 \in Int /\ \A i \in 1..p : l[i] \in LineSet
  BY <1>1
<1>3. /\ SubSeq(l, 1, p) \in Seq(LineSet)
      /\ Len(SubSeq(l, 1, p)) = IF 1 <= p THEN p - 1 + 1 ELSE 0
      /\ \A i \in 1..(p - 1 + 1) : SubSeq(l, 1, p)[i] = l[1 + i - 1]
  BY <1>2, SubSeqProperties
<1>4. Len(SubSeq(l, 1, p)) = p /\ \A i \in 1..p : SubSeq(l, 1, p)[i] = l[i]
  BY <1>1, <1>2, <1>3
<1>5. QED BY <1>3, <1>4, LenProperties

LEMMA LastRoundTyped ==
    ASSUME NEW l \in Seq(LineSet)
    PROVE  LastRound(l) \in Nat
<1>1. Len(l) \in Nat /\ At(l, "advanced") \subseteq 1..Len(l)
  BY InALog DEF At
<1>2. CASE At(l, "advanced") = {}
  BY <1>2 DEF LastRound
<1>3. CASE At(l, "advanced") # {}
  <2>1. Latest(At(l, "advanced")) \in 1..Len(l)
    BY <1>1, <1>3, LatestIsLast
  <2>2. l[Latest(At(l, "advanced"))] \in LineSet
    BY <2>1, InALog
  <2>3. QED BY <1>3, <2>2 DEF LastRound, LineSet
<1>4. QED BY <1>2, <1>3

LEMMA SnapshotTyped ==
    ASSUME NEW l \in Seq(LineSet), NEW n, NEW c
    PROVE  Snapshot(l, n, c) \in Nat
<1>1. Len(l) \in Nat /\ AdvancedTo(l, n) \subseteq 1..Len(l)
  BY InALog DEF AdvancedTo, At
<1>2. Latest(AdvancedTo(l, n)) \in 0..Len(l)
  BY <1>1, LatestIsAPosition
<1>3. SubSeq(l, 1, Latest(AdvancedTo(l, n))) \in Seq(LineSet)
  BY <1>2, PrefixTyped
<1>4. QED BY <1>3, CountTyped DEF Snapshot

LEMMA RebuiltTyped ==
    ASSUME NEW l \in Seq(LineSet), NEW s
    PROVE  Rebuilt(l, s) \subseteq LineSet
BY InALog DEF Rebuilt, Lines

\* What a launch walks is the whole log: behind the cut of a pristine clone is nothing.
LEMMA WalkedIsAll ==
    ASSUME TypeOK, NEW r \in Runs, manifest[r].target \in 0..Len(log[r])
    PROVE  /\ Walked(r) = log[r]
           /\ Fresh(r) => manifest[r].target = Len(log[r])
<1> DEFINE l == log[r]
           k == Len(l)
           p == IF Fresh(r) THEN manifest[r].target ELSE k
<1>1. l \in Seq(LineSet) /\ k \in Nat /\ DOMAIN l = 1..k
  BY InALog DEF TypeOK
<1>2. ASSUME Fresh(r) PROVE manifest[r].target = k
  <2>1. {l[i].kind : i \in (manifest[r].target + 1)..k} = {}
    BY <1>2 DEF Fresh, Progress
  <2>2. ~(manifest[r].target < k)
    <3> SUFFICES ASSUME manifest[r].target < k PROVE FALSE
      OBVIOUS
    <3>1. k \in (manifest[r].target + 1)..k
      BY <1>1
    <3>2. l[k].kind \in {l[i].kind : i \in (manifest[r].target + 1)..k}
      BY <3>1
    <3>3. QED BY <2>1, <3>2
  <2>3. QED BY <1>1, <2>2
<1>3. p = k
  BY <1>2
<1>4. SubSeq(l, 1, k) = l
  <2>1. /\ SubSeq(l, 1, k) \in Seq(LineSet) /\ DOMAIN SubSeq(l, 1, k) = 1..k
        /\ Len(SubSeq(l, 1, k)) = k /\ \A i \in 1..k : SubSeq(l, 1, k)[i] = l[i]
    BY <1>1, PrefixTyped
  <2>2. QED BY <1>1, <2>1, SeqEqual
<1>5. QED BY <1>2, <1>3, <1>4 DEF Walked

LEMMA HistoryTyped ==
    ASSUME TypeOK, NEW r \in Runs, manifest[r].target \in 0..Len(log[r]), NEW s \in Seats
    PROVE  History(r, s) \subseteq LineSet
<1>1. log[r] \in Seq(LineSet) /\ manifest[r].imported \in Seq(LineSet)
  BY DEF TypeOK, ManifestSet
<1>2. Walked(r) = log[r]
  BY WalkedIsAll
<1>3. Rebuilt(Walked(r), s) \subseteq LineSet /\ Rebuilt(manifest[r].imported, s) \subseteq LineSet
  BY <1>1, <1>2, RebuiltTyped
<1>4. QED BY <1>3 DEF History

LEMMA JoinIndexTyped ==
    ASSUME TypeOK, NEW r \in Runs, manifest[r].target \in 0..Len(log[r]), NEW s \in Seats,
           NEW c \in Channels
    PROVE  JoinIndex(r, s, c) \in Nat
<1>1. log[r] \in Seq(LineSet)
  BY DEF TypeOK
<1>2. Walked(r) = log[r]
  BY WalkedIsAll
<1>3. Count(Walked(r), c) \in Nat /\ \A n : Snapshot(Walked(r), n, c) \in Nat
  BY <1>1, <1>2, CountTyped, SnapshotTyped
<1>4. QED BY <1>3 DEF JoinIndex

-----------------------------------------------------------------------------
(* The run that is up *)

LEMMA UpFacts ==
    ASSUME IInv, up # 0
    PROVE  /\ up \in Runs /\ up \in Nat /\ round \in Nat /\ round >= 1
           /\ log[up] \in Seq(LineSet) /\ log \in [Runs -> Seq(LineSet)]
           /\ GoodLog(up, log[up], manifest[up], first[up])
           /\ GoodManifest(up, manifest[up], first[up])
           /\ manifest[up] \in ManifestSet /\ first[up] \in [Seats -> Nat \X Nat]
           /\ manifest[up].target \in 0..Len(log[up]) /\ manifest[up].target \in Nat
<1>1. up \in Runs /\ up \in Nat /\ round \in Nat /\ round >= 1
  BY LineageAssumption DEF IInv, TypeOK, InTheRound, Runs
<1>2. log[up] # <<>>
  BY <1>1 DEF IInv, RunsExist
<1>3. GoodLog(up, log[up], manifest[up], first[up]) /\ GoodManifest(up, manifest[up], first[up])
  BY <1>1, <1>2 DEF IInv, RunsExist
<1>4. /\ log[up] \in Seq(LineSet) /\ log \in [Runs -> Seq(LineSet)]
      /\ manifest[up] \in ManifestSet /\ first[up] \in [Seats -> Nat \X Nat]
  BY <1>1 DEF IInv, TypeOK
<1>5. manifest[up].target \in 0..Len(log[up]) /\ manifest[up].target \in Nat
  BY <1>3, <1>4 DEF GoodLog, ManifestSet
<1>6. QED BY <1>1, <1>3, <1>4, <1>5

\* Whoever has a seat was there when the run was made, or was swapped in within it.
LEMMA SittingIsOurs ==
    ASSUME NEW r \in Runs, NEW l, NEW m, NEW f \in [Seats -> Nat \X Nat], NEW s \in Seats, NEW p,
           GoodLog(r, l, m, f), GoodManifest(r, m, f)
    PROVE  /\ Sitting(l, m, f, s, p) \in Nat \X Nat
           /\ Sitting(l, m, f, s, p)[1] <= r
           /\ Sitting(l, m, f, s, p)[1] = r => Sitting(l, m, f, s, p)[2] <= Len(l)
<1>1. l \in Seq(LineSet) /\ NamedApart(r, l, m)
  BY DEF GoodLog
<1>2. Len(l) \in Nat /\ DOMAIN l = 1..Len(l) /\ SwapsOf(l, m, s, p) \subseteq 1..Len(l)
  BY <1>1, InALog DEF SwapsOf, At
<1>3. Sitting(l, m, f, s, p) \in Nat \X Nat
  BY <1>1, SittingTyped
<1>4. CASE SwapsOf(l, m, s, p) = {}
  BY <1>2, <1>3, <1>4, SittingDef DEF GoodManifest
<1>5. CASE SwapsOf(l, m, s, p) # {}
  <2> DEFINE i == Latest(SwapsOf(l, m, s, p))
  <2>1. i \in SwapsOf(l, m, s, p)
    BY <1>2, <1>5, LatestIsLast
  <2>2. i \in DOMAIN l /\ m.target < i
    BY <1>2, <2>1 DEF SwapsOf
  <2>3. OwnLine(r, Len(l), l[i])
    BY <1>1, <2>2 DEF NamedApart
  <2>4. Sitting(l, m, f, s, p) = l[i].by
    BY <1>5, SittingDef
  <2>5. QED BY <1>3, <2>3, <2>4 DEF OwnLine
<1>6. QED BY <1>4, <1>5

LEMMA WhoIsOurs ==
    ASSUME IInv, up # 0, NEW s \in Seats
    PROVE  /\ Who(up, s) \in Nat \X Nat /\ Who(up, s)[1] <= up
           /\ Who(up, s)[1] = up => Who(up, s)[2] <= Len(log[up])
           /\ Who(up, s) = Sitting(log[up], manifest[up], first[up], s, Len(log[up]))
BY UpFacts, SittingIsOurs DEF Who, Occupant

\* A log that was added to is the log of its run.
LEMMA RunGrows ==
    ASSUME IInv, up # 0, NEW e \in LineSet, e.kind # "relieved",
           GoodLog(up, Append(log[up], e), manifest[up], first[up]),
           log' = [log EXCEPT ![up] = Append(@, e)],
           UNCHANGED <<manifest, first>>, up' \in {up, 0}
    PROVE  RunsExist' /\ RelievedBySwaps' /\ log' \in [Runs -> Seq(LineSet)]
<1> DEFINE l == log[up]
           k == Len(l)
           L == Append(l, e)
<1>0. up \in Runs /\ log \in [Runs -> Seq(LineSet)] /\ l \in Seq(LineSet)
      /\ GoodManifest(up, manifest[up], first[up]) /\ manifest[up].target \in Nat
  BY UpFacts
<1>1. /\ L \in Seq(LineSet) /\ L # <<>> /\ DOMAIN L = 1..(k + 1) /\ DOMAIN l = 1..k /\ k \in Nat
      /\ L[k + 1] = e /\ \A i \in 1..k : L[i] = l[i]
  BY <1>0, OneMore
<1>2. log'[up] = L /\ \A r \in Runs : r # up => log'[r] = log[r]
  BY <1>0
<1>3. log' \in [Runs -> Seq(LineSet)]
  BY <1>0, <1>1
<1>4. RunsExist'
  <2> SUFFICES ASSUME NEW r \in Runs
               PROVE  /\ GoodManifest(r, manifest[r], first[r])
                      /\ log'[r] # <<>> => GoodLog(r, log'[r], manifest[r], first[r])
                      /\ log'[r] = <<>> => manifest[r] = NoManifest /\ up' # r
    BY DEF RunsExist
  <2>1. CASE r = up
    BY <1>0, <1>1, <1>2, <2>1
  <2>2. CASE r # up
    <3>1. r # 0
      BY LineageAssumption DEF Runs
    <3>2. QED BY <1>2, <2>2, <3>1 DEF IInv, RunsExist
  <2>3. QED BY <2>1, <2>2
<1>5. RelievedBySwaps'
  <2> SUFFICES ASSUME NEW r \in Runs, NEW i \in DOMAIN log'[r], i > manifest[r].target,
                      log'[r][i].kind = "relieved"
               PROVE  \E j \in At(log'[r], "swapped") : manifest[r].target < j
    BY DEF RelievedBySwaps, SwappedHere
  <2>1. CASE r = up
    <3>1. i \in DOMAIN l /\ l[i].kind = "relieved"
      BY <1>1, <1>2, <2>1
    <3>2. PICK j \in At(l, "swapped") : manifest[r].target < j
      BY <1>0, <2>1, <3>1 DEF IInv, RelievedBySwaps, SwappedHere
    <3>3. j \in At(L, "swapped")
      BY <1>1, <3>2 DEF At
    <3>4. QED BY <1>2, <2>1, <3>2, <3>3
  <2>2. CASE r # up
    BY <1>2, <2>2 DEF IInv, RelievedBySwaps, SwappedHere
  <2>3. QED BY <2>1, <2>2
<1>6. QED BY <1>3, <1>4, <1>5

\* What a line adds to the memory of a seat.
LEMMA OwnAfter ==
    ASSUME IInv, up # 0, NEW e \in LineSet, NEW s \in Seats,
           e.kind # "swapped" \/ e.seat # s,
           log' = [log EXCEPT ![up] = Append(@, e)],
           UNCHANGED <<manifest, first, up>>
    PROVE  /\ Who(up, s)' = Who(up, s)
           /\ \A x \in Own(s)' : x \in Own(s) \/ (x = e /\ e.seat = s /\ (IsCall(e) \/ e.kind = "said"))
<1> DEFINE l == log[up]
           k == Len(l)
           L == Append(l, e)
<1>0. up \in Runs /\ log \in [Runs -> Seq(LineSet)] /\ l \in Seq(LineSet)
      /\ manifest[up].target \in 0..Len(l)
  BY UpFacts
<1>1. /\ DOMAIN L = 1..(k + 1) /\ DOMAIN l = 1..k /\ k \in Nat /\ Len(L) = k + 1
      /\ L[k + 1] = e /\ \A i \in 1..k : L[i] = l[i]
  BY <1>0, OneMore
<1>2. log'[up] = L
  BY <1>0
<1>3. Who(up, s)' = Who(up, s)
  <2>1. Sitting(L, manifest[up], first[up], s, k + 1) = Sitting(l, manifest[up], first[up], s, k)
    BY <1>0, SittingAfter
  <2>2. QED BY <1>1, <1>2, <2>1 DEF Who, Occupant
<1>4. \A x \in Lines(L) : x \in Lines(l) \/ x = e
  BY <1>1 DEF Lines
<1>5. \A x \in Rebuilt(L, s) :
         x \in Rebuilt(l, s) \/ (x = e /\ e.seat = s /\ (IsCall(e) \/ e.kind = "said"))
  BY <1>4 DEF Rebuilt
<1>6. QED
  BY <1>2, <1>3, <1>5 DEF Own

-----------------------------------------------------------------------------
(* The lines of the system and of the agents *)

LEMMA AddedLine ==
    ASSUME IInv, up # 0, NEW e \in LineSet, log' = [log EXCEPT ![up] = Append(@, e)]
    PROVE  /\ \A i \in At(log[up], "advanced") :
                 i \in At(log'[up], "advanced") /\ log'[up][i].round = log[up][i].round
           /\ \A i \in At(log'[up], "advanced") :
                 \/ i \in At(log[up], "advanced") /\ log'[up][i].round = log[up][i].round
                 \/ e.kind = "advanced" /\ log'[up][i].round = e.round
           /\ e.kind = "advanced" => \E i \in At(log'[up], "advanced") : log'[up][i].round = e.round
<1> DEFINE l == log[up]
           k == Len(l)
           L == Append(l, e)
<1>1. up \in Runs /\ log \in [Runs -> Seq(LineSet)] /\ l \in Seq(LineSet)
  BY UpFacts
<1>2. /\ DOMAIN L = 1..(k + 1) /\ DOMAIN l = 1..k /\ k \in Nat
      /\ L[k + 1] = e /\ \A i \in 1..k : L[i] = l[i]
  BY <1>1, OneMore
<1>3. log'[up] = L
  BY <1>1
<1>4. \A i \in At(l, "advanced") : i \in At(L, "advanced") /\ L[i].round = l[i].round
  BY <1>2 DEF At
<1>5. \A i \in At(L, "advanced") :
         (i \in At(l, "advanced") /\ L[i].round = l[i].round) \/ (i = k + 1 /\ e.kind = "advanced")
  BY <1>2 DEF At
<1>6. e.kind = "advanced" => k + 1 \in At(L, "advanced") /\ L[k + 1].round = e.round
  BY <1>2 DEF At
<1>7. \A i \in At(L, "advanced") :
         \/ i \in At(l, "advanced") /\ L[i].round = l[i].round
         \/ e.kind = "advanced" /\ L[i].round = e.round
  BY <1>2, <1>5
<1>8. e.kind = "advanced" => \E i \in At(L, "advanced") : L[i].round = e.round
  BY <1>6
<1> HIDE DEF L
<1>9. QED BY <1>3, <1>4, <1>7, <1>8

LEMMA SystemLine ==
    ASSUME IInv, up # 0,
           NEW kind \in {"advanced", "injected", "closed", "complete", "failed"}, NEW n \in Nat,
           kind = "advanced" =>
               /\ n >= 1
               /\ \A i \in At(log[up], "advanced") : log[up][i].round <= n
               /\ \A q \in 1..n : q = n \/ \E j \in At(log[up], "advanced") : log[up][j].round = q,
           log' = [log EXCEPT ![up] = Append(@, Sys(up, kind, n))],
           UNCHANGED <<manifest, first>>, up' \in {up, 0}
    PROVE  /\ RunsExist' /\ RelievedBySwaps' /\ log' \in [Runs -> Seq(LineSet)]
           /\ up' = up => \A s \in Seats : Who(up, s)' = Who(up, s) /\ Own(s)' \subseteq Own(s)
           /\ Sys(up, kind, n) \in LineSet /\ Sys(up, kind, n).kind = kind
           /\ Sys(up, kind, n).round = n
<1> DEFINE e == Sys(up, kind, n)
           l == log[up]
<1>1. up \in Runs /\ up \in Nat /\ l \in Seq(LineSet) /\ GoodLog(up, l, manifest[up], first[up])
  BY UpFacts
<1>2. kind \in Kinds /\ TypeOK
  BY DEF Kinds, IInv
<1>3. /\ e \in LineSet /\ e.kind = kind /\ e.seat = Nobody /\ e.round = n /\ e.by = <<0, 0>>
      /\ e.at = <<up, Len(l) + 1>>
  BY <1>1, <1>2, SysTyped
<1>4. OwnLine(up, Len(l) + 1, e)
  BY <1>1, <1>3 DEF OwnLine
<1>5. ~Memory(e) /\ e.kind # "said" /\ e.kind # "relieved" /\ e.kind # "swapped"
  BY <1>3, LineageAssumption DEF Memory
<1>6. GoodLog(up, Append(l, e), manifest[up], first[up])
  <2>1. manifest[up] \in ManifestSet
    BY UpFacts
  <2>2. e.kind = "advanced" =>
           /\ e.round >= 1
           /\ \A i \in At(l, "advanced") : l[i].round <= e.round
           /\ \A q \in 1..e.round : q = e.round \/ \E j \in At(l, "advanced") : l[j].round = q
    BY <1>3
  <2>3. Memory(e) => /\ \E i \in At(l, "advanced") : l[i].round = e.round
                     /\ e.kind = "relieved" \/ manifest[up].kind = "none"
                        \/ e.round >= manifest[up].entry
    BY <1>5
  <2>4. e.kind = "said" => /\ \A i \in At(l, "advanced") : l[i].round <= e.round
                           /\ e.by = Sitting(l, manifest[up], first[up], e.seat, Len(l))
    BY <1>5
  <2>5. QED BY <1>1, <1>3, <1>4, <2>1, <2>2, <2>3, <2>4, GoodAfter
<1>7. RunsExist' /\ RelievedBySwaps' /\ log' \in [Runs -> Seq(LineSet)]
  BY <1>3, <1>5, <1>6, RunGrows
<1>8. ASSUME up' = up, NEW s \in Seats
      PROVE  Who(up, s)' = Who(up, s) /\ Own(s)' \subseteq Own(s)
  <2>1. e.seat # s
    BY <1>3, LineageAssumption
  <2>2. QED BY <1>3, <1>8, <2>1, OwnAfter
<1>9. QED BY <1>3, <1>7, <1>8

LEMMA AgentLineTyped ==
    ASSUME IInv, up # 0, NEW kind \in {"call", "refused", "over", "said"},
           NEW s \in Seats, NEW c \in Channels \cup {NoChannel}, NEW e,
           e = Line(up, kind, s, c, round, Who(up, s))
    PROVE  /\ e \in LineSet /\ e.kind = kind /\ e.seat = s /\ e.round = round /\ e.by = Who(up, s)
           /\ e.at = <<up, Len(log[up]) + 1>>
<1>1. up \in Runs /\ up \in Nat /\ log[up] \in Seq(LineSet) /\ round \in Nat /\ kind \in Kinds
  BY UpFacts DEF Kinds
<1>2. Len(log[up]) \in Nat /\ Who(up, s) \in Nat \X Nat /\ s \in Seats \cup {Nobody}
  BY <1>1, InALog, WhoIsOurs
<1>3. QED BY <1>1, <1>2 DEF Line, LineSet

LEMMA AgentLine ==
    ASSUME IInv, up # 0, phase # "entering", NEW kind \in {"call", "refused", "over", "said"},
           NEW s \in Seats, NEW c \in Channels \cup {NoChannel}, NEW e,
           e = Line(up, kind, s, c, round, Who(up, s)),
           log' = [log EXCEPT ![up] = Append(@, e)],
           UNCHANGED <<manifest, first, up>>
    PROVE  RunsExist' /\ RelievedBySwaps' /\ log' \in [Runs -> Seq(LineSet)]
<1> DEFINE l == log[up]
<1>1. /\ up \in Runs /\ up \in Nat /\ l \in Seq(LineSet) /\ GoodLog(up, l, manifest[up], first[up])
      /\ manifest[up] \in ManifestSet
  BY UpFacts
<1>2. /\ Who(up, s) \in Nat \X Nat /\ Who(up, s)[1] <= up
      /\ Who(up, s)[1] = up => Who(up, s)[2] <= Len(l)
      /\ Who(up, s) = Sitting(l, manifest[up], first[up], s, Len(l))
  BY WhoIsOurs
<1>3. /\ e \in LineSet /\ e.kind = kind /\ e.seat = s /\ e.round = round /\ e.by = Who(up, s)
      /\ e.at = <<up, Len(l) + 1>>
  BY AgentLineTyped
<1>4. OwnLine(up, Len(l) + 1, e)
  <2>1. Len(l) \in Nat
    BY <1>1, InALog
  <2>2. Who(up, s)[1] = up => Who(up, s)[2] <= Len(l) + 1
    BY <1>2, <2>1
  <2>3. QED BY <1>1, <1>2, <1>3, <2>2 DEF OwnLine
<1>5. e.kind # "advanced" /\ e.kind # "relieved"
  BY <1>3
<1>6. GoodLog(up, Append(l, e), manifest[up], first[up])
  <2>1. /\ \E i \in At(l, "advanced") : l[i].round = e.round
        /\ manifest[up].kind = "none" \/ e.round >= manifest[up].entry
        /\ \A i \in At(l, "advanced") : l[i].round <= e.round
    BY <1>3 DEF IInv, InTheRound, Derived
  <2>2. e.by = Sitting(l, manifest[up], first[up], e.seat, Len(l))
    BY <1>2, <1>3
  <2>3. QED BY <1>1, <1>3, <1>4, <1>5, <2>1, <2>2, GoodAfter
<1>7. QED BY <1>3, <1>5, <1>6, RunGrows

LEMMA StaysInTheRound ==
    ASSUME IInv, up # 0, phase # "entering", phase' \notin {"entering", "down"},
           NEW e \in LineSet, e.kind # "advanced",
           log' = [log EXCEPT ![up] = Append(@, e)], UNCHANGED <<manifest, up, round>>
    PROVE  InTheRound'
<1>1. /\ \A i \in At(log[up], "advanced") :
            i \in At(log'[up], "advanced") /\ log'[up][i].round = log[up][i].round
      /\ \A i \in At(log'[up], "advanced") :
            i \in At(log[up], "advanced") /\ log'[up][i].round = log[up][i].round
  BY AddedLine
<1>2. /\ round >= 1
      /\ \A i \in At(log[up], "advanced") : log[up][i].round <= round
      /\ \E i \in At(log[up], "advanced") : log[up][i].round = round
      /\ Derived(up) => round >= manifest[up].entry
  BY DEF IInv, InTheRound
<1>3. \E i \in At(log'[up], "advanced") : log'[up][i].round = round
  BY <1>1, <1>2
<1>4. \A i \in At(log'[up], "advanced") : log'[up][i].round <= round
  BY <1>1, <1>2
<1>5. QED BY <1>2, <1>3, <1>4 DEF InTheRound, Derived

LEMMA IsUp ==
    ASSUME IInv, phase # "down"
    PROVE  up # 0
BY DEF IInv, InTheRound

LEMMA DownRests ==
    ASSUME Down
    PROVE  /\ InTheRound' /\ HistoriesBack'
           /\ up' \in 0..MaxRuns /\ round' \in Nat /\ phase' = "down"
           /\ mind' \in [Seats -> SUBSET LineSet] /\ joins' \in [Seats -> [Channels -> Nat]]
           /\ midCycle' \subseteq Seats /\ told' \subseteq Seats
BY LineageAssumption DEF Down, InTheRound, HistoriesBack, EachGetsItsHistoryBack

-----------------------------------------------------------------------------
(* The steps of a process *)

LEMMA EndKeeps ==
    ASSUME IInv, End
    PROVE  IInv'
<1>1. up # 0 /\ round \in Nat
  BY IsUp, UpFacts DEF End
<1>2. /\ log' = [log EXCEPT ![up] = Append(@, Sys(up, "complete", round))]
      /\ UNCHANGED <<manifest, first, given, calls, launches>> /\ up' = 0 /\ Down
  BY DEF End, Append1, Down
<1>3. RunsExist' /\ RelievedBySwaps' /\ log' \in [Runs -> Seq(LineSet)]
  BY <1>1, <1>2, SystemLine
<1>4. QED BY <1>2, <1>3, DownRests DEF IInv, TypeOK

LEMMA StopKeeps ==
    ASSUME IInv, NEW logged \in BOOLEAN, Stop(logged)
    PROVE  IInv'
<1>1. up # 0 /\ round \in Nat
  BY UpFacts DEF Stop
<1>2. UNCHANGED <<manifest, first, given, calls>> /\ up' = 0 /\ Down /\ launches' = launches + 1
  BY DEF Stop, Down
<1>3. RunsExist' /\ RelievedBySwaps' /\ log' \in [Runs -> Seq(LineSet)]
  <2>1. CASE logged
    <3>1. log' = [log EXCEPT ![up] = Append(@, Sys(up, "failed", round))]
      BY <2>1 DEF Stop, Append1
    <3>2. QED BY <1>1, <1>2, <3>1, SystemLine
  <2>2. CASE ~logged
    <3>1. log' = log
      BY <2>2 DEF Stop
    <3>2. \A r \in Runs : r # 0
      BY LineageAssumption DEF Runs
    <3>3. QED BY <1>2, <3>1, <3>2
         DEF IInv, TypeOK, RunsExist, RelievedBySwaps, SwappedHere
  <2>3. QED BY <2>1, <2>2
<1>4. QED BY <1>2, <1>3, DownRests DEF IInv, TypeOK

\* A system line within the round: nobody remembers more.
LEMMA SystemStep ==
    ASSUME IInv, up # 0, phase # "entering",
           NEW kind \in {"injected", "closed"},
           log' = [log EXCEPT ![up] = Append(@, Sys(up, kind, round))],
           phase' \in {"playing", "closed"},
           UNCHANGED <<manifest, up, round, mind, joins, midCycle, told, first, given, calls, launches>>
    PROVE  IInv'
<1>1. /\ round \in Nat /\ kind \in {"advanced", "injected", "closed", "complete", "failed"}
      /\ kind # "advanced" /\ up' \in {up, 0} /\ up' = up /\ UNCHANGED <<manifest, first>>
  BY UpFacts
<1>2. /\ RunsExist' /\ RelievedBySwaps' /\ log' \in [Runs -> Seq(LineSet)]
      /\ \A s \in Seats : Who(up, s)' = Who(up, s) /\ Own(s)' \subseteq Own(s)
      /\ Sys(up, kind, round) \in LineSet /\ Sys(up, kind, round).kind = kind
  <2>1. /\ RunsExist' /\ RelievedBySwaps' /\ log' \in [Runs -> Seq(LineSet)]
        /\ \A s \in Seats : Who(up, s)' = Who(up, s) /\ Own(s)' \subseteq Own(s)
    BY <1>1, SystemLine
  <2>2. up \in Runs /\ TypeOK /\ kind \in Kinds
    BY UpFacts DEF IInv, Kinds
  <2>3. Sys(up, kind, round) \in LineSet /\ Sys(up, kind, round).kind = kind
    BY <1>1, <2>2, SysTyped
  <2>4. QED BY <2>1, <2>3
<1>3. InTheRound'
  BY <1>2, StaysInTheRound
<1>4. HistoriesBack'
  BY <1>2 DEF IInv, HistoriesBack, EachGetsItsHistoryBack
<1>5. TypeOK'
  BY <1>2 DEF IInv, TypeOK
<1>6. QED BY <1>2, <1>3, <1>4, <1>5 DEF IInv

LEMMA OpenKeeps ==
    ASSUME IInv, Open
    PROVE  IInv'
BY IsUp, SystemStep DEF Open, Append1

LEMMA CloseKeeps ==
    ASSUME IInv, Close
    PROVE  IInv'
BY IsUp, SystemStep DEF Close, Append1

LEMMA FinishKeeps ==
    ASSUME IInv, Finish
    PROVE  IInv'
<1>1. up # 0
  BY IsUp DEF Finish
<1>2. TypeOK' /\ RunsExist' /\ RelievedBySwaps'
  BY DEF Finish, IInv, TypeOK, RunsExist, RelievedBySwaps, SwappedHere
<1>3. InTheRound'
  BY <1>1 DEF Finish, IInv, InTheRound, Derived
<1>4. HistoriesBack'
  BY DEF Finish, IInv, HistoriesBack, EachGetsItsHistoryBack, Own, Who, Occupant
<1>5. QED BY <1>2, <1>3, <1>4 DEF IInv

\* What an agent does it remembers.
LEMMA AgentStep ==
    ASSUME IInv, up # 0, phase \notin {"down", "entering"},
           NEW kind \in {"call", "refused", "over", "said"},
           NEW s \in Seats, NEW c \in Channels \cup {NoChannel}, NEW e,
           e = Line(up, kind, s, c, round, Who(up, s)),
           log' = [log EXCEPT ![up] = Append(@, e)],
           mind' = [mind EXCEPT ![s] = @ \cup {e}],
           midCycle' \subseteq Seats, told' \subseteq Seats, calls' \in Nat,
           UNCHANGED <<manifest, up, phase, round, joins, first, given, launches>>
    PROVE  IInv'
<1>1. /\ RunsExist' /\ RelievedBySwaps' /\ log' \in [Runs -> Seq(LineSet)]
      /\ e \in LineSet /\ e.kind = kind /\ e.by = Who(up, s)
      /\ \A q \in Seats : /\ Who(up, q)' = Who(up, q)
                          /\ \A x \in Own(q)' : x \in Own(q) \/ (x = e /\ q = s)
  <2>1. phase # "entering" /\ UNCHANGED <<manifest, first, up>>
    OBVIOUS
  <2>2. RunsExist' /\ RelievedBySwaps' /\ log' \in [Runs -> Seq(LineSet)]
    BY <2>1, AgentLine
  <2>3. e \in LineSet /\ e.kind = kind /\ e.seat = s /\ e.by = Who(up, s)
    BY AgentLineTyped
  <2>4. \A q \in Seats : /\ Who(up, q)' = Who(up, q)
                         /\ \A x \in Own(q)' : x \in Own(q) \/ (x = e /\ q = s)
    <3>1. e.kind # "swapped"
      BY <2>3
    <3>2. QED BY <2>1, <2>3, <3>1, OwnAfter
  <2>5. QED BY <2>2, <2>3, <2>4
<1>2. mind \in [Seats -> SUBSET LineSet]
  BY DEF IInv, TypeOK
<1>3. mind' \in [Seats -> SUBSET LineSet]
      /\ \A q \in Seats : mind'[q] = IF q = s THEN mind[q] \cup {e} ELSE mind[q]
  BY <1>1, <1>2
<1>4. TypeOK'
  BY <1>1, <1>3 DEF IInv, TypeOK
<1>5. InTheRound'
  BY <1>1, StaysInTheRound
<1>6. HistoriesBack'
  <2> SUFFICES ASSUME EachGetsItsHistoryBack, NEW q \in Seats
               PROVE  /\ Own(q)' \subseteq mind'[q]
                      /\ \A x \in mind'[q] : x.kind = "said" => x.by = Who(up, q)'
    BY DEF IInv, HistoriesBack, EachGetsItsHistoryBack
  <2>1. Own(q) \subseteq mind[q] /\ \A x \in mind[q] : x.kind = "said" => x.by = Who(up, q)
    BY DEF EachGetsItsHistoryBack
  <2>2. Own(q)' \subseteq mind'[q]
    BY <1>1, <1>3, <2>1
  <2>3. \A x \in mind'[q] : x.kind = "said" => x.by = Who(up, q)'
    BY <1>1, <1>3, <2>1
  <2>4. QED BY <2>2, <2>3
<1>7. QED BY <1>1, <1>4, <1>5, <1>6 DEF IInv

LEMMA CallKeeps ==
    ASSUME IInv, NEW s \in Seats, NEW c \in Channels \cup {NoChannel}, Call(s, c)
    PROVE  IInv'
<1>1. phase \notin {"down", "entering"} /\ up # 0
  BY IsUp DEF Call
<1>2. PICK kind \in {"call", "refused"} : kind = IF phase = "done" THEN "refused" ELSE "call"
  OBVIOUS
<1> DEFINE e == Line(up, kind, s, c, round, Who(up, s))
<1>3. /\ log' = [log EXCEPT ![up] = Append(@, e)] /\ mind' = [mind EXCEPT ![s] = @ \cup {e}]
      /\ midCycle' = midCycle \cup {s} /\ calls' = calls + 1
      /\ UNCHANGED <<manifest, up, phase, round, joins, told, first, given, launches>>
  BY <1>2 DEF Call, Append1
<1>4. midCycle' \subseteq Seats /\ told' \subseteq Seats /\ calls' \in Nat
  BY <1>3 DEF IInv, TypeOK
<1>5. QED BY <1>1, <1>3, <1>4, AgentStep

LEMMA SayKeeps ==
    ASSUME IInv, NEW s \in Seats, Say(s)
    PROVE  IInv'
<1>1. phase \notin {"down", "entering"} /\ up # 0
  BY IsUp DEF Say, IInv, InTheRound
<1>2. midCycle' \subseteq Seats /\ told' \subseteq Seats /\ calls' \in Nat
  BY DEF Say, IInv, TypeOK
<1>3. QED BY <1>1, <1>2, AgentStep DEF Say, Append1

LEMMA TellKeeps ==
    ASSUME IInv, NEW s \in Seats, Tell(s)
    PROVE  IInv'
<1>1. phase \notin {"down", "entering"} /\ up # 0
  BY IsUp DEF Tell
<1>2. midCycle' \subseteq Seats /\ told' \subseteq Seats /\ calls' \in Nat
  BY DEF Tell, IInv, TypeOK
<1>3. QED BY <1>1, <1>2, AgentStep DEF Tell, Append1

\* A round that is advanced to is the one after the last.
LEMMA AdvanceStep ==
    ASSUME IInv, up # 0, NEW n \in Nat, n >= 1,
           \A i \in At(log[up], "advanced") : log[up][i].round <= n,
           n = 1 \/ \E i \in At(log[up], "advanced") : log[up][i].round >= n - 1,
           Derived(up) => n >= manifest[up].entry,
           log' = [log EXCEPT ![up] = Append(@, Sys(up, "advanced", n))],
           phase' = "boundary", round' = n,
           UNCHANGED <<manifest, up, mind, joins, midCycle, told, first, given, calls, launches>>
    PROVE  IInv'
<1> DEFINE l == log[up]
           e == Sys(up, "advanced", n)
<1>1. up \in Runs /\ TypeOK /\ RoundsInOrder(l) /\ l \in Seq(LineSet)
  BY UpFacts DEF IInv, GoodLog
<1>2. e \in LineSet /\ e.kind = "advanced" /\ e.round = n
  BY <1>1, SysTyped DEF Kinds
<1>3. \A q \in 1..n : q = n \/ \E j \in At(l, "advanced") : l[j].round = q
  <2> SUFFICES ASSUME NEW q \in 1..n, q # n PROVE \E j \in At(l, "advanced") : l[j].round = q
    OBVIOUS
  <2>1. PICK i \in At(l, "advanced") : l[i].round >= n - 1
    OBVIOUS
  <2>2. l[i].round \in Nat
    BY <1>1, InALog DEF At, LineSet
  <2>3. q \in 1..l[i].round
    BY <2>1, <2>2
  <2>4. QED BY <1>1, <2>1, <2>3 DEF RoundsInOrder
<1>4. UNCHANGED <<manifest, first>> /\ up' \in {up, 0} /\ up' = up
  OBVIOUS
<1>5. /\ RunsExist' /\ RelievedBySwaps' /\ log' \in [Runs -> Seq(LineSet)]
      /\ \A s \in Seats : Who(up, s)' = Who(up, s) /\ Own(s)' \subseteq Own(s)
  BY <1>3, <1>4, SystemLine
<1>6. /\ \A i \in At(log'[up], "advanced") : log'[up][i].round <= n
      /\ \E i \in At(log'[up], "advanced") : log'[up][i].round = n
  <2> HIDE DEF e
  <2>1. log' = [log EXCEPT ![up] = Append(@, e)]
    BY DEF e
  <2>2. \A i \in At(log'[up], "advanced") :
           \/ i \in At(l, "advanced") /\ log'[up][i].round = l[i].round
           \/ log'[up][i].round = n
    BY <1>2, <2>1, AddedLine
  <2>3. \E i \in At(log'[up], "advanced") : log'[up][i].round = n
    BY <1>2, <2>1, AddedLine
  <2>4. ASSUME NEW i \in At(log'[up], "advanced") PROVE log'[up][i].round <= n
    <3>1. CASE log'[up][i].round = n
      <4>1. n <= n
        OBVIOUS
      <4>2. QED BY <3>1, <4>1, Zenon
    <3>2. CASE i \in At(l, "advanced") /\ log'[up][i].round = l[i].round
      BY <3>2
    <3>3. QED BY <2>2, <3>1, <3>2
  <2>5. QED BY <2>3, <2>4
<1>7. InTheRound'
  BY <1>6 DEF InTheRound, Derived
<1>8. HistoriesBack'
  BY <1>5 DEF IInv, HistoriesBack, EachGetsItsHistoryBack
<1>9. TypeOK'
  BY <1>5 DEF IInv, TypeOK
<1>10. QED BY <1>5, <1>7, <1>8, <1>9 DEF IInv

LEMMA EnterKeeps ==
    ASSUME IInv, Enter
    PROVE  IInv'
<1>1. up # 0
  BY IsUp DEF Enter
<1>2. /\ round \in Nat /\ round >= 1
      /\ \A i \in At(log[up], "advanced") : log[up][i].round <= round
      /\ Derived(up) => round >= manifest[up].entry
  BY <1>1, UpFacts DEF IInv, InTheRound
<1>3. \E i \in At(log[up], "advanced") : log[up][i].round >= round - 1
  <2>1. PICK i \in At(log[up], "advanced") : log[up][i].round = round - 1
    BY <1>1 DEF Enter, IInv, InTheRound
  <2>2. QED BY <1>2, <2>1
<1>4. log' = [log EXCEPT ![up] = Append(@, Sys(up, "advanced", round))] /\ phase' = "boundary" /\ round' = round
  BY DEF Enter, Append1
<1>5. UNCHANGED <<manifest, up, mind, joins, midCycle, told, first, given, calls, launches>>
  BY DEF Enter
<1>6. QED BY <1>1, <1>2, <1>3, <1>4, <1>5, AdvanceStep

LEMMA AdvanceKeeps ==
    ASSUME IInv, Advance
    PROVE  IInv'
<1>1. up # 0
  BY IsUp DEF Advance
<1>2. round \in Nat /\ log[up] \in Seq(LineSet) /\ manifest[up] \in ManifestSet
  BY <1>1, UpFacts
<1>3. \A i \in At(log[up], "advanced") : log[up][i].round \in Nat /\ log[up][i].round <= round
  BY <1>1, <1>2, InALog DEF IInv, InTheRound, At, LineSet
<1>4. PICK i \in At(log[up], "advanced") : log[up][i].round = round
  BY <1>1 DEF Advance, IInv, InTheRound
<1>5. Derived(up) => round + 1 >= manifest[up].entry
  BY <1>1, <1>2 DEF IInv, InTheRound, ManifestSet
<1>6. /\ \A j \in At(log[up], "advanced") : log[up][j].round <= round + 1
      /\ \E j \in At(log[up], "advanced") : log[up][j].round >= (round + 1) - 1
      /\ round + 1 \in Nat /\ round + 1 >= 1
  BY <1>2, <1>3, <1>4
<1>7. log' = [log EXCEPT ![up] = Append(@, Sys(up, "advanced", round + 1))] /\ phase' = "boundary"
      /\ round' = round + 1
  BY DEF Advance, Append1
<1>8. UNCHANGED <<manifest, up, mind, joins, midCycle, told, first, given, calls, launches>>
  BY DEF Advance
<1>9. QED BY <1>1, <1>5, <1>6, <1>7, <1>8, AdvanceStep

LEMMA StartKeeps ==
    ASSUME IInv, NEW r \in Runs, Start(r)
    PROVE  IInv'
<1> DEFINE e == Sys(r, "advanced", 1)
           l == <<e>>
<1>1. /\ up = 0 /\ log[r] = <<>> /\ log' = [log EXCEPT ![r] = l]
      /\ up' = r /\ phase' = "boundary" /\ round' = 1 /\ launches' = launches + 1
      /\ UNCHANGED <<manifest, mind, joins, midCycle, told, first, given, calls>>
  BY DEF Start, New
<1>2. /\ r # 0 /\ r \in Nat /\ TypeOK /\ log \in [Runs -> Seq(LineSet)]
      /\ manifest[r] = NoManifest /\ GoodManifest(r, manifest[r], first[r])
  <2>1. r # 0 /\ r \in Nat
    BY LineageAssumption DEF Runs
  <2>2. TypeOK /\ log \in [Runs -> Seq(LineSet)]
    BY DEF IInv, TypeOK
  <2>3. manifest[r] = NoManifest /\ GoodManifest(r, manifest[r], first[r])
    BY <1>1 DEF IInv, RunsExist
  <2>4. QED BY <2>1, <2>2, <2>3
<1>3. /\ e \in LineSet /\ e.kind = "advanced" /\ e.seat = Nobody /\ e.round = 1 /\ e.by = <<0, 0>>
      /\ e.at = <<r, Len(log[r]) + 1>>
  <2>1. "advanced" \in Kinds /\ 1 \in Nat
    BY DEF Kinds
  <2>2. QED BY <1>2, <2>1, SysTyped
<1>4. /\ l \in Seq(LineSet) /\ l # <<>> /\ Len(l) = 1 /\ DOMAIN l = 1..1 /\ l[1] = e
  BY <1>3
<1> HIDE DEF l, e
<1>5. log' \in [Runs -> Seq(LineSet)] /\ log'[r] = l /\ \A q \in Runs : q # r => log'[q] = log[q]
  BY <1>1, <1>2, <1>4
<1>6. ~Memory(e) /\ e.kind # "said" /\ At(l, "advanced") = {1}
  BY <1>3, <1>4, LineageAssumption DEF Memory, At
<1>7. manifest[r].kind = "none" /\ manifest[r].target = 0 /\ manifest[r].imported = <<>>
  BY <1>2 DEF NoManifest
<1>8. GoodLog(r, l, manifest[r], first[r])
  <2>1. RoundsInOrder(l)
    BY <1>3, <1>4, <1>6 DEF RoundsInOrder
  <2>2. CutAtTheRound(l, manifest[r])
    BY <1>7 DEF CutAtTheRound
  <2>3. WordsAreTheSitters(l, manifest[r], first[r])
    BY <1>4, <1>6 DEF WordsAreTheSitters
  <2>4. NamedApart(r, l, manifest[r])
    BY <1>2, <1>3, <1>4, <1>7 DEF NamedApart, OwnLine
  <2>5. QED BY <1>3, <1>4, <1>7, <2>1, <2>2, <2>3, <2>4 DEF GoodLog
<1>9. RunsExist'
  <2> SUFFICES ASSUME NEW q \in Runs
               PROVE  /\ GoodManifest(q, manifest[q], first[q])
                      /\ log'[q] # <<>> => GoodLog(q, log'[q], manifest[q], first[q])
                      /\ log'[q] = <<>> => manifest[q] = NoManifest /\ up' # q
    BY <1>1 DEF RunsExist
  <2>1. CASE q = r
    BY <1>2, <1>4, <1>5, <1>8, <2>1
  <2>2. CASE q # r
    BY <1>1, <1>5, <2>2 DEF IInv, RunsExist
  <2>3. QED BY <2>1, <2>2
<1>10. RelievedBySwaps'
  <2> SUFFICES ASSUME NEW q \in Runs, NEW i \in DOMAIN log'[q], i > manifest[q].target,
                      log'[q][i].kind = "relieved"
               PROVE  \E j \in At(log'[q], "swapped") : manifest[q].target < j
    BY <1>1 DEF RelievedBySwaps, SwappedHere
  <2>1. q # r
    BY <1>3, <1>4, <1>5
  <2>2. QED BY <1>5, <2>1 DEF IInv, RelievedBySwaps, SwappedHere
<1>11. InTheRound'
  <2>1. \A i \in At(log'[r], "advanced") : log'[r][i].round = 1
    BY <1>3, <1>4, <1>5, <1>6
  <2>2. \E i \in At(log'[r], "advanced") : log'[r][i].round = 1
    BY <1>3, <1>4, <1>5, <1>6
  <2>3. ~Derived(r)'
    BY <1>1, <1>7 DEF Derived
  <2>4. QED BY <1>1, <1>2, <2>1, <2>2, <2>3 DEF InTheRound
<1>12. HistoriesBack'
  <2> SUFFICES ASSUME NEW s \in Seats
               PROVE  /\ Own(s)' \subseteq mind[s]
                      /\ \A x \in mind[s] : x.kind = "said" => x.by = Who(r, s)'
    BY <1>1 DEF HistoriesBack, EachGetsItsHistoryBack
  <2>1. mind[s] = {}
    BY <1>1 DEF IInv, InTheRound
  <2>2. Rebuilt(l, s) = {}
    BY <1>3, <1>4, LineageAssumption DEF Rebuilt, Lines
  <2>3. Own(s)' = {}
    BY <1>1, <1>5, <1>7, <2>2 DEF Own
  <2>4. QED BY <2>1, <2>3
<1>13. TypeOK'
  BY <1>1, <1>2, <1>5 DEF TypeOK, Runs
<1>14. QED BY <1>9, <1>10, <1>11, <1>12, <1>13 DEF IInv

-----------------------------------------------------------------------------
(* A swap *)

\* The log after the wake of the agent that is relieved, if it was parked.
LogAfterWake(s, n) ==
    IF s \in midCycle THEN log[up]
    ELSE Append(log[up], Line(up, "relieved", s, NoChannel, n, Who(up, s)))

LEMMA RelievedLog ==
    ASSUME IInv, up # 0, phase = "boundary", round >= 2, NEW s \in Seats, NEW n \in {round - 1, round}
    PROVE  LET l == LogAfterWake(s, n) IN
           /\ GoodLog(up, l, manifest[up], first[up])
           /\ \A q \in Seats : Sitting(l, manifest[up], first[up], q, Len(l)) = Who(up, q)
           /\ \A x \in Lines(l) : x \in Lines(log[up]) \/ (x.seat = s /\ x.kind = "relieved")
           /\ \A i \in At(log[up], "advanced") :
                 i \in At(l, "advanced") /\ l[i].round = log[up][i].round
           /\ \A i \in At(l, "advanced") :
                 i \in At(log[up], "advanced") /\ l[i].round = log[up][i].round
<1> DEFINE k == log[up]
           l == LogAfterWake(s, n)
           wake == Line(up, "relieved", s, NoChannel, n, Who(up, s))
<1>1. /\ up \in Runs /\ up \in Nat /\ k \in Seq(LineSet) /\ GoodLog(up, k, manifest[up], first[up])
      /\ manifest[up] \in ManifestSet /\ round \in Nat /\ manifest[up].target \in 0..Len(k)
  BY UpFacts
<1>2. /\ Who(up, s) \in Nat \X Nat /\ Who(up, s)[1] <= up
      /\ Who(up, s)[1] = up => Who(up, s)[2] <= Len(k)
      /\ \A q \in Seats : Who(up, q) = Sitting(k, manifest[up], first[up], q, Len(k))
  BY WhoIsOurs
<1>3. CASE s \in midCycle
  BY <1>1, <1>2, <1>3 DEF LogAfterWake
<1>4. CASE s \notin midCycle
  <2>1. Len(k) \in Nat /\ s \in Seats \cup {Nobody} /\ n \in Nat /\ n >= 1
    BY <1>1, InALog
  <2>2. /\ wake \in LineSet /\ wake.kind = "relieved" /\ wake.seat = s /\ wake.round = n
        /\ wake.by = Who(up, s) /\ wake.at = <<up, Len(k) + 1>>
    BY <1>1, <1>2, <2>1 DEF Line, LineSet, Kinds
  <2> HIDE DEF wake
  <2>3. OwnLine(up, Len(k) + 1, wake)
    <3>1. Who(up, s)[1] = up => Who(up, s)[2] <= Len(k) + 1
      BY <1>2, <2>1
    <3>2. QED BY <1>1, <1>2, <2>2, <3>1 DEF OwnLine
  <2>4. \E i \in At(k, "advanced") : k[i].round = wake.round
    <3>1. PICK i \in At(k, "advanced") : k[i].round = round
      BY DEF IInv, InTheRound
    <3>2. n \in 1..k[i].round
      BY <1>1, <2>1, <3>1
    <3>3. PICK j \in At(k, "advanced") : k[j].round = n
      BY <1>1, <3>1, <3>2 DEF GoodLog, RoundsInOrder
    <3>4. QED BY <2>2, <3>3
  <2>5. wake.kind # "advanced" /\ wake.kind # "said" /\ wake.kind # "swapped"
    BY <2>2
  <2>6. l = Append(k, wake)
    BY <1>4 DEF wake, LogAfterWake
  <2> HIDE DEF l
  <2>7. GoodLog(up, l, manifest[up], first[up])
    BY <1>1, <2>2, <2>3, <2>4, <2>5, <2>6, GoodAfter
  <2>8. /\ DOMAIN l = 1..(Len(k) + 1) /\ DOMAIN k = 1..Len(k) /\ Len(l) = Len(k) + 1
        /\ l[Len(k) + 1] = wake /\ \A i \in 1..Len(k) : l[i] = k[i]
    BY <1>1, <2>2, <2>6, OneMore
  <2>9. \A q \in Seats : Sitting(l, manifest[up], first[up], q, Len(l)) = Who(up, q)
    <3>1. \A q \in Seats : Sitting(l, manifest[up], first[up], q, Len(k) + 1)
                             = Sitting(k, manifest[up], first[up], q, Len(k))
      BY <1>1, <2>2, <2>5, <2>6, SittingAfter
    <3>2. QED BY <1>2, <2>8, <3>1
  <2>10. \A x \in Lines(l) : x \in Lines(k) \/ (x.seat = s /\ x.kind = "relieved")
    <3>1. \A i \in DOMAIN l : i \in DOMAIN k \/ i = Len(k) + 1
      BY <2>1, <2>8
    <3>2. QED BY <2>2, <2>8, <3>1 DEF Lines
  <2>11. \A i \in At(k, "advanced") : i \in At(l, "advanced") /\ l[i].round = k[i].round
    BY <2>1, <2>8 DEF At
  <2>12. \A i \in At(l, "advanced") : i \in At(k, "advanced") /\ l[i].round = k[i].round
    BY <2>1, <2>2, <2>8 DEF At
  <2>13. QED BY <2>7, <2>9, <2>10, <2>11, <2>12 DEF l
<1>5. QED BY <1>3, <1>4

LEMMA SwapKeeps ==
    ASSUME IInv, NEW sw \in Swaps, NEW n \in {round - 1, round}, Swap(sw, n)
    PROVE  IInv'
<1> DEFINE s == sw.seat
           k == log[up]
           m == manifest[up]
           f == first[up]
           l == LogAfterWake(s, n)
           new == <<up, Len(l) + 1>>
           e == [Line(up, "swapped", s, NoChannel, round, new) EXCEPT !.at = new]
           L == Append(l, e)
           kept == {x \in Rebuilt(l, s) : IsCall(x) /\ x.round < round /\ x.chan \notin sw.hidden}
           join == [c \in Channels |-> IF c \in sw.hidden THEN Count(l, c) ELSE joins[s][c]]
<1>1. /\ phase = "boundary" /\ sw.round = round /\ log' = [log EXCEPT ![up] = L]
      /\ mind' = [mind EXCEPT ![s] = kept] /\ joins' = [joins EXCEPT ![s] = join]
      /\ midCycle' = midCycle \ {s}
      /\ given' = [given EXCEPT ![up][s] = [calls |-> kept, joins |-> join]]
      /\ UNCHANGED <<manifest, up, phase, round, told, first, calls, launches>>
  BY DEF Swap, Due, LogAfterWake
<1>2. up # 0 /\ phase # "down"
  BY <1>1, IsUp
<1>3. s \in Seats /\ sw.hidden \subseteq Channels /\ round >= 2
  <2>1. sw \in [seat : Seats, round : Rounds \ {1}, hidden : SUBSET Channels]
    BY LineageAssumption
  <2>2. sw.seat \in Seats /\ sw.hidden \subseteq Channels /\ sw.round \in Rounds \ {1}
    BY <2>1
  <2>3. QED BY <1>1, <2>2, LineageAssumption DEF Rounds
<1>4. /\ up \in Runs /\ up \in Nat /\ k \in Seq(LineSet) /\ m \in ManifestSet /\ round \in Nat
      /\ log \in [Runs -> Seq(LineSet)] /\ GoodManifest(up, m, f) /\ m.target \in Nat
  BY <1>2, UpFacts
<1>5. /\ GoodLog(up, l, m, f)
      /\ \A q \in Seats : Sitting(l, m, f, q, Len(l)) = Who(up, q)
      /\ \A x \in Lines(l) : x \in Lines(k) \/ (x.seat = s /\ x.kind = "relieved")
      /\ \A i \in At(k, "advanced") : i \in At(l, "advanced") /\ l[i].round = k[i].round
      /\ \A i \in At(l, "advanced") : i \in At(k, "advanced") /\ l[i].round = k[i].round
  BY <1>1, <1>2, <1>3, RelievedLog
<1> HIDE DEF l
<1>6. l \in Seq(LineSet) /\ Len(l) \in Nat /\ m.target \in 0..Len(l) /\ NamedApart(up, l, m)
  BY <1>5, InALog DEF GoodLog
<1>7. /\ e \in LineSet /\ e.kind = "swapped" /\ e.seat = s /\ e.by = new /\ e.at = new
  <2>1. s \in Seats \cup {Nobody} /\ new \in Nat \X Nat /\ "swapped" \in Kinds /\ round \in Nat
        /\ NoChannel \in Channels \cup {NoChannel}
    BY <1>3, <1>4, <1>6 DEF Kinds
  <2>2. e = [at |-> new, kind |-> "swapped", seat |-> s, chan |-> NoChannel, round |-> round, by |-> new]
    BY DEF Line
  <2> HIDE DEF e, new, s
  <2>3. QED BY <2>1, <2>2 DEF LineSet
<1> HIDE DEF e
<1>8. OwnLine(up, Len(l) + 1, e) /\ ~Memory(e)
  BY <1>4, <1>6, <1>7 DEF OwnLine, Memory, IsCall
<1>9. GoodLog(up, L, m, f)
  BY <1>4, <1>5, <1>7, <1>8, GoodAfter
<1>10. /\ L \in Seq(LineSet) /\ L # <<>> /\ DOMAIN L = 1..(Len(l) + 1) /\ DOMAIN l = 1..Len(l)
       /\ Len(L) = Len(l) + 1 /\ L[Len(l) + 1] = e /\ \A i \in 1..Len(l) : L[i] = l[i]
  BY <1>6, <1>7, OneMore
<1>11. /\ Sitting(L, m, f, s, Len(L)) = new
       /\ \A q \in Seats : q # s => Sitting(L, m, f, q, Len(L)) = Who(up, q)
  <2>1. Sitting(L, m, f, s, Len(l) + 1) = new
    <3>1. Sitting(L, m, f, s, Len(l) + 1) = e.by
      BY <1>6, <1>7, SittingAfterASwap
    <3>2. QED BY <1>7, <3>1
  <2>2. ASSUME NEW q \in Seats, q # s PROVE Sitting(L, m, f, q, Len(l) + 1) = Who(up, q)
    <3>1. Sitting(L, m, f, q, Len(l) + 1) = Sitting(l, m, f, q, Len(l))
      BY <1>6, <1>7, <2>2, SittingAfter
    <3>2. QED BY <1>5, <3>1
  <2>3. QED BY <1>10, <2>1, <2>2
<1> HIDE DEF L
<1>12. log'[up] = L /\ log' \in [Runs -> Seq(LineSet)] /\ \A r \in Runs : r # up => log'[r] = log[r]
  BY <1>1, <1>4, <1>10
<1>13. RunsExist'
  <2> SUFFICES ASSUME NEW r \in Runs
               PROVE  /\ GoodManifest(r, manifest[r], first[r])
                      /\ log'[r] # <<>> => GoodLog(r, log'[r], manifest[r], first[r])
                      /\ log'[r] = <<>> => manifest[r] = NoManifest /\ up # r
    BY <1>1 DEF RunsExist
  <2>1. CASE r = up
    BY <1>4, <1>9, <1>10, <1>12, <2>1
  <2>2. CASE r # up
    BY <1>12, <2>2 DEF IInv, RunsExist
  <2>3. QED BY <2>1, <2>2
<1>14. RelievedBySwaps'
  <2> SUFFICES ASSUME NEW r \in Runs, NEW i \in DOMAIN log'[r], i > manifest[r].target,
                      log'[r][i].kind = "relieved"
               PROVE  \E j \in At(log'[r], "swapped") : manifest[r].target < j
    BY <1>1 DEF RelievedBySwaps, SwappedHere
  <2>1. CASE r = up
    <3>1. Len(l) + 1 \in At(L, "swapped") /\ m.target < Len(l) + 1
      BY <1>6, <1>7, <1>10 DEF At
    <3>2. QED BY <1>12, <2>1, <3>1
  <2>2. CASE r # up
    BY <1>12, <2>2 DEF IInv, RelievedBySwaps, SwappedHere
  <2>3. QED BY <2>1, <2>2
<1>15. InTheRound'
  <2>1. \A i \in At(L, "advanced") : i \in At(k, "advanced") /\ L[i].round = k[i].round
    <3>1. \A i \in At(L, "advanced") : i \in At(l, "advanced") /\ L[i].round = l[i].round
      BY <1>6, <1>7, <1>10 DEF At
    <3>2. QED BY <1>5, <3>1
  <2>2. \A i \in At(k, "advanced") : i \in At(L, "advanced") /\ L[i].round = k[i].round
    <3>1. \A i \in At(l, "advanced") : i \in At(L, "advanced") /\ L[i].round = l[i].round
      BY <1>6, <1>10 DEF At
    <3>2. QED BY <1>5, <3>1
  <2>3. /\ round >= 1 /\ \A i \in At(k, "advanced") : k[i].round <= round
        /\ \E i \in At(k, "advanced") : k[i].round = round
        /\ Derived(up) => round >= manifest[up].entry
    BY <1>1, <1>2 DEF IInv, InTheRound
  <2>4. /\ \A i \in At(L, "advanced") : L[i].round <= round
        /\ \E i \in At(L, "advanced") : L[i].round = round
    BY <2>1, <2>2, <2>3
  <2>5. QED BY <1>1, <1>2, <1>12, <2>3, <2>4 DEF InTheRound, Derived
<1>16. kept \subseteq LineSet /\ join \in [Channels -> Nat]
  <2>1. Rebuilt(l, s) \subseteq LineSet
    BY <1>6, RebuiltTyped
  <2>2. \A c \in Channels : Count(l, c) \in Nat
    BY <1>6, CountTyped
  <2>3. \A c \in Channels : joins[s][c] \in Nat
    BY <1>3 DEF IInv, TypeOK
  <2>4. QED BY <2>1, <2>2, <2>3
<1>17. TypeOK'
  <2>1. mind' \in [Seats -> SUBSET LineSet] /\ joins' \in [Seats -> [Channels -> Nat]]
    BY <1>1, <1>16 DEF IInv, TypeOK
  <2>2. given' \in [Runs -> [Seats -> [calls : SUBSET LineSet, joins : [Channels -> Nat]]]]
    <3>1. [calls |-> kept, joins |-> join] \in [calls : SUBSET LineSet, joins : [Channels -> Nat]]
      BY <1>16
    <3> HIDE DEF kept, join
    <3>2. QED BY <1>1, <3>1 DEF IInv, TypeOK
  <2>3. midCycle' \subseteq Seats
    BY <1>1 DEF IInv, TypeOK
  <2>4. QED BY <1>1, <1>12, <2>1, <2>2, <2>3 DEF IInv, TypeOK
<1>18. HistoriesBack'
  <2> SUFFICES ASSUME EachGetsItsHistoryBack, NEW q \in Seats
               PROVE  /\ Own(q)' \subseteq mind'[q]
                      /\ \A x \in mind'[q] : x.kind = "said" => x.by = Who(up, q)'
    BY <1>1 DEF IInv, HistoriesBack, EachGetsItsHistoryBack
  <2>1. Who(up, q)' = Sitting(L, m, f, q, Len(L))
    BY <1>1, <1>12 DEF Who, Occupant
  <2>2. CASE q = s
    <3>1. mind'[q] = kept
      BY <1>1, <1>3, <2>2 DEF IInv, TypeOK
    <3>2. \A x \in kept : x.kind # "said"
      BY DEF IsCall
    <3>3. \A x \in Lines(l) : x.by # new
      <4> SUFFICES ASSUME NEW i \in DOMAIN l, l[i].by = new PROVE FALSE
        BY DEF Lines
      <4>1. l[i].by[1] = up /\ l[i].by[2] = Len(l) + 1 /\ i \in Nat
        BY <1>10
      <4>2. CASE i <= m.target
        BY <1>4, <1>6, <4>1, <4>2 DEF NamedApart
      <4>3. CASE i > m.target
        <5>1. OwnLine(up, Len(l), l[i])
          BY <1>6, <4>3 DEF NamedApart
        <5>2. QED BY <1>6, <4>1, <5>1 DEF OwnLine
      <4>4. QED BY <1>4, <4>1, <4>2, <4>3
    <3>4. \A x \in Rebuilt(L, s) : x.by # new
      <4>1. \A x \in Lines(L) : x \in Lines(l) \/ x = e
        BY <1>6, <1>10 DEF Lines
      <4>2. QED BY <1>7, <3>3, <4>1 DEF Rebuilt, IsCall
    <3>5. \A x \in Rebuilt(m.imported, s) : x.by # new
      <4>1. \A x \in Lines(m.imported) : x.by[1] < up
        BY <1>4 DEF GoodManifest
      <4>2. QED BY <1>4, <4>1 DEF Rebuilt
    <3>6. Own(q)' = {}
      BY <1>1, <1>11, <1>12, <2>1, <2>2, <3>4, <3>5 DEF Own
    <3>7. QED BY <3>1, <3>2, <3>6
  <2>3. CASE q # s
    <3>1. mind'[q] = mind[q] /\ Who(up, q)' = Who(up, q)
      BY <1>1, <1>11, <2>1, <2>3 DEF IInv, TypeOK
    <3>2. \A x \in Rebuilt(L, q) : x \in Rebuilt(k, q)
      <4>1. \A x \in Lines(L) : x \in Lines(l) \/ x = e
        BY <1>6, <1>10 DEF Lines
      <4>2. QED BY <1>5, <1>7, <2>3, <4>1 DEF Rebuilt
    <3>3. Own(q)' \subseteq Own(q)
      BY <1>1, <1>12, <3>1, <3>2 DEF Own
    <3>4. QED BY <1>2, <3>1, <3>3 DEF EachGetsItsHistoryBack
  <2>4. QED BY <2>2, <2>3
<1>19. QED BY <1>13, <1>14, <1>15, <1>17, <1>18 DEF IInv

-----------------------------------------------------------------------------
(* A launch *)

\* The last round of a log is the highest.
LEMMA LastRoundIsHighest ==
    ASSUME NEW l \in Seq(LineSet), RoundsInOrder(l), At(l, "advanced") # {}
    PROVE  /\ \A i \in At(l, "advanced") : l[i].round <= LastRound(l)
           /\ \E i \in At(l, "advanced") : l[i].round = LastRound(l)
<1> DEFINE x == Latest(At(l, "advanced"))
<1>1. Len(l) \in Nat /\ DOMAIN l = 1..Len(l) /\ At(l, "advanced") \subseteq 1..Len(l)
  BY InALog DEF At
<1>2. x \in At(l, "advanced") /\ \A i \in At(l, "advanced") : i <= x
  BY <1>1, LatestIsLast
<1>3. LastRound(l) = l[x].round
  BY DEF LastRound
<1> HIDE DEF x
<1>4. \A i \in 1..Len(l) : l[i].round \in Nat
  BY InALog DEF LineSet
<1>5. ASSUME NEW i \in At(l, "advanced") PROVE l[i].round <= l[x].round
  <2>1. i \in 1..Len(l) /\ x \in 1..Len(l) /\ i <= x
    BY <1>1, <1>2
  <2>2. CASE i = x
    BY <1>4, <2>1, <2>2
  <2>3. CASE i < x
    BY <1>1, <1>2, <2>1, <2>3 DEF RoundsInOrder, At
  <2>4. QED BY <2>1, <2>2, <2>3
<1>6. QED BY <1>2, <1>3, <1>5

\* What a launch gives a seat, when nothing was swapped since the run was made.
LEMMA HistoryComesBack ==
    ASSUME NEW r \in Runs, NEW s \in Seats, TypeOK,
           GoodLog(r, log[r], manifest[r], first[r]), GoodManifest(r, manifest[r], first[r]),
           ~SwappedHere(r), RelievedBySwaps,
           manifest[r].kind = "import" => Progress(r) # "played"
    PROVE  LET m == manifest[r]
               imported == m.kind = "import" /\ m.seat = s
               here == {e \in Rebuilt(log[r], s) : imported => e.at[1] = r}
               there == {e \in Rebuilt(m.imported, s) :
                            imported /\ e.round <= m.importEnd /\ (IsCall(e) => e.chan \notin Blocked)}
           IN  /\ \A e \in here \cup there : e.by = first[r][s] => e \in History(r, s)
               /\ \A e \in History(r, s) : e.kind = "said" => e.by = first[r][s]
<1> DEFINE m == manifest[r]
           f == first[r]
           l == log[r]
           t == m.target
           rebuilt == Rebuilt(l, s)
           imported == m.kind = "import" /\ m.seat = s
<1>1. /\ l \in Seq(LineSet) /\ m \in ManifestSet /\ t \in 0..Len(l) /\ t \in Nat
      /\ CutAtTheRound(l, m) /\ WordsAreTheSitters(l, m, f) /\ NamedApart(r, l, m)
  BY DEF TypeOK, GoodLog, ManifestSet
<1>2. Len(l) \in Nat /\ DOMAIN l = 1..Len(l) /\ \A i \in 1..Len(l) : l[i] \in LineSet
  BY <1>1, InALog
<1>3. Walked(r) = l /\ (Fresh(r) => t = Len(l))
  BY <1>1, WalkedIsAll
<1>4. m.kind \in {"none", "fork", "replace", "import"} /\ m.imported \in Seq(LineSet)
      /\ m.entry \in Nat /\ m.importEnd \in Nat
  BY <1>1 DEF ManifestSet
<1>5. \A e \in rebuilt : \E i \in 1..Len(l) :
         e = l[i] /\ e.seat = s /\ Memory(e) /\ e.round \in Nat /\ (IsCall(e) \/ e.kind = "said")
  BY <1>2 DEF Rebuilt, Lines, Memory, LineSet
<1>6. \A p : Sitting(l, m, f, s, p) = f[s]
  <2>1. \A i \in At(l, "swapped") : ~(t < i)
    BY DEF SwappedHere
  <2>2. QED BY <2>1, SittingUnswapped
<1>7. \A i \in 1..Len(l) : t < i => l[i].kind # "relieved"
  BY <1>2 DEF RelievedBySwaps
<1>8. ASSUME NEW i \in 1..Len(l), l[i].kind = "said", l[i].seat = s, i > t \/ s # m.seat
      PROVE  l[i].by = f[s]
  BY <1>1, <1>2, <1>6, <1>8 DEF WordsAreTheSitters
<1>9. CASE m.kind = "replace" /\ m.seat = s
  <2>1. f[s] = <<r, 0>> /\ m.kind # "none" /\ ~imported
    BY <1>9 DEF GoodManifest
  <2>2. History(r, s) = {e \in {x \in rebuilt : Fresh(r) => x.round < m.entry} :
                            e.round < m.entry => IsCall(e) /\ ~Withheld(e, m)}
    BY <1>3, <1>9 DEF History
  <2>3. ASSUME NEW e \in rebuilt, e.by = f[s] PROVE e \in History(r, s)
    <3>1. PICK i \in 1..Len(l) : e = l[i] /\ Memory(e) /\ e.round \in Nat
      BY <1>5, <2>3
    <3>2. i > t
      <4> SUFFICES ASSUME i <= t PROVE FALSE
        BY <1>1, <3>1
      <4>1. l[i].by[1] < r
        BY <1>1, <1>2 DEF NamedApart
      <4>2. l[i].by[1] = r
        BY <2>1, <2>3, <3>1
      <4>3. r \in Nat
        BY LineageAssumption DEF Runs
      <4>4. QED BY <4>1, <4>2, <4>3
    <3>3. ~Fresh(r)
      BY <1>2, <1>3, <3>2
    <3>4. ~(e.round < m.entry)
      <4>1. e.round >= m.entry
        BY <1>1, <1>2, <1>7, <2>1, <3>1, <3>2 DEF CutAtTheRound
      <4>2. QED BY <1>4, <3>1, <4>1
    <3>5. QED BY <2>2, <2>3, <3>3, <3>4
  <2>4. ASSUME NEW e \in History(r, s), e.kind = "said" PROVE e.by = f[s]
    <3>1. e \in rebuilt /\ ~(e.round < m.entry)
      BY <2>2, <2>4 DEF IsCall
    <3>2. PICK i \in 1..Len(l) : e = l[i] /\ e.seat = s /\ Memory(e)
      BY <1>5, <3>1
    <3>3. ~(i <= t)
      BY <1>1, <1>2, <2>1, <3>1, <3>2 DEF CutAtTheRound
    <3>4. i > t
      BY <1>1, <3>3
    <3>5. QED BY <1>8, <2>4, <3>2, <3>4
  <2>5. QED BY <2>1, <2>3, <2>4
<1>10. CASE m.kind = "import" /\ m.seat = s
  <2>1. History(r, s) = {e \in Rebuilt(m.imported, s) :
                            /\ e.round < m.importEnd + 1
                            /\ IsCall(e) => e.chan \notin Blocked}
    BY <1>10 DEF History
  <2>2. \A e \in Rebuilt(m.imported, s) : e.round \in Nat /\ e.seat = s /\ e \in Lines(m.imported)
    <3>1. Rebuilt(m.imported, s) \subseteq LineSet
      BY <1>4, RebuiltTyped
    <3>2. QED BY <3>1 DEF Rebuilt, LineSet
  <2>3. ASSUME NEW e \in rebuilt, e.at[1] = r PROVE FALSE
    <3>1. PICK i \in 1..Len(l) : e = l[i] /\ (IsCall(e) \/ e.kind = "said")
      BY <1>5, <2>3
    <3>2. i > t
      <4> SUFFICES ASSUME i <= t PROVE FALSE
        BY <1>1, <3>1
      <4>1. l[i].at[1] < r
        BY <1>1, <1>2 DEF NamedApart
      <4>2. r \in Nat
        BY LineageAssumption DEF Runs
      <4>3. QED BY <2>3, <3>1, <4>1, <4>2
    <3>3. i \in (t + 1)..Len(l)
      BY <1>1, <1>2, <3>2
    <3>4. l[i].kind \in {l[j].kind : j \in (t + 1)..Len(l)}
      BY <3>3
    <3>5. l[i].kind \in {"call", "said", "relieved", "over", "refused"}
      BY <3>1 DEF IsCall
    <3>6. Progress(r) = "played"
      BY <3>4, <3>5 DEF Progress
    <3>7. QED BY <1>10, <3>6
  <2>4. ASSUME NEW e \in Rebuilt(m.imported, s), e.round <= m.importEnd,
               IsCall(e) => e.chan \notin Blocked
        PROVE  e \in History(r, s)
    BY <1>4, <2>1, <2>2, <2>4
  <2>5. ASSUME NEW e \in History(r, s), e.kind = "said" PROVE e.by = f[s]
    <3>1. e \in Lines(m.imported) /\ e.seat = m.seat /\ e.round <= m.importEnd
      BY <1>4, <1>10, <2>1, <2>2
    <3>2. QED BY <1>10, <2>5, <3>1 DEF GoodManifest
  <2>6. QED BY <1>10, <2>3, <2>4, <2>5
<1>11. CASE ~(m.kind = "replace" /\ m.seat = s) /\ ~(m.kind = "import" /\ m.seat = s)
  <2>1. History(r, s) = {e \in rebuilt : Fresh(r) /\ m.kind \in {"replace", "import"} => e.round < m.entry}
    BY <1>3, <1>11 DEF History
  <2>2. s # m.seat
    BY <1>4, <1>11, LineageAssumption DEF GoodManifest
  <2>3. ASSUME NEW e \in rebuilt PROVE e \in History(r, s)
    <3>1. PICK i \in 1..Len(l) : e = l[i] /\ Memory(e)
      BY <1>5
    <3>2. ASSUME Fresh(r) PROVE e.round < m.entry
      <4>1. i <= t /\ m.kind # "none"
        BY <1>2, <1>3, <3>2 DEF Fresh, Derived
      <4>2. QED BY <1>2, <1>1, <3>1, <4>1 DEF CutAtTheRound
    <3>3. QED BY <2>1, <3>2
  <2>4. ASSUME NEW e \in History(r, s), e.kind = "said" PROVE e.by = f[s]
    <3>1. PICK i \in 1..Len(l) : e = l[i] /\ e.seat = s
      BY <1>5, <2>1
    <3>2. QED BY <1>8, <2>2, <2>4, <3>1
  <2>5. QED BY <1>11, <2>3, <2>4
<1>12. QED BY <1>9, <1>10, <1>11

LEMMA LaunchKeeps ==
    ASSUME IInv, NEW r \in Runs, Launch(r)
    PROVE  IInv'
<1> DEFINE l == log[r]
           m == manifest[r]
<1>1. /\ up = 0 /\ l # <<>> /\ Consistent(r)
      /\ "resume_after_swap" \in Avoided => ~SwappedHere(r)
      /\ m.kind = "import" => Progress(r) # "played"
      /\ up' = r /\ round' = LastRound(Walked(r)) + (IF Advances(r) THEN 1 ELSE 0)
      /\ phase' = IF Advances(r) THEN "entering" ELSE "boundary"
      /\ mind' = [s \in Seats |-> History(r, s)]
      /\ joins' = [s \in Seats |-> [c \in Channels |-> JoinIndex(r, s, c)]]
      /\ given' = IF Fresh(r) THEN [given EXCEPT ![r] = Gift(r, mind', joins')] ELSE given
      /\ launches' = launches + 1
      /\ log' = log /\ manifest' = manifest /\ midCycle' = midCycle /\ told' = told
      /\ first' = first /\ calls' = calls
  BY DEF Launch
<1>2. /\ TypeOK /\ r \in Nat /\ r # 0 /\ RelievedBySwaps
      /\ GoodLog(r, l, m, first[r]) /\ GoodManifest(r, m, first[r])
  <2>1. TypeOK /\ RelievedBySwaps /\ GoodLog(r, l, m, first[r]) /\ GoodManifest(r, m, first[r])
    BY <1>1 DEF IInv, RunsExist
  <2>2. r \in Nat /\ r # 0
    BY LineageAssumption DEF Runs
  <2>3. QED BY <2>1, <2>2
<1>3. l \in Seq(LineSet) /\ m.target \in 0..Len(l) /\ RoundsInOrder(l) /\ 1 \in At(l, "advanced")
  <2>1. l \in Seq(LineSet) /\ m.target \in 0..Len(l) /\ RoundsInOrder(l) /\ l[1].kind = "advanced"
    BY <1>2 DEF GoodLog
  <2>2. 1 \in DOMAIN l
    BY <1>1, <2>1, InALog
  <2>3. QED BY <2>1, <2>2 DEF At
<1>4. Walked(r) = l
  BY <1>2, <1>3, WalkedIsAll
<1>5. LastRound(l) \in Nat /\ m.entry \in Nat
  BY <1>2, <1>3, LastRoundTyped DEF TypeOK, ManifestSet
<1>6. /\ \A i \in At(l, "advanced") : l[i].round <= LastRound(l) /\ l[i].round \in Nat
      /\ \E i \in At(l, "advanced") : l[i].round = LastRound(l)
      /\ LastRound(l) >= 1
  <2>1. \A i \in At(l, "advanced") : l[i].round <= LastRound(l)
    BY <1>3, LastRoundIsHighest
  <2>2. \E i \in At(l, "advanced") : l[i].round = LastRound(l)
    BY <1>3, LastRoundIsHighest
  <2>3. \A i \in At(l, "advanced") : l[i].round >= 1
    BY <1>3 DEF RoundsInOrder
  <2>4. \A i \in At(l, "advanced") : l[i].round \in Nat
    BY <1>3, InALog DEF At, LineSet
  <2>5. LastRound(l) >= 1
    BY <2>2, <2>3
  <2>6. QED BY <2>1, <2>2, <2>4, <2>5
<1>7. RunsExist' /\ RelievedBySwaps'
  <2>1. \A q \in Runs : log[q] = <<>> => q # r
    BY <1>1
  <2>2. RunsExist'
    BY <1>1, <2>1 DEF IInv, RunsExist
  <2>3. QED BY <1>1, <2>2 DEF IInv, RelievedBySwaps, SwappedHere
<1>8. InTheRound'
  <2>1. midCycle = {}
    BY <1>1 DEF IInv, InTheRound
  <2>2. CASE Advances(r)
    <3>1. /\ round' = LastRound(l) + 1 /\ phase' = "entering"
          /\ Derived(r) /\ LastRound(l) < m.entry /\ LastRound(l) >= m.entry - 1
      BY <1>1, <1>4, <2>2 DEF Advances, Consistent
    <3>2. /\ round' >= 1 /\ round' - 1 = LastRound(l) /\ round' >= m.entry
          /\ \A i \in At(l, "advanced") : l[i].round <= round'
      BY <1>5, <1>6, <3>1
    <3>3. \E i \in At(l, "advanced") : l[i].round = round' - 1
      BY <1>6, <3>2
    <3>4. QED BY <1>1, <1>2, <2>1, <3>1, <3>2, <3>3 DEF InTheRound
  <2>3. CASE ~Advances(r)
    <3>1. /\ round' = LastRound(l) /\ phase' = "boundary"
          /\ Derived(r) => ~(LastRound(l) < m.entry)
      BY <1>1, <1>4, <1>5, <2>3 DEF Advances
    <3>2. Derived(r)' => round' >= m.entry
      BY <1>1, <1>5, <3>1 DEF Derived
    <3>3. QED BY <1>1, <1>2, <1>6, <2>1, <3>1, <3>2 DEF InTheRound
  <2>4. QED BY <2>2, <2>3
<1>9. mind' \in [Seats -> SUBSET LineSet] /\ joins' \in [Seats -> [Channels -> Nat]]
  BY <1>1, <1>2, <1>3, HistoryTyped, JoinIndexTyped
<1>10. TypeOK'
  <2>1. round' \in Nat
    BY <1>1, <1>4, <1>5
  <2>2. Gift(r, mind', joins') \in [Seats -> [calls : SUBSET LineSet, joins : [Channels -> Nat]]]
    BY <1>9 DEF Gift
  <2>3. given' \in [Runs -> [Seats -> [calls : SUBSET LineSet, joins : [Channels -> Nat]]]]
    BY <1>1, <1>2, <2>2 DEF TypeOK
  <2>4. up' \in 0..MaxRuns /\ launches' \in Nat
    BY <1>1, <1>2, LineageAssumption DEF TypeOK, Runs
  <2>5. phase' \in {"down", "entering", "boundary", "playing", "closed", "done"}
    BY <1>1
  <2>6. /\ log' \in [Runs -> Seq(LineSet)] /\ manifest' \in [Runs -> ManifestSet]
        /\ midCycle' \subseteq Seats /\ told' \subseteq Seats /\ calls' \in Nat
        /\ first' \in [Runs -> [Seats -> Nat \X Nat]]
    BY <1>1, <1>2 DEF TypeOK
  <2>7. QED BY <1>9, <2>1, <2>3, <2>4, <2>5, <2>6 DEF TypeOK
<1>11. HistoriesBack'
  <2> SUFFICES ASSUME "resume_after_swap" \in Avoided, NEW s \in Seats
               PROVE  /\ Own(s)' \subseteq History(r, s)
                      /\ \A x \in History(r, s) : x.kind = "said" => x.by = Who(r, s)'
    BY <1>1 DEF HistoriesBack, EachGetsItsHistoryBack
  <2>1. Who(r, s)' = first[r][s]
    <3>1. \A i \in At(l, "swapped") : ~(m.target < i)
      BY <1>1 DEF SwappedHere
    <3>2. Sitting(l, m, first[r], s, Len(l)) = first[r][s]
      BY <3>1, SittingUnswapped
    <3>3. QED BY <1>1, <3>2 DEF Who, Occupant
  <2>2. \A e \in History(r, s) : e.kind = "said" => e.by = first[r][s]
    BY <1>1, <1>2, HistoryComesBack
  <2>3. Own(s)' \subseteq History(r, s)
    BY <1>1, <1>2, <2>1, HistoryComesBack DEF Own
  <2>4. QED BY <2>1, <2>2, <2>3
<1>12. QED BY <1>7, <1>8, <1>10, <1>11 DEF IInv

-----------------------------------------------------------------------------
(* The cut *)

\* A fork after round n is cut at a line of its source, before the rounds after n.
LEMMA BoundaryIsALine ==
    ASSUME NEW l \in Seq(LineSet), l # <<>>, l[1].kind = "advanced", RoundsInOrder(l),
           NEW n \in Nat, Completed(l, n)
    PROVE  /\ Boundary(l, n) \in 1..Len(l)
           /\ \A i \in 1..Boundary(l, n) : Memory(l[i]) => l[i].round < n + 1
<1> DEFINE k == Len(l)
           next == AdvancedTo(l, n + 1)
           p == Boundary(l, n)
<1>1. k \in Nat /\ DOMAIN l = 1..k /\ k >= 1 /\ \A i \in 1..k : l[i].round \in Nat
  BY InALog DEF LineSet
<1>2. next \subseteq 1..k
  BY <1>1 DEF AdvancedTo, At
<1>3. CASE next # {}
  <2>1. p = Earliest(next)
    BY <1>3 DEF Boundary
  <2>2. p \in next /\ \A i \in next : p <= i
    BY <1>1, <1>2, <1>3, <2>1, EarliestIsFirst
  <2> HIDE DEF p
  <2>3. p \in 1..k /\ l[p].kind = "advanced" /\ l[p].round = n + 1
    BY <1>2, <2>2 DEF AdvancedTo, At
  <2>4. ASSUME NEW i \in 1..p, Memory(l[i]) PROVE l[i].round < n + 1
    <3>1. i \in DOMAIN l
      BY <1>1, <2>3
    <3>2. PICK j \in At(l, "advanced") : j < i /\ l[j].round = l[i].round
      BY <2>4, <3>1 DEF RoundsInOrder
    <3>3. j \in 1..k /\ l[j].kind = "advanced" /\ j < p
      BY <1>1, <2>3, <3>2 DEF At
    <3>4. l[j].round <= l[p].round
      BY <1>1, <2>3, <3>3 DEF RoundsInOrder
    <3>5. l[j].round # n + 1
      <4> SUFFICES ASSUME l[j].round = n + 1 PROVE FALSE
        OBVIOUS
      <4>1. j \in next
        BY <3>2 DEF AdvancedTo
      <4>2. p <= j
        BY <2>2, <4>1
      <4>3. QED BY <2>3, <3>3, <4>2
    <3>6. QED BY <1>1, <2>3, <3>2, <3>3, <3>4, <3>5
  <2>5. QED BY <2>3, <2>4 DEF p
<1>4. CASE next = {}
  <2>1. Ends(l) # {} /\ p = GameOver(l)
    BY <1>4 DEF Completed, Boundary
  <2>2. Ends(l) \subseteq 1..k /\ \A i \in Ends(l) : l[i].kind \in {"complete", "failed"}
    BY <1>1 DEF Ends, At
  <2>3. Latest(Ends(l)) \in Ends(l)
    BY <1>1, <2>1, <2>2, LatestIsLast
  <2> DEFINE e == Latest(Ends(l))
  <2>4. e \in 2..k
    <3>1. e \in 1..k /\ e # 1
      BY <2>2, <2>3
    <3>2. QED BY <1>1, <3>1
  <2> DEFINE wakes == {i \in At(l, "over") \cup At(l, "relieved") : Closing(l) <= i /\ i < e}
  <2>5. p \in 1..k
    <3>1. CASE wakes # {}
      <4>1. p = Earliest(wakes) - 1
        BY <2>1, <3>1 DEF GameOver
      <4>2. wakes \subseteq 1..k /\ \A i \in wakes : l[i].kind \in {"over", "relieved"}
        BY <1>1 DEF At
      <4> HIDE DEF wakes
      <4>3. Earliest(wakes) \in wakes
        BY <1>1, <3>1, <4>2, EarliestIsFirst
      <4>4. Earliest(wakes) \in 1..k /\ Earliest(wakes) # 1
        BY <4>2, <4>3
      <4>5. QED BY <1>1, <4>1, <4>4
    <3>2. CASE wakes = {}
      <4>1. p = e - 1
        BY <2>1, <3>2 DEF GameOver
      <4>2. QED BY <1>1, <2>4, <4>1
    <3>3. QED BY <3>1, <3>2
  <2> HIDE DEF p
  <2>6. ASSUME NEW i \in 1..p, Memory(l[i]) PROVE l[i].round < n + 1
    <3>1. i \in DOMAIN l
      BY <1>1, <2>5
    <3>2. PICK j \in At(l, "advanced") : l[j].round = l[i].round
      BY <2>6, <3>1 DEF RoundsInOrder
    <3> SUFFICES ASSUME ~(l[i].round < n + 1) PROVE FALSE
      OBVIOUS
    <3>3. l[i].round \in Nat
      BY <1>1, <3>1
    <3>4. n + 1 \in 1..l[j].round
      BY <3>2, <3>3
    <3>5. PICK q \in At(l, "advanced") : l[q].round = n + 1
      BY <3>4 DEF RoundsInOrder
    <3>6. QED BY <1>4, <3>5 DEF AdvancedTo
  <2>7. QED BY <2>5, <2>6 DEF p
<1>5. QED BY <1>3, <1>4

\* A clone has the lines of its source up to the cut, its ends aside.
LEMMA CloneLines ==
    ASSUME NEW l \in Seq(LineSet), NEW p \in 1..Len(l)
    PROVE  /\ Clone(l, p) \in Seq(LineSet) /\ Len(Clone(l, p)) = p /\ DOMAIN Clone(l, p) = 1..p
           /\ \A i \in 1..p :
                 /\ Clone(l, p)[i].at = l[i].at /\ Clone(l, p)[i].seat = l[i].seat
                 /\ Clone(l, p)[i].round = l[i].round /\ Clone(l, p)[i].by = l[i].by
                 /\ \A kind \in Kinds \ {"dropped", "complete", "failed"} :
                       Clone(l, p)[i].kind = kind <=> l[i].kind = kind
                 /\ Memory(Clone(l, p)[i]) <=> Memory(l[i])
<1>1. Len(l) \in Nat /\ DOMAIN l = 1..Len(l) /\ p \in Nat /\ \A i \in 1..p : l[i] \in LineSet /\ i \in DOMAIN l
  BY InALog
<1>2. Clone(l, p) = [i \in 1..p |-> IF i \in Ends(l) THEN [l[i] EXCEPT !.kind = "dropped"] ELSE l[i]]
  BY DEF Clone
<1>3. ASSUME NEW i \in 1..p
      PROVE  /\ Clone(l, p)[i] \in LineSet
             /\ Clone(l, p)[i].at = l[i].at /\ Clone(l, p)[i].seat = l[i].seat
             /\ Clone(l, p)[i].round = l[i].round /\ Clone(l, p)[i].by = l[i].by
             /\ \A kind \in Kinds \ {"dropped", "complete", "failed"} :
                   Clone(l, p)[i].kind = kind <=> l[i].kind = kind
             /\ Memory(Clone(l, p)[i]) <=> Memory(l[i])
  <2>1. l[i] \in LineSet /\ i \in DOMAIN l
    BY <1>1
  <2>2. CASE i \in Ends(l)
    <3>1. Clone(l, p)[i] = [l[i] EXCEPT !.kind = "dropped"]
      BY <1>2, <2>2
    <3>2. l[i].kind \in {"complete", "failed"}
      BY <2>2 DEF Ends, At
    <3>3. /\ Clone(l, p)[i] \in LineSet /\ Clone(l, p)[i].kind = "dropped"
          /\ Clone(l, p)[i].at = l[i].at /\ Clone(l, p)[i].seat = l[i].seat
          /\ Clone(l, p)[i].round = l[i].round /\ Clone(l, p)[i].by = l[i].by
      BY <2>1, <3>1 DEF LineSet, Kinds
    <3>4. QED BY <3>2, <3>3 DEF Memory, IsCall
  <2>3. CASE i \notin Ends(l)
    BY <1>2, <2>1, <2>3
  <2>4. QED BY <2>2, <2>3
<1>4. Clone(l, p) \in [1..p -> LineSet]
  <2>1. \A i \in 1..p : Clone(l, p)[i] \in LineSet
    BY <1>3
  <2>2. QED BY <1>2, <2>1
<1>5. Clone(l, p) \in Seq(LineSet)
  BY <1>1, <1>4
<1>6. Len(Clone(l, p)) = p /\ DOMAIN Clone(l, p) = 1..p
  <2>1. DOMAIN Clone(l, p) = 1..p
    BY <1>4
  <2>2. QED BY <1>1, <1>5, <2>1, LenProperties
<1>7. QED BY <1>3, <1>5, <1>6

\* A seat that was not swapped before the cut is its first agent's up to there.
LEMMA CutUnswapped ==
    ASSUME NEW l \in Seq(LineSet), NEW p \in 1..Len(l), NEW m, NEW f,
           NEW q, q \notin Swapped(SubSeq(l, 1, p)), NEW i \in Int, i <= p
    PROVE  Sitting(l, m, f, q, i) = f[q]
<1>1. SUFFICES ASSUME NEW j \in At(l, "swapped"), l[j].seat = q, j <= i PROVE FALSE
  BY SittingUnswapped
<1>2. Len(l) \in Nat /\ DOMAIN l = 1..Len(l) /\ p \in 0..Len(l)
  BY InALog
<1>3. DOMAIN SubSeq(l, 1, p) = 1..p /\ \A x \in 1..p : SubSeq(l, 1, p)[x] = l[x]
  BY <1>2, PrefixTyped
<1>4. j \in Nat /\ j >= 1 /\ l[j].kind = "swapped"
  BY <1>1, <1>2 DEF At
<1>5. j \in 1..p
  BY <1>1, <1>2, <1>4
<1>6. j \in At(SubSeq(l, 1, p), "swapped")
  BY <1>3, <1>4, <1>5 DEF At
<1>7. q \in Swapped(SubSeq(l, 1, p))
  BY <1>1, <1>3, <1>5, <1>6 DEF Swapped
<1>8. QED BY <1>7

\* The clone that becomes run r is a good log of it.
LEMMA CloneIsGood ==
    ASSUME NEW r \in Nat, NEW a \in Nat, a < r, NEW l, NEW ma \in ManifestSet,
           NEW fa \in [Seats -> Nat \X Nat], GoodLog(a, l, ma, fa), GoodManifest(a, ma, fa),
           NEW n \in Nat, n >= 1, Completed(l, n), NEW p, p = Boundary(l, n),
           NEW s \in Seats \cup {Nobody}, ma.kind # "import", ma.kind = "replace" => ma.seat = s,
           UnswappedBut(s, SubSeq(l, 1, p)),
           NEW m, m.target = p, m.entry = n + 1, m.seat = s,
           NEW f, \A q \in Seats : q # s => f[q] = Sitting(l, ma, fa, q, p)
    PROVE  GoodLog(r, Clone(l, p), m, f)
<1> DEFINE L == Clone(l, p)
<1>1. /\ l \in Seq(LineSet) /\ l # <<>> /\ l[1].kind = "advanced" /\ ma.target \in Nat
      /\ RoundsInOrder(l) /\ WordsAreTheSitters(l, ma, fa) /\ NamedApart(a, l, ma)
  BY DEF GoodLog, ManifestSet
<1>2. p \in 1..Len(l) /\ \A i \in 1..p : Memory(l[i]) => l[i].round < n + 1
  BY <1>1, BoundaryIsALine
<1>3. /\ Len(l) \in Nat /\ DOMAIN l = 1..Len(l) /\ p \in Nat /\ p >= 1
      /\ \A i \in 1..p : i \in DOMAIN l /\ i \in Nat /\ l[i] \in LineSet
  BY <1>1, <1>2, InALog
<1>4. /\ L \in Seq(LineSet) /\ Len(L) = p /\ DOMAIN L = 1..p
      /\ \A i \in 1..p :
            /\ L[i].at = l[i].at /\ L[i].seat = l[i].seat
            /\ L[i].round = l[i].round /\ L[i].by = l[i].by
            /\ L[i].kind = "advanced" <=> l[i].kind = "advanced"
            /\ L[i].kind = "said" <=> l[i].kind = "said"
            /\ L[i].kind = "swapped" <=> l[i].kind = "swapped"
            /\ Memory(L[i]) <=> Memory(l[i])
  <2>1. {"advanced", "said", "swapped"} \subseteq Kinds \ {"dropped", "complete", "failed"}
    BY DEF Kinds
  <2>2. /\ L \in Seq(LineSet) /\ Len(L) = p /\ DOMAIN L = 1..p
        /\ \A i \in 1..p :
              /\ L[i].at = l[i].at /\ L[i].seat = l[i].seat
              /\ L[i].round = l[i].round /\ L[i].by = l[i].by
              /\ \A kind \in Kinds \ {"dropped", "complete", "failed"} :
                    L[i].kind = kind <=> l[i].kind = kind
              /\ Memory(L[i]) <=> Memory(l[i])
    BY <1>1, <1>2, CloneLines
  <2> HIDE DEF L
  <2>3. QED BY <2>1, <2>2
<1> HIDE DEF L
<1>5. L # <<>> /\ L[1].kind = "advanced" /\ m.target \in 0..Len(L)
  <2>1. 1 \in 1..p
    BY <1>3
  <2>2. QED BY <1>1, <1>3, <1>4, <2>1
<1>6. At(L, "advanced") = {i \in At(l, "advanced") : i <= p}
  BY <1>3, <1>4 DEF At
<1>7. RoundsInOrder(L)
  <2>1. \A i \in At(L, "advanced") : L[i].round >= 1
    BY <1>1, <1>3, <1>4, <1>6 DEF RoundsInOrder, At
  <2>2. ASSUME NEW i \in DOMAIN L, NEW j \in DOMAIN L, i < j, L[i].kind = "advanced",
               L[j].kind \in {"advanced", "said"}
        PROVE  L[i].round <= L[j].round
    <3>1. i \in DOMAIN l /\ j \in DOMAIN l /\ l[i].kind = "advanced"
          /\ l[j].kind \in {"advanced", "said"}
      BY <1>3, <1>4, <2>2
    <3>2. l[i].round <= l[j].round
      BY <1>1, <2>2, <3>1 DEF RoundsInOrder
    <3>3. QED BY <1>4, <3>2
  <2>3. ASSUME NEW i \in At(L, "advanced"), NEW q \in 1..L[i].round
        PROVE  \E j \in At(L, "advanced") : j <= i /\ L[j].round = q
    <3>1. i \in At(l, "advanced") /\ i \in 1..p /\ L[i].round = l[i].round
      BY <1>4, <1>6 DEF At
    <3>2. PICK j \in At(l, "advanced") : j <= i /\ l[j].round = q
      BY <1>1, <3>1 DEF RoundsInOrder
    <3>3. j \in 1..p
      BY <1>3, <3>1, <3>2 DEF At
    <3>4. j \in At(L, "advanced") /\ L[j].round = q
      BY <1>4, <1>6, <3>2, <3>3
    <3>5. QED BY <3>2, <3>4
  <2>4. ASSUME NEW j \in DOMAIN L, Memory(L[j])
        PROVE  \E i \in At(L, "advanced") : i < j /\ L[i].round = L[j].round
    <3>1. j \in 1..p /\ j \in DOMAIN l /\ Memory(l[j])
      BY <1>3, <1>4, <2>4
    <3>2. PICK i \in At(l, "advanced") : i < j /\ l[i].round = l[j].round
      BY <1>1, <3>1 DEF RoundsInOrder
    <3>3. i \in 1..p
      BY <1>3, <3>1, <3>2 DEF At
    <3>4. i \in At(L, "advanced") /\ L[i].round = L[j].round
      BY <1>4, <1>6, <3>1, <3>2, <3>3
    <3>5. QED BY <3>2, <3>4
  <2>5. QED BY <2>1, <2>2, <2>3, <2>4 DEF RoundsInOrder
<1>8. CutAtTheRound(L, m)
  <2> SUFFICES ASSUME NEW i \in DOMAIN L, Memory(L[i])
               PROVE  L[i].round < m.entry /\ ~(i > m.target)
    BY DEF CutAtTheRound
  <2>1. i \in 1..p /\ ~(i > p)
    BY <1>3, <1>4
  <2>2. QED BY <1>2, <1>4, <2>1
<1>9. WordsAreTheSitters(L, m, f)
  <2> SUFFICES ASSUME NEW i \in DOMAIN L, L[i].kind = "said", L[i].seat \in Seats,
                      i > m.target \/ L[i].seat # m.seat
               PROVE  L[i].by = Sitting(L, m, f, L[i].seat, i)
    BY DEF WordsAreTheSitters
  <2>1. /\ i \in 1..p /\ i \in DOMAIN l /\ i \in Int /\ i <= p /\ ~(i > m.target)
        /\ l[i].kind = "said" /\ l[i].seat \in Seats
    BY <1>3, <1>4
  <2> DEFINE q == L[i].seat
  <2>2. q \in Seats /\ q # s /\ q = l[i].seat
    BY <1>4, <2>1
  <2>3. ma.seat # q
    <3>1. ma.kind \in {"none", "fork", "replace", "import"}
      BY DEF ManifestSet
    <3>2. ma.kind \in {"none", "fork"} => ma.seat = Nobody
      BY DEF GoodManifest
    <3>3. QED BY <2>2, <3>1, <3>2, LineageAssumption
  <2>4. l[i].by = Sitting(l, ma, fa, q, i)
    BY <1>1, <2>1, <2>2, <2>3 DEF WordsAreTheSitters
  <2> q \notin Swapped(SubSeq(l, 1, p))
    BY <2>2 DEF UnswappedBut
  <2>5. Sitting(l, ma, fa, q, i) = fa[q]
    BY <1>1, <1>2, <2>1, CutUnswapped
  <2>6. Sitting(l, ma, fa, q, p) = fa[q]
    <3>1. p \in Int /\ p <= p
      BY <1>3
    <3>2. QED BY <1>1, <1>2, <3>1, CutUnswapped
  <2>7. Sitting(L, m, f, q, i) = f[q]
    <3>1. \A x \in At(L, "swapped") : L[x].seat = q => ~(m.target < x /\ x <= i)
      BY <1>3, <1>4, <2>1 DEF At
    <3>2. QED BY <3>1, SittingUnswapped
  <2>8. QED BY <1>4, <2>1, <2>2, <2>4, <2>5, <2>6, <2>7
<1>10. NamedApart(r, L, m)
  <2> SUFFICES ASSUME NEW i \in DOMAIN L
               PROVE  L[i].at[1] < r /\ L[i].by[1] < r /\ ~(i > m.target)
    BY DEF NamedApart
  <2>1. i \in 1..p /\ i \in DOMAIN l /\ i \in Nat /\ ~(i > p) /\ l[i] \in LineSet
    BY <1>3, <1>4
  <2>2. l[i].at[1] \in Nat /\ l[i].by[1] \in Nat
    BY <2>1 DEF LineSet
  <2>3. l[i].at[1] <= a /\ l[i].by[1] <= a
    <3>1. /\ i <= ma.target => l[i].at[1] < a /\ l[i].by[1] < a
          /\ i > ma.target => l[i].at[1] = a /\ l[i].by[1] <= a
      BY <1>1, <2>1 DEF NamedApart, OwnLine
    <3>2. QED BY <1>1, <2>1, <2>2, <3>1
  <2>4. QED BY <1>4, <2>1, <2>2, <2>3
<1>11. QED BY <1>4, <1>5, <1>7, <1>8, <1>9, <1>10 DEF GoodLog, L

\* A derivation: the clone is cut right, and its manifest says who sits where.
LEMMA DeriveKeeps ==
    ASSUME IInv, NEW r \in Runs, NEW a \in 1..(r - 1), NEW n \in Rounds,
           NEW s \in Seats \cup {Nobody}, Admitted(r, a, n, s),
           NEW m \in ManifestSet, NEW owner \in Nat \X Nat,
           m.kind \in {"fork", "replace", "import"}, m.kind = "fork" <=> s = Nobody,
           owner[1] <= r, owner[1] = r => owner[2] = 0,
           m.kind = "replace" => owner = <<r, 0>>,
           \A e \in Lines(m.imported) : e.by[1] < r,
           m.kind = "import" => \A e \in Lines(m.imported) :
               e.seat = s /\ e.kind = "said" /\ e.round <= m.importEnd => e.by = owner,
           Derive(r, a, n, s, m, owner)
    PROVE  IInv'
<1> DEFINE l  == log[a]
           ma == manifest[a]
           fa == first[a]
           p  == Boundary(l, n)
           mr == manifest'[r]
           fr == first'[r]
<1>1. /\ r \in Nat /\ a \in Nat /\ a < r /\ a \in Runs /\ n \in Nat /\ n >= 1
      /\ n + 1 \in Nat /\ n + 1 >= 2
  BY LineageAssumption DEF Runs, Rounds
<1>2. /\ up = 0 /\ log[r] = <<>> /\ l # <<>> /\ Completed(l, n)
      /\ ma.kind # "import" /\ (ma.kind = "replace" => ma.seat = s)
      /\ UnswappedBut(s, SubSeq(l, 1, p))
  BY DEF Admitted, New, Forkable
<1>3. /\ l \in Seq(LineSet) /\ ma \in ManifestSet /\ fa \in [Seats -> Nat \X Nat]
      /\ log \in [Runs -> Seq(LineSet)] /\ manifest \in [Runs -> ManifestSet]
      /\ first \in [Runs -> [Seats -> Nat \X Nat]]
  BY <1>1 DEF IInv, TypeOK
<1>4. GoodLog(a, l, ma, fa) /\ GoodManifest(a, ma, fa)
  BY <1>1, <1>2 DEF IInv, RunsExist
<1>5. p \in 1..Len(l) /\ p \in Nat /\ p >= 1 /\ Clone(l, p) \in Seq(LineSet)
      /\ Len(Clone(l, p)) = p /\ DOMAIN Clone(l, p) = 1..p /\ Clone(l, p) # <<>>
  <2>1. l[1].kind = "advanced" /\ RoundsInOrder(l)
    BY <1>4 DEF GoodLog
  <2>2. p \in 1..Len(l)
    BY <1>1, <1>2, <1>3, <2>1, BoundaryIsALine
  <2>3. Len(l) \in Nat
    BY <1>3, InALog
  <2>4. p \in Nat /\ p >= 1
    BY <2>2, <2>3
  <2>5. Clone(l, p) \in Seq(LineSet) /\ Len(Clone(l, p)) = p /\ DOMAIN Clone(l, p) = 1..p
    BY <1>3, <2>2, CloneLines
  <2>6. Clone(l, p) # <<>>
    BY <2>4, <2>5, EmptySeq
  <2>7. QED BY <2>2, <2>4, <2>5, <2>6
<1>6. \A q \in Seats : Occupant(a, q, p) = Sitting(l, ma, fa, q, p)
  BY DEF Occupant
<1>7. \A q \in Seats : Sitting(l, ma, fa, q, p) \in Nat \X Nat /\ Sitting(l, ma, fa, q, p)[1] <= a
  BY <1>1, <1>3, <1>4, SittingIsOurs
<1>8. PICK rounds \in DerivedRounds :
      /\ log' = [log EXCEPT ![r] = Clone(l, p)]
      /\ manifest' = [manifest EXCEPT ![r] =
                        [m EXCEPT !.seat = s, !.target = p, !.entry = n + 1, !.rounds = rounds]]
      /\ first' = [first EXCEPT ![r] =
                     [q \in Seats |-> IF q = s THEN owner ELSE Occupant(a, q, p)]]
      /\ launches' = launches + 1 /\ UNCHANGED <<process, given, calls>>
  BY DEF Derive
<1>9. rounds \in Nat
  BY LineageAssumption DEF Rounds
<1>10. /\ mr \in ManifestSet /\ mr.kind = m.kind /\ mr.seat = s /\ mr.target = p
       /\ mr.entry = n + 1 /\ mr.imported = m.imported /\ mr.importEnd = m.importEnd
  <2>1. mr = [m EXCEPT !.seat = s, !.target = p, !.entry = n + 1, !.rounds = rounds]
    BY <1>3, <1>8
  <2>2. QED BY <1>1, <1>5, <1>9, <2>1 DEF ManifestSet
<1>11. /\ fr \in [Seats -> Nat \X Nat]
       /\ \A q \in Seats : fr[q] = IF q = s THEN owner ELSE Sitting(l, ma, fa, q, p)
  <2>1. fr = [q \in Seats |-> IF q = s THEN owner ELSE Occupant(a, q, p)]
    BY <1>3, <1>8
  <2>2. QED BY <1>6, <1>7, <2>1
<1>12. log'[r] = Clone(l, p) /\ log' \in [Runs -> Seq(LineSet)]
  BY <1>3, <1>5, <1>8
<1>13. \A q \in Runs : q # r => log'[q] = log[q] /\ manifest'[q] = manifest[q] /\ first'[q] = first[q]
  BY <1>3, <1>8
<1>14. manifest' \in [Runs -> ManifestSet] /\ first' \in [Runs -> [Seats -> Nat \X Nat]]
  <2>1. manifest' = [manifest EXCEPT ![r] = mr] /\ first' = [first EXCEPT ![r] = fr]
    BY <1>3, <1>8
  <2> HIDE DEF mr, fr
  <2>2. QED BY <1>3, <1>10, <1>11, <2>1
<1>15. /\ up' = up /\ phase' = phase /\ round' = round /\ mind' = mind /\ joins' = joins
       /\ midCycle' = midCycle /\ told' = told /\ given' = given
       /\ calls' = calls /\ launches' = launches + 1
  BY <1>8 DEF process
<1> HIDE DEF mr, fr, l, ma, fa, p
<1>16. GoodManifest(r, mr, fr)
  <2>1. /\ mr.kind \in {"none", "fork"} => mr.seat = Nobody
        /\ mr.kind \in {"replace", "import"} => mr.seat \in Seats
    BY <1>10
  <2>2. mr.kind # "none" /\ mr.target # 0 /\ mr.entry >= 2
    BY <1>1, <1>5, <1>10
  <2>3. \A q \in Seats : fr[q][1] <= r /\ (fr[q][1] = r => fr[q][2] = 0)
    BY <1>1, <1>7, <1>11
  <2>4. mr.kind = "replace" => fr[mr.seat] = <<r, 0>>
    BY <1>10, <1>11, <2>1
  <2>5. mr.kind = "import" => fr[mr.seat] = owner
    BY <1>10, <1>11, <2>1
  <2>6. QED BY <1>10, <2>1, <2>2, <2>3, <2>4, <2>5 DEF GoodManifest
<1>17. GoodLog(r, Clone(l, p), mr, fr)
  <2>1. p = Boundary(l, n)
    BY DEF p
  <2>2. \A q \in Seats : q # s => fr[q] = Sitting(l, ma, fa, q, p)
    BY <1>11
  <2>3. mr.target = p /\ mr.entry = n + 1 /\ mr.seat = s
    BY <1>10
  <2>4. s \in Seats \cup {Nobody}
    OBVIOUS
  <2>5. /\ r \in Nat /\ a \in Nat /\ a < r /\ n \in Nat /\ n >= 1
        /\ ma \in ManifestSet /\ fa \in [Seats -> Nat \X Nat]
        /\ GoodLog(a, l, ma, fa) /\ GoodManifest(a, ma, fa) /\ Completed(l, n)
        /\ ma.kind # "import" /\ (ma.kind = "replace" => ma.seat = s)
        /\ UnswappedBut(s, SubSeq(l, 1, p))
    BY <1>1, <1>2, <1>3, <1>4
  <2>6. QED BY ONLY <2>1, <2>2, <2>3, <2>4, <2>5, CloneIsGood
<1>18. RunsExist'
  <2> SUFFICES ASSUME NEW q \in Runs
               PROVE  /\ GoodManifest(q, manifest'[q], first'[q])
                      /\ log'[q] # <<>> => GoodLog(q, log'[q], manifest'[q], first'[q])
                      /\ log'[q] = <<>> => manifest'[q] = NoManifest /\ up' # q
    BY DEF RunsExist
  <2>1. CASE q = r
    BY <1>5, <1>12, <1>16, <1>17, <2>1 DEF mr, fr
  <2>2. CASE q # r
    BY <1>13, <1>15, <2>2 DEF IInv, RunsExist
  <2>3. QED BY <2>1, <2>2
<1>19. RelievedBySwaps'
  <2> SUFFICES ASSUME NEW q \in Runs, NEW i \in DOMAIN log'[q], i > manifest'[q].target,
                      log'[q][i].kind = "relieved"
               PROVE  \E j \in At(log'[q], "swapped") : manifest'[q].target < j
    BY DEF RelievedBySwaps, SwappedHere
  <2>1. CASE q = r
    <3>1. i \in 1..p /\ i > p
      BY <1>5, <1>10, <1>12, <2>1 DEF mr
    <3>2. QED BY <1>5, <3>1
  <2>2. CASE q # r
    BY <1>13, <2>2 DEF IInv, RelievedBySwaps, SwappedHere
  <2>3. QED BY <2>1, <2>2
<1>20. InTheRound' /\ HistoriesBack'
  BY <1>2, <1>15 DEF IInv, InTheRound, HistoriesBack, EachGetsItsHistoryBack
<1>21. TypeOK'
  <2>1. launches' \in Nat
    BY <1>15 DEF IInv, TypeOK
  <2>2. QED BY <1>12, <1>14, <1>15, <2>1 DEF IInv, TypeOK
<1>22. QED BY <1>18, <1>19, <1>20, <1>21 DEF IInv

LEMMA NoManifestTyped == NoManifest \in ManifestSet
<1>1. SourceRounds \in Nat
  BY LineageAssumption DEF Rounds
<1>2. <<>> \in Seq(LineSet)
  BY EmptySeq
<1>3. QED BY <1>1, <1>2 DEF NoManifest, ManifestSet

LEMMA ForkKeeps ==
    ASSUME IInv, NEW r \in Runs, NEW a \in 1..(r - 1), NEW n \in Rounds, ForkAtRound(r, a, n)
    PROVE  IInv'
<1> DEFINE m == [NoManifest EXCEPT !.kind = "fork"]
<1>1. m \in ManifestSet /\ m.kind = "fork" /\ m.imported = <<>>
  BY NoManifestTyped DEF NoManifest, ManifestSet
<1>2. Lines(m.imported) = {}
  BY <1>1 DEF Lines
<1>3. r \in Nat /\ <<r, 0>> \in Nat \X Nat
  BY LineageAssumption DEF Runs
<1>4. Admitted(r, a, n, Nobody) /\ Derive(r, a, n, Nobody, m, <<r, 0>>)
  BY DEF ForkAtRound
<1>5. Nobody \in Seats \cup {Nobody}
  OBVIOUS
<1> HIDE DEF m
<1>6. QED BY <1>1, <1>2, <1>3, <1>4, <1>5, DeriveKeeps

LEMMA ReplaceKeeps ==
    ASSUME IInv, NEW r \in Runs, NEW a \in 1..(r - 1), NEW n \in Rounds, NEW s \in Seats,
           NEW v \in Views, Replace(r, a, n, s, v)
    PROVE  IInv'
<1> DEFINE m == [NoManifest EXCEPT !.kind = "replace", !.visible = v.visible, !.floor = v.floor]
<1>1. v.visible \in SUBSET Channels /\ v.floor \in Nat
  <2>1. v \in [visible : SUBSET Channels, floor : 0..MaxRounds] /\ MaxRounds \in Nat
    BY LineageAssumption
  <2>2. QED BY <2>1
<1>2. m \in ManifestSet /\ m.kind = "replace" /\ m.imported = <<>>
  BY <1>1, NoManifestTyped DEF NoManifest, ManifestSet
<1>3. Lines(m.imported) = {}
  BY <1>2 DEF Lines
<1>4. r \in Nat /\ <<r, 0>> \in Nat \X Nat
  BY LineageAssumption DEF Runs
<1>5. Admitted(r, a, n, s) /\ Derive(r, a, n, s, m, <<r, 0>>)
  BY DEF Replace
<1>6. s \in Seats \cup {Nobody} /\ s # Nobody
  BY LineageAssumption
<1> HIDE DEF m
<1>7. QED BY <1>2, <1>3, <1>4, <1>5, <1>6, DeriveKeeps

\* What an agent is imported with are its own words: up to the cutoff nobody else had its
\* seat.
LEMMA ImportedIsItsOwn ==
    ASSUME NEW b \in Nat, NEW l, NEW m \in ManifestSet, NEW f \in [Seats -> Nat \X Nat],
           GoodLog(b, l, m, f), GoodManifest(b, m, f), NEW bEnd \in Nat, NEW s \in Seats,
           m.kind \in {"replace", "import"} => m.seat # s,
           s \notin Swapped(SubSeq(l, 1, Cutoff(l, bEnd)))
    PROVE  \A e \in Lines(l) : e.seat = s /\ e.kind = "said" /\ e.round <= bEnd
               => e.by = Sitting(l, m, f, s, Cutoff(l, bEnd))
<1> DEFINE p == Cutoff(l, bEnd)
           next == AdvancedTo(l, bEnd + 1)
<1>1. /\ l \in Seq(LineSet) /\ l # <<>> /\ m.target \in Nat
      /\ RoundsInOrder(l) /\ WordsAreTheSitters(l, m, f)
  BY DEF GoodLog, ManifestSet
<1>2. Len(l) \in Nat /\ Len(l) >= 1 /\ DOMAIN l = 1..Len(l)
  BY <1>1, InALog
<1>3. next \subseteq 1..Len(l)
  BY <1>2 DEF AdvancedTo, At
<1>4. p \in 1..Len(l) /\ (next # {} => p \in next) /\ (next = {} => p = Len(l))
  <2>1. CASE next # {}
    <3>1. p = Earliest(next)
      BY <2>1 DEF Cutoff
    <3>2. Earliest(next) \in next
      BY <1>2, <1>3, <2>1, EarliestIsFirst
    <3>3. QED BY <1>3, <2>1, <3>1, <3>2
  <2>2. CASE next = {}
    BY <1>2, <2>2 DEF Cutoff
  <2>3. QED BY <2>1, <2>2
<1>5. next # {} => l[p].kind = "advanced" /\ l[p].round = bEnd + 1
  BY <1>4 DEF AdvancedTo, At
<1>6. s \notin Swapped(SubSeq(l, 1, p))
  OBVIOUS
<1> HIDE DEF p, next
<1>7. m.seat # s
  <2>1. m.kind \in {"none", "fork", "replace", "import"}
    BY DEF ManifestSet
  <2>2. m.kind \in {"none", "fork"} => m.seat = Nobody
    BY DEF GoodManifest
  <2>3. QED BY <2>1, <2>2, LineageAssumption
<1>8. Sitting(l, m, f, s, p) = f[s]
  <2>1. p \in 1..Len(l)
    BY <1>4
  <2>2. p \in Int /\ p <= p
    BY <1>2, <2>1
  <2>3. QED BY <1>1, <1>6, <2>1, <2>2, CutUnswapped
<1>9. ASSUME NEW i \in DOMAIN l, l[i].seat = s, l[i].kind = "said", l[i].round <= bEnd
      PROVE  l[i].by = f[s]
  <2>1. i \in 1..Len(l) /\ i \in Int /\ l[i].round \in Nat
    <3>1. i \in 1..Len(l)
      BY <1>2
    <3>2. l[i] \in LineSet
      BY <1>1, <3>1, InALog
    <3>3. QED BY <1>2, <3>1, <3>2 DEF LineSet
  <2>2. i <= p
    <3>1. CASE next = {}
      BY <1>2, <1>4, <2>1, <3>1
    <3>2. CASE next # {}
      <4> SUFFICES ASSUME p < i PROVE FALSE
        BY <1>2, <1>4, <2>1
      <4>1. p \in DOMAIN l /\ l[p].kind = "advanced" /\ l[i].kind \in {"advanced", "said"}
        BY <1>2, <1>4, <1>5, <1>9, <3>2
      <4>2. l[p].round <= l[i].round
        BY <1>1, <4>1 DEF RoundsInOrder
      <4>3. l[p].round = bEnd + 1
        BY <1>5, <3>2
      <4>4. QED BY <1>9, <2>1, <4>2, <4>3
    <3>3. QED BY <3>1, <3>2
  <2>3. l[i].by = Sitting(l, m, f, s, i)
    BY <1>1, <1>7, <1>9 DEF WordsAreTheSitters
  <2>4. Sitting(l, m, f, s, i) = f[s]
    BY <1>1, <1>4, <1>6, <2>1, <2>2, CutUnswapped
  <2>5. QED BY <2>3, <2>4
<1>10. QED BY <1>8, <1>9 DEF Lines, p

LEMMA ImportKeeps ==
    ASSUME IInv, NEW r \in Runs, NEW a \in 1..(r - 1), NEW b \in 1..(r - 1), NEW n \in Rounds,
           NEW bEnd \in Rounds, NEW s \in Seats, Import(r, a, b, n, bEnd, s)
    PROVE  IInv'
<1> DEFINE p == Cutoff(log[b], bEnd)
           owner == Occupant(b, s, p)
           m == [NoManifest EXCEPT !.kind = "import", !.imported = log[b], !.importEnd = bEnd]
<1>1. r \in Nat /\ b \in Nat /\ b < r /\ b \in Runs /\ bEnd \in Nat
  BY LineageAssumption DEF Runs, Rounds
<1>2. /\ Admitted(r, a, n, s) /\ Unmixed(b, s) /\ s \notin Swapped(SubSeq(log[b], 1, p))
      /\ Derive(r, a, n, s, m, owner)
  BY DEF Import
<1>3. /\ log[b] \in Seq(LineSet) /\ manifest[b] \in ManifestSet
      /\ first[b] \in [Seats -> Nat \X Nat]
  BY <1>1 DEF IInv, TypeOK
<1>4. GoodLog(b, log[b], manifest[b], first[b]) /\ GoodManifest(b, manifest[b], first[b])
  <2>1. log[b] # <<>>
    BY <1>2 DEF Admitted, New
  <2>2. QED BY <1>1, <2>1 DEF IInv, RunsExist
<1>5. owner = Sitting(log[b], manifest[b], first[b], s, p) /\ s \in Seats
  BY DEF Occupant
<1> HIDE DEF owner
<1>6. owner \in Nat \X Nat /\ owner[1] <= b
  <2>1. /\ Sitting(log[b], manifest[b], first[b], s, p) \in Nat \X Nat
        /\ Sitting(log[b], manifest[b], first[b], s, p)[1] <= b
    BY <1>1, <1>3, <1>4, <1>5, SittingIsOurs
  <2>2. QED BY <1>5, <2>1
<1>7. m \in ManifestSet /\ m.kind = "import" /\ m.imported = log[b] /\ m.importEnd = bEnd
  BY <1>1, <1>3, NoManifestTyped DEF NoManifest, ManifestSet
<1>8. \A e \in Lines(log[b]) : e.by[1] < r
  <2> SUFFICES ASSUME NEW i \in DOMAIN log[b] PROVE log[b][i].by[1] < r
    BY DEF Lines
  <2>1. i \in Nat /\ log[b][i] \in LineSet /\ manifest[b].target \in Nat
    <3>1. i \in 1..Len(log[b]) /\ Len(log[b]) \in Nat /\ log[b][i] \in LineSet
      BY <1>3, InALog
    <3>2. manifest[b].target \in Nat
      BY <1>3 DEF ManifestSet
    <3>3. QED BY <3>1, <3>2
  <2>2. log[b][i].by[1] \in Nat
    BY <2>1 DEF LineSet
  <2>3. /\ i <= manifest[b].target => log[b][i].by[1] < b
        /\ i > manifest[b].target => log[b][i].by[1] <= b
    BY <1>4 DEF GoodLog, NamedApart, OwnLine
  <2>4. QED BY <1>1, <2>1, <2>2, <2>3
<1>9. \A e \in Lines(log[b]) : e.seat = s /\ e.kind = "said" /\ e.round <= bEnd => e.by = owner
  <2>1. manifest[b].kind \in {"replace", "import"} => manifest[b].seat # s
    BY <1>2 DEF Unmixed
  <2>2. \A e \in Lines(log[b]) : e.seat = s /\ e.kind = "said" /\ e.round <= bEnd
            => e.by = Sitting(log[b], manifest[b], first[b], s, Cutoff(log[b], bEnd))
    <3>1. s \notin Swapped(SubSeq(log[b], 1, Cutoff(log[b], bEnd)))
      BY <1>2
    <3>2. /\ b \in Nat /\ bEnd \in Nat /\ s \in Seats /\ manifest[b] \in ManifestSet
          /\ first[b] \in [Seats -> Nat \X Nat]
      BY <1>1, <1>3, <1>5
    <3> HIDE DEF p, m
    <3>3. QED BY ONLY <1>4, <2>1, <3>1, <3>2, ImportedIsItsOwn
  <2>3. QED BY <1>5, <2>2
<1>10. s \in Seats \cup {Nobody} /\ s # Nobody
  BY LineageAssumption
<1> HIDE DEF m
<1>11. owner[1] <= r /\ owner[1] # r
  BY <1>1, <1>6
<1>12. QED BY <1>2, <1>6, <1>7, <1>8, <1>9, <1>10, <1>11, DeriveKeeps

-----------------------------------------------------------------------------
(* The theorems *)

LEMMA InitKeeps == Init => IInv
<1> SUFFICES ASSUME Init PROVE IInv
  OBVIOUS
<1>1. <<>> \in Seq(LineSet) /\ DOMAIN <<>> = {} /\ MaxRuns \in Nat
  BY LineageAssumption, EmptySeq
<1>2. \A r \in Runs : r \in Nat /\ r # 0
  BY LineageAssumption DEF Runs
<1>3. given \in [Runs -> [Seats -> [calls : SUBSET LineSet, joins : [Channels -> Nat]]]]
  <2>1. \A r \in Runs : Gift(r, mind, joins) \in
                           [Seats -> [calls : SUBSET LineSet, joins : [Channels -> Nat]]]
    BY DEF Init, Gift
  <2>2. QED BY <2>1 DEF Init
<1>4. TypeOK
  <2>1. log \in [Runs -> Seq(LineSet)] /\ manifest \in [Runs -> ManifestSet]
    BY <1>1, NoManifestTyped DEF Init
  <2>2. up \in 0..MaxRuns /\ round \in Nat /\ phase = "down" /\ calls \in Nat /\ launches \in Nat
    BY <1>1 DEF Init
  <2>3. /\ mind \in [Seats -> SUBSET LineSet] /\ joins \in [Seats -> [Channels -> Nat]]
        /\ midCycle \subseteq Seats /\ told \subseteq Seats
    BY DEF Init
  <2>4. first \in [Runs -> [Seats -> Nat \X Nat]]
    <3>1. \A r \in Runs : <<r, 0>> \in Nat \X Nat
      BY <1>2
    <3>2. QED BY <3>1 DEF Init
  <2>5. QED BY <1>3, <2>1, <2>2, <2>3, <2>4 DEF TypeOK
<1>5. RunsExist
  <2> SUFFICES ASSUME NEW r \in Runs
               PROVE  GoodManifest(r, NoManifest, first[r]) /\ up # r
    BY DEF Init, RunsExist
  <2>1. \A s \in Seats : first[r][s] = <<r, 0>>
    BY DEF Init
  <2>2. Lines(NoManifest.imported) = {}
    BY DEF Lines, NoManifest
  <2>3. up # r
    BY <1>2 DEF Init
  <2>4. QED BY <1>2, <2>1, <2>2, <2>3 DEF GoodManifest, NoManifest
<1>6. RelievedBySwaps /\ InTheRound /\ HistoriesBack
  BY <1>1 DEF Init, RelievedBySwaps, InTheRound, HistoriesBack, EachGetsItsHistoryBack
<1>7. QED BY <1>4, <1>5, <1>6 DEF IInv

LEMMA NextKeeps ==
    ASSUME IInv, [Next]_vars
    PROVE  IInv'
<1>1. ASSUME NEW r \in Runs, Start(r) \/ Launch(r) PROVE IInv'
  BY <1>1, StartKeeps, LaunchKeeps
<1>2. CASE Enter \/ Open \/ Close \/ Advance \/ Finish \/ End
  BY <1>2, EnterKeeps, OpenKeeps, CloseKeeps, AdvanceKeeps, FinishKeeps, EndKeeps
<1>3. ASSUME NEW sw \in Swaps, NEW n \in {round - 1, round}, Swap(sw, n) PROVE IInv'
  BY <1>3, SwapKeeps
<1>4. ASSUME NEW s \in Seats, Say(s) \/ Tell(s) PROVE IInv'
  BY <1>4, SayKeeps, TellKeeps
<1>5. ASSUME NEW s \in Seats, NEW c \in Channels \cup {NoChannel}, Call(s, c) PROVE IInv'
  BY <1>5, CallKeeps
<1>6. ASSUME NEW logged \in BOOLEAN, Stop(logged) PROVE IInv'
  BY <1>6, StopKeeps
<1>7. ASSUME NEW r \in Runs, NEW a \in 1..(r - 1), NEW n \in Rounds, ForkAtRound(r, a, n)
      PROVE  IInv'
  BY <1>7, ForkKeeps
<1>8. ASSUME NEW r \in Runs, NEW a \in 1..(r - 1), NEW n \in Rounds, NEW s \in Seats,
             NEW v \in Views, Replace(r, a, n, s, v)
      PROVE  IInv'
  BY <1>8, ReplaceKeeps
<1>9. ASSUME NEW r \in Runs, NEW a \in 1..(r - 1), NEW n \in Rounds, NEW s \in Seats,
             NEW b \in 1..(r - 1), NEW bEnd \in Rounds, Import(r, a, b, n, bEnd, s)
      PROVE  IInv'
  BY <1>9, ImportKeeps
<1>10. CASE UNCHANGED vars
  BY <1>10 DEF vars, process, IInv, TypeOK, RunsExist, RelievedBySwaps, SwappedHere, InTheRound,
               Derived, HistoriesBack, EachGetsItsHistoryBack, Own, Who, Occupant
<1>11. QED
  BY <1>1, <1>2, <1>3, <1>4, <1>5, <1>6, <1>7, <1>8, <1>9, <1>10 DEF Next

\* Every log, manifest and memory stays of its type, in runs that are cut, cloned and
\* resumed as often as the bounds allow.
THEOREM LineageIsTyped == Spec => []TypeOK
<1>1. IInv /\ [Next]_vars => IInv'
  BY NextKeeps
<1>2. IInv => TypeOK
  BY DEF IInv
<1>3. QED BY <1>1, <1>2, InitKeeps, PTL DEF Spec

\* An agent that comes back, from a crash, in a fork, beside a replacement or in another
\* run, has all that it did and was answered and no words of another agent of its seat,
\* as long as no run is resumed after a swap within it: the filters of
\* resume_state_loader.py undo the cut exactly, for any number of runs, seats and rounds.
THEOREM HistoriesComeBack ==
    ASSUME "resume_after_swap" \in Avoided
    PROVE  Spec => []EachGetsItsHistoryBack
<1>1. IInv /\ [Next]_vars => IInv'
  BY NextKeeps
<1>2. IInv => EachGetsItsHistoryBack
  BY DEF IInv, HistoriesBack
<1>3. QED BY <1>1, <1>2, InitKeeps, PTL DEF Spec

=============================================================================
