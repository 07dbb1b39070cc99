---------------------------- MODULE DeltaNewsProofs -----------------------------
(***************************************************************************)
(* For any stories, fingerprints and number of slots, with broken polls    *)
(* and crashes at any point: a story is run once and once more per pasted  *)
(* text, and the staleness gate lets no more stories of one fingerprint    *)
(* pass than can be in the gates together.                                 *)
(***************************************************************************)
EXTENDS DeltaNews, FiniteSetTheorems, TLAPS

\* Runs that hold a slot.
Busy == {r \in Runs : runs[r].pc \in InSlot}

RunsKnow == \A r \in Runs : runs[r].pc \in InSlot \cup {"waiting"} => runs[r].of \in Urls

\* Those that wait for a slot do so once each.
WaitersWait == /\ \A i \in DOMAIN waiters : runs[waiters[i]].pc = "waiting"
               /\ \A i, j \in DOMAIN waiters : waiters[i] = waiters[j] => i = j

SlotsHeld == Cardinality(Busy) <= slots

\* An archived story came in by its path and is not waiting to come in again; one
\* that is not archived was never run.
Arrivals ==
    /\ inbox \subseteq seen
    /\ \A u \in Urls : IF archive[u] = None THEN started[u] = 0 /\ pastes[u] = 0
                                            ELSE <<archive[u], u>> \in seen \ inbox

Signalled(x) == {signals[i].of : i \in {k \in DOMAIN signals : signals[k].print = x}}
InGate2(x) == {runs[r].of : r \in {q \in Runs : runs[q].pc = "gate2" /\ Fingerprint[runs[q].of] = x}}

\* Stories of a fingerprint that have passed or still may: those past the
\* staleness gate, and one that finds no signal but its own.
May(x) == Passes(x) \cup InGate2(x) \cup {u \in Urls : Signalled(x) = {u}}

AtMostSlots(S) == IsFiniteSet(S) /\ Cardinality(S) <= Slots

Admits == Len(signals) <= Recent => \A x \in Nat : AtMostSlots(May(x))

NewsInv == NewsTypeOK /\ RunsKnow /\ WaitersWait /\ SlotsHeld /\ Arrivals /\ OneRunPerStory /\ Admits

USE NewsAssumption DEF NewsAssumption
-----------------------------------------------------------------------------
\* A smaller set is within the slots too.
LEMMA Fewer == ASSUME NEW S, NEW T, T \subseteq S, AtMostSlots(S) PROVE AtMostSlots(T)
<1>1. T \in SUBSET S /\ IsFiniteSet(S)
  BY DEF AtMostSlots
<1>2. IsFiniteSet(T) /\ Cardinality(T) <= Cardinality(S)
  BY <1>1, FS_Subset
<1>3. Cardinality(S) \in Nat /\ Cardinality(T) \in Nat
  BY <1>1, <1>2, FS_CardinalityType
<1>4. QED
  BY <1>2, <1>3 DEF AtMostSlots

\* There are finitely many runs with a slot.
LEMMA BusyFinite == IsFiniteSet(Busy) /\ Cardinality(Busy) \in Nat
<1>1. IsFiniteSet(Runs)
  BY FS_Interval DEF Runs
<1>2. Busy \in SUBSET Runs
  BY DEF Busy
<1>3. IsFiniteSet(Busy)
  BY <1>1, <1>2, FS_Subset
<1>4. QED
  BY <1>3, FS_CardinalityType

\* The stories of the runs that hold a slot are no more than the slots.
LEMMA StoriesInSlots ==
    ASSUME NewsTypeOK, SlotsHeld
    PROVE  AtMostSlots({runs[r].of : r \in Busy})
<1> DEFINE f == [r \in Busy |-> runs[r].of]
           T == {runs[r].of : r \in Busy}
<1>1. IsFiniteSet(Busy) /\ Cardinality(Busy) \in Nat
  BY BusyFinite
<1>2. f \in Surjection(Busy, T)
  BY DEF Surjection
<1>3. IsFiniteSet(T) /\ Cardinality(T) <= Cardinality(Busy)
  <2> HIDE DEF f, T
  <2> QED BY <1>1, <1>2, FS_Surjection
<1>4. Cardinality(T) \in Nat
  BY <1>3, FS_CardinalityType
<1>5. QED
  BY <1>1, <1>3, <1>4 DEF AtMostSlots, SlotsHeld, NewsTypeOK

\* With no more signals than it looks at, the gate looks at all of them.
LEMMA LooksAtAll ==
    ASSUME NewsTypeOK, Len(signals) <= Recent
    PROVE  Looked = DOMAIN signals
<1> DEFINE later(i) == {j \in DOMAIN signals : After(j, i)}
<1>1. Len(signals) \in Nat /\ DOMAIN signals = 1..Len(signals)
  BY DEF NewsTypeOK
<1>2. ASSUME NEW i \in DOMAIN signals PROVE Cardinality(later(i)) < Recent
  <2> DEFINE n == Len(signals)
             others == (1..n) \ {i}
  <2> HIDE DEF n
  <2>1. IsFiniteSet(1..n) /\ Cardinality(1..n) = n
    <3>1. n \in Nat
      BY <1>1 DEF n
    <3>2. 1 \in Int /\ n \in Int
      BY <3>1
    <3>3. IsFiniteSet(1..n) /\ Cardinality(1..n) = IF 1 > n THEN 0 ELSE n - 1 + 1
      BY <3>2, FS_Interval, Zenon
    <3>4. QED BY <3>1, <3>3
  <2>n. n = Len(signals)
    BY DEF n
  <2>2. IsFiniteSet(others) /\ Cardinality(others) = n - 1
    BY <2>1, <2>n, <1>1, <1>2, FS_RemoveElement
  <2>3. ~After(i, i)
    <3>1. signals \in Seq(Signal)
      BY DEF NewsTypeOK
    <3>2. signals[i] \in Signal
      BY <3>1
    <3>3. signals[i].print \in Nat /\ i \in Nat
      BY <3>2, <1>1 DEF Signal
    <3>4. QED BY <3>3 DEF After
  <2>4. later(i) \in SUBSET others
    BY <2>3, <2>n, <1>1
  <2>5. Cardinality(later(i)) <= Cardinality(others) /\ IsFiniteSet(later(i))
    BY <2>2, <2>4, FS_Subset
  <2>6. Cardinality(later(i)) \in Nat
    BY <2>5, FS_CardinalityType
  <2>7. QED
    BY <2>2, <2>5, <2>6, <2>n, <1>1
<1>3. QED
  BY <1>2 DEF Looked
-----------------------------------------------------------------------------
\* The service starts with nothing seen, archived or run.
LEMMA NewsInit == Init => NewsInv
<1> SUFFICES ASSUME Init PROVE NewsInv
  OBVIOUS
<1>1. NewsTypeOK
  <2>1. signals \in Seq(Signal) /\ waiters \in Seq(Runs)
    BY DEF Init
  <2>2. runs \in [Runs -> RunState]
    BY DEF Init, NoRun, RunState
  <2>3. archive \in [Urls -> Paths \cup {None}]
    BY DEF Init
  <2>4. slots \in 0..Slots /\ turns \in 0..MaxTurns
    BY DEF Init
  <2>5. started \in [Urls -> Nat] /\ pastes \in [Urls -> Nat]
    BY DEF Init
  <2>6. seen \subseteq Paths \X Urls /\ inbox \subseteq Paths \X Urls
    BY DEF Init
  <2>7. published \subseteq Urls /\ feed \subseteq Urls /\ changed \in BOOLEAN /\ up \in BOOLEAN
    BY DEF Init
  <2>8. QED
    BY <2>1, <2>2, <2>3, <2>4, <2>5, <2>6, <2>7 DEF NewsTypeOK
<1>2. RunsKnow /\ WaitersWait /\ Busy = {}
  BY DEF Init, RunsKnow, WaitersWait, Busy, NoRun, InSlot
<1>3. SlotsHeld
  BY <1>2, FS_EmptySet DEF SlotsHeld, Init
<1>4. Arrivals /\ OneRunPerStory
  BY DEF Init, Arrivals, OneRunPerStory, None
<1>5. ASSUME NEW x \in Nat PROVE May(x) = {}
  BY DEF May, Passes, InGate2, Signalled, Init, NoRun
<1>6. Admits
  BY <1>5, FS_EmptySet DEF Admits, AtMostSlots
<1>7. QED
  BY <1>1, <1>2, <1>3, <1>4, <1>6 DEF NewsInv
-----------------------------------------------------------------------------
(* Runs and slots.                                                           *)

RunsOK == /\ runs \in [Runs -> RunState] /\ slots \in 0..Slots /\ waiters \in Seq(Runs)
          /\ RunsKnow /\ WaitersWait /\ SlotsHeld

\* A run that holds a slot is counted.
LEMMA SlotTaken == ASSUME SlotsHeld, NEW r \in Busy, slots \in Nat PROVE slots >= 1
<1>1. Cardinality(Busy) # 0
  BY BusyFinite, FS_EmptySet
<1>2. QED
  BY <1>1, BusyFinite DEF SlotsHeld

\* A run that begins has its slot or its place among the waiters
\* (withAnalysisSlot).
LEMMA BeginRuns == ASSUME RunsOK, NEW r \in Runs, NEW u \in Urls, Begin(r, u) PROVE RunsOK'
<1>1. CASE slots < Slots
  <2>1. runs' = [runs EXCEPT ![r] = [of |-> u, pc |-> "gate1"]] /\ slots' = slots + 1 /\ waiters' = waiters
    BY <1>1 DEF Begin
  <2>2. runs' \in [Runs -> RunState] /\ slots' \in 0..Slots /\ waiters' \in Seq(Runs) /\ RunsKnow'
    BY <1>1, <2>1 DEF RunsOK, RunState, RunsKnow, InSlot
  <2>3. Busy' \in SUBSET (Busy \cup {r})
    BY <2>1 DEF Busy, RunsOK
  <2>4. IsFiniteSet(Busy \cup {r}) /\ Cardinality(Busy \cup {r}) <= Cardinality(Busy) + 1
    BY BusyFinite, FS_AddElement, SMTT(30)
  <2>5. Cardinality(Busy') <= Cardinality(Busy \cup {r}) /\ IsFiniteSet(Busy')
    BY <2>3, <2>4, FS_Subset
  <2>6. Cardinality(Busy') \in Nat /\ Cardinality(Busy \cup {r}) \in Nat
    BY <2>4, <2>5, FS_CardinalityType
  <2>7. SlotsHeld'
    BY <2>1, <2>4, <2>5, <2>6, BusyFinite DEF SlotsHeld, RunsOK
  <2>8. WaitersWait'
    <3>1. \A i \in DOMAIN waiters : waiters[i] \in Runs /\ waiters[i] # r
      BY DEF Begin, RunsOK, WaitersWait
    <3>2. QED BY <2>1, <3>1 DEF WaitersWait, RunsOK
  <2>9. QED
    BY <2>2, <2>7, <2>8 DEF RunsOK
<1>2. CASE ~(slots < Slots)
  <2>1. runs' = [runs EXCEPT ![r] = [of |-> u, pc |-> "waiting"]] /\ slots' = slots /\ waiters' = Append(waiters, r)
    BY <1>2 DEF Begin
  <2>2. runs' \in [Runs -> RunState] /\ slots' \in 0..Slots /\ waiters' \in Seq(Runs) /\ RunsKnow'
    BY <2>1 DEF RunsOK, RunState, RunsKnow, InSlot
  <2>3. Busy' = Busy
    BY <2>1 DEF Busy, RunsOK, InSlot, Begin
  <2>4. SlotsHeld'
    BY <2>1, <2>3 DEF SlotsHeld, RunsOK
  <2>5. WaitersWait'
    <3>1. \A i \in DOMAIN waiters : waiters[i] \in Runs /\ waiters[i] # r
      BY DEF Begin, RunsOK, WaitersWait
    <3>2. DOMAIN waiters = 1..Len(waiters) /\ Len(waiters) \in Nat
      BY DEF RunsOK
    <3>3. DOMAIN waiters' = 1..(Len(waiters) + 1) /\ waiters'[Len(waiters) + 1] = r
          /\ \A i \in DOMAIN waiters : waiters'[i] = waiters[i]
      BY <2>1 DEF RunsOK
    <3>4. runs'[r].pc = "waiting" /\ \A q \in Runs : q # r => runs'[q] = runs[q]
      BY <2>1 DEF RunsOK
    <3>8. \A i \in DOMAIN waiters' : i \in DOMAIN waiters \/ i = Len(waiters) + 1
      BY <3>2, <3>3
    <3>5. ASSUME NEW i \in DOMAIN waiters' PROVE runs'[waiters'[i]].pc = "waiting"
      <4>1. CASE i \in DOMAIN waiters
        BY <4>1, <3>1, <3>3, <3>4 DEF WaitersWait, RunsOK
      <4>2. CASE i = Len(waiters) + 1
        BY <4>2, <3>3, <3>4
      <4>3. QED BY <3>8, <4>1, <4>2
    <3>6. ASSUME NEW i \in DOMAIN waiters', NEW j \in DOMAIN waiters', waiters'[i] = waiters'[j]
          PROVE  i = j
      <4>1. CASE i \in DOMAIN waiters /\ j \in DOMAIN waiters
        BY <4>1, <3>3, <3>6 DEF WaitersWait, RunsOK
      <4>2. CASE i = Len(waiters) + 1 \/ j = Len(waiters) + 1
        BY <4>2, <3>1, <3>3, <3>6, <3>8
      <4>3. QED BY <3>8, <4>1, <4>2
    <3>7. QED BY <3>5, <3>6 DEF WaitersWait
  <2>6. QED
    BY <2>2, <2>4, <2>5 DEF RunsOK
<1>3. QED
  BY <1>1, <1>2

\* A run that ends gives its slot back or to the first waiter.
LEMMA FinishRuns == ASSUME RunsOK, NEW r \in Busy, Finish(r) PROVE RunsOK'
<1>1. slots \in Nat /\ slots >= 1 /\ r \in Runs
  BY SlotTaken DEF RunsOK, Busy
<1>2. IsFiniteSet(Busy \ {r}) /\ Cardinality(Busy \ {r}) = Cardinality(Busy) - 1
  BY BusyFinite, FS_RemoveElement
<1>3. CASE waiters = <<>>
  <2>1. runs' = [runs EXCEPT ![r] = Ended] /\ slots' = slots - 1 /\ waiters' = waiters
    BY <1>3 DEF Finish
  <2>2. runs' \in [Runs -> RunState] /\ slots' \in 0..Slots /\ waiters' \in Seq(Runs) /\ RunsKnow'
    BY <1>1, <2>1 DEF RunsOK, RunState, RunsKnow, InSlot, Ended
  <2>3. Busy' \in SUBSET (Busy \ {r})
    BY <2>1, <1>1 DEF Busy, RunsOK, Ended, InSlot
  <2>4. Cardinality(Busy') <= Cardinality(Busy \ {r}) /\ IsFiniteSet(Busy')
    BY <2>3, <1>2, FS_Subset
  <2>5. Cardinality(Busy') \in Nat
    BY <2>4, FS_CardinalityType
  <2>6. SlotsHeld'
    BY <1>1, <1>2, <2>1, <2>4, <2>5, BusyFinite DEF SlotsHeld, RunsOK
  <2>7. WaitersWait'
    BY <1>3, <2>1 DEF WaitersWait
  <2>8. QED
    BY <2>2, <2>6, <2>7 DEF RunsOK
<1>4. CASE waiters # <<>>
  <2> DEFINE h == Head(waiters)
  <2>1. /\ runs' = [runs EXCEPT ![r] = Ended, ![h].pc = "gate1"]
        /\ slots' = slots /\ waiters' = Tail(waiters)
    BY <1>4 DEF Finish
  <2>2. h \in Runs /\ waiters' \in Seq(Runs)
    BY <1>4, <2>1 DEF RunsOK
  <2>11. waiters \in Seq(Runs) /\ h = waiters[1] /\ 1 \in DOMAIN waiters
    BY <1>4 DEF RunsOK
  <2>12. runs[h].pc = "waiting" /\ runs[h].of \in Urls
    BY <2>2, <2>11 DEF RunsOK, WaitersWait, RunsKnow
  <2> HIDE DEF h
  <2>13. \A i \in DOMAIN waiters' : i \in Nat /\ i + 1 # 1 /\ i + 1 \in DOMAIN waiters /\ waiters'[i] = waiters[i + 1]
    BY <1>4, <2>1, <2>11
  <2>14. ASSUME NEW i \in DOMAIN waiters' PROVE waiters'[i] \in Runs /\ waiters'[i] # h /\ waiters'[i] # r
    <3>2. waiters[i + 1] # h
      BY <2>11, <2>13 DEF WaitersWait, RunsOK
    <3>3. runs[waiters[i + 1]].pc = "waiting" /\ waiters[i + 1] \in Runs
      BY <2>11, <2>13 DEF WaitersWait, RunsOK
    <3>4. runs[r].pc # "waiting"
      BY DEF Busy, InSlot
    <3>5. QED BY <2>13, <3>2, <3>3, <3>4
  <2>3. runs' \in [Runs -> RunState]
    BY <1>1, <2>1, <2>2 DEF RunsOK, RunState, InSlot, Ended
  <2>4. Busy' \in SUBSET ((Busy \ {r}) \cup {h})
    BY <2>1, <2>2, <1>1 DEF Busy, RunsOK, Ended, InSlot
  <2>5. IsFiniteSet((Busy \ {r}) \cup {h}) /\ Cardinality((Busy \ {r}) \cup {h}) <= Cardinality(Busy)
    <3>1. /\ IsFiniteSet((Busy \ {r}) \cup {h})
          /\ \/ Cardinality((Busy \ {r}) \cup {h}) = Cardinality(Busy \ {r})
             \/ Cardinality((Busy \ {r}) \cup {h}) = Cardinality(Busy \ {r}) + 1
      BY <1>2, FS_AddElement, Zenon
    <3>2. QED BY <3>1, <1>2, BusyFinite
  <2>6. Cardinality(Busy') <= Cardinality((Busy \ {r}) \cup {h}) /\ IsFiniteSet(Busy')
    BY <2>4, <2>5, FS_Subset
  <2>7. Cardinality(Busy') \in Nat /\ Cardinality((Busy \ {r}) \cup {h}) \in Nat
    BY <2>5, <2>6, FS_CardinalityType
  <2>8. SlotsHeld'
    BY <1>2, <2>1, <2>5, <2>6, <2>7, BusyFinite DEF SlotsHeld, RunsOK
  <2>9. RunsKnow'
    BY <2>1, <2>2, <2>12, <1>1 DEF RunsKnow, RunsOK, Ended, InSlot
  <2>10. WaitersWait'
    <3>1. \A q \in Runs : q # h /\ q # r => runs'[q] = runs[q]
      BY <2>1 DEF RunsOK
    <3>2. ASSUME NEW i \in DOMAIN waiters' PROVE runs'[waiters'[i]].pc = "waiting"
      BY <2>13, <2>14, <3>1 DEF WaitersWait, RunsOK
    <3>3. ASSUME NEW i \in DOMAIN waiters', NEW j \in DOMAIN waiters', waiters'[i] = waiters'[j]
          PROVE  i = j
      <4>1. i + 1 = j + 1
        BY <2>13, <3>3 DEF WaitersWait, RunsOK
      <4>2. QED BY <2>13, <4>1
    <3>4. QED BY <3>2, <3>3 DEF WaitersWait
  <2>15. QED
    BY <2>1, <2>2, <2>3, <2>8, <2>9, <2>10 DEF RunsOK
<1>5. QED
  BY <1>3, <1>4

\* A run that goes on keeps its slot.
LEMMA GoRuns == ASSUME RunsOK, NEW r \in Busy, NEW stage \in InSlot, Go(r, stage) PROVE RunsOK'
<1>1. r \in Runs /\ runs' = [runs EXCEPT ![r].pc = stage] /\ slots' = slots /\ waiters' = waiters
  BY DEF Go, Busy
<1>2. runs' \in [Runs -> RunState]
  BY <1>1 DEF RunsOK, RunState, InSlot
<1>3. Busy' = Busy
  BY <1>1 DEF Busy, RunsOK
<1>4. RunsKnow'
  BY <1>1 DEF RunsKnow, RunsOK, Busy
<1>5. WaitersWait'
  BY <1>1 DEF WaitersWait, RunsOK, Busy, InSlot
<1>6. QED
  BY <1>1, <1>2, <1>3, <1>4, <1>5 DEF RunsOK, SlotsHeld

\* Every step of the service keeps its runs, slots and waiters in order.
LEMMA RunsStep == ASSUME RunsOK, inbox \subseteq Paths \X Urls, [Next]_vars PROVE RunsOK'
<1>1. ASSUME NEW r \in Runs, NEW e \in inbox, Accept(r, e) PROVE RunsOK'
  <2>1. CASE UNCHANGED <<archive, runs, slots, waiters, started>>
    BY <2>1 DEF RunsOK, RunsKnow, WaitersWait, SlotsHeld, Busy
  <2>2. CASE Begin(r, e[2])
    BY <2>2, BeginRuns
  <2>3. QED
    BY <1>1, <2>1, <2>2 DEF Accept
<1>2. ASSUME NEW r \in Runs, NEW u \in Urls, Paste(r, u) PROVE RunsOK'
  BY <1>2, BeginRuns DEF Paste
<1>3. ASSUME NEW r \in Runs, Gate1(r) \/ Gate2(r) \/ Analysed(r) \/ Fails(r) PROVE RunsOK'
  <2>1. r \in Busy
    BY <1>3 DEF Gate1, Gate2, Analysed, Fails, At, Busy, InSlot
  <2>2. Finish(r) \/ \E stage \in InSlot : Go(r, stage)
    BY <1>3 DEF Gate1, Gate2, Analysed, Fails, InSlot
  <2>3. QED
    BY <2>1, <2>2, FinishRuns, GoRuns
<1>4. CASE Crash
  <2>1. runs' \in [Runs -> RunState] /\ RunsKnow' /\ Busy' = {}
    BY <1>4 DEF Crash, RunsKnow, Busy, InSlot, RunState, Ended, NoRun, RunsOK
  <2>2. WaitersWait' /\ slots' = 0 /\ waiters' \in Seq(Runs)
    BY <1>4 DEF Crash, WaitersWait
  <2>3. QED
    BY <2>1, <2>2, FS_EmptySet DEF RunsOK, SlotsHeld
<1>5. CASE UNCHANGED <<runs, slots, waiters>>
  BY <1>5 DEF RunsOK, RunsKnow, WaitersWait, SlotsHeld, Busy
<1>6. (\E u \in Urls : Publish(u)) \/ Poll \/ PollBreaks \/ Start \/ UNCHANGED vars
        => UNCHANGED <<runs, slots, waiters>>
  BY DEF Publish, Poll, PollBreaks, Start, vars, memory
<1>7. QED
  BY <1>1, <1>2, <1>3, <1>4, <1>5, <1>6 DEF Next
-----------------------------------------------------------------------------
(* Types, and the identity of stories.                                       *)

\* Every step keeps the files and the items under way in their types.
LEMMA TypeStep == ASSUME NewsTypeOK, RunsOK, RunsOK', [Next]_vars PROVE NewsTypeOK'
<1> USE DEF NewsTypeOK, RunsOK
<1>1. ASSUME NEW r \in Runs, NEW e \in inbox, Accept(r, e) PROVE NewsTypeOK'
  <2>1. e[1] \in Paths /\ e[2] \in Urls
    OBVIOUS
  <2>2. archive' \in [Urls -> Paths \cup {None}]
    <3>1. archive' = archive \/ archive' = [archive EXCEPT ![e[2]] = e[1]]
      BY <1>1 DEF Accept
    <3>2. QED BY <3>1, <2>1
  <2>3. started' \in [Urls -> Nat]
    <3>1. started' = started \/ started' = [started EXCEPT ![e[2]] = @ + 1]
      BY <1>1 DEF Accept, Begin
    <3>2. started[e[2]] + 1 \in Nat
      BY <2>1
    <3>3. QED BY <3>1, <3>2
  <2>4. inbox' \subseteq Paths \X Urls /\ UNCHANGED <<seen, signals, up, published, feed, changed, pastes, turns>>
    BY <1>1 DEF Accept, outside
  <2>5. QED
    BY <2>2, <2>3, <2>4
<1>2. ASSUME NEW r \in Runs, NEW u \in Urls, Paste(r, u) PROVE NewsTypeOK'
  BY <1>2, SMTT(30) DEF Paste, Begin, files, outside
<1>3. ASSUME NEW r \in Runs, Gate1(r) \/ Gate2(r) \/ Analysed(r) \/ Fails(r) PROVE NewsTypeOK'
  <2>1. runs[r].of \in Urls
    BY <1>3 DEF Gate1, Gate2, Analysed, Fails, At, InSlot, RunsKnow
  <2>2. signals' \in Seq(Signal)
    <3>1. ASSUME NEW p \in BOOLEAN, Write(r, p) PROVE signals' \in Seq(Signal)
      <4>1. [of |-> runs[r].of, print |-> Fingerprint[runs[r].of], passed |-> p] \in Signal
        BY <2>1 DEF Signal
      <4>2. QED BY <3>1, <4>1 DEF Write
    <3>2. QED BY <1>3, <3>1 DEF Gate1, Gate2, Analysed, Fails
  <2>3. QED
    BY <1>3, <2>2 DEF Gate1, Gate2, Analysed, Fails, Stage, outside
<1>4. CASE Crash
  <2>1. inbox' = {} /\ up' = FALSE /\ turns' \in 0..MaxTurns
    BY <1>4 DEF Crash, Turn
  <2>2. UNCHANGED <<seen, archive, signals, published, feed, changed, started, pastes>>
    BY <1>4 DEF Crash, files, outside
  <2>3. QED
    BY <2>1, <2>2
<1>5. CASE \E u \in Urls : Publish(u)
  BY <1>5 DEF Publish, files, memory
<1>6. CASE Poll
  <2>1. Ids("feed", feed) \subseteq Paths \X Urls
    BY DEF Ids, Paths
  <2>2. seen' \subseteq Paths \X Urls /\ inbox' \subseteq Paths \X Urls /\ changed' \in BOOLEAN
    BY <1>6, <2>1 DEF Poll
  <2>3. UNCHANGED <<archive, signals, up, published, feed, started, pastes, turns>>
    BY <1>6 DEF Poll
  <2>4. QED
    BY <2>2, <2>3
<1>7. CASE PollBreaks
  <2>1. changed' = FALSE /\ turns' \in 0..MaxTurns
    BY <1>7 DEF PollBreaks, Turn
  <2>2. UNCHANGED <<seen, archive, signals, up, inbox, published, feed, started, pastes>>
    BY <1>7 DEF PollBreaks, files, memory
  <2>3. QED
    BY <2>1, <2>2
<1>8. CASE Start
  <2>1. Ids("sitemap", published) \subseteq Paths \X Urls
    BY DEF Ids, Paths
  <2>2. seen' \subseteq Paths \X Urls /\ inbox' \subseteq Paths \X Urls /\ up' \in BOOLEAN
    BY <1>8, <2>1 DEF Start
  <2>3. UNCHANGED <<archive, signals, published, feed, changed, started, pastes, turns>>
    BY <1>8 DEF Start, outside
  <2>4. QED
    BY <2>2, <2>3
<1>9. CASE UNCHANGED vars
  BY <1>9 DEF vars, files, memory, outside
<1>10. QED
  BY <1>1, <1>2, <1>3, <1>4, <1>5, <1>6, <1>7, <1>8, <1>9 DEF Next

\* Polls and the filling of gaps hand on what was not seen only, an arrival of a
\* story that is archived under the other path is dropped, and a paste is counted.
LEMMA ArrivalsStep ==
    ASSUME NewsTypeOK, Arrivals, OneRunPerStory, [Next]_vars
    PROVE  Arrivals' /\ OneRunPerStory'
<1> USE DEF Arrivals, OneRunPerStory
<1>1. /\ started \in [Urls -> Nat] /\ pastes \in [Urls -> Nat] /\ archive \in [Urls -> Paths \cup {None}]
      /\ inbox \subseteq Paths \X Urls /\ None \notin Paths
  BY DEF NewsTypeOK, Paths, None
<1>2. ASSUME NEW r \in Runs, NEW e \in inbox, Accept(r, e) PROVE Arrivals' /\ OneRunPerStory'
  <2> DEFINE p == e[1]
             u == e[2]
  <2>1. e = <<p, u>> /\ p \in Paths /\ u \in Urls
    BY <1>1
  <2>2. inbox' = inbox \ {e} /\ UNCHANGED <<seen, pastes>>
    BY <1>2 DEF Accept
  <2>3. CASE Alias(e)
    BY <1>2, <2>2, <2>3 DEF Accept
  <2>4. CASE ~Alias(e)
    <3>1. archive' = [archive EXCEPT ![u] = p] /\ started' = [started EXCEPT ![u] = @ + 1]
      BY <1>2, <2>4 DEF Accept, Begin
    <3>2. archive[u] = None
      BY <1>1, <2>1, <2>4 DEF Alias
    <3>3. ASSUME NEW v \in Urls, v # u PROVE archive'[v] = archive[v] /\ started'[v] = started[v]
      BY <1>1, <2>1, <3>1, <3>3
    <3>8. started[u] = 0 /\ pastes[u] = 0
      BY <2>1, <3>2
    <3>9. archive'[u] = p
      BY <1>1, <2>1, <3>1
    <3>10. started'[u] = started[u] + 1
      BY <1>1, <2>1, <3>1
    <3>4. archive'[u] = p /\ started'[u] = 1 /\ pastes[u] = 0
      BY <3>8, <3>9, <3>10
    <3>5. Arrivals'
      BY <1>1, <2>1, <2>2, <3>3, <3>4
    <3>6. OneRunPerStory'
      BY <1>1, <2>2, <3>3, <3>4
    <3>7. QED BY <3>5, <3>6
  <2>5. QED
    BY <2>3, <2>4
<1>3. ASSUME NEW r \in Runs, NEW u \in Urls, Paste(r, u) PROVE Arrivals' /\ OneRunPerStory'
  <2>1. /\ archive[u] # None /\ UNCHANGED <<archive, inbox, seen>>
        /\ started' = [started EXCEPT ![u] = @ + 1] /\ pastes' = [pastes EXCEPT ![u] = @ + 1]
    BY <1>3 DEF Paste, Begin, files
  <2>2. ASSUME NEW v \in Urls, v # u PROVE started'[v] = started[v] /\ pastes'[v] = pastes[v]
    BY <1>1, <2>1, <2>2
  <2>3. started'[u] = started[u] + 1 /\ pastes'[u] = pastes[u] + 1
    BY <1>1, <2>1
  <2>4. QED
    BY <1>1, <2>1, <2>2, <2>3
<1>4. CASE Poll
  <2>1. /\ inbox' = inbox \cup (Ids("feed", feed) \ seen) /\ seen' = seen \cup Ids("feed", feed)
        /\ UNCHANGED <<archive, started, pastes>>
    BY <1>4 DEF Poll
  <2>2. QED
    BY <2>1
<1>5. CASE Start
  <2>1. PICK gap : /\ gap \cap seen = {} /\ inbox' = gap /\ seen' = seen \cup gap
                   /\ UNCHANGED <<archive, started, pastes>>
    BY <1>5 DEF Start
  <2>2. QED
    BY <2>1
<1>6. CASE Crash
  BY <1>6 DEF Crash, files
<1>7. CASE UNCHANGED <<inbox, seen, archive, started, pastes>>
  BY <1>7
<1>8. (\E u \in Urls : Publish(u)) \/ PollBreaks \/ UNCHANGED vars
        \/ (\E r \in Runs : Gate1(r) \/ Gate2(r) \/ Analysed(r) \/ Fails(r))
        => UNCHANGED <<inbox, seen, archive, started, pastes>>
  BY DEF Publish, PollBreaks, Gate1, Gate2, Analysed, Fails, Stage, vars, files, memory
<1>9. QED
  BY <1>2, <1>3, <1>4, <1>5, <1>6, <1>7, <1>8 DEF Next
-----------------------------------------------------------------------------
(* The staleness gate.                                                       *)

NoNewInGate2 == \A q \in Runs : runs'[q].pc = "gate2" => runs'[q] = runs[q]

\* Without new signals and new runs past the gate, nobody else may pass.
LEMMA MayShrinks == ASSUME NoNewInGate2, signals' = signals, Admits PROVE Admits'
<1> SUFFICES ASSUME Len(signals) <= Recent, NEW x \in Nat PROVE AtMostSlots(May(x)')
  BY DEF Admits
<1>1. InGate2(x)' \subseteq InGate2(x)
  BY DEF InGate2, NoNewInGate2
<1>2. Passes(x)' = Passes(x) /\ Signalled(x)' = Signalled(x)
  BY DEF Passes, Signalled
<1>4. May(x)' \subseteq May(x)
  BY <1>1, <1>2 DEF May
<1>3. AtMostSlots(May(x))
  BY DEF Admits
<1>5. QED
  BY <1>3, <1>4, Fewer

\* What a new signal adds to those that have one and to those that passed.
LEMMA Appended ==
    ASSUME NewsTypeOK, NEW s \in Signal, signals' = Append(signals, s), NEW x \in Nat
    PROVE  /\ Signalled(x)' = Signalled(x) \cup (IF s.print = x THEN {s.of} ELSE {})
           /\ Passes(x)' = Passes(x) \cup (IF s.print = x /\ s.passed THEN {s.of} ELSE {})
<1> DEFINE n == Len(signals)
<1>1. signals \in Seq(Signal) /\ n \in Nat /\ DOMAIN signals = 1..n
  BY DEF NewsTypeOK
<1>2. DOMAIN signals' = 1..(n + 1) /\ signals'[n + 1] = s /\ \A i \in 1..n : signals'[i] = signals[i]
  BY <1>1
<1> HIDE DEF n
<1>3. DOMAIN signals' = DOMAIN signals \cup {n + 1} /\ n + 1 \notin DOMAIN signals
  BY <1>1, <1>2
<1>4. Signalled(x)' = Signalled(x) \cup (IF s.print = x THEN {s.of} ELSE {})
  BY <1>1, <1>2, <1>3 DEF Signalled
<1>5. Passes(x)' = Passes(x) \cup (IF s.print = x /\ s.passed THEN {s.of} ELSE {})
  BY <1>1, <1>2, <1>3 DEF Passes
<1>6. QED
  BY <1>4, <1>5

\* A run that holds a slot is about a story, and its stories fit in the slots.
LEMMA BusyStories ==
    ASSUME RunsOK, NewsTypeOK, NEW S, S \subseteq {runs[q].of : q \in Busy} PROVE AtMostSlots(S)
<1>1. AtMostSlots({runs[q].of : q \in Busy})
  BY StoriesInSlots DEF RunsOK
<1>2. QED
  BY <1>1, Fewer

\* The gate lets a story through that finds no signal but its own: it could pass
\* already, or nothing of its fingerprint was written and only runs with a slot may.
LEMMA EntersGate2 ==
    ASSUME RunsOK, NewsTypeOK, Admits, NEW r \in Busy,
           ~Stale(runs[r].of), Go(r, "gate2"), signals' = signals
    PROVE  Admits'
<1> DEFINE u == runs[r].of
<1> SUFFICES ASSUME Len(signals) <= Recent, NEW x \in Nat PROVE AtMostSlots(May(x)')
  BY DEF Admits
<1>1. r \in Runs /\ u \in Urls /\ runs \in [Runs -> RunState]
  BY DEF Busy, RunsOK, RunsKnow
<1>2. runs' = [runs EXCEPT ![r].pc = "gate2"]
  BY DEF Go
<1>3. \A q \in Runs : runs'[q].of = runs[q].of /\ (q # r => runs'[q] = runs[q])
  BY <1>1, <1>2 DEF RunState
<1>4. Passes(x)' = Passes(x) /\ Signalled(x)' = Signalled(x)
  BY DEF Passes, Signalled
<1>5. AtMostSlots(May(x))
  BY DEF Admits
<1>6. Signalled(Fingerprint[u]) \subseteq {u}
  <2>1. Looked = DOMAIN signals
    BY LooksAtAll
  <2>2. QED BY <2>1 DEF Stale, Signalled
<1> HIDE DEF u
<1>7. InGate2(x)' \subseteq InGate2(x) \cup (IF x = Fingerprint[u] THEN {u} ELSE {})
  <2>1. ASSUME NEW q \in Runs, runs'[q].pc = "gate2", Fingerprint[runs'[q].of] = x
        PROVE  runs'[q].of \in InGate2(x) \cup (IF x = Fingerprint[u] THEN {u} ELSE {})
    <3>1. CASE q = r
      BY <1>3, <2>1, <3>1 DEF u
    <3>2. CASE q # r
      BY <1>3, <2>1, <3>2 DEF InGate2
    <3>3. QED BY <3>1, <3>2
  <2>2. QED BY <2>1 DEF InGate2
<1>8. CASE x # Fingerprint[u] \/ Signalled(x) = {u}
  <2>1. May(x)' \subseteq May(x)
    BY <1>1, <1>4, <1>7, <1>8 DEF May
  <2>2. QED BY <1>5, <2>1, Fewer
<1>9. CASE x = Fingerprint[u] /\ Signalled(x) # {u}
  <2>1. Signalled(x) = {} /\ Passes(x) = {}
    <3>1. Signalled(x) = {}
      BY <1>6, <1>9
    <3>2. QED BY <3>1 DEF Signalled, Passes
  <2>2. May(x)' \subseteq InGate2(x) \cup {u}
    BY <1>4, <1>7, <2>1 DEF May
  <2>3. InGate2(x) \subseteq {runs[q].of : q \in Busy}
    BY DEF InGate2, Busy, InSlot
  <2>4. u \in {runs[q].of : q \in Busy}
    BY DEF u
  <2>5. QED BY <2>2, <2>3, <2>4, BusyStories
<1>10. QED
  BY <1>8, <1>9

\* A story that writes a signal could pass if it does; the others of its fingerprint
\* may no more, unless they are past the gate.
LEMMA WritesSignal ==
    ASSUME RunsOK, NewsTypeOK, Admits, NoNewInGate2, NEW r \in Busy, NEW passed \in BOOLEAN,
           passed => runs[r].pc = "gate2", Write(r, passed)
    PROVE  Admits'
<1> DEFINE u == runs[r].of
           s == [of |-> u, print |-> Fingerprint[u], passed |-> passed]
<1>1. r \in Runs /\ u \in Urls /\ Fingerprint[u] \in Nat
  BY DEF Busy, RunsOK, RunsKnow
<1>2. s \in Signal /\ signals' = Append(signals, s)
  BY <1>1 DEF Signal, Write
<1>3. s.of = u /\ s.print = Fingerprint[u] /\ s.passed = passed
  OBVIOUS
<1>4. passed => u \in InGate2(Fingerprint[u])
  BY <1>1 DEF InGate2
<1>5. u \in {runs[q].of : q \in Busy}
  OBVIOUS
<1> HIDE DEF u, s
<1>6. Len(signals') <= Recent => Len(signals) <= Recent
  BY <1>2 DEF NewsTypeOK
<1> SUFFICES ASSUME Len(signals) <= Recent, NEW x \in Nat PROVE AtMostSlots(May(x)')
  BY <1>6 DEF Admits
<1>7. AtMostSlots(May(x))
  BY DEF Admits
<1>8. InGate2(x)' \subseteq InGate2(x)
  BY DEF InGate2, NoNewInGate2
<1>9. /\ Signalled(x)' = Signalled(x) \cup (IF Fingerprint[u] = x THEN {u} ELSE {})
      /\ Passes(x)' = Passes(x) \cup (IF Fingerprint[u] = x /\ passed THEN {u} ELSE {})
  BY <1>2, <1>3, Appended
<1>10. CASE Fingerprint[u] # x
  <2>1. May(x)' \subseteq May(x)
    BY <1>8, <1>9, <1>10 DEF May
  <2>2. QED BY <1>7, <2>1, Fewer
<1>11. CASE Fingerprint[u] = x /\ Signalled(x) = {}
  <2>1. Passes(x) = {}
    BY <1>11 DEF Signalled, Passes
  <2>2. May(x)' \subseteq InGate2(x) \cup {u}
    BY <1>8, <1>9, <1>11, <2>1 DEF May
  <2>3. InGate2(x) \subseteq {runs[q].of : q \in Busy}
    BY DEF InGate2, Busy, InSlot
  <2>4. QED BY <1>5, <2>2, <2>3, BusyStories
<1>12. CASE Fingerprint[u] = x /\ Signalled(x) # {}
  <2>1. Passes(x)' \subseteq Passes(x) \cup InGate2(x)
    BY <1>4, <1>9, <1>12
  <2>2. ASSUME NEW v \in Urls, Signalled(x)' = {v} PROVE Signalled(x) = {v}
    BY <1>9, <1>12, <2>2
  <2>3. May(x)' \subseteq May(x)
    BY <1>8, <2>1, <2>2 DEF May
  <2>4. QED BY <1>7, <2>3, Fewer
<1>13. QED
  BY <1>10, <1>11, <1>12

\* A run that begins or ends is not past the gate.
LEMMA BeginsOutside == ASSUME RunsOK, NEW r \in Runs, NEW u \in Urls, Begin(r, u) PROVE NoNewInGate2
<1>1. \E stage \in {"gate1", "waiting"} : runs' = [runs EXCEPT ![r] = [of |-> u, pc |-> stage]]
  BY DEF Begin
<1>2. QED
  BY <1>1 DEF NoNewInGate2, RunsOK

\* The slot that a run gives back takes another to gate 1.
LEMMA EndsOutside == ASSUME RunsOK, NEW r \in Busy, Finish(r) PROVE NoNewInGate2
<1>1. r \in Runs /\ runs \in [Runs -> RunState]
  BY DEF Busy, RunsOK
<1>2. CASE waiters = <<>>
  BY <1>1, <1>2 DEF Finish, NoNewInGate2, Ended
<1>3. CASE waiters # <<>>
  <2> DEFINE h == Head(waiters)
  <2>1. h \in Runs
    BY <1>3 DEF RunsOK
  <2>2. runs' = [runs EXCEPT ![r] = Ended, ![h].pc = "gate1"]
    BY <1>3 DEF Finish
  <2> HIDE DEF h
  <2>3. ASSUME NEW q \in Runs, runs'[q].pc = "gate2" PROVE runs'[q] = runs[q]
    <3>1. q # h
      BY <1>1, <2>1, <2>2, <2>3 DEF RunState, Ended
    <3>2. q # r
      BY <1>1, <2>1, <2>2, <2>3, <3>1 DEF Ended
    <3>3. QED BY <1>1, <2>1, <2>2, <3>1, <3>2
  <2>4. QED BY <2>3 DEF NoNewInGate2
<1>4. QED
  BY <1>2, <1>3

\* No step lets more stories of a fingerprint pass, now or later, than have slots.
LEMMA AdmitsStep == ASSUME NewsTypeOK, RunsOK, Admits, [Next]_vars PROVE Admits'
<1>1. ASSUME NEW r \in Runs, NEW e \in inbox, Accept(r, e) PROVE Admits'
  <2>1. signals' = signals /\ e[2] \in Urls
    BY <1>1 DEF Accept, NewsTypeOK
  <2>2. runs' = runs \/ Begin(r, e[2])
    BY <1>1 DEF Accept
  <2>3. runs' = runs => NoNewInGate2
    BY DEF NoNewInGate2
  <2>4. QED BY <2>1, <2>2, <2>3, BeginsOutside, MayShrinks
<1>2. ASSUME NEW r \in Runs, NEW u \in Urls, Paste(r, u) PROVE Admits'
  <2>1. signals' = signals /\ Begin(r, u)
    BY <1>2 DEF Paste, files
  <2>2. QED BY <2>1, BeginsOutside, MayShrinks
<1>3. ASSUME NEW r \in Runs, Gate1(r) PROVE Admits'
  <2>1. r \in Busy
    BY <1>3 DEF Gate1, At, Busy, InSlot
  <2>2. CASE Write(r, FALSE) /\ Finish(r)
    BY <2>1, <2>2, EndsOutside, WritesSignal
  <2>3. CASE ~Stale(runs[r].of) /\ Go(r, "gate2") /\ UNCHANGED signals
    BY <2>1, <2>3, EntersGate2
  <2>4. QED BY <1>3, <2>2, <2>3 DEF Gate1
<1>4. ASSUME NEW r \in Runs, Gate2(r) PROVE Admits'
  <2>1. r \in Busy /\ runs[r].pc = "gate2"
    BY <1>4 DEF Gate2, At, Busy, InSlot
  <2>2. CASE Write(r, FALSE) /\ Finish(r)
    BY <2>1, <2>2, EndsOutside, WritesSignal
  <2>3. CASE Write(r, TRUE) /\ Go(r, "analysis")
    <3>1. NoNewInGate2
      BY <2>1, <2>3 DEF Go, NoNewInGate2, RunsOK, RunState
    <3>2. QED BY <2>1, <2>3, <3>1, WritesSignal
  <2>4. QED BY <1>4, <2>2, <2>3 DEF Gate2
<1>5. ASSUME NEW r \in Runs, Analysed(r) \/ Fails(r) PROVE Admits'
  <2>1. r \in Busy /\ Finish(r) /\ signals' = signals
    BY <1>5 DEF Analysed, Fails, At, Busy, InSlot
  <2>2. QED BY <2>1, EndsOutside, MayShrinks
<1>6. CASE Crash
  <2>1. NoNewInGate2 /\ signals' = signals
    BY <1>6 DEF Crash, NoNewInGate2, files, NoRun, Ended
  <2>2. QED BY <2>1, MayShrinks
<1>7. CASE (\E u \in Urls : Publish(u)) \/ Poll \/ PollBreaks \/ Start \/ UNCHANGED vars
  <2>1. NoNewInGate2 /\ signals' = signals
    BY <1>7 DEF Publish, Poll, PollBreaks, Start, vars, files, memory, NoNewInGate2
  <2>2. QED BY <2>1, MayShrinks
<1>8. QED
  BY <1>1, <1>2, <1>3, <1>4, <1>5, <1>6, <1>7 DEF Next
-----------------------------------------------------------------------------
\* The invariant is inductive.
LEMMA NewsStep == NewsInv /\ [Next]_vars => NewsInv'
<1> SUFFICES ASSUME NewsInv, [Next]_vars PROVE NewsInv'
  OBVIOUS
<1>1. RunsOK
  BY DEF NewsInv, NewsTypeOK, RunsOK
<1>2. RunsOK'
  BY <1>1, RunsStep DEF NewsInv, NewsTypeOK
<1>3. NewsTypeOK'
  BY <1>1, <1>2, TypeStep DEF NewsInv
<1>4. Arrivals' /\ OneRunPerStory'
  BY ArrivalsStep DEF NewsInv
<1>5. Admits'
  BY <1>1, AdmitsStep DEF NewsInv
<1>6. QED
  BY <1>2, <1>3, <1>4, <1>5 DEF NewsInv, RunsOK

\* It implies the bound on the stories that passed.
LEMMA AdmittedWithinSlots == NewsInv => PassesWithinSlots
<1> SUFFICES ASSUME Admits, Len(signals) <= Recent, NEW u \in Urls
             PROVE  Cardinality(Passes(Fingerprint[u])) <= Slots
  BY DEF NewsInv, PassesWithinSlots
<1> DEFINE x == Fingerprint[u]
<1>1. x \in Nat
  OBVIOUS
<1>2. AtMostSlots(May(x))
  BY <1>1 DEF Admits
<1>3. Passes(x) \subseteq May(x)
  BY DEF May
<1>4. QED
  BY <1>2, <1>3, Fewer DEF AtMostSlots

\* The files, the inbox and the runs keep their types; the slots taken never exceed
\* DELTAPM_ANALYSIS_CONCURRENCY nor go below zero.
THEOREM NewsTyped == Spec => []NewsTypeOK
<1>1. NewsInv => NewsTypeOK
  BY DEF NewsInv
<1>2. QED
  BY <1>1, NewsInit, NewsStep, PTL DEF Spec

\* However feed, sitemap, pastes, broken polls and crashes interleave, a story goes
\* through the gates once and once more per pasted text (run-cycle.ts, feed.ts).
THEOREM OneRun == Spec => []OneRunPerStory
<1>1. NewsInv => OneRunPerStory
  BY DEF NewsInv
<1>2. QED
  BY <1>1, NewsInit, NewsStep, PTL DEF Spec

\* The check of the staleness gate and the write of the signal are awaits apart, so
\* stories of one fingerprint can pass together: but never more than there are slots.
THEOREM PassesBounded == Spec => []PassesWithinSlots
<1>1. QED
  BY NewsInit, NewsStep, AdmittedWithinSlots, PTL DEF Spec
=============================================================================
