------------------------ MODULE PaymentChannelProofs ------------------------
(***************************************************************************)
(* Proofs about PaymentChannel, for any tasks, intervals, limits, deadlines *)
(* and estimates.  The inductive invariant is ChannelInv: that the queue   *)
(* has a first entry needs it to be finite, and that no two entries tie    *)
(* needs every arrival number to be used once.                             *)
(***************************************************************************)
EXTENDS PaymentChannel, SumTheorems

ArrivalsAreUnique ==
  /\ \A e \in pending : e.arrival < arrivals
  /\ \A e, f \in pending : e.arrival = f.arrival => e = f

ChannelInv == ChannelTypeOK /\ IsFiniteSet(pending) /\ ArrivalsAreUnique

-----------------------------------------------------------------------------
(* Lemmas about the operators *)

\* A finite set that is not empty has an element that no other precedes.
LEMMA FiniteHasFirst ==
  ASSUME NEW S, IsFiniteSet(S), S # {}, NEW R,
         \A x \in S : <<x, x>> \notin R,
         \A x, y, z \in S : <<x, y>> \in R /\ <<y, z>> \in R => <<x, z>> \in R
  PROVE  \E x \in S : \A y \in S : <<y, x>> \notin R
<1> DEFINE Lower(x) == {y \in S : <<y, x>> \in R}
           T == {Lower(x) : x \in S}
<1>1. T \subseteq FiniteSubsetsOf(S) /\ T # {}
  <2>1. ASSUME NEW x \in S  PROVE  Lower(x) \in FiniteSubsetsOf(S)
    BY FS_Subset DEF FiniteSubsetsOf
  <2>2. QED
    <3> HIDE DEF Lower
    <3> QED BY <2>1
<1>2. IsWellFoundedOn(StrictSubsetOrdering(S), FiniteSubsetsOf(S))
  BY FS_StrictSubsetOrderingWellFounded
<1>3. PICK A \in T : \A B \in T : <<B, A>> \notin StrictSubsetOrdering(S)
  <2> HIDE DEF T
  <2> QED BY <1>1, <1>2, WFMin
<1>4. PICK first \in S : A = Lower(first)
  BY <1>3
<1>5. ASSUME NEW y \in S, <<y, first>> \in R  PROVE  FALSE
  <2>1. Lower(y) \subseteq Lower(first) /\ y \in Lower(first) /\ y \notin Lower(y)
    BY <1>5
  <2>2. <<Lower(y), Lower(first)>> \in StrictSubsetOrdering(S)
    BY <2>1 DEF StrictSubsetOrdering
  <2>3. QED
    BY <1>3, <1>4, <2>2
<1>6. QED
  BY <1>5

\* The median of one sample or more is one of the samples.
LEMMA MedianIsASample ==
  ASSUME NEW s \in Seq(Nat), s # <<>>
  PROVE  \E i \in DOMAIN s : Median(s) = s[i]
<1> DEFINE D == DOMAIN s
           More == {ij \in D \X D : s[ij[1]] > s[ij[2]]}
           above == {s[i] : i \in {j \in D : ExceedsHalf(s[j], s)}}
           Less == {cd \in above \X above : cd[1] < cd[2]}
<1>1. /\ D = 1 .. Len(s) /\ Len(s) \in Nat /\ Len(s) > 0 /\ \A i \in D : s[i] \in Nat
      /\ IsFiniteSet(D) /\ Cardinality(D) = Len(s) /\ D # {}
  <2>1. D = 1 .. Len(s) /\ Len(s) \in Nat /\ Len(s) > 0 /\ \A i \in D : s[i] \in Nat
    OBVIOUS
  <2>2. IsFiniteSet(1 .. Len(s)) /\ Cardinality(1 .. Len(s)) = Len(s)
    BY <2>1, FS_Interval
  <2>3. QED
    BY <2>1, <2>2
<1>2. PICK top \in D : \A i \in D : s[i] <= s[top]
  <2>1. \A i, j \in D : <<i, j>> \in More <=> s[i] > s[j]
    OBVIOUS
  <2> HIDE DEF More
  <2>2. \A i \in D : <<i, i>> \notin More
    BY <1>1, <2>1
  <2>3. \A i, j, k \in D : <<i, j>> \in More /\ <<j, k>> \in More => <<i, k>> \in More
    BY <1>1, <2>1
  <2>4. IsFiniteSet(D) /\ D # {}
    BY <1>1
  <2>5. PICK top \in D : \A i \in D : <<i, top>> \notin More
    <3> HIDE DEF D, above, Less
    <3> QED BY <2>2, <2>3, <2>4, FiniteHasFirst
  <2>6. \A i \in D : s[i] \in Nat /\ ~(s[i] > s[top])
    BY <1>1, <2>1, <2>5
  <2> HIDE DEF D
  <2>7. QED
    BY <2>6
<1>3. ExceedsHalf(s[top], s)
  <2>1. {i \in D : s[i] <= s[top]} = D
    BY <1>2
  <2>2. Cardinality({i \in D : s[i] <= s[top]}) = Len(s) /\ Len(s) \in Nat /\ Len(s) > 0
    BY <1>1, <2>1
  <2>3. 2 * Cardinality({i \in D : s[i] <= s[top]}) > Len(s)
    BY <2>2
  <2>4. QED
    BY <2>3 DEF ExceedsHalf
<1>4. above # {} /\ above \subseteq Nat /\ \A d \in above : \E i \in D : d = s[i]
  BY <1>1, <1>3
<1>5. IsFiniteSet(above)
  <2>1. \A c \in above : c <= s[top]
    BY <1>2, <1>4
  <2>2. s[top] \in Nat
    BY <1>1
  <2> HIDE DEF above
  <2>3. QED
    BY <1>4, <2>1, <2>2, FS_BoundedSetOfNaturals
<1>6. PICK d \in above : \A c \in above : d <= c
  <2>1. \A a, b \in above : <<a, b>> \in Less <=> a < b
    OBVIOUS
  <2> HIDE DEF Less, above
  <2>2. \A c \in above : <<c, c>> \notin Less
    BY <1>4, <2>1
  <2>3. \A a, b, c \in above : <<a, b>> \in Less /\ <<b, c>> \in Less => <<a, c>> \in Less
    BY <1>4, <2>1
  <2>4. PICK d \in above : \A c \in above : <<c, d>> \notin Less
    BY <1>4, <1>5, <2>2, <2>3, FiniteHasFirst
  <2>5. \A c \in above : d \in Nat /\ c \in Nat /\ ~(c < d)
    BY <1>4, <2>1, <2>4
  <2>6. QED
    BY <2>5
<1>7. Median(s) \in above
  BY <1>6 DEF Median
<1>8. QED
  BY <1>4, <1>7

\* The estimate of a task whose adapter declares none is a duration.
LEMMA AverageType ==
  ASSUME ChannelAssumption, ChannelTypeOK
  PROVE  AverageActualDuration \in Nat
<1>1. CASE Len(durations) < MinSamples
  BY <1>1 DEF AverageActualDuration, ChannelAssumption
<1>2. CASE ~(Len(durations) < MinSamples)
  <2>1. durations \in Seq(Nat) /\ durations # <<>>
    BY <1>2 DEF ChannelTypeOK, ChannelAssumption
  <2>2. Median(durations) \in Nat
    BY <2>1, MedianIsASample
  <2>3. QED
    BY <1>2, <2>2 DEF AverageActualDuration
<1>3. QED
  BY <1>1, <1>2

-----------------------------------------------------------------------------
(* The invariant *)

\* A new channel is empty, idle and not frozen.
LEMMA ChannelInitInv == ChannelInit => ChannelInv
<1> SUFFICES ASSUME ChannelInit  PROVE  ChannelInv
  OBVIOUS
<1>1. ChannelTypeOK
  <2>1. <<>> \in Seq(Nat) /\ {} \subseteq Entry /\ 0 \in Nat
    OBVIOUS
  <2>2. QED
    BY <2>1 DEF ChannelInit, ChannelTypeOK
<1>2. IsFiniteSet(pending) /\ ArrivalsAreUnique
  BY FS_EmptySet DEF ChannelInit, ArrivalsAreUnique
<1>3. QED
  BY <1>1, <1>2 DEF ChannelInv

\* enqueue() numbers the entry it adds with an arrival not used before.
LEMMA EnqueueInv ==
  ASSUME ChannelAssumption, ChannelInv, NEW t \in Tasks, NEW expires \in Nat, NEW est \in Nat,
         Enqueue(t, expires, est)
  PROVE  ChannelInv'
<1> DEFINE new == [task |-> t, expires |-> expires, est |-> est, arrival |-> arrivals]
<1>1. /\ pending' = pending \cup {new}
      /\ arrivals' = arrivals + 1
      /\ UNCHANGED <<now, isFrozen, current, durations, lastBegun>>
  BY DEF Enqueue
<1>2. new \in Entry /\ pending \subseteq Entry /\ arrivals \in Nat
  BY DEF Entry, ChannelInv, ChannelTypeOK
<1>3. ChannelTypeOK'
  BY <1>1, <1>2 DEF ChannelInv, ChannelTypeOK
<1>4. IsFiniteSet(pending')
  BY <1>1, FS_AddElement DEF ChannelInv
<1>5. ArrivalsAreUnique'
  BY <1>1, <1>2 DEF ChannelInv, ArrivalsAreUnique, Entry
<1>6. QED
  BY <1>3, <1>4, <1>5 DEF ChannelInv

\* What startNext() takes is a task in process.
LEMMA StartNextType ==
  ASSUME ChannelAssumption, ChannelInv, NEW forceNow, StartNext(forceNow)
  PROVE  current' \in Processing
<1>1. PICK e \in pending :
        LET startAt == IF forceNow THEN now ELSE Later(now, LastFinish + MinInterval)
        IN current' = [task |-> e.task, expires |-> e.expires, startedAt |-> startAt,
                       finishAt |-> startAt + e.est]
  BY DEF StartNext
<1>2. e \in Entry /\ now \in Nat /\ LastFinish = now /\ MinInterval \in Nat
  BY DEF ChannelInv, StartNext, CanStart, ChannelTypeOK, LastFinish, ChannelAssumption
<1>3. QED
  BY <1>1, <1>2 DEF Later, Entry, Processing

\* startNext() takes one entry out of the queue and adds none.
LEMMA StartNextInv ==
  ASSUME ChannelAssumption, ChannelInv, NEW forceNow, StartNext(forceNow)
  PROVE  ChannelInv'
<1> USE DEF ChannelInv
<1>1. \E e \in pending : pending' = pending \ {e}
  BY DEF StartNext
<1>2. lastBegun' = now /\ UNCHANGED <<now, isFrozen, arrivals, durations>>
  BY DEF StartNext
<1>3. current' \in Processing
  BY StartNextType
<1>4. ChannelTypeOK'
  BY <1>1, <1>2, <1>3 DEF ChannelTypeOK
<1>5. IsFiniteSet(pending') /\ ArrivalsAreUnique'
  BY <1>1, <1>2, FS_RemoveElement DEF ArrivalsAreUnique
<1>6. QED
  BY <1>4, <1>5

\* complete() leaves the queue alone and keeps the samples durations.
LEMMA CompleteInv ==
  ASSUME ChannelAssumption, ChannelInv, NEW t \in Tasks, NEW ok \in BOOLEAN, Complete(t, ok)
  PROVE  ChannelInv'
<1> USE DEF ChannelInv
<1> DEFINE all == IF ok THEN Append(durations, Elapsed(current.startedAt)) ELSE durations
<1>1. /\ durations' = IF Len(all) > MaxSamples THEN Tail(all) ELSE all
      /\ current' = None
      /\ UNCHANGED <<now, isFrozen, pending, arrivals, lastBegun>>
  BY DEF Complete
<1>2. Elapsed(current.startedAt) \in Nat
  BY DEF Complete, ChannelTypeOK, Processing, Elapsed
<1>3. all \in Seq(Nat)
  BY <1>2 DEF ChannelTypeOK
<1>4. durations' \in Seq(Nat)
  <2>1. CASE all = <<>>
    <3>1. Len(all) = 0 /\ MaxSamples \in Nat
      BY <2>1 DEF ChannelAssumption
    <3>2. QED
      BY <1>1, <1>3, <3>1
  <2>2. CASE all # <<>>
    BY <1>1, <1>3, <2>2
  <2>3. QED
    BY <2>1, <2>2
<1>5. QED
  BY <1>1, <1>4 DEF ChannelTypeOK, ArrivalsAreUnique

\* Every step of the channel keeps the invariant.
LEMMA ChannelNextInv ==
  ASSUME ChannelAssumption, ChannelInv, [ChannelNext]_channelVars
  PROVE  ChannelInv'
<1> USE DEF ChannelInv
<1>1. ASSUME NEW t \in Tasks, NEW life \in Lifetimes,
             NEW est \in Estimates \cup {AverageActualDuration}, Enqueue(t, now + life, est)
      PROVE  ChannelInv'
  <2>1. now + life \in Nat /\ est \in Nat
    BY AverageType DEF ChannelTypeOK, ChannelAssumption
  <2>2. QED
    BY <1>1, <2>1, EnqueueInv
<1>2. ASSUME NEW t \in Tasks, DequeueTask(t)  PROVE  ChannelInv'
  <2>1. /\ pending' \subseteq pending
        /\ current' \in {None, current}
        /\ UNCHANGED <<now, isFrozen, arrivals, durations, lastBegun>>
    BY <1>2 DEF DequeueTask
  <2>2. IsFiniteSet(pending')
    BY <2>1, FS_Subset
  <2>3. QED
    BY <2>1, <2>2 DEF ChannelTypeOK, ArrivalsAreUnique
<1>3. ASSUME NEW forceNow \in BOOLEAN, StartNext(forceNow)  PROVE  ChannelInv'
  BY <1>3, StartNextInv
<1>4. ASSUME NEW t \in Tasks, NEW ok \in BOOLEAN, Complete(t, ok)  PROVE  ChannelInv'
  BY <1>4, CompleteInv
<1>5. CASE Freeze \/ Unfreeze
  BY <1>5 DEF Freeze, Unfreeze, ChannelTypeOK, ArrivalsAreUnique
<1>6. CASE Tick
  BY <1>6 DEF Tick, ChannelTypeOK, ArrivalsAreUnique
<1>7. CASE UNCHANGED channelVars
  BY <1>7 DEF channelVars, ChannelTypeOK, ArrivalsAreUnique
<1>8. QED
  BY <1>1, <1>2, <1>3, <1>4, <1>5, <1>6, <1>7 DEF ChannelNext

\* The state keeps its types, and the queue stays finite with every arrival
\* number used once, whatever is called in whatever order.
THEOREM ChannelInvariant == ChannelSpec => []ChannelInv
<1>1. ChannelInit => ChannelInv
  BY ChannelInitInv
<1>2. ChannelInv /\ [ChannelNext]_channelVars => ChannelInv'
  BY ChannelNextInv, ChannelAssumption
<1>3. QED
  BY <1>1, <1>2, PTL DEF ChannelSpec

-----------------------------------------------------------------------------
(* What it gives *)

\* The first entry of the queue comes before each of the others.
LEMMA FirstInQueue ==
  ASSUME ChannelInv, pending # {}
  PROVE  \E e \in pending : IsFirst(e)
<1> DEFINE R == {ef \in pending \X pending : Before(ef[1], ef[2])}
<1>1. pending \subseteq Entry /\ IsFiniteSet(pending)
  BY DEF ChannelInv, ChannelTypeOK
<1>2. \A e \in pending : <<e, e>> \notin R
  BY <1>1 DEF Entry, Before
<1>3. \A e, f, g \in pending : <<e, f>> \in R /\ <<f, g>> \in R => <<e, g>> \in R
  BY <1>1 DEF Entry, Before
<1>4. \A e, f \in pending : <<e, f>> \in R <=> Before(e, f)
  OBVIOUS
<1>5. PICK e \in pending : \A f \in pending : <<f, e>> \notin R
  <2> HIDE DEF R
  <2> QED BY <1>1, <1>2, <1>3, FiniteHasFirst
<1>6. \A f \in pending : ~Before(f, e)
  BY <1>4, <1>5
<1>7. \A f \in pending \ {e} : Before(e, f)
  BY <1>1, <1>6 DEF ChannelInv, ArrivalsAreUnique, Entry, Before
<1>8. QED
  BY <1>7 DEF IsFirst

\* The queue is always totally ordered and has a first entry, so that
\* startNext() has exactly one entry to take.
THEOREM QueueStaysOrdered == ChannelSpec => []ChannelConsistent
<1>1. ChannelInv => ChannelConsistent
  <2> SUFFICES ASSUME ChannelInv  PROVE  ChannelTypeOK /\ QueueIsOrdered
    BY DEF ChannelConsistent
  <2>1. \A e, f \in pending : e # f => (Before(e, f) <=> ~Before(f, e))
    BY DEF ChannelInv, ChannelTypeOK, ArrivalsAreUnique, Entry, Before
  <2>2. QED
    BY <2>1, FirstInQueue DEF QueueIsOrdered, ChannelInv, ArrivalsAreUnique
<1>2. QED
  BY <1>1, ChannelInvariant, PTL

\* No task is started but by an idle channel that is not frozen, and none
\* ahead of one with an earlier deadline, or with the same and first come.
THEOREM TasksStartInTurn == ChannelSpec => StartsInTurn
<1> DEFINE Turn == current' # None /\ current' # current =>
                     /\ current = None /\ ~isFrozen
                     /\ \E e \in pending :
                          /\ e.task = current'.task
                          /\ pending' = pending \ {e}
                          /\ \A f \in pending' : Before(e, f)
<1>1. [ChannelNext]_channelVars => [Turn]_channelVars
  <2> SUFFICES ASSUME ChannelNext, current' # None, current' # current
               PROVE  /\ current = None /\ ~isFrozen
                      /\ \E e \in pending :
                           /\ e.task = current'.task
                           /\ pending' = pending \ {e}
                           /\ \A f \in pending' : Before(e, f)
    OBVIOUS
  <2>1. PICK forceNow \in BOOLEAN : StartNext(forceNow)
    BY DEF ChannelNext, Enqueue, DequeueTask, Complete, Freeze, Unfreeze, Tick
  <2>2. current = None /\ ~isFrozen
    BY <2>1 DEF StartNext, CanStart
  <2>3. PICK e \in pending : /\ IsFirst(e)
                             /\ current'.task = e.task
                             /\ pending' = pending \ {e}
    BY <2>1 DEF StartNext
  <2>4. QED
    BY <2>2, <2>3 DEF IsFirst
<1>2. ChannelSpec => [][Turn]_channelVars
  BY <1>1, PTL DEF ChannelSpec
<1>3. QED
  BY <1>2 DEF StartsInTurn

-----------------------------------------------------------------------------
(* The plan *)

\* What precedes an entry is a finite part of the queue, and it does not hold
\* the entry; each entry takes a natural number of milliseconds.
LEMMA PlanFacts ==
  ASSUME ChannelAssumption, ChannelInv, NEW e \in pending
  PROVE  /\ Ahead(e) \subseteq pending /\ e \notin Ahead(e) /\ IsFiniteSet(Ahead(e))
         /\ \A f \in pending : Slots[f] = f.est + MinInterval /\ Slots[f] \in Nat
         /\ SumFunctionOnSet(Slots, Ahead(e)) \in Nat
         /\ FirstStart \in Nat /\ LastFinish \in Nat /\ now \in Nat /\ MinInterval \in Nat
         /\ e.est \in Nat /\ e.expires \in Nat
<1>1. pending \subseteq Entry /\ IsFiniteSet(pending) /\ now \in Nat /\ MinInterval \in Nat
  BY DEF ChannelInv, ChannelTypeOK, ChannelAssumption
<1>2. Ahead(e) \subseteq pending /\ e \notin Ahead(e)
  BY <1>1 DEF Ahead, Before, Entry
<1>3. IsFiniteSet(Ahead(e))
  BY <1>1, <1>2, FS_Subset
<1>4. \A f \in pending : Slots[f] = f.est + MinInterval /\ f.est \in Nat
  BY <1>1 DEF Slots, Entry
<1>5. SumFunctionOnSet(Slots, Ahead(e)) \in Nat
  <2>1. \A f \in Ahead(e) : Slots[f] \in Nat
    BY <1>1, <1>2, <1>4
  <2>2. QED
    BY <1>3, <2>1, SumType
<1>6. LastFinish \in Nat
  BY DEF ChannelInv, ChannelTypeOK, LastFinish, Processing
<1>7. FirstStart \in Nat
  BY <1>1, <1>6 DEF FirstStart, Later
<1>8. e.est \in Nat /\ e.expires \in Nat
  BY <1>1 DEF Entry
<1>9. QED
  BY <1>1, <1>2, <1>3, <1>4, <1>5, <1>6, <1>7, <1>8

\* The entries that precede one in the queue come before it for certain.
LEMMA OnlyEarlierAhead ==
  ASSUME ChannelInv, NEW e \in pending, NEW f \in pending
  PROVE  /\ f \in Ahead(e) <=> Before(f, e)
         /\ f # e => (Before(f, e) <=> ~Before(e, f))
         /\ \A g \in pending : Before(g, f) /\ Before(f, e) => Before(g, e)
  BY DEF Ahead, Before, Entry, ChannelInv, ChannelTypeOK, ArrivalsAreUnique

\* Of the entries that precede one, the last is the one just before it.
LEMMA OneJustBefore ==
  ASSUME ChannelAssumption, ChannelInv, NEW e \in pending, Ahead(e) # {}
  PROVE  \E f \in Ahead(e) : Ahead(e) = Ahead(f) \cup {f}
<1> DEFINE R == {fg \in pending \X pending : Before(fg[2], fg[1])}
<1>1. Ahead(e) \subseteq pending /\ IsFiniteSet(Ahead(e)) /\ pending \subseteq Entry
  BY PlanFacts DEF ChannelInv, ChannelTypeOK
<1>2. \A f, g \in pending : <<f, g>> \in R <=> Before(g, f)
  OBVIOUS
<1> HIDE DEF R
<1>3. \A f \in Ahead(e) : <<f, f>> \notin R
  BY <1>1, <1>2 DEF Before, Entry
<1>4. \A f, g, h \in Ahead(e) : <<f, g>> \in R /\ <<g, h>> \in R => <<f, h>> \in R
  BY <1>1, <1>2 DEF Before, Entry
<1>5. PICK f \in Ahead(e) : \A g \in Ahead(e) : <<g, f>> \notin R
  BY <1>1, <1>3, <1>4, FiniteHasFirst
<1>6. f \in pending /\ \A g \in Ahead(e) : ~Before(f, g)
  BY <1>1, <1>2, <1>5
<1>7. ASSUME NEW g \in pending  PROVE  g \in Ahead(e) <=> (g \in Ahead(f) \/ g = f)
  BY <1>5, <1>6, OnlyEarlierAhead
<1>8. Ahead(f) \subseteq pending
  BY DEF Ahead
<1>9. QED
  BY <1>1, <1>5, <1>6, <1>7, <1>8

\* The start planned for an entry is one interval after the end of the one
\* just before it.
LEMMA StartsOneByOne ==
  ASSUME ChannelAssumption, ChannelInv, NEW e \in pending, NEW f \in pending,
         Ahead(e) = Ahead(f) \cup {f}
  PROVE  StartOf(e) = FinishOf(f) + MinInterval /\ FinishOf(f) + MinInterval >= now
<1> DEFINE Sum(S) == SumFunctionOnSet(Slots, S)
<1>1. /\ f \notin Ahead(f) /\ IsFiniteSet(Ahead(e)) /\ Ahead(e) \subseteq pending
      /\ \A g \in pending : Slots[g] = g.est + MinInterval /\ Slots[g] \in Nat
      /\ FirstStart \in Nat /\ f.est \in Nat /\ MinInterval \in Nat /\ now \in Nat
      /\ LastFinish \in Nat /\ Sum(Ahead(f)) \in Nat
  BY PlanFacts
<1>2. Sum(Ahead(e)) = Slots[f] + Sum(Ahead(e) \ {f})
  BY <1>1, SumRemove
<1>3. Ahead(e) \ {f} = Ahead(f)
  BY <1>1
<1>4. Sum(Ahead(e)) = f.est + MinInterval + Sum(Ahead(f))
  BY <1>1, <1>2, <1>3
<1>5. FirstStart >= now
  BY <1>1 DEF FirstStart, Later
<1> HIDE DEF Sum
<1>6. StartOf(e) = FirstStart + Sum(Ahead(e)) /\ StartOf(f) = FirstStart + Sum(Ahead(f))
  BY DEF StartOf, Sum
<1>7. QED
  BY <1>1, <1>4, <1>5, <1>6 DEF FinishOf

\* The plan is the one the loop computes, entry by entry.
LEMMA PlanByTheLoop == ASSUME ChannelAssumption, ChannelInv  PROVE  PlanIsTheLoop
<1> SUFFICES ASSUME NEW e \in pending
             PROVE  \/ IsFirst(e) /\ StartOf(e) = Later(now, LastFinish + MinInterval)
                    \/ \E f \in pending :
                         /\ Ahead(e) = Ahead(f) \cup {f}
                         /\ StartOf(e) = Later(now, FinishOf(f) + MinInterval)
  BY DEF PlanIsTheLoop
<1>1. CASE Ahead(e) = {}
  <2>1. IsFirst(e)
    BY <1>1, OnlyEarlierAhead DEF IsFirst
  <2>2. StartOf(e) = FirstStart + 0 /\ FirstStart \in Nat
    BY <1>1, SumEmpty, PlanFacts DEF StartOf
  <2>3. QED
    BY <2>1, <2>2 DEF FirstStart
<1>2. CASE Ahead(e) # {}
  <2>1. PICK f \in Ahead(e) : Ahead(e) = Ahead(f) \cup {f}
    BY <1>2, OneJustBefore
  <2>2. f \in pending
    BY DEF Ahead
  <2>3. StartOf(e) = FinishOf(f) + MinInterval /\ FinishOf(f) + MinInterval >= now
    BY <2>1, <2>2, StartsOneByOne
  <2>4. FinishOf(f) + MinInterval \in Nat /\ now \in Nat
    <3>1. f.est \in Nat /\ MinInterval \in Nat /\ now \in Nat /\ StartOf(f) \in Nat
      BY <2>2, PlanFacts DEF StartOf
    <3>2. QED
      BY <3>1 DEF FinishOf
  <2>5. QED
    BY <2>1, <2>2, <2>3, <2>4 DEF Later
<1>3. QED
  BY <1>1, <1>2

\* Whatever the order, the one of the entries up to e that comes last in it
\* finishes no earlier than e does in the plan.
LEMMA NoOrderIsFaster ==
  ASSUME ChannelAssumption, ChannelInv, NEW e \in pending,
         NEW order \in Bijection(1 .. Cardinality(pending), pending)
  PROVE  \E i \in DOMAIN order :
           /\ order[i] \in Ahead(e) \cup {e}
           /\ FinishInOrder(order, i) >= FinishOf(e)
<1> DEFINE n == Cardinality(pending)
           S == Ahead(e) \cup {e}
           Places == {i \in 1 .. n : order[i] \in S}
           R == {ij \in Places \X Places : ij[1] > ij[2]}
           Sum(U) == SumFunctionOnSet(Slots, U)
<1>1. /\ DOMAIN order = 1 .. n /\ \A i \in 1 .. n : order[i] \in pending
      /\ \A f \in pending : \E i \in 1 .. n : order[i] = f
      /\ n \in Nat /\ pending \subseteq Entry
  <2>1. IsFiniteSet(pending) /\ pending \subseteq Entry
    BY DEF ChannelInv, ChannelTypeOK
  <2>2. n \in Nat
    BY <2>1, FS_CardinalityType
  <2>3. QED
    BY <2>1, <2>2 DEF Bijection, Injection, Surjection
<1>2. /\ Ahead(e) \subseteq pending /\ e \notin Ahead(e) /\ IsFiniteSet(Ahead(e))
      /\ \A f \in pending : Slots[f] = f.est + MinInterval /\ Slots[f] \in Nat
      /\ Sum(Ahead(e)) \in Nat /\ FirstStart \in Nat /\ MinInterval \in Nat /\ e.est \in Nat
  BY PlanFacts
<1>3. PICK i \in Places : \A j \in Places : j <= i
  <2>1. Places # {} /\ Places \subseteq 1 .. n
    BY <1>1
  <2>2. IsFiniteSet(Places)
    <3> HIDE DEF Places, n
    <3>1. IsFiniteSet(1 .. n)
      BY <1>1, FS_Interval
    <3>2. QED
      BY <2>1, <3>1, FS_Subset
  <2>3. \A i, j \in Places : <<i, j>> \in R <=> i > j
    OBVIOUS
  <2>4. \A i \in Places : i \in Nat
    BY <1>1
  <2> HIDE DEF Places, R, n
  <2>5. \A i \in Places : <<i, i>> \notin R
    BY <2>3, <2>4
  <2>6. \A i, j, k \in Places : <<i, j>> \in R /\ <<j, k>> \in R => <<i, k>> \in R
    BY <2>3, <2>4
  <2>7. PICK last \in Places : \A j \in Places : <<j, last>> \notin R
    BY <2>1, <2>2, <2>5, <2>6, FiniteHasFirst
  <2>8. \A j \in Places : ~(j > last) /\ j \in Nat /\ last \in Nat
    BY <2>3, <2>4, <2>7
  <2>9. QED
    BY <2>8
<1> DEFINE Done == {order[j] : j \in 1 .. (i - 1)}
<1>4. i \in 1 .. n /\ order[i] \in S /\ order[i] \in pending
  BY <1>1, <1>3
<1>5. Done \subseteq pending /\ S \subseteq Done \cup {order[i]}
  <2>1. \A j \in 1 .. (i - 1) : j \in 1 .. n
    BY <1>1, <1>4
  <2>2. Done \subseteq pending
    BY <1>1, <2>1
  <2>3. ASSUME NEW f \in S, f # order[i]  PROVE  f \in Done
    <3>1. PICK j \in 1 .. n : order[j] = f
      BY <1>1, <1>2
    <3>2. j \in Places /\ j # i
      BY <2>3, <3>1
    <3>3. j <= i
      BY <1>3, <3>2
    <3>4. j \in 1 .. (i - 1)
      BY <1>1, <1>4, <3>2, <3>3
    <3>5. QED
      BY <3>1, <3>4
  <2>4. QED
    BY <2>2, <2>3
<1>6. IsFiniteSet(pending)
  BY DEF ChannelInv
<1>7. /\ IsFiniteSet(S) /\ S \subseteq pending
      /\ IsFiniteSet(Done) /\ IsFiniteSet(Done \cup {order[i]}) /\ Done \cup {order[i]} \subseteq pending
  <2>1. S \subseteq pending /\ Done \cup {order[i]} \subseteq pending
    BY <1>2, <1>4, <1>5
  <2>2. QED
    BY <1>5, <1>6, <2>1, FS_Subset
<1>8. Sum(S) = Slots[e] + Sum(Ahead(e))
  <2>1. S \ {e} = Ahead(e) /\ e \in S /\ \A f \in S : Slots[f] \in Nat
    BY <1>2, <1>7
  <2>2. Sum(S) = Slots[e] + Sum(S \ {e})
    BY <1>7, <2>1, SumRemove
  <2>3. QED
    BY <2>1, <2>2
<1>9. Sum(S) <= Sum(Done \cup {order[i]})
  BY <1>2, <1>5, <1>7, SumMonotone
<1>10. Sum(Done \cup {order[i]}) <= Slots[order[i]] + Sum(Done)
  <2>1. Slots[order[i]] \in Nat /\ \A f \in Done : Slots[f] \in Nat
    BY <1>2, <1>4, <1>5
  <2>2. QED
    BY <1>7, <2>1, SumAddBound
<1>11. /\ Sum(Done) \in Nat /\ Sum(S) \in Nat /\ Sum(Done \cup {order[i]}) \in Nat
       /\ order[i].est \in Nat /\ Slots[order[i]] = order[i].est + MinInterval
       /\ Slots[e] = e.est + MinInterval
  <2>1. \A f \in pending : Slots[f] \in Nat
    BY <1>2
  <2>2. Sum(Done) \in Nat /\ Sum(S) \in Nat /\ Sum(Done \cup {order[i]}) \in Nat
    BY <1>5, <1>7, <2>1, SumType
  <2>3. order[i].est \in Nat
    BY <1>1, <1>4 DEF Entry
  <2>4. QED
    BY <1>2, <1>4, <2>2, <2>3
<1>12. FinishInOrder(order, i) = FirstStart + Sum(Done) + order[i].est
  BY DEF FinishInOrder
<1>13. FinishOf(e) = FirstStart + Sum(Ahead(e)) + e.est
  BY DEF FinishOf, StartOf
<1>14. FinishInOrder(order, i) >= FinishOf(e)
  <2> HIDE DEF Sum, Done, S, Places, R, n
  <2>1. Slots[e] + Sum(Ahead(e)) <= Slots[order[i]] + Sum(Done)
    BY <1>8, <1>9, <1>10, <1>11
  <2>2. /\ FirstStart \in Nat /\ MinInterval \in Nat
        /\ e.est \in Nat /\ Sum(Ahead(e)) \in Nat
        /\ order[i].est \in Nat /\ Sum(Done) \in Nat
    BY <1>2, <1>11
  <2>3. (e.est + MinInterval) + Sum(Ahead(e)) <= (order[i].est + MinInterval) + Sum(Done)
    BY <1>11, <2>1
  <2>4. FirstStart + Sum(Ahead(e)) + e.est <= FirstStart + Sum(Done) + order[i].est
    BY <2>2, <2>3
  <2>5. QED
    BY <1>12, <1>13, <2>2, <2>4
<1>15. QED
  BY <1>1, <1>4, <1>14

\* The plan that pays the entry that expires first never misses one that
\* another order of the queue would have saved.
LEMMA PlanIsBest == ASSUME ChannelAssumption, ChannelInv  PROVE  PlanIsOptimal
<1> SUFFICES ASSUME NEW e \in pending, RiskOf(e) = "will_miss",
                    NEW order \in Bijection(1 .. Cardinality(pending), pending)
             PROVE  \E i \in DOMAIN order : FinishInOrder(order, i) > order[i].expires
  BY DEF PlanIsOptimal
<1>1. PICK i \in DOMAIN order : /\ order[i] \in Ahead(e) \cup {e}
                                /\ FinishInOrder(order, i) >= FinishOf(e)
  BY NoOrderIsFaster
<1>2. FinishOf(e) > e.expires
  BY DEF RiskOf
<1>3. order[i] \in Entry /\ e \in Entry /\ order[i].expires <= e.expires
  BY <1>1 DEF Ahead, Before, ChannelInv, ChannelTypeOK, Entry
<1>4. FinishInOrder(order, i) \in Nat /\ FinishOf(e) \in Nat
  <2>1. Cardinality(pending) \in Nat /\ DOMAIN order = 1 .. Cardinality(pending)
        /\ \A j \in DOMAIN order : order[j] \in pending
    BY FS_CardinalityType DEF ChannelInv, Bijection, Injection
  <2>2. \A j \in 1 .. (i - 1) : j \in DOMAIN order
    BY <2>1
  <2>3. {order[j] : j \in 1 .. (i - 1)} \subseteq pending
    BY <2>1, <2>2
  <2>4. IsFiniteSet({order[j] : j \in 1 .. (i - 1)})
    BY <2>3, FS_Subset DEF ChannelInv
  <2>5. /\ \A f \in pending : Slots[f] \in Nat
        /\ FirstStart \in Nat /\ e.est \in Nat /\ SumFunctionOnSet(Slots, Ahead(e)) \in Nat
    BY PlanFacts
  <2>6. SumFunctionOnSet(Slots, {order[j] : j \in 1 .. (i - 1)}) \in Nat
    BY <2>3, <2>4, <2>5, SumType
  <2>7. order[i].est \in Nat
    BY <1>3 DEF Entry
  <2>8. QED
    BY <2>5, <2>6, <2>7 DEF FinishInOrder, FinishOf, StartOf
<1>5. order[i].expires \in Nat /\ e.expires \in Nat
  BY <1>3 DEF Entry
<1>6. QED
  BY <1>1, <1>2, <1>3, <1>4, <1>5

\* The median the channel uses is the one in the middle of the sorted samples.
LEMMA MedianInTheMiddle == ASSUME ChannelInv  PROVE  MedianIsTheMiddle
<1> DEFINE s == durations
           n == Len(s)
           AtMost(d) == {i \in DOMAIN s : s[i] <= d}
<1> SUFFICES ASSUME s # <<>>, NEW sorted \in Bijection(1 .. n, 1 .. n),
                    \A i, j \in 1 .. n : i < j => s[sorted[i]] <= s[sorted[j]]
             PROVE  Median(s) = s[sorted[(n \div 2) + 1]]
  BY DEF MedianIsTheMiddle
<1> DEFINE half == n \div 2
           middle == s[sorted[half + 1]]
<1>1. /\ s \in Seq(Nat) /\ n \in Nat /\ n > 0 /\ DOMAIN s = 1 .. n
      /\ \A i \in 1 .. n : s[i] \in Nat
  BY DEF ChannelInv, ChannelTypeOK
<1>2. half \in Nat /\ half + 1 \in 1 .. n /\ 2 * half <= n /\ n < 2 * (half + 1)
  BY <1>1
<1>3. /\ \A i \in 1 .. n : sorted[i] \in 1 .. n
      /\ \A i, j \in 1 .. n : sorted[i] = sorted[j] => i = j
      /\ \A i \in 1 .. n : \E j \in 1 .. n : sorted[j] = i
  BY DEF Bijection, Injection, Surjection, IsInjective
<1>4. IsFiniteSet(1 .. n)
  BY <1>1, FS_Interval
<1> HIDE DEF s, n, half
<1> DEFINE At(k) == s[sorted[k]]
<1>5. \A i \in 1 .. n : At(i) \in Nat /\ \A j \in 1 .. n : i <= j => At(i) <= At(j)
  <2> SUFFICES ASSUME NEW i \in 1 .. n, NEW j \in 1 .. n, i <= j
               PROVE  At(i) \in Nat /\ At(i) <= At(j)
    BY <1>1, <1>3
  <2>1. At(i) \in Nat /\ At(j) \in Nat
    BY <1>1, <1>3
  <2>2. i = j \/ i < j
    BY <1>1
  <2>3. QED
    BY <2>1, <2>2
<1>6. \A d : IsFiniteSet(AtMost(d)) /\ Cardinality(AtMost(d)) \in Nat /\ AtMost(d) \subseteq 1 .. n
  BY <1>1, <1>4, FS_Subset, FS_CardinalityType
\* The first half + 1 of the sorted samples do not exceed the middle one.
<1>7. ExceedsHalf(middle, s)
  <2> DEFINE g == [j \in 1 .. (half + 1) |-> sorted[j]]
  <2>1. ASSUME NEW j \in 1 .. (half + 1)
        PROVE  j \in 1 .. n /\ sorted[j] \in AtMost(middle)
    <3>1. j \in 1 .. n /\ j <= half + 1
      BY <1>1, <1>2
    <3>2. At(j) <= middle
      BY <1>2, <1>5, <3>1
    <3>3. QED
      BY <1>1, <1>3, <3>1, <3>2
  <2> HIDE DEF AtMost
  <2>2. g \in Injection(1 .. (half + 1), AtMost(middle))
    <3>1. g \in [1 .. (half + 1) -> AtMost(middle)]
      BY <2>1
    <3>2. \A i, j \in 1 .. (half + 1) : g[i] = g[j] => i = j
      BY <1>3, <2>1
    <3> HIDE DEF g
    <3>3. QED
      BY <3>1, <3>2 DEF Injection, IsInjective
  <2> HIDE DEF g
  <2>3. Cardinality(1 .. (half + 1)) <= Cardinality(AtMost(middle))
    BY <1>6, <2>2, FS_Injection
  <2>4. Cardinality(1 .. (half + 1)) = half + 1
    BY <1>2, FS_Interval
  <2>5. 2 * Cardinality(AtMost(middle)) > n
    BY <1>1, <1>2, <1>6, <2>3, <2>4
  <2>6. QED
    BY <2>5 DEF ExceedsHalf, AtMost, n
\* What is below the middle one does not exceed more than the first half.
<1>8. ASSUME NEW c \in Nat, c < middle  PROVE  ~ExceedsHalf(c, s)
  <2> DEFINE Low == {sorted[j] : j \in 1 .. half}
             g == [j \in 1 .. half |-> sorted[j]]
  <2>1. ASSUME NEW x \in AtMost(c)  PROVE  x \in Low
    <3>1. x \in 1 .. n /\ s[x] <= c
      BY <1>1
    <3>2. PICK j \in 1 .. n : sorted[j] = x
      BY <1>3, <3>1
    <3>3. At(j) \in Nat /\ middle \in Nat /\ ~(middle <= At(j))
      BY <1>2, <1>5, <1>8, <3>1, <3>2
    <3>4. ~(half + 1 <= j)
      BY <1>2, <1>5, <3>3
    <3>5. j \in 1 .. half
      BY <1>1, <1>2, <3>4
    <3>6. QED
      BY <3>2, <3>5
  <2>2. g \in Surjection(1 .. half, Low)
    <3>1. g \in [1 .. half -> Low] /\ \A x \in Low : \E j \in 1 .. half : g[j] = x
      OBVIOUS
    <3> HIDE DEF g, Low
    <3>2. QED
      BY <3>1 DEF Surjection
  <2>3. IsFiniteSet(1 .. half) /\ Cardinality(1 .. half) = half
    <3>1. half \in Int /\ 1 \in Int /\ (1 > half => half = 0) /\ half - 1 + 1 = half
      BY <1>2
    <3>2. /\ IsFiniteSet(1 .. half)
          /\ Cardinality(1 .. half) = IF 1 > half THEN 0 ELSE half - 1 + 1
      BY <3>1, FS_Interval
    <3>3. QED
      BY <3>1, <3>2
  <2> HIDE DEF g, Low, AtMost
  <2>4. IsFiniteSet(Low) /\ Cardinality(Low) <= half
    BY <2>2, <2>3, FS_Surjection
  <2>5. AtMost(c) \subseteq Low
    BY <2>1
  <2>6. Cardinality(Low) \in Nat /\ Cardinality(AtMost(c)) <= Cardinality(Low)
    BY <2>4, <2>5, FS_Subset, FS_CardinalityType
  <2>7. ~(2 * Cardinality(AtMost(c)) > n)
    BY <1>1, <1>2, <1>6, <2>4, <2>6
  <2>8. QED
    BY <2>7 DEF ExceedsHalf, AtMost, n
<1> DEFINE above == {s[i] : i \in {j \in DOMAIN s : ExceedsHalf(s[j], s)}}
<1>9. middle \in above /\ \A c \in above : c \in Nat /\ ExceedsHalf(c, s)
  <2>1. sorted[half + 1] \in DOMAIN s
    BY <1>1, <1>2, <1>3
  <2>2. middle \in above
    BY <1>7, <2>1
  <2>3. \A c \in above : \E i \in DOMAIN s : c = s[i] /\ ExceedsHalf(s[i], s)
    OBVIOUS
  <2>4. QED
    BY <1>1, <2>2, <2>3
<1>10. middle \in Nat /\ \A c \in above : middle <= c
  <2>1. middle \in Nat
    BY <1>2, <1>5
  <2> HIDE DEF above, middle
  <2>2. QED
    BY <1>8, <1>9, <2>1
<1>11. Median(s) \in above /\ \A c \in above : Median(s) <= c
  <2> HIDE DEF middle
  <2>1. QED
    BY <1>9, <1>10 DEF Median
<1>12. Median(s) = middle
  <2> HIDE DEF above, middle
  <2>1. Median(s) \in Nat /\ Median(s) <= middle /\ middle <= Median(s)
    BY <1>9, <1>10, <1>11
  <2>2. QED
    BY <1>10, <2>1
<1>13. QED
  BY <1>12 DEF half

\* In every state the plan is the one the loop of rebalance() computes, no
\* order of the queue would save what it misses, and the median is the sample
\* in the middle.
THEOREM PlannerStaysRight == ChannelSpec => []PlannerIsRight
<1>1. ChannelInv => PlannerIsRight
  BY ChannelAssumption, PlanByTheLoop, PlanIsBest, MedianInTheMiddle DEF PlannerIsRight
<1>2. QED
  BY <1>1, ChannelInvariant, PTL

\* A step that leaves the clock and the task in process alone adds to the
\* queue at most one entry, numbered after all the others.
LEMMA NewEntriesAreLast ==
  ASSUME ChannelAssumption, ChannelInv, ChannelNext, now' = now, current' = current,
         NEW e \in pending' \ pending
  PROVE  e.arrival = arrivals
<1>1. PICK t \in Tasks, life \in Lifetimes, est \in Estimates \cup {AverageActualDuration} :
        Enqueue(t, now + life, est)
  BY DEF ChannelNext, DequeueTask, StartNext, Complete, Freeze, Unfreeze, Tick
<1>2. pending' = pending \cup
        {[task |-> t, expires |-> now + life, est |-> est, arrival |-> arrivals]}
  BY <1>1 DEF Enqueue
<1>3. QED
  BY <1>2

\* An entry keeps its start, or gets an earlier one, as long as time stands
\* still, the task in process stays and what is added expires no earlier: the
\* new entries are not ahead of it, and the sum over those ahead only shrinks.
THEOREM PromisesSurvive == ChannelSpec => LaterDeadlinesDoNotDelay
<1> DEFINE Kept == now' = now /\ current' = current =>
                     \A e \in pending \cap pending' :
                       (\A n \in pending' \ pending : e.expires <= n.expires) =>
                          StartOf(e)' <= StartOf(e)
<1>1. ASSUME ChannelInv, ChannelNext, ChannelInv'  PROVE  Kept
  <2> SUFFICES ASSUME now' = now, current' = current, NEW e \in pending \cap pending',
                      \A n \in pending' \ pending : e.expires <= n.expires
               PROVE  StartOf(e)' <= StartOf(e)
    OBVIOUS
  <2>1. Ahead(e)' \subseteq Ahead(e)
    <3> SUFFICES ASSUME NEW f \in pending', Before(f, e)  PROVE  f \in pending
      BY DEF Ahead, Before
    <3>1. SUFFICES ASSUME f \notin pending  PROVE  FALSE
      OBVIOUS
    <3>2. f.arrival = arrivals /\ e.expires <= f.expires
      BY <1>1, <3>1, NewEntriesAreLast, ChannelAssumption
    <3>3. e.arrival < arrivals /\ e \in Entry /\ f \in Entry /\ arrivals \in Nat
      BY <1>1 DEF ChannelInv, ChannelTypeOK, ArrivalsAreUnique
    <3>4. QED
      BY <3>2, <3>3 DEF Before, Entry
  <2>2. /\ Ahead(e) \subseteq pending /\ IsFiniteSet(Ahead(e))
        /\ \A f \in pending : Slots[f] = f.est + MinInterval /\ Slots[f] \in Nat
        /\ SumFunctionOnSet(Slots, Ahead(e)) \in Nat /\ FirstStart \in Nat
    BY <1>1, PlanFacts, ChannelAssumption
  <2>3. FirstStart' = FirstStart
    BY DEF FirstStart, LastFinish, Later
  <2>4. Ahead(e)' \subseteq pending' /\ IsFiniteSet(Ahead(e)') /\ Ahead(e)' \subseteq pending
    <3>1. Ahead(e)' \subseteq pending'
      BY DEF Ahead
    <3>2. QED
      BY <2>1, <2>2, <3>1, FS_Subset
  <2>5. \A f \in Ahead(e)' : Slots'[f] \in Nat /\ Slots'[f] = Slots[f]
    <3>1. \A f \in pending' : Slots'[f] = f.est + MinInterval
      BY DEF Slots
    <3>2. QED
      BY <2>2, <2>4, <3>1
  <2>6. SumFunctionOnSet(Slots', Ahead(e)') = SumFunctionOnSet(Slots, Ahead(e)')
    BY <2>4, <2>5, SumAgree
  <2>7. SumFunctionOnSet(Slots, Ahead(e)') <= SumFunctionOnSet(Slots, Ahead(e))
    <3>1. \A f \in Ahead(e) : Slots[f] \in Nat
      BY <2>2
    <3>2. QED
      BY <2>1, <2>2, <3>1, SumMonotone
  <2>8. StartOf(e)' = FirstStart + SumFunctionOnSet(Slots, Ahead(e)')
    BY <2>3, <2>6 DEF StartOf
  <2>9. SumFunctionOnSet(Slots, Ahead(e)') \in Nat
    <3>1. \A f \in Ahead(e)' : Slots[f] \in Nat
      BY <2>2, <2>4
    <3>2. QED
      BY <2>4, <3>1, SumType
  <2>10. StartOf(e) = FirstStart + SumFunctionOnSet(Slots, Ahead(e))
    BY DEF StartOf
  <2>11. QED
    BY <2>2, <2>7, <2>8, <2>9, <2>10
<1>2. ChannelInv /\ [ChannelNext]_channelVars /\ ChannelInv' => [Kept]_channelVars
  BY <1>1
<1>3. ChannelSpec => [][Kept]_channelVars
  BY <1>2, ChannelInvariant, PTL DEF ChannelSpec
<1>4. QED
  BY <1>3 DEF LaterDeadlinesDoNotDelay
=============================================================================
