--------------------------- MODULE PaymentChannel ---------------------------
(***************************************************************************)
(* The queue of one payment method                                         *)
(* (packages/server/order-shared/payment-channel/index.js): reservations   *)
(* wait in it for their turn to be paid, the one that expires first ahead, *)
(* one is processed at a time, and a frozen channel starts nothing.        *)
(*                                                                         *)
(* Every operation that changes `pending` ends with rebalance(), whose     *)
(* sort is stable: the array is then the set of its entries ordered by     *)
(* deadline and, for equal deadlines, by arrival, and so it is modelled.   *)
(* The plan rebalance() writes into the entries is a function of the state *)
(* (StartOf, RiskOf); what the code reads of it, the risk enqueue()        *)
(* returns and the start startNext() takes, is read just after rebalance().*)
(***************************************************************************)
EXTENDS Naturals, Sequences, FiniteSets, Functions

CONSTANTS Tasks,           \* the tasks that pay with this method
          None,            \* no task is being processed
          MinInterval,     \* minIntervalMs
          TightMargin,     \* the 120000 ms under which a margin is tight
          TypicalDuration, \* typicalDurationMs
          MaxQueueSize,    \* maxQueueSize
          MinSamples,      \* samples from which the median is used (5)
          MaxSamples,      \* samples kept (50)
          Lifetimes,       \* how long a reservation may still live when enqueued
          Estimates,       \* durations the adapters declare for a settle phase
          MaxTime,         \* bound: the clock stops here
          MaxArrivals      \* bound: calls of enqueue() that succeed

ASSUME ChannelAssumption ==
  /\ MinInterval \in Nat /\ TightMargin \in Nat /\ TypicalDuration \in Nat
  /\ MaxQueueSize \in Nat /\ MinSamples \in Nat \ {0} /\ MaxSamples \in Nat
  /\ MaxTime \in Nat /\ MaxArrivals \in Nat
  /\ Lifetimes \subseteq Nat /\ Estimates \subseteq Nat

\* What the channel keeps of a queued task, and of the one it processes.
Entry == [task : Tasks, expires : Nat, est : Nat, arrival : Nat]
Processing == [task : Tasks, expires : Nat, startedAt : Nat, finishAt : Nat]

ASSUME NoneAssumption == None \notin Processing

VARIABLES now,        \* the channel's clock
          isFrozen,
          current,    \* currentlyProcessing
          pending,    \* the queue, a set of entries
          arrivals,   \* successful enqueues so far, which order equal deadlines
          durations,  \* durations recorded by complete(), oldest first
          lastBegun   \* history: when startNext() last gave a task out

channelVars == <<now, isFrozen, current, pending, arrivals, durations, lastBegun>>

ChannelTypeOK ==
  /\ now \in Nat
  /\ isFrozen \in BOOLEAN
  /\ current \in Processing \cup {None}
  /\ pending \subseteq Entry
  /\ arrivals \in Nat
  /\ durations \in Seq(Nat)
  /\ lastBegun \in Nat \cup {None}

ChannelInit ==
  /\ now = 0
  /\ isFrozen = FALSE
  /\ current = None
  /\ pending = {}
  /\ arrivals = 0
  /\ durations = <<>>
  /\ lastBegun = None

-----------------------------------------------------------------------------
(* rebalance() *)

Later(a, b) == IF a >= b THEN a ELSE b

Elapsed(from) == IF now >= from THEN now - from ELSE 0

\* Mutants of Before: equal deadlines not told apart, last come first for
\* equal deadlines, and first come first whatever the deadlines.
BeforeByDeadline(e, f) == e.expires < f.expires
BeforeLastCome(e, f) ==
  \/ e.expires < f.expires
  \/ e.expires = f.expires /\ e.arrival > f.arrival
BeforeByArrival(e, f) == e.arrival < f.arrival

\* The order of the stable sort by reservationExpiresAt.
Before(e, f) ==
  \/ e.expires < f.expires
  \/ e.expires = f.expires /\ e.arrival < f.arrival

IsFirst(e) == e \in pending /\ \A f \in pending \ {e} : Before(e, f)

LastFinish == IF current = None THEN now ELSE current.finishAt

\* The plan: the first entry starts minInterval after the task in process is
\* expected to finish, and each other one minInterval after the one before.
Ahead(e) == {f \in pending : Before(f, e)}

FirstStart == Later(now, LastFinish + MinInterval)

Slots == [e \in pending |-> e.est + MinInterval]

StartOf(e) == FirstStart + SumFunctionOnSet(Slots, Ahead(e))

FinishOf(e) == StartOf(e) + e.est

RiskOf(e) ==
  IF FinishOf(e) > e.expires THEN "will_miss"
  ELSE IF FinishOf(e) + TightMargin > e.expires THEN "tight" ELSE "safe"

\* The entry whose risk enqueue() returns: the first the task has.
EntryOf(t) ==
  CHOOSE e \in pending :
    e.task = t /\ \A f \in pending \ {e} : f.task = t => Before(e, f)

\* averageActualDurationMs(): sorted[floor(n / 2)] once there are enough
\* samples, the least value that more than half of them do not exceed.
ExceedsHalf(d, s) == 2 * Cardinality({i \in DOMAIN s : s[i] <= d}) > Len(s)

Median(s) ==
  LET above == {s[i] : i \in {j \in DOMAIN s : ExceedsHalf(s[j], s)}}
  IN CHOOSE d \in above : \A c \in above : d <= c

AverageActualDuration ==
  IF Len(durations) < MinSamples THEN TypicalDuration ELSE Median(durations)

-----------------------------------------------------------------------------
(* Operations.  One that throws, or ignores its argument, changes nothing. *)

CanEnqueue == ~isFrozen /\ Cardinality(pending) < MaxQueueSize

\* enqueue(), of a reservation that lives until `expires`; est is the
\* adapter's estimate, or the channel's average where it declares none.
Enqueue(t, expires, est) ==
  /\ CanEnqueue
  /\ arrivals < MaxArrivals
  /\ pending' = pending \cup
       {[task |-> t, expires |-> expires, est |-> est, arrival |-> arrivals]}
  /\ arrivals' = arrivals + 1
  /\ UNCHANGED <<now, isFrozen, current, durations, lastBegun>>

\* dequeue(): every entry of the task, and the task itself if in process.
DequeueTask(t) ==
  /\ pending' = {e \in pending : e.task # t}
  /\ current' = IF current # None /\ current.task = t THEN None ELSE current
  /\ UNCHANGED <<now, isFrozen, arrivals, durations, lastBegun>>

\* Mutant of CanStart: a frozen channel starts the next task.
CanStartFrozen == current = None /\ pending # {}

CanStart == ~isFrozen /\ current = None /\ pending # {}

\* startNext(): nothing when frozen, busy or empty.  The caller starts to pay
\* as soon as it has the task, whatever startedAt says.
StartNext(forceNow) ==
  /\ CanStart
  /\ \E e \in pending :
       LET startAt == IF forceNow THEN now ELSE Later(now, LastFinish + MinInterval)
       IN /\ IsFirst(e)
          /\ current' = [task |-> e.task, expires |-> e.expires, startedAt |-> startAt,
                         finishAt |-> startAt + e.est]
          /\ pending' = pending \ {e}
  /\ lastBegun' = now
  /\ UNCHANGED <<now, isFrozen, arrivals, durations>>

\* complete() by the task in process; of another task it is ignored.
Complete(t, ok) ==
  /\ current # None /\ current.task = t
  /\ LET all == IF ok THEN Append(durations, Elapsed(current.startedAt)) ELSE durations
     IN durations' = IF Len(all) > MaxSamples THEN Tail(all) ELSE all
  /\ current' = None
  /\ UNCHANGED <<now, isFrozen, pending, arrivals, lastBegun>>

Freeze ==
  /\ isFrozen' = TRUE
  /\ UNCHANGED <<now, current, pending, arrivals, durations, lastBegun>>

Unfreeze ==
  /\ isFrozen' = FALSE
  /\ UNCHANGED <<now, current, pending, arrivals, durations, lastBegun>>

Tick ==
  /\ now < MaxTime
  /\ now' = now + 1
  /\ UNCHANGED <<isFrozen, current, pending, arrivals, durations, lastBegun>>

ChannelNext ==
  \/ \E t \in Tasks, life \in Lifetimes, est \in Estimates \cup {AverageActualDuration} :
       Enqueue(t, now + life, est)
  \/ \E t \in Tasks : DequeueTask(t)
  \/ \E forceNow \in BOOLEAN : StartNext(forceNow)
  \/ \E t \in Tasks, ok \in BOOLEAN : Complete(t, ok)
  \/ Freeze
  \/ Unfreeze
  \/ Tick

ChannelSpec == ChannelInit /\ [][ChannelNext]_channelVars

-----------------------------------------------------------------------------
(* Properties *)

\* A task is given out only by an idle channel that is not frozen, only to
\* take the place of nothing, and leaves none behind it in the queue that
\* expires earlier, nor one that expires with it and came first.
StartsInTurn ==
  [][current' # None /\ current' # current =>
       /\ current = None /\ ~isFrozen
       /\ \E e \in pending :
            /\ e.task = current'.task
            /\ pending' = pending \ {e}
            /\ \A f \in pending' : Before(e, f)]_channelVars

\* What enqueue() promised a reservation survives every later enqueue() of
\* one that expires no earlier, and every dequeue(): its place in the plan
\* gets worse only with time, an overrun or a more urgent arrival.
LaterDeadlinesDoNotDelay ==
  [][now' = now /\ current' = current =>
       \A e \in pending \cap pending' :
         (\A n \in pending' \ pending : e.expires <= n.expires) =>
            StartOf(e)' <= StartOf(e)]_channelVars

\* Entries are told apart by their arrival, so the queue is totally ordered
\* and one entry is first whenever it is not empty.
QueueIsOrdered ==
  /\ \A e, f \in pending : e # f => (Before(e, f) <=> ~Before(f, e))
  /\ \A e \in pending : e.arrival < arrivals
  /\ pending # {} => \E e \in pending : IsFirst(e)

\* The channel in order: types, and a queue with one first entry.
ChannelConsistent == ChannelTypeOK /\ QueueIsOrdered

\* The plan is the one the loop of rebalance() computes over the sorted array:
\* each entry starts minInterval after the one just before it finishes, the
\* first one minInterval after the task in process does, and none in the past.
PlanIsTheLoop ==
  \A e \in pending :
    \/ IsFirst(e) /\ StartOf(e) = Later(now, LastFinish + MinInterval)
    \/ \E f \in pending :
         /\ Ahead(e) = Ahead(f) \cup {f}
         /\ StartOf(e) = Later(now, FinishOf(f) + MinInterval)

\* When the entries are paid in some order, one after the other.
FinishInOrder(order, i) ==
  FirstStart + SumFunctionOnSet(Slots, {order[j] : j \in 1 .. (i - 1)}) + order[i].est

\* Once the plan misses a reservation, no other order of the queue keeps them
\* all: paying the one that expires first never costs a reservation that
\* another order would have saved.
PlanIsOptimal ==
  (\E e \in pending : RiskOf(e) = "will_miss") =>
     \A order \in Bijection(1 .. Cardinality(pending), pending) :
       \E i \in DOMAIN order : FinishInOrder(order, i) > order[i].expires

\* However the samples are sorted, sorted[Math.floor(sorted.length / 2)].
MedianIsTheMiddle ==
  LET n == Len(durations)
  IN durations # <<>> =>
       \A sorted \in Bijection(1 .. n, 1 .. n) :
         (\A i, j \in 1 .. n : i < j => durations[sorted[i]] <= durations[sorted[j]]) =>
            Median(durations) = durations[sorted[(n \div 2) + 1]]

\* The arithmetic of the channel, against its loops and the best one can do:
\* the starts that rebalance() plans, the risk they imply, and the median.
PlannerIsRight == PlanIsTheLoop /\ PlanIsOptimal /\ MedianIsTheMiddle

\* docs/04-shared/payment-channel.md:158 and docs/DESIGN.md:267: at least
\* minInterval between successive payment starts, unless forced.
MinIntervalBetweenStarts ==
  [][\A e \in pending \ pending' :
       current' # None /\ current' # current /\ lastBegun # None =>
         \/ now >= lastBegun + MinInterval
         \/ current'.startedAt = now]_channelVars
=============================================================================
