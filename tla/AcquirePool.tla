---------------------------- MODULE AcquirePool ----------------------------
(***************************************************************************)
(* The pool that bounds how many acquire phases run at once                *)
(* (packages/server/order-shared/acquire-pool/index.js): a slot is granted *)
(* while fewer than globalMax slots are held and fewer than siteMax[s] of  *)
(* them on site s, and a request that cannot be granted waits in a queue   *)
(* until a slot is free or its timer rejects it.                           *)
(*                                                                         *)
(* A request is one call of acquire(): its slot, its queue entry, its      *)
(* timer and the promise its caller awaits all go by the same name.  A     *)
(* request whose promise is settled and whose slot is back is reused for   *)
(* a fresh call, so that the model runs forever on finitely many names.    *)
(***************************************************************************)
EXTENDS Naturals, FiniteSets

CONSTANTS Requests,    \* the calls of acquire() that may be outstanding
          Sites,       \* the sites of the ordering adapters
          SiteOf,      \* the site each request asks a slot of
          GlobalLimit, \* globalMaxConcurrent when the pool is built
          SiteLimit,   \* the per-site limit of each site when it is built
          GlobalLimits,\* values setGlobalMaxConcurrent is called with
          SiteLimits   \* values setMaxConcurrentPerSite is called with

ASSUME PoolAssumption ==
  /\ IsFiniteSet(Requests)
  /\ SiteOf \in [Requests -> Sites]
  /\ GlobalLimit \in Nat
  /\ SiteLimit \in [Sites -> Nat]
  /\ GlobalLimits \subseteq Nat
  /\ SiteLimits \subseteq Nat

VARIABLES globalMax,   \* globalMaxConcurrent
          siteMax,     \* perSiteLimits, the default filled in
          active,      \* the slots held, the union of the map's sets
          queue,       \* the requests waiting for a slot
          ahead,       \* for each of them, those before it in the queue
          timers,      \* the requests whose wait timer is armed
          caller       \* what the promise returned to the caller has done

limits == <<globalMax, siteMax>>
poolVars == <<globalMax, siteMax, active, queue, ahead, timers, caller>>

CallerStates == {"idle", "awaiting", "granted"}

PoolTypeOK ==
  /\ globalMax \in Nat
  /\ siteMax \in [Sites -> Nat]
  /\ active \subseteq Requests
  /\ queue \subseteq Requests
  /\ ahead \in [Requests -> SUBSET Requests]
  /\ timers \subseteq Requests
  /\ caller \in [Requests -> CallerStates]

PoolInit ==
  /\ globalMax = GlobalLimit
  /\ siteMax = SiteLimit
  /\ active = {}
  /\ queue = {}
  /\ ahead = [r \in Requests |-> {}]
  /\ timers = {}
  /\ caller = [r \in Requests |-> "idle"]

-----------------------------------------------------------------------------

OnSite(held, s) == {r \in held : SiteOf[r] = s}

\* #canAcquire, with the slots of `held` taken and the given limits.
CanAcquire(held, s, gmax, smax) ==
  /\ Cardinality(held) < gmax
  /\ Cardinality(OnSite(held, s)) < smax[s]

\* Mutant of DrainPass: the loop breaks at the first request it cannot grant.
DrainPassBreaks(G, held, gmax, smax) ==
  \A r \in queue :
    r \in G <=> /\ ahead[r] \subseteq G
               /\ CanAcquire(held \cup (G \cap ahead[r]), SiteOf[r], gmax, smax)

\* Mutant of DrainPass: #canAcquire counts before the pass, not as it goes.
DrainPassCountsOnce(G, held, gmax, smax) ==
  \A r \in queue : r \in G <=> CanAcquire(held, SiteOf[r], gmax, smax)

\* Mutant of DrainPass: the queue is walked back to front.
DrainPassBackwards(G, held, gmax, smax) ==
  \A r \in queue :
    LET behind == {q \in G : r \in ahead[q]}
    IN r \in G <=> CanAcquire(held \cup behind, SiteOf[r], gmax, smax)

\* One pass of #drain over a copy of the queue, front to back: G is what it
\* grants.  A request gets a slot exactly when #canAcquire holds with the
\* slots held before the pass and those the pass gave to requests ahead.
DrainPass(G, held, gmax, smax) ==
  \A r \in queue :
    r \in G <=> CanAcquire(held \cup (G \cap ahead[r]), SiteOf[r], gmax, smax)

\* Where a request stands in the queue, counted from 1.
Place(r) == Cardinality(ahead[r]) + 1

\* The same pass as the loop of the code over a copy of the queue:
\* for (const request of [...this.queue]) { if (!can) continue; ... }
DrainLoop(held, gmax, smax) ==
  LET granted[i \in 0..Cardinality(queue)] ==
        IF i = 0 THEN {}
        ELSE granted[i - 1] \cup
               {r \in queue : /\ Place(r) = i
                             /\ CanAcquire(held \cup granted[i - 1], SiteOf[r], gmax, smax)}
  IN granted[Cardinality(queue)]

\* Mutants of Dequeue: entries left behind, and entries lost.
DequeueLeavesTrace(S) ==
  /\ queue' = queue \ S
  /\ ahead' = [r \in Requests |-> IF r \in S THEN {} ELSE ahead[r]]
DequeueForgets(S) ==
  /\ queue' = queue \ S
  /\ ahead' = [r \in queue \ S |-> ahead[r] \ S]

\* The queue with the requests of S taken out, the order of the others kept.
Dequeue(S) ==
  /\ queue' = queue \ S
  /\ ahead' = [r \in Requests |-> IF r \in S THEN {} ELSE ahead[r] \ S]

\* #drain, run last by every operation that may free capacity.  A granted
\* request leaves the queue, its timer is cleared and its promise resolved.
Drain(held, calls, gmax, smax) ==
  \E G \in SUBSET queue :
    /\ DrainPass(G, held, gmax, smax)
    /\ active' = held \cup G
    /\ Dequeue(G)
    /\ timers' = timers \ G
    /\ caller' = [r \in Requests |-> IF r \in G THEN "granted" ELSE calls[r]]

\* acquire(): a slot at once, or a place at the end of the queue and a timer.
Acquire(r) ==
  /\ caller[r] = "idle"
  /\ \/ /\ CanAcquire(active, SiteOf[r], globalMax, siteMax)
        /\ active' = active \cup {r}
        /\ caller' = [caller EXCEPT ![r] = "granted"]
        /\ UNCHANGED <<queue, ahead, timers>>
     \/ /\ ~CanAcquire(active, SiteOf[r], globalMax, siteMax)
        /\ queue' = queue \cup {r}
        /\ ahead' = [ahead EXCEPT ![r] = queue]
        /\ timers' = timers \cup {r}
        /\ caller' = [caller EXCEPT ![r] = "awaiting"]
        /\ UNCHANGED active
  /\ UNCHANGED limits

\* Mutant of TimeOut: the promise is rejected, the request stays queued.
TimeOutKeepsQueued(r) ==
  /\ r \in timers
  /\ timers' = timers \ {r}
  /\ caller' = [caller EXCEPT ![r] = IF @ = "awaiting" THEN "idle" ELSE @]
  /\ UNCHANGED <<globalMax, siteMax, active, queue, ahead>>

\* The wait timer fires: the request is filtered out of the queue and its
\* promise rejected with no_acquire_slot, which does nothing to a promise
\* that is already resolved.
TimeOut(r) ==
  /\ r \in timers
  /\ timers' = timers \ {r}
  /\ Dequeue({r})
  /\ caller' = [caller EXCEPT ![r] = IF @ = "awaiting" THEN "idle" ELSE @]
  /\ UNCHANGED <<globalMax, siteMax, active>>

\* Mutant of Release: no drain.
ReleaseWithoutDrain(r) ==
  /\ caller[r] = "granted"
  /\ active' = active \ {r}
  /\ caller' = [caller EXCEPT ![r] = "idle"]
  /\ UNCHANGED <<globalMax, siteMax, queue, ahead, timers>>

\* release(), by the caller that holds the slot.
Release(r) ==
  /\ caller[r] = "granted"
  /\ Drain(active \ {r}, [caller EXCEPT ![r] = "idle"], globalMax, siteMax)
  /\ UNCHANGED limits

SetMaxConcurrentPerSite(s, n) ==
  /\ siteMax' = [siteMax EXCEPT ![s] = n]
  /\ Drain(active, caller, globalMax, siteMax')
  /\ UNCHANGED globalMax

SetGlobalMaxConcurrent(n) ==
  /\ globalMax' = n
  /\ Drain(active, caller, n, siteMax)
  /\ UNCHANGED siteMax

PoolNext ==
  \/ \E r \in Requests : Acquire(r) \/ TimeOut(r) \/ Release(r)
  \/ \E s \in Sites, n \in SiteLimits : SetMaxConcurrentPerSite(s, n)
  \/ \E n \in GlobalLimits : SetGlobalMaxConcurrent(n)

PoolSpec == PoolInit /\ [][PoolNext]_poolVars

-----------------------------------------------------------------------------
(* Properties *)

\* Every slot is held by a caller that was told so and will release it, and
\* every caller still waiting is in the queue with a timer.  A grant to a
\* request that its timer rejected would lose the slot for good.
PromiseAccounting ==
  /\ active = {r \in Requests : caller[r] = "granted"}
  /\ queue = {r \in Requests : caller[r] = "awaiting"}
  /\ timers = queue

\* No request waits while the limits would let it run: every operation that
\* frees capacity has drained the queue, and a queued request of a full site
\* does not keep back those of other sites behind it.
WorkConserving ==
  \A r \in queue : ~CanAcquire(active, SiteOf[r], globalMax, siteMax)

\* `ahead` describes a queue: a strict total order of the waiting requests.
QueueOrder ==
  /\ \A r \in Requests : ahead[r] \subseteq queue
  /\ \A r \in Requests \ queue : ahead[r] = {}
  /\ \A r \in queue : r \notin ahead[r]
  /\ \A q, r \in queue : q # r => (q \in ahead[r] <=> r \notin ahead[q])
  /\ \A q, r \in queue : q \in ahead[r] => ahead[q] \subseteq ahead[r]

\* The per-site limits that a drain of the next operation may run with: those
\* in force, or those with the limit of one site set anew.
SiteMaxima ==
  {siteMax} \cup {[siteMax EXCEPT ![s] = n] : s \in Sites, n \in SiteLimits}

\* Whatever slots are given back, and with the limits in force, each site's its
\* own, or changed by either setter, the loop of #drain grants the set that
\* DrainPass names, and DrainPass names one set only.
DrainIsTheLoop ==
  \A lost \in SUBSET active, gmax \in GlobalLimits \cup {globalMax}, smax \in SiteMaxima :
    LET held == active \ lost
    IN {G \in SUBSET queue : DrainPass(G, held, gmax, smax)} = {DrainLoop(held, gmax, smax)}

\* A slot is only ever granted within the limits in force after the step,
\* also when the step lowers them or grants several slots at once.
GrantsWithinLimits ==
  [][\A r \in active' \ active :
       /\ Cardinality(active') <= globalMax'
       /\ Cardinality(OnSite(active', SiteOf[r])) <= siteMax'[SiteOf[r]]]_poolVars

\* Slots of one site are granted in the order they were asked for: no caller,
\* queued or arriving, is served before one of its site that waited already.
NoOvertaking ==
  [][\A r \in active' \ active :
       \A q \in (IF r \in queue THEN ahead[r] ELSE queue) :
          SiteOf[q] = SiteOf[r] => q \notin queue']_poolVars

\* The pool in order: types, slots and promises that agree, and a queue.
PoolConsistent == PoolTypeOK /\ PromiseAccounting /\ QueueOrder
=============================================================================
