------------------------ MODULE Sniper2PipelineProofs ------------------------
(***************************************************************************)
(* The pool for any finite set of requests, any sites and any limits.  Its *)
(* inductive invariant is PoolInv: PromiseAccounting says who holds a      *)
(* slot, which WorkConserving needs when a slot is returned, and           *)
(* QueueOrder says that a request has no one ahead of it that is not       *)
(* waiting, which NoOvertaking needs of the pass over the queue.           *)
(*                                                                         *)
(* Then the pipeline, for any finite set of runs, any tasks and any        *)
(* assignment of runs to tasks.  It uses the pool as the pool expects      *)
(* (UsesThePool), so what is proved of the pool holds in it; that no slot  *)
(* leaks follows from CallersMatch, which ties what the pool told a caller *)
(* to where the run of that caller is suspended.                           *)
(***************************************************************************)
EXTENDS Sniper2Pipeline, PaymentChannelProofs

-----------------------------------------------------------------------------
(* The pool *)

PoolInv ==
  /\ PoolTypeOK
  /\ PromiseAccounting
  /\ QueueOrder
  /\ WorkConserving

USE DEF CallerStates

-----------------------------------------------------------------------------
(* Lemmas about the operators *)

\* More slots held never make a request grantable.
LEMMA CanAcquireMonotonic ==
  ASSUME PoolAssumption,
         NEW small \in SUBSET Requests, NEW big \in SUBSET Requests, small \subseteq big,
         NEW s \in Sites, NEW g \in Nat, NEW smax \in [Sites -> Nat],
         CanAcquire(big, s, g, smax)
  PROVE  CanAcquire(small, s, g, smax)
<1>1. IsFiniteSet(big) /\ IsFiniteSet(small)
  BY FS_Subset DEF PoolAssumption
<1>2. OnSite(small, s) \subseteq OnSite(big, s)
  BY DEF OnSite
<1>3. IsFiniteSet(OnSite(big, s)) /\ IsFiniteSet(OnSite(small, s))
  BY <1>1, FS_Subset DEF OnSite
<1>4. /\ Cardinality(small) <= Cardinality(big)
      /\ Cardinality(OnSite(small, s)) <= Cardinality(OnSite(big, s))
  BY <1>1, <1>2, <1>3, FS_Subset
<1>5. /\ Cardinality(small) \in Nat /\ Cardinality(big) \in Nat
      /\ Cardinality(OnSite(small, s)) \in Nat /\ Cardinality(OnSite(big, s)) \in Nat
  BY <1>1, <1>3, FS_CardinalityType
<1>6. QED
  BY <1>4, <1>5 DEF CanAcquire

\* A request that a pass over the queue leaves waiting cannot be granted
\* after the pass either: what the pass granted only adds to what is held.
LEMMA PassLeavesNoneGrantable ==
  ASSUME PoolAssumption, PoolTypeOK,
         NEW held \in SUBSET Requests, NEW g \in Nat, NEW smax \in [Sites -> Nat],
         NEW G \in SUBSET queue, DrainPass(G, held, g, smax),
         NEW r \in queue \ G
  PROVE  ~CanAcquire(held \cup G, SiteOf[r], g, smax)
<1>1. ~CanAcquire(held \cup (G \cap ahead[r]), SiteOf[r], g, smax)
  BY DEF DrainPass
<1>2. /\ held \cup G \in SUBSET Requests
      /\ held \cup (G \cap ahead[r]) \in SUBSET Requests
      /\ held \cup (G \cap ahead[r]) \subseteq held \cup G
      /\ SiteOf[r] \in Sites
  BY DEF PoolTypeOK, PoolAssumption
<1>3. QED
  BY <1>1, <1>2, CanAcquireMonotonic

\* Taking a set of requests out of the queue keeps the order of the others.
LEMMA DequeueKeepsOrder ==
  ASSUME PoolTypeOK, QueueOrder, NEW S \in SUBSET queue, Dequeue(S)
  PROVE  QueueOrder' /\ ahead' \in [Requests -> SUBSET Requests] /\ queue' \subseteq queue
<1>1. /\ queue' = queue \ S
      /\ ahead' = [r \in Requests |-> IF r \in S THEN {} ELSE ahead[r] \ S]
  BY DEF Dequeue
<1>2. \A r \in Requests : ahead'[r] = IF r \in S THEN {} ELSE ahead[r] \ S
  BY <1>1
<1>3. queue \subseteq Requests
  BY DEF PoolTypeOK
<1>4. \A r \in queue' : r \in queue /\ r \notin S /\ ahead'[r] = ahead[r] \ S
  BY <1>1, <1>2, <1>3
<1>5. \A r \in Requests : ahead'[r] \subseteq queue'
  BY <1>1, <1>2 DEF QueueOrder
<1>6. \A r \in Requests \ queue' : ahead'[r] = {}
  BY <1>1, <1>2 DEF QueueOrder
<1>7. \A r \in queue' : r \notin ahead'[r]
  BY <1>4 DEF QueueOrder
<1>8. \A q, r \in queue' : q # r => (q \in ahead'[r] <=> r \notin ahead'[q])
  BY <1>4 DEF QueueOrder
<1>9. \A q, r \in queue' : q \in ahead'[r] => ahead'[q] \subseteq ahead'[r]
  BY <1>4 DEF QueueOrder
<1>10. QED
  BY <1>1, <1>5, <1>6, <1>7, <1>8, <1>9 DEF QueueOrder, PoolTypeOK

\* What #drain establishes, whatever operation ends with it: `held` are the
\* slots held, and `calls` the callers, when the pass begins.
LEMMA DrainInv ==
  ASSUME PoolAssumption, PoolTypeOK, QueueOrder, timers = queue,
         NEW held \in SUBSET Requests, NEW calls \in [Requests -> CallerStates],
         held = {r \in Requests : calls[r] = "granted"},
         queue = {r \in Requests : calls[r] = "awaiting"},
         globalMax' \in Nat, siteMax' \in [Sites -> Nat],
         Drain(held, calls, globalMax', siteMax')
  PROVE  PoolInv'
<1>1. PICK G \in SUBSET queue :
        /\ DrainPass(G, held, globalMax', siteMax')
        /\ active' = held \cup G
        /\ Dequeue(G)
        /\ timers' = timers \ G
        /\ caller' = [r \in Requests |-> IF r \in G THEN "granted" ELSE calls[r]]
  BY DEF Drain
<1>2. /\ QueueOrder'
      /\ ahead' \in [Requests -> SUBSET Requests]
      /\ queue' = queue \ G
  BY <1>1, DequeueKeepsOrder DEF Dequeue
<1>3. PoolTypeOK'
  BY <1>1, <1>2 DEF PoolTypeOK
<1>4. PromiseAccounting'
  <2>1. \A r \in Requests : caller'[r] = IF r \in G THEN "granted" ELSE calls[r]
    BY <1>1
  <2>2. active' = {r \in Requests : caller'[r] = "granted"}
    BY <1>1, <2>1 DEF PoolTypeOK
  <2>3. queue' = {r \in Requests : caller'[r] = "awaiting"}
    BY <1>1, <1>2, <2>1 DEF PoolTypeOK
  <2>4. timers' = queue'
    BY <1>1, <1>2
  <2>5. QED
    BY <2>2, <2>3, <2>4 DEF PromiseAccounting
<1>5. WorkConserving'
  <2>1. SUFFICES ASSUME NEW r \in queue'
                 PROVE  ~CanAcquire(active', SiteOf[r], globalMax', siteMax')
    BY DEF WorkConserving, CanAcquire, OnSite
  <2>2. r \in queue \ G
    BY <1>2
  <2>3. QED
    BY <1>1, <2>2, PassLeavesNoneGrantable
<1>6. QED
  BY <1>2, <1>3, <1>4, <1>5 DEF PoolInv

\* Of the requests of a non-empty part of the queue, one is behind the others.
LEMMA LastInQueue ==
  ASSUME PoolAssumption, PoolTypeOK, QueueOrder,
         NEW S \in SUBSET queue, S # {}
  PROVE  \E last \in S : S \subseteq ahead[last] \cup {last}
<1> DEFINE Behind(r) == queue \ ahead[r]
           T == {Behind(r) : r \in S}
<1>1. queue \subseteq Requests /\ IsFiniteSet(queue)
  BY FS_Subset DEF PoolTypeOK, PoolAssumption
<1>2. T \subseteq FiniteSubsetsOf(queue) /\ T # {}
  <2>1. ASSUME NEW r \in S  PROVE  Behind(r) \in FiniteSubsetsOf(queue)
    BY <1>1, FS_Subset DEF FiniteSubsetsOf
  <2>2. QED
    BY <2>1
<1>3. IsWellFoundedOn(StrictSubsetOrdering(queue), FiniteSubsetsOf(queue))
  BY FS_StrictSubsetOrderingWellFounded
<1>4. PICK B \in T : \A C \in T : <<C, B>> \notin StrictSubsetOrdering(queue)
  <2> HIDE DEF T
  <2> QED BY <1>2, <1>3, WFMin
<1>5. PICK last \in S : B = Behind(last)
  BY <1>4
<1>6. ASSUME NEW r \in S, r # last  PROVE  r \in ahead[last]
  <2>1. SUFFICES ASSUME r \notin ahead[last]  PROVE  FALSE
    OBVIOUS
  <2>2. last \in ahead[r] /\ ahead[last] \subseteq ahead[r] /\ last \notin ahead[last]
    BY <1>6, <2>1 DEF QueueOrder
  <2>3. Behind(r) \subseteq Behind(last) /\ Behind(r) # Behind(last)
    BY <2>2
  <2>4. <<Behind(r), Behind(last)>> \in StrictSubsetOrdering(queue)
    BY <2>3 DEF StrictSubsetOrdering
  <2>5. QED
    BY <1>4, <1>5, <2>4
<1>7. QED
  BY <1>6

\* Adding an element adds at most one to the cardinality.
LEMMA AddOne ==
  ASSUME NEW S, NEW x, NEW n \in Nat, IsFiniteSet(S), Cardinality(S) < n
  PROVE  Cardinality(S \cup {x}) <= n
<1>1. Cardinality(S) \in Nat
  BY FS_CardinalityType
<1>2. Cardinality(S \cup {x}) = IF x \in S THEN Cardinality(S) ELSE Cardinality(S) + 1
  BY FS_AddElement
<1>3. QED
  BY <1>1, <1>2

\* A slot granted while #canAcquire holds leaves both limits respected.
LEMMA GrantOneWithinLimits ==
  ASSUME PoolAssumption,
         NEW held \in SUBSET Requests, NEW r \in Requests,
         NEW g \in Nat, NEW smax \in [Sites -> Nat],
         CanAcquire(held, SiteOf[r], g, smax)
  PROVE  /\ Cardinality(held \cup {r}) <= g
         /\ Cardinality(OnSite(held \cup {r}, SiteOf[r])) <= smax[SiteOf[r]]
<1>1. IsFiniteSet(held) /\ IsFiniteSet(OnSite(held, SiteOf[r]))
  BY FS_Subset DEF PoolAssumption, OnSite
<1>2. OnSite(held \cup {r}, SiteOf[r]) = OnSite(held, SiteOf[r]) \cup {r}
  BY DEF OnSite
<1>3. smax[SiteOf[r]] \in Nat
  BY DEF PoolAssumption
<1>4. /\ Cardinality(held) < g
      /\ Cardinality(OnSite(held, SiteOf[r])) < smax[SiteOf[r]]
  BY DEF CanAcquire
<1>5. Cardinality(held \cup {r}) <= g
  BY <1>1, <1>4, AddOne
<1>6. Cardinality(OnSite(held, SiteOf[r]) \cup {r}) <= smax[SiteOf[r]]
  BY <1>1, <1>3, <1>4, AddOne
<1>7. QED
  BY <1>2, <1>5, <1>6

\* Nor does a pass over the queue exceed a limit: the last request it grants
\* found #canAcquire true with all the other grants made, and so did the last
\* one of each site.
LEMMA PassWithinLimits ==
  ASSUME PoolAssumption, PoolTypeOK, QueueOrder,
         NEW held \in SUBSET Requests, NEW g \in Nat, NEW smax \in [Sites -> Nat],
         NEW G \in SUBSET queue, DrainPass(G, held, g, smax), NEW r \in G
  PROVE  /\ Cardinality(held \cup G) <= g
         /\ Cardinality(OnSite(held \cup G, SiteOf[r])) <= smax[SiteOf[r]]
<1> DEFINE Served(q) == held \cup (G \cap ahead[q])
<1>1. \A q \in G : /\ q \in Requests
                   /\ Served(q) \in SUBSET Requests
                   /\ CanAcquire(Served(q), SiteOf[q], g, smax)
  BY DEF DrainPass, PoolTypeOK
<1>2. Cardinality(held \cup G) <= g
  <2>1. PICK last \in G : G \subseteq ahead[last] \cup {last}
    BY LastInQueue
  <2>2. held \cup G = Served(last) \cup {last}
    BY <2>1
  <2>3. QED
    BY <1>1, <2>2, GrantOneWithinLimits
<1>3. Cardinality(OnSite(held \cup G, SiteOf[r])) <= smax[SiteOf[r]]
  <2> DEFINE GS == {q \in G : SiteOf[q] = SiteOf[r]}
  <2>1. GS \in SUBSET queue /\ GS # {}
    OBVIOUS
  <2>2. PICK last \in GS : GS \subseteq ahead[last] \cup {last}
    <3> HIDE DEF GS
    <3> QED BY <2>1, LastInQueue
  <2>3. OnSite(held \cup G, SiteOf[r]) = OnSite(Served(last) \cup {last}, SiteOf[r])
    BY <2>2 DEF OnSite
  <2>4. SiteOf[last] = SiteOf[r] /\ last \in G
    BY <2>2
  <2>5. QED
    BY <1>1, <2>3, <2>4, GrantOneWithinLimits
<1>4. QED
  BY <1>2, <1>3

-----------------------------------------------------------------------------
(* The inductive invariant *)

\* A request that the pool turns away at once joins the end of the queue.
LEMMA EnqueueKeepsOrder ==
  ASSUME PoolTypeOK, QueueOrder, NEW r \in Requests \ queue,
         queue' = queue \cup {r},
         ahead' = [ahead EXCEPT ![r] = queue]
  PROVE  QueueOrder'
<1>1. ahead'[r] = queue /\ \A q \in Requests \ {r} : ahead'[q] = ahead[q]
  BY DEF PoolTypeOK
<1>2. \A q \in Requests : ahead'[q] \subseteq queue /\ r \notin ahead'[q]
  BY <1>1 DEF QueueOrder
<1>3. queue \subseteq Requests
  BY DEF PoolTypeOK
<1>4. \A q \in Requests : ahead'[q] \subseteq queue'
  BY <1>2
<1>5. \A q \in Requests \ queue' : ahead'[q] = {}
  BY <1>1 DEF QueueOrder
<1>6. \A q \in queue' : q \notin ahead'[q]
  BY <1>1, <1>3 DEF QueueOrder
<1>7. \A p, q \in queue' : p # q => (p \in ahead'[q] <=> q \notin ahead'[p])
  BY <1>1, <1>2, <1>3 DEF QueueOrder
<1>8. \A p, q \in queue' : p \in ahead'[q] => ahead'[p] \subseteq ahead'[q]
  BY <1>1, <1>2, <1>3 DEF QueueOrder
<1>9. QED
  BY <1>4, <1>5, <1>6, <1>7, <1>8 DEF QueueOrder

\* The constructor leaves a pool with no request outstanding, which is sound.
LEMMA PoolInitInv == PoolAssumption /\ PoolInit => PoolInv
  BY DEF PoolAssumption, PoolInit, PoolInv, PoolTypeOK, PromiseAccounting, QueueOrder,
         WorkConserving

\* acquire() keeps the accounts: it grants a slot or queues the request last.
LEMMA AcquireInv ==
  ASSUME PoolAssumption, PoolInv, NEW r \in Requests, Acquire(r)
  PROVE  PoolInv'
<1> USE DEF PoolInv
<1>1. r \notin queue /\ r \notin active /\ UNCHANGED limits
  BY DEF Acquire, PromiseAccounting
<1>2. CASE CanAcquire(active, SiteOf[r], globalMax, siteMax)
  <2>1. /\ active' = active \cup {r}
        /\ caller' = [caller EXCEPT ![r] = "granted"]
        /\ UNCHANGED <<queue, ahead, timers, globalMax, siteMax>>
    BY <1>2 DEF Acquire, limits
  <2>2. PoolTypeOK' /\ PromiseAccounting' /\ QueueOrder'
    <3>1. \A q \in Requests : caller'[q] = IF q = r THEN "granted" ELSE caller[q]
      BY <2>1 DEF PoolTypeOK
    <3>2. PoolTypeOK'
      BY <2>1 DEF PoolTypeOK
    <3>3. PromiseAccounting'
      BY <1>1, <2>1, <3>1, <3>2 DEF PoolTypeOK, PromiseAccounting
    <3>4. QueueOrder'
      BY <2>1 DEF QueueOrder
    <3>5. QED
      BY <3>2, <3>3, <3>4
  <2>3. ASSUME NEW q \in queue
        PROVE  ~CanAcquire(active', SiteOf[q], globalMax, siteMax)
    <3>1. ~CanAcquire(active, SiteOf[q], globalMax, siteMax)
      BY DEF WorkConserving
    <3>2. /\ active \in SUBSET Requests /\ active' \in SUBSET Requests
          /\ active \subseteq active' /\ SiteOf[q] \in Sites
      BY <2>1 DEF PoolTypeOK, PoolAssumption
    <3>3. QED
      BY <3>1, <3>2, CanAcquireMonotonic DEF PoolTypeOK
  <2>4. WorkConserving'
    BY <2>1, <2>3 DEF WorkConserving, CanAcquire, OnSite
  <2>5. QED
    BY <2>2, <2>4
<1>3. CASE ~CanAcquire(active, SiteOf[r], globalMax, siteMax)
  <2>1. /\ queue' = queue \cup {r}
        /\ ahead' = [ahead EXCEPT ![r] = queue]
        /\ timers' = timers \cup {r}
        /\ caller' = [caller EXCEPT ![r] = "awaiting"]
        /\ UNCHANGED <<active, globalMax, siteMax>>
    BY <1>3 DEF Acquire, limits
  <2>2. PoolTypeOK' /\ PromiseAccounting'
    <3>1. \A q \in Requests : caller'[q] = IF q = r THEN "awaiting" ELSE caller[q]
      BY <2>1 DEF PoolTypeOK
    <3>2. PoolTypeOK'
      BY <2>1 DEF PoolTypeOK
    <3>3. PromiseAccounting'
      BY <1>1, <2>1, <3>1, <3>2 DEF PoolTypeOK, PromiseAccounting
    <3>4. QED
      BY <3>2, <3>3
  <2>3. QueueOrder'
    BY <1>1, <2>1, EnqueueKeepsOrder
  <2>4. WorkConserving'
    BY <1>3, <2>1 DEF WorkConserving, CanAcquire, OnSite
  <2>5. QED
    BY <2>2, <2>3, <2>4
<1>4. QED
  BY <1>2, <1>3

\* A wait timer that fires withdraws its request whole: entry, timer, promise.
LEMMA TimeOutInv ==
  ASSUME PoolAssumption, PoolInv, NEW r \in Requests, TimeOut(r)
  PROVE  PoolInv'
<1> USE DEF PoolInv
<1>1. /\ r \in queue
      /\ Dequeue({r})
      /\ timers' = timers \ {r}
      /\ caller' = [caller EXCEPT ![r] = "idle"]
      /\ UNCHANGED <<globalMax, siteMax, active>>
  BY DEF TimeOut, PromiseAccounting
<1>2. /\ QueueOrder'
      /\ ahead' \in [Requests -> SUBSET Requests]
      /\ queue' = queue \ {r}
  BY <1>1, DequeueKeepsOrder DEF Dequeue
<1>3. PoolTypeOK' /\ PromiseAccounting'
  <2>1. \A q \in Requests : caller'[q] = IF q = r THEN "idle" ELSE caller[q]
    BY <1>1 DEF PoolTypeOK
  <2>2. PoolTypeOK'
    BY <1>1, <1>2 DEF PoolTypeOK
  <2>3. PromiseAccounting'
    BY <1>1, <1>2, <2>1, <2>2 DEF PoolTypeOK, PromiseAccounting
  <2>4. QED
    BY <2>2, <2>3
<1>4. WorkConserving'
  BY <1>1, <1>2 DEF WorkConserving, CanAcquire, OnSite
<1>5. QED
  BY <1>2, <1>3, <1>4

\* release() frees one slot, and its drain leaves nobody waiting needlessly.
LEMMA ReleaseInv ==
  ASSUME PoolAssumption, PoolInv, NEW r \in Requests, Release(r)
  PROVE  PoolInv'
<1> DEFINE held == active \ {r}
           calls == [caller EXCEPT ![r] = "idle"]
<1>1. /\ held \in SUBSET Requests
      /\ calls \in [Requests -> CallerStates]
      /\ held = {q \in Requests : calls[q] = "granted"}
      /\ queue = {q \in Requests : calls[q] = "awaiting"}
  BY DEF PoolInv, PoolTypeOK, PromiseAccounting, Release
<1>2. /\ globalMax' = globalMax /\ siteMax' = siteMax
      /\ globalMax' \in Nat /\ siteMax' \in [Sites -> Nat]
      /\ Drain(held, calls, globalMax', siteMax')
  BY DEF PoolInv, PoolTypeOK, Release, limits
<1>3. PoolTypeOK /\ QueueOrder /\ timers = queue
  BY DEF PoolInv, PromiseAccounting
<1> HIDE DEF held, calls
<1>4. QED
  BY <1>1, <1>2, <1>3, DrainInv

\* Setting a limit, higher or lower, ends in the same drain.
LEMMA SetLimitInv ==
  ASSUME PoolAssumption, PoolInv,
         \/ \E s \in Sites, n \in SiteLimits : SetMaxConcurrentPerSite(s, n)
         \/ \E n \in GlobalLimits : SetGlobalMaxConcurrent(n)
  PROVE  PoolInv'
<1>1. /\ globalMax' \in Nat
      /\ siteMax' \in [Sites -> Nat]
      /\ Drain(active, caller, globalMax', siteMax')
  BY DEF PoolInv, PoolTypeOK, PoolAssumption, SetMaxConcurrentPerSite, SetGlobalMaxConcurrent
<1>2. /\ active \in SUBSET Requests
      /\ caller \in [Requests -> CallerStates]
      /\ active = {r \in Requests : caller[r] = "granted"}
      /\ queue = {r \in Requests : caller[r] = "awaiting"}
      /\ PoolTypeOK /\ QueueOrder /\ timers = queue
  BY DEF PoolInv, PoolTypeOK, PromiseAccounting
<1>3. QED
  BY <1>1, <1>2, DrainInv

\* Every step of the pool keeps the invariant.
LEMMA PoolNextInv ==
  ASSUME PoolAssumption, PoolInv, [PoolNext]_poolVars
  PROVE  PoolInv'
<1>1. CASE \E r \in Requests : Acquire(r) \/ TimeOut(r) \/ Release(r)
  BY <1>1, AcquireInv, TimeOutInv, ReleaseInv
<1>2. CASE \/ \E s \in Sites, n \in SiteLimits : SetMaxConcurrentPerSite(s, n)
           \/ \E n \in GlobalLimits : SetGlobalMaxConcurrent(n)
  BY <1>2, SetLimitInv
<1>3. CASE UNCHANGED poolVars
  BY <1>3 DEF poolVars, PoolInv, PoolTypeOK, PromiseAccounting, QueueOrder, WorkConserving,
              CanAcquire, OnSite
<1>4. QED
  BY <1>1, <1>2, <1>3 DEF PoolNext

\* In every reachable state the slots, the queue, the timers and the callers'
\* promises agree, the queue is in order, and no request waits needlessly.
THEOREM PoolInvariant == PoolSpec => []PoolInv
<1>1. PoolInit => PoolInv
  BY PoolAssumption, PoolInitInv
<1>2. PoolInv /\ [PoolNext]_poolVars => PoolInv'
  BY PoolAssumption, PoolNextInv
<1>3. QED
  BY <1>1, <1>2, PTL DEF PoolSpec

\* Slots, queue, timers and the callers' promises always agree, and the queue
\* is a queue.
THEOREM PoolStaysConsistent == PoolSpec => []PoolConsistent
<1>1. PoolInv => PoolConsistent
  BY DEF PoolInv, PoolConsistent
<1>2. QED
  BY <1>1, PoolInvariant, PTL

\* No request waits that the limits would let run.
THEOREM PoolConservesWork == PoolSpec => []WorkConserving
<1>1. PoolInv => WorkConserving
  BY DEF PoolInv
<1>2. QED
  BY <1>1, PoolInvariant, PTL

-----------------------------------------------------------------------------
(* The loop of #drain *)

\* A set of places that is not empty has a least one.
LEMMA LeastPlace ==
  ASSUME NEW n \in Nat, NEW S \in SUBSET (0..n), S # {}
  PROVE  \E x \in S : \A y \in S : x <= y
<1> DEFINE R == {p \in (0..n) \X (0..n) : p[1] < p[2]}
<1>1. IsFiniteSet(S)
  <2>1. IsFiniteSet(0..n)
    BY FS_Interval
  <2>2. QED
    BY <2>1, FS_Subset
<1>2. \A x, y \in 0..n : <<x, y>> \in R <=> x < y
  OBVIOUS
<1> HIDE DEF R
<1>3. \A x \in S : <<x, x>> \notin R
  BY <1>2
<1>4. \A x, y, z \in S : <<x, y>> \in R /\ <<y, z>> \in R => <<x, z>> \in R
  BY <1>2
<1>5. PICK x \in S : \A y \in S : <<y, x>> \notin R
  BY <1>1, <1>3, <1>4, FiniteHasFirst
<1>6. ASSUME NEW y \in S  PROVE  x <= y
  <2>1. x \in 0..n /\ y \in 0..n /\ <<y, x>> \notin R
    BY <1>5
  <2>2. ~(y < x) /\ x \in Nat /\ y \in Nat
    BY <1>2, <2>1
  <2>3. QED
    BY <2>2
<1>7. QED
  BY <1>6

\* The places of the queue go from 1 to its length and tell who is ahead.
LEMMA PlacesOrderTheQueue ==
  ASSUME PoolAssumption, PoolTypeOK, QueueOrder
  PROVE  /\ Cardinality(queue) \in Nat
         /\ \A r \in queue : Place(r) \in 1..Cardinality(queue)
         /\ \A q, r \in queue : q \in ahead[r] <=> Place(q) < Place(r)
<1>1. IsFiniteSet(queue) /\ Cardinality(queue) \in Nat
  BY FS_Subset, FS_CardinalityType DEF PoolAssumption, PoolTypeOK
<1>2. ASSUME NEW r \in queue
      PROVE  /\ IsFiniteSet(ahead[r]) /\ Cardinality(ahead[r]) \in Nat
             /\ Cardinality(ahead[r]) < Cardinality(queue)
  <2>1. ahead[r] \subseteq queue /\ ahead[r] # queue
    BY DEF QueueOrder, PoolTypeOK
  <2>2. QED
    BY <1>1, <2>1, FS_Subset, FS_CardinalityType
<1>3. ASSUME NEW q \in queue, NEW r \in queue, q \in ahead[r]  PROVE  Place(q) < Place(r)
  <2>1. ahead[q] \subseteq ahead[r] /\ ahead[q] # ahead[r]
    BY <1>3 DEF QueueOrder
  <2>2. Cardinality(ahead[q]) < Cardinality(ahead[r])
    BY <1>2, <2>1, FS_Subset
  <2>3. QED
    BY <1>2, <2>2 DEF Place
<1>4. \A r \in queue : Place(r) \in 1..Cardinality(queue)
  BY <1>1, <1>2 DEF Place
<1>5. ASSUME NEW q \in queue, NEW r \in queue, Place(q) < Place(r)  PROVE  q \in ahead[r]
  <2>1. q # r /\ ~(Place(r) < Place(q))
    BY <1>4, <1>5, <1>1
  <2>2. r \notin ahead[q]
    BY <1>3, <2>1
  <2>3. QED
    BY <2>1, <2>2 DEF QueueOrder
<1>6. QED
  BY <1>1, <1>3, <1>4, <1>5

\* What the loop grants at place i when it has granted `before` so far.
GrantedAt(i, before, held, gmax, smax) ==
  {r \in queue : Place(r) = i /\ CanAcquire(held \cup before, SiteOf[r], gmax, smax)}

\* g is the function the loop over the first n places asks for.
IsDraining(g, held, gmax, smax, n) ==
  g = [i \in 0..n |->
         IF i = 0 THEN {} ELSE g[i - 1] \cup GrantedAt(i, g[i - 1], held, gmax, smax)]

\* The loop's result is chosen among the functions that do what it does.
LEMMA DrainLoopIsChosen ==
  ASSUME NEW held, NEW gmax, NEW smax
  PROVE  DrainLoop(held, gmax, smax) =
           (CHOOSE g : IsDraining(g, held, gmax, smax, Cardinality(queue)))[Cardinality(queue)]
BY DEF DrainLoop, IsDraining, GrantedAt

\* The loop over the first places does something, for every number of them.
LEMMA DrainingExists ==
  ASSUME NEW held, NEW gmax, NEW smax, NEW N \in Nat
  PROVE  \E g : IsDraining(g, held, gmax, smax, N)
<1> DEFINE S == {n \in 0..N : ~ \E g : IsDraining(g, held, gmax, smax, n)}
<1>1. SUFFICES ASSUME S # {}  PROVE  FALSE
  OBVIOUS
<1>2. PICK n \in S : \A j \in S : n <= j
  <2>1. S \in SUBSET (0..N)
    OBVIOUS
  <2> HIDE DEF S
  <2>2. QED
    BY <1>1, <2>1, LeastPlace
<1>3. n \in 0..N /\ n \in Nat /\ ~ \E g : IsDraining(g, held, gmax, smax, n)
  BY <1>2
<1>4. n # 0
  <2> SUFFICES ASSUME n = 0  PROVE  \E g : IsDraining(g, held, gmax, smax, n)
    BY <1>3
  <2> DEFINE g == [i \in 0..0 |-> {}]
  <2>1. \A i \in 0..0 : i = 0
    OBVIOUS
  <2>2. IsDraining(g, held, gmax, smax, 0)
    BY <2>1 DEF IsDraining
  <2>3. QED
    BY <2>2
<1>5. n - 1 \in 0..N /\ n - 1 \in Nat /\ n - 1 \notin S
  <2>1. n - 1 \in 0..N /\ n - 1 \in Nat /\ ~(n <= n - 1)
    BY <1>3, <1>4
  <2> HIDE DEF S
  <2>2. QED
    BY <1>2, <2>1
<1>6. PICK f : IsDraining(f, held, gmax, smax, n - 1)
  BY <1>5
<1> DEFINE Then(before, i) == before \cup GrantedAt(i, before, held, gmax, smax)
           g == [i \in 0..n |-> IF i = n THEN Then(f[n - 1], n) ELSE f[i]]
<1>7. \A i \in 0..(n - 1) : f[i] = IF i = 0 THEN {} ELSE Then(f[i - 1], i)
  BY <1>6 DEF IsDraining
<1> HIDE DEF Then
<1>8. \A i \in 0..n : g[i] = IF i = 0 THEN {} ELSE Then(g[i - 1], i)
  <2> SUFFICES ASSUME NEW i \in 0..n  PROVE  g[i] = IF i = 0 THEN {} ELSE Then(g[i - 1], i)
    OBVIOUS
  <2>1. CASE i = n
    <3>1. g[i] = Then(f[n - 1], n) /\ i # 0
      BY <1>4, <2>1
    <3>2. n - 1 \in 0..n /\ n - 1 # n
      BY <1>3, <1>5
    <3>3. g[i - 1] = f[n - 1]
      BY <2>1, <3>2
    <3>4. QED
      BY <2>1, <3>1, <3>3
  <2>2. CASE i = 0
    BY <1>3, <1>4, <1>5, <1>7, <2>2
  <2>3. CASE i # n /\ i # 0
    <3>1. i \in 0..(n - 1) /\ i - 1 \in 0..n /\ i - 1 # n
      BY <1>3, <2>3
    <3>2. g[i] = f[i] /\ g[i - 1] = f[i - 1]
      BY <2>3, <3>1
    <3>3. QED
      BY <1>7, <2>3, <3>1, <3>2
  <2>4. QED
    BY <2>1, <2>2, <2>3
<1>9. g = [i \in 0..n |-> g[i]]
  OBVIOUS
<1> HIDE DEF g
<1>10. IsDraining(g, held, gmax, smax, n)
  BY <1>8, <1>9 DEF IsDraining, Then
<1>11. QED
  BY <1>3, <1>10

\* After n places the loop has granted what it found grantable at each.
LEMMA GrantedSoFar ==
  ASSUME PoolAssumption, PoolTypeOK, QueueOrder,
         NEW held, NEW gmax, NEW smax, NEW g, NEW N \in Nat,
         IsDraining(g, held, gmax, smax, N), NEW m \in 0..N
  PROVE  g[m] = {r \in queue : Place(r) <= m /\
                   CanAcquire(held \cup g[Place(r) - 1], SiteOf[r], gmax, smax)}
<1> DEFINE Found(r) == CanAcquire(held \cup g[Place(r) - 1], SiteOf[r], gmax, smax)
           S == {n \in 0..N : g[n] # {r \in queue : Place(r) <= n /\ Found(r)}}
<1>1. SUFFICES ASSUME S # {}  PROVE  FALSE
  OBVIOUS
<1>2. PICK n \in S : \A j \in S : n <= j
  <2>1. S \in SUBSET (0..N)
    OBVIOUS
  <2> HIDE DEF S
  <2>2. QED
    BY <1>1, <2>1, LeastPlace
<1>3. n \in 0..N /\ g[n] # {r \in queue : Place(r) <= n /\ Found(r)}
  BY <1>2
<1>4. \A r \in queue : Place(r) \in Nat /\ Place(r) >= 1
  BY PlacesOrderTheQueue
<1>5. \A i \in 0..N :
        g[i] = IF i = 0 THEN {} ELSE g[i - 1] \cup GrantedAt(i, g[i - 1], held, gmax, smax)
  BY DEF IsDraining
<1>6. n # 0
  <2> SUFFICES ASSUME n = 0  PROVE  g[0] = {r \in queue : Place(r) <= 0 /\ Found(r)}
    BY <1>3
  <2>1. g[0] = {}
    BY <1>3, <1>5
  <2>2. \A r \in queue : ~(Place(r) <= 0)
    BY <1>4
  <2>3. QED
    BY <2>1, <2>2
<1>7. g[n - 1] = {r \in queue : Place(r) <= n - 1 /\ Found(r)}
  <2>1. n - 1 \in 0..N /\ ~(n <= n - 1)
    BY <1>3, <1>6
  <2>2. n - 1 \notin S
    <3> HIDE DEF S
    <3> QED BY <1>2, <2>1
  <2>3. QED
    BY <2>1, <2>2
<1>8. g[n] = g[n - 1] \cup GrantedAt(n, g[n - 1], held, gmax, smax)
  BY <1>3, <1>5, <1>6
<1>9. GrantedAt(n, g[n - 1], held, gmax, smax) = {r \in queue : Place(r) = n /\ Found(r)}
  BY DEF GrantedAt
<1>10. \A r \in queue : Place(r) <= n <=> Place(r) <= n - 1 \/ Place(r) = n
  BY <1>3, <1>4
<1> HIDE DEF Found
<1>11. QED
  BY <1>3, <1>7, <1>8, <1>9, <1>10

\* What the loop grants is a pass over the queue.
LEMMA LoopIsAPass ==
  ASSUME PoolAssumption, PoolTypeOK, QueueOrder, NEW held, NEW gmax, NEW smax
  PROVE  /\ DrainLoop(held, gmax, smax) \in SUBSET queue
         /\ DrainPass(DrainLoop(held, gmax, smax), held, gmax, smax)
<1> DEFINE N == Cardinality(queue)
           g == CHOOSE f : IsDraining(f, held, gmax, smax, N)
           Found(r) == CanAcquire(held \cup g[Place(r) - 1], SiteOf[r], gmax, smax)
<1>1. /\ N \in Nat
      /\ \A r \in queue : Place(r) \in 1..N
      /\ \A q, r \in queue : q \in ahead[r] <=> Place(q) < Place(r)
  BY PlacesOrderTheQueue
<1>2. DrainLoop(held, gmax, smax) = g[N]
  BY DrainLoopIsChosen
<1>3. IsDraining(g, held, gmax, smax, N)
  BY <1>1, DrainingExists
<1> HIDE DEF g, N
<1>4. \A m \in 0..N : g[m] = {r \in queue : Place(r) <= m /\ Found(r)}
  BY <1>1, <1>3, GrantedSoFar
<1>5. \A r \in queue : Place(r) <= N /\ Place(r) - 1 \in 0..N /\ Place(r) \in Nat
  BY <1>1
<1>6. g[N] = {r \in queue : Found(r)}
  <2>1. N \in 0..N
    BY <1>1
  <2> HIDE DEF Found
  <2>2. g[N] = {r \in queue : Place(r) <= N /\ Found(r)}
    BY <1>4, <2>1
  <2>3. QED
    BY <1>5, <2>2
<1>7. ASSUME NEW r \in queue  PROVE  g[N] \cap ahead[r] = g[Place(r) - 1]
  <2>1. \A q \in queue : q \in ahead[r] <=> Place(q) <= Place(r) - 1
    BY <1>1, <1>5
  <2> HIDE DEF Found
  <2>2. g[Place(r) - 1] = {q \in queue : Place(q) <= Place(r) - 1 /\ Found(q)}
    BY <1>4, <1>5
  <2>3. QED
    BY <1>6, <2>1, <2>2
<1>8. \A r \in queue :
        r \in g[N] <=> CanAcquire(held \cup (g[N] \cap ahead[r]), SiteOf[r], gmax, smax)
  BY <1>6, <1>7
<1>9. QED
  BY <1>2, <1>6, <1>8 DEF DrainPass

\* There is one pass: two that differed would do so first at one request, with
\* the same requests granted ahead of it.
LEMMA OnePass ==
  ASSUME PoolAssumption, PoolTypeOK, QueueOrder, NEW held, NEW gmax, NEW smax,
         NEW G \in SUBSET queue, DrainPass(G, held, gmax, smax),
         NEW H \in SUBSET queue, DrainPass(H, held, gmax, smax)
  PROVE  G = H
<1> DEFINE N == Cardinality(queue)
           Differ == {r \in queue : ~(r \in G <=> r \in H)}
           S == {Place(r) : r \in Differ}
<1>1. SUFFICES ASSUME Differ # {}  PROVE  FALSE
  OBVIOUS
<1>2. /\ N \in Nat
      /\ \A r \in queue : Place(r) \in 1..N
      /\ \A q, r \in queue : q \in ahead[r] <=> Place(q) < Place(r)
  BY PlacesOrderTheQueue
<1>3. PICK n \in S : \A j \in S : n <= j
  <2>1. S \in SUBSET (0..N) /\ S # {}
    BY <1>1, <1>2
  <2> HIDE DEF S, N
  <2>2. QED
    BY <1>2, <2>1, LeastPlace
<1>4. PICK r \in Differ : n = Place(r)
  BY <1>3
<1>5. ASSUME NEW q \in Differ  PROVE  q \notin ahead[r]
  <2>1. Place(r) <= Place(q) /\ Place(q) \in Nat /\ Place(r) \in Nat
    BY <1>2, <1>3, <1>4
  <2>2. QED
    BY <1>2, <2>1
<1>6. G \cap ahead[r] = H \cap ahead[r]
  BY <1>5
<1>7. QED
  BY <1>4, <1>6 DEF DrainPass

\* Whatever slots are given back, and with the limits in force or those that
\* a setter puts in their place, per site or global, #drain grants one set, and
\* its loop finds it.
THEOREM DrainStaysTheLoop == PoolSpec => []DrainIsTheLoop
<1>1. ASSUME PoolInv, NEW held, NEW gmax, NEW smax
      PROVE  {G \in SUBSET queue : DrainPass(G, held, gmax, smax)}
               = {DrainLoop(held, gmax, smax)}
  <2>1. PoolTypeOK /\ QueueOrder
    BY <1>1 DEF PoolInv
  <2>2. /\ DrainLoop(held, gmax, smax) \in SUBSET queue
        /\ DrainPass(DrainLoop(held, gmax, smax), held, gmax, smax)
    BY <2>1, PoolAssumption, LoopIsAPass
  <2>3. ASSUME NEW G \in SUBSET queue, DrainPass(G, held, gmax, smax)
        PROVE  G = DrainLoop(held, gmax, smax)
    BY <2>1, <2>2, <2>3, PoolAssumption, OnePass
  <2>4. QED
    BY <2>2, <2>3
<1>2. PoolInv => DrainIsTheLoop
  BY <1>1 DEF DrainIsTheLoop
<1>3. QED
  BY <1>2, PoolInvariant, PTL

-----------------------------------------------------------------------------
(* What a step may never do *)

\* The grants of a step are those of one call of acquire(), or of the pass
\* over the queue that ends release() and the two setters.
LEMMA GrantsOfAStep ==
  ASSUME PoolAssumption, PoolInv, PoolNext, NEW r \in active' \ active
  PROVE  \/ /\ Acquire(r)
            /\ CanAcquire(active, SiteOf[r], globalMax, siteMax)
            /\ active' = active \cup {r}
            /\ UNCHANGED <<globalMax, siteMax, queue>>
         \/ \E held \in SUBSET active, G \in SUBSET queue :
              /\ DrainPass(G, held, globalMax', siteMax')
              /\ active' = held \cup G
              /\ queue' = queue \ G
              /\ r \in G
<1>1. CASE \E q \in Requests : Acquire(q) \/ TimeOut(q)
  BY <1>1 DEF Acquire, TimeOut, limits
<1>2. ASSUME NEW q \in Requests, Release(q)
      PROVE  \E held \in SUBSET active, G \in SUBSET queue :
               /\ DrainPass(G, held, globalMax', siteMax')
               /\ active' = held \cup G
               /\ queue' = queue \ G
               /\ r \in G
  <2>1. globalMax' = globalMax /\ siteMax' = siteMax
    BY <1>2 DEF Release, limits
  <2>2. PICK G \in SUBSET queue :
          /\ DrainPass(G, active \ {q}, globalMax, siteMax)
          /\ active' = (active \ {q}) \cup G
          /\ queue' = queue \ G
    BY <1>2 DEF Release, Drain, Dequeue
  <2>3. QED
    BY <2>1, <2>2
<1>3. ASSUME \/ \E s \in Sites, n \in SiteLimits : SetMaxConcurrentPerSite(s, n)
             \/ \E n \in GlobalLimits : SetGlobalMaxConcurrent(n)
      PROVE  \E held \in SUBSET active, G \in SUBSET queue :
               /\ DrainPass(G, held, globalMax', siteMax')
               /\ active' = held \cup G
               /\ queue' = queue \ G
               /\ r \in G
  <2>1. Drain(active, caller, globalMax', siteMax')
    BY <1>3 DEF SetMaxConcurrentPerSite, SetGlobalMaxConcurrent
  <2>2. QED
    BY <2>1 DEF Drain, Dequeue
<1>4. QED
  BY <1>1, <1>2, <1>3 DEF PoolNext

\* No step grants a slot beyond a limit, for any limits set at any time.
THEOREM GrantsAreWithinLimits == PoolSpec => GrantsWithinLimits
<1>1. ASSUME PoolInv, PoolNext, NEW r \in active' \ active
      PROVE  /\ Cardinality(active') <= globalMax'
             /\ Cardinality(OnSite(active', SiteOf[r])) <= siteMax'[SiteOf[r]]
  <2>1. PoolTypeOK /\ PoolTypeOK' /\ QueueOrder
    BY <1>1, PoolNextInv, PoolAssumption DEF PoolInv
  <2>2. CASE /\ CanAcquire(active, SiteOf[r], globalMax, siteMax)
             /\ active' = active \cup {r}
             /\ UNCHANGED <<globalMax, siteMax>>
    BY <2>1, <2>2, PoolAssumption, GrantOneWithinLimits DEF PoolTypeOK
  <2>3. CASE \E held \in SUBSET active, G \in SUBSET queue :
               /\ DrainPass(G, held, globalMax', siteMax')
               /\ active' = held \cup G
               /\ r \in G
    <3>1. PICK held \in SUBSET active, G \in SUBSET queue :
            /\ DrainPass(G, held, globalMax', siteMax')
            /\ active' = held \cup G
            /\ r \in G
      BY <2>3
    <3>2. held \in SUBSET Requests /\ globalMax' \in Nat /\ siteMax' \in [Sites -> Nat]
      BY <2>1 DEF PoolTypeOK
    <3>3. QED
      BY <2>1, <3>1, <3>2, PoolAssumption, PassWithinLimits
  <2>4. QED
    BY <1>1, <2>2, <2>3, PoolAssumption, GrantsOfAStep
<1>2. PoolInv /\ [PoolNext]_poolVars =>
        [\A r \in active' \ active :
           /\ Cardinality(active') <= globalMax'
           /\ Cardinality(OnSite(active', SiteOf[r])) <= siteMax'[SiteOf[r]]]_poolVars
  BY <1>1
<1>3. QED
  BY <1>2, PoolInvariant, PTL DEF PoolSpec, GrantsWithinLimits

\* A caller that arrives while one of its site waits is not served at once,
\* and a pass over the queue grants a site's requests front to back.
THEOREM NoCallerOvertakes == PoolSpec => NoOvertaking
<1>1. ASSUME PoolInv, PoolNext, NEW r \in active' \ active,
             NEW q \in (IF r \in queue THEN ahead[r] ELSE queue),
             SiteOf[q] = SiteOf[r]
      PROVE  q \notin queue'
  <2>1. PoolTypeOK /\ QueueOrder /\ WorkConserving /\ q \in queue /\ r \in Requests
    <3>1. PoolTypeOK'
      BY <1>1, PoolNextInv, PoolAssumption DEF PoolInv
    <3>2. QED
      BY <1>1, <3>1 DEF PoolInv, PoolTypeOK, QueueOrder
  <2>2. CASE /\ Acquire(r)
             /\ CanAcquire(active, SiteOf[r], globalMax, siteMax)
    BY <1>1, <2>1, <2>2 DEF WorkConserving
  <2>3. CASE \E held \in SUBSET active, G \in SUBSET queue :
               /\ DrainPass(G, held, globalMax', siteMax')
               /\ active' = held \cup G
               /\ queue' = queue \ G
               /\ r \in G
    <3>1. PICK held \in SUBSET active, G \in SUBSET queue :
            /\ DrainPass(G, held, globalMax', siteMax')
            /\ queue' = queue \ G
            /\ r \in G
      BY <2>3
    <3>2. q \in ahead[r] /\ ahead[q] \subseteq ahead[r]
      BY <1>1, <2>1, <3>1 DEF QueueOrder
    <3>3. CanAcquire(held \cup (G \cap ahead[r]), SiteOf[q], globalMax', siteMax')
      BY <1>1, <3>1 DEF DrainPass
    <3>4. /\ held \cup (G \cap ahead[r]) \in SUBSET Requests
          /\ held \cup (G \cap ahead[q]) \in SUBSET Requests
          /\ held \cup (G \cap ahead[q]) \subseteq held \cup (G \cap ahead[r])
          /\ SiteOf[q] \in Sites
          /\ globalMax' \in Nat /\ siteMax' \in [Sites -> Nat]
      BY <1>1, <2>1, <3>2, PoolNextInv, PoolAssumption DEF PoolInv, PoolTypeOK, PoolAssumption
    <3>5. CanAcquire(held \cup (G \cap ahead[q]), SiteOf[q], globalMax', siteMax')
      BY <3>3, <3>4, PoolAssumption, CanAcquireMonotonic
    <3>6. q \in G
      BY <2>1, <3>1, <3>5 DEF DrainPass
    <3>7. QED
      BY <3>1, <3>6
  <2>4. QED
    BY <1>1, <2>2, <2>3, PoolAssumption, GrantsOfAStep
<1>2. PoolInv /\ [PoolNext]_poolVars =>
        [\A r \in active' \ active :
           \A q \in (IF r \in queue THEN ahead[r] ELSE queue) :
              SiteOf[q] = SiteOf[r] => q \notin queue']_poolVars
  BY <1>1
<1>3. QED
  BY <1>2, PoolInvariant, PTL DEF PoolSpec, NoOvertaking

-----------------------------------------------------------------------------
(* The pipeline *)

\* What the pool told a caller is what its run waits for, or works under.
CallersMatch ==
  \A r \in Runs :
    /\ caller[r] = "granted" <=> pc[r] = "acquiring"
    /\ caller[r] = "awaiting" <=> pc[r] = "waiting"

PcTypeOK == pc \in [Runs -> {"idle"} \cup Suspended \cup Ended]

SlotInv == PcTypeOK /\ CallersMatch

USE DEF Runs, Suspended, Ended

-----------------------------------------------------------------------------
(* The pool in the pipeline *)

\* One step of the pipeline is one step of the pool, or leaves it alone.
LEMMA PoolStep ==
  ASSUME [PipelineNext]_pipelineVars
  PROVE  [PoolNext]_poolVars
<1>1. ASSUME NEW r \in Runs, NEW k \in {"run", "acquire"}, StartRun(r, k)
      PROVE  UNCHANGED poolVars
  BY <1>1 DEF StartRun
<1>2. ASSUME NEW r \in Runs, SettleRequest(r)  PROVE  UNCHANGED poolVars
  BY <1>2 DEF SettleRequest
<1>3. ASSUME NEW r \in Runs, SlotTimesOut(r)  PROVE  PoolNext
  BY <1>3 DEF SlotTimesOut, PoolNext
<1>4. ASSUME NEW r \in Runs, RunStep(r)  PROVE  [PoolNext]_poolVars
  <2>1. CASE FetchThrows(r) \/ GuardRejects(r) \/ RecheckFails(r) \/ RecheckPasses(r)
    BY <2>1 DEF FetchThrows, GuardRejects, RecheckFails, RecheckPasses
  <2>2. CASE GuardsPass(r)
    BY <2>2 DEF GuardsPass, PoolNext
  <2>3. CASE \/ AcquireThrows(r)
             \/ AcquireFails(r)
             \/ \E life \in Lifetimes : AcquireSucceeds(r, life)
    <3>1. Release(r)
      BY <2>3 DEF AcquireThrows, AcquireFails, AcquireSucceeds
    <3>2. QED
      BY <3>1 DEF PoolNext
  <2>4. CASE \/ SettleSucceeds(r)
             \/ \E reason \in {"payment_timeout", "payment_failed"} : SettleFails(r, reason)
             \/ SettleChallenged(r)
    BY <2>4 DEF SettleSucceeds, SettleFails, SettleChallenged
  <2>5. QED
    BY <1>4, <2>1, <2>2, <2>3, <2>4 DEF RunStep
<1>5. ASSUME NEW t \in Tasks, EnqueueRequest(t) \/ CancelTask(t)  PROVE  UNCHANGED poolVars
  BY <1>5 DEF EnqueueRequest, CancelTask
<1>6. CASE ClockTicks \/ UNCHANGED pipelineVars
  BY <1>6 DEF ClockTicks, pipelineVars
<1>7. QED
  BY <1>1, <1>2, <1>3, <1>4, <1>5, <1>6 DEF PipelineNext

\* The pipeline implements the pool's specification: it asks for a slot only
\* with no request outstanding and returns only the slots it was given.
THEOREM UsesThePool == PipelineSpec => PoolSpec
<1>1. PipelineInit => PoolInit
  BY DEF PipelineInit
<1>2. [PipelineNext]_pipelineVars => [PoolNext]_poolVars
  BY PoolStep
<1>3. QED
  BY <1>1, <1>2, PTL DEF PipelineSpec, PoolSpec

\* Where a step leaves the callers of the pool.
LEMMA ReleaseCallers ==
  ASSUME PoolInv, NEW r \in Runs, Release(r)
  PROVE  /\ caller'[r] = "idle"
         /\ \A q \in Runs \ {r} :
              caller'[q] = caller[q] \/ (caller[q] = "awaiting" /\ caller'[q] = "granted")
<1>1. PICK G \in SUBSET queue :
        caller' = [q \in Requests |-> IF q \in G THEN "granted"
                                      ELSE [caller EXCEPT ![r] = "idle"][q]]
  BY DEF Release, Drain
<1>2. \A q \in G : caller[q] = "awaiting"
  BY <1>1 DEF PoolInv, PromiseAccounting
<1>3. caller[r] = "granted" /\ caller \in [Requests -> CallerStates]
  BY DEF Release, PoolInv, PoolTypeOK
<1>4. r \notin G
  BY <1>2, <1>3
<1>5. \A q \in Requests : caller'[q] = IF q \in G THEN "granted"
                                       ELSE IF q = r THEN "idle" ELSE caller[q]
  BY <1>1, <1>3
<1>6. QED
  BY <1>2, <1>4, <1>5

\* A step that moves one run, and resumes those it grants a slot, keeps the
\* callers matched if it leaves that run where its caller is.
LEMMA MoveKeepsMatch ==
  ASSUME SlotInv, NEW r \in Runs, NEW at \in {"idle"} \cup Suspended \cup Ended,
         MoveTo(r, at),
         caller'[r] = "granted" <=> at = "acquiring",
         caller'[r] = "awaiting" <=> at = "waiting",
         \A q \in Runs \ {r} :
           caller'[q] = caller[q] \/ (caller[q] = "awaiting" /\ caller'[q] = "granted")
  PROVE  SlotInv'
<1>1. pc' = [q \in Runs |-> IF q = r THEN at
                            ELSE IF q \in Granted THEN "acquiring" ELSE pc[q]]
  BY DEF MoveTo
<1>2. PcTypeOK'
  BY <1>1 DEF PcTypeOK, SlotInv
<1>3. ASSUME NEW q \in Runs
      PROVE  /\ caller'[q] = "granted" <=> pc'[q] = "acquiring"
             /\ caller'[q] = "awaiting" <=> pc'[q] = "waiting"
  <2>1. CASE q = r
    BY <1>1, <2>1
  <2>2. CASE q # r /\ q \in Granted
    BY <1>1, <2>2 DEF Granted
  <2>3. CASE q # r /\ q \notin Granted
    <3>1. pc'[q] = pc[q]
      BY <1>1, <2>3
    <3>2. caller'[q] = caller[q]
      BY <2>3 DEF Granted
    <3>3. QED
      BY <3>1, <3>2 DEF SlotInv, CallersMatch
  <2>4. QED
    BY <2>1, <2>2, <2>3
<1>4. QED
  BY <1>2, <1>3 DEF SlotInv, CallersMatch

\* The same for a step that does not touch the pool.
LEMMA MoveWithoutPool ==
  ASSUME SlotInv, NEW r \in Runs, NEW at \in {"idle"} \cup Suspended \cup Ended,
         MoveTo(r, at), UNCHANGED poolVars,
         pc[r] \notin {"acquiring", "waiting"}, at \notin {"acquiring", "waiting"}
  PROVE  SlotInv'
<1>1. caller' = caller
  BY DEF poolVars
<1>2. /\ caller[r] = "granted" <=> pc[r] = "acquiring"
      /\ caller[r] = "awaiting" <=> pc[r] = "waiting"
  BY DEF SlotInv, CallersMatch
<1>3. QED
  BY <1>1, <1>2, MoveKeepsMatch

\* A settle phase leaves its run paying, or ends it.
LEMMA SettleMoves ==
  ASSUME NEW r \in Runs, NEW k, Settle(r, k)
  PROVE  MoveTo(r, "paying") \/ MoveTo(r, "threw")
  BY DEF Settle, Throw

\* No run has started and none holds or awaits a slot at first.
LEMMA SlotInvInit == PipelineInit => SlotInv
<1> SUFFICES ASSUME PipelineInit  PROVE  SlotInv
  OBVIOUS
<1>1. \A r \in Runs : pc[r] = "idle" /\ caller[r] = "idle"
  BY DEF PipelineInit, PoolInit
<1>2. PcTypeOK
  BY DEF PipelineInit, PcTypeOK
<1>3. QED
  BY <1>1, <1>2 DEF SlotInv, CallersMatch

\* A run that goes on keeps the callers of the pool matched with the runs.
LEMMA RunStepKeepsMatch ==
  ASSUME PoolInv, SlotInv, NEW r \in Runs, RunStep(r)
  PROVE  SlotInv'
<1>1. CASE FetchThrows(r) \/ GuardRejects(r)
  <2>1. /\ pc[r] = "fetching" /\ UNCHANGED poolVars
        /\ MoveTo(r, "threw") \/ MoveTo(r, "done")
    BY <1>1 DEF FetchThrows, GuardRejects, Throw, Return
  <2>2. QED
    BY <2>1, MoveWithoutPool
<1>2. CASE GuardsPass(r)
  <2>1. /\ pc[r] = "fetching"
        /\ MoveTo(r, IF r \in Granted THEN "acquiring" ELSE "waiting")
        /\ caller[r] = "idle"
        /\ \/ caller' = [caller EXCEPT ![r] = "granted"]
           \/ caller' = [caller EXCEPT ![r] = "awaiting"]
    BY <1>2 DEF GuardsPass, Acquire
  <2>2. caller \in [Runs -> CallerStates]
    BY DEF PoolInv, PoolTypeOK
  <2>3. \A q \in Runs \ {r} : caller'[q] = caller[q]
    BY <2>1, <2>2
  <2>4. caller'[r] \in {"granted", "awaiting"}
    BY <2>1, <2>2
  <2>5. r \in Granted <=> caller'[r] = "granted"
    BY <2>1 DEF Granted
  <2>6. CASE r \in Granted
    <3>1. MoveTo(r, "acquiring")
      BY <2>1, <2>6
    <3>2. QED
      BY <2>3, <2>5, <2>6, <3>1, MoveKeepsMatch
  <2>7. CASE r \notin Granted
    <3>1. MoveTo(r, "waiting")
      BY <2>1, <2>7
    <3>2. QED
      BY <2>3, <2>4, <2>5, <2>7, <3>1, MoveKeepsMatch
  <2>8. QED
    BY <2>6, <2>7
<1>3. CASE \/ AcquireThrows(r)
           \/ AcquireFails(r)
           \/ \E life \in Lifetimes : AcquireSucceeds(r, life)
  <2>1. /\ Release(r)
        /\ MoveTo(r, "threw") \/ MoveTo(r, "done") \/ MoveTo(r, "rechecking")
    BY <1>3 DEF AcquireThrows, AcquireFails, AcquireSucceeds, Throw, Return
  <2>2. /\ caller'[r] = "idle"
        /\ \A q \in Runs \ {r} :
             caller'[q] = caller[q] \/ (caller[q] = "awaiting" /\ caller'[q] = "granted")
    BY <2>1, ReleaseCallers
  <2>3. QED
    BY <2>1, <2>2, MoveKeepsMatch
<1>4. CASE RecheckFails(r) \/ RecheckPasses(r)
  <2>1. pc[r] = "rechecking" /\ UNCHANGED poolVars
    BY <1>4 DEF RecheckFails, RecheckPasses
  <2>2. MoveTo(r, "done") \/ MoveTo(r, "paying") \/ MoveTo(r, "threw")
    BY <1>4, SettleMoves DEF RecheckFails, RecheckPasses, Return
  <2>3. QED
    BY <2>1, <2>2, MoveWithoutPool
<1>5. CASE \/ SettleSucceeds(r)
           \/ \E reason \in {"payment_timeout", "payment_failed"} : SettleFails(r, reason)
           \/ SettleChallenged(r)
  <2>1. pc[r] = "paying" /\ UNCHANGED poolVars /\ MoveTo(r, "done")
    BY <1>5 DEF SettleSucceeds, SettleFails, SettleChallenged, Return
  <2>2. QED
    BY <2>1, MoveWithoutPool
<1>6. QED
  BY <1>1, <1>2, <1>3, <1>4, <1>5 DEF RunStep

\* So does every other step: a request, a timer, a cancel, the clock.
LEMMA PipelineNextKeepsMatch ==
  ASSUME PoolInv, SlotInv, [PipelineNext]_pipelineVars
  PROVE  SlotInv'
<1>1. ASSUME NEW r \in Runs, NEW k \in {"run", "acquire"}, StartRun(r, k)
      PROVE  SlotInv'
  <2>1. /\ pc[r] = "idle" /\ caller' = caller
        /\ pc' = [pc EXCEPT ![r] = "fetching"]
    BY <1>1 DEF StartRun, poolVars
  <2>2. QED
    BY <2>1 DEF SlotInv, PcTypeOK, CallersMatch
<1>2. ASSUME NEW r \in Runs, SettleRequest(r)  PROVE  SlotInv'
  <2>1. pc[r] = "idle" /\ UNCHANGED poolVars
    BY <1>2 DEF SettleRequest
  <2>2. MoveTo(r, "paying") \/ MoveTo(r, "threw")
    BY <1>2, SettleMoves DEF SettleRequest
  <2>3. QED
    BY <2>1, <2>2, MoveWithoutPool
<1>3. ASSUME NEW r \in Runs, SlotTimesOut(r)  PROVE  SlotInv'
  <2>1. /\ pc[r] = "waiting" /\ MoveTo(r, "threw")
        /\ caller' = [caller EXCEPT ![r] = IF @ = "awaiting" THEN "idle" ELSE @]
    BY <1>3 DEF SlotTimesOut, TimeOut, Throw
  <2>2. caller[r] = "awaiting" /\ caller \in [Runs -> CallerStates]
    BY <2>1 DEF SlotInv, CallersMatch, PoolInv, PoolTypeOK
  <2>3. caller'[r] = "idle" /\ \A q \in Runs \ {r} : caller'[q] = caller[q]
    BY <2>1, <2>2
  <2>4. QED
    BY <2>1, <2>3, MoveKeepsMatch
<1>4. ASSUME NEW r \in Runs, RunStep(r)  PROVE  SlotInv'
  BY <1>4, RunStepKeepsMatch
<1>5. ASSUME NEW t \in Tasks, EnqueueRequest(t) \/ CancelTask(t)  PROVE  SlotInv'
  <2>1. caller' = caller /\ pc' = pc
    BY <1>5 DEF EnqueueRequest, CancelTask, poolVars, runVars
  <2>2. QED
    BY <2>1 DEF SlotInv, PcTypeOK, CallersMatch
<1>6. CASE ClockTicks \/ UNCHANGED pipelineVars
  <2>1. caller' = caller /\ pc' = pc
    BY <1>6 DEF ClockTicks, pipelineVars, poolVars, runVars
  <2>2. QED
    BY <2>1 DEF SlotInv, PcTypeOK, CallersMatch
<1>7. QED
  BY <1>1, <1>2, <1>3, <1>4, <1>5, <1>6 DEF PipelineNext

\* Every slot is held by the run it was granted to, from the await of
\* acquire() to the finally block, and every run that waits is in the queue.
THEOREM NoSlotLeaks == PipelineSpec => []SlotsMatchRuns
<1>1. PipelineSpec => []PoolInv
  BY UsesThePool, PoolInvariant, PTL
<1>2. PipelineInit => SlotInv
  BY SlotInvInit
<1>3. PoolInv /\ SlotInv /\ [PipelineNext]_pipelineVars => SlotInv'
  BY PipelineNextKeepsMatch
<1>4. PoolInv /\ SlotInv => SlotsMatchRuns
  BY DEF PoolInv, PromiseAccounting, SlotInv, CallersMatch, SlotsMatchRuns
<1>5. QED
  BY <1>1, <1>2, <1>3, <1>4, PTL DEF PipelineSpec

-----------------------------------------------------------------------------
(* Types, and the channel *)

TaskTypeOK ==
  /\ kind \in [Runs -> Kinds \cup {None}]
  /\ machine \in [Tasks -> Sniper2States]
  /\ reserved \in [Tasks -> Nat \cup {None}]
  /\ terminals \in [Runs -> Nat]
  /\ charged \in [Tasks -> Nat]

\* The tables lead from states of the machine to states of the machine.
LEMMA SendType ==
  ASSUME NEW state \in Sniper2States, NEW event
  PROVE  Sniper2Send(state, event) \in Sniper2States
<1>1. CASE state \in Sniper2Terminal \/ state \notin DOMAIN Sniper2Table
  BY <1>1 DEF Sniper2Send, Transition
<1>2. CASE state \in DOMAIN Sniper2Table /\ state \notin Sniper2Terminal
  <2>1. \A e \in DOMAIN Sniper2Table[state] : Sniper2Table[state][e] \in Sniper2States
    BY <1>2 DEF Sniper2Table, Sniper2States, Sniper2Terminal
  <2>2. QED
    BY <1>2, <2>1 DEF Sniper2Send, Transition
<1>3. QED
  BY <1>1, <1>2

\* An event sent to a task leaves every machine in one of its states.
LEMMA AfterType ==
  ASSUME machine \in [Tasks -> Sniper2States], NEW t \in Tasks, NEW event
  PROVE  After(t, event) \in [Tasks -> Sniper2States]
<1>1. Sniper2Send(machine[t], event) \in Sniper2States
  BY SendType
<1>2. QED
  BY <1>1 DEF After

\* So do the strikes of the runs that are granted a slot.
LEMMA StruckType ==
  ASSUME NEW states \in [Tasks -> Sniper2States]
  PROVE  Struck(states) \in [Tasks -> Sniper2States]
<1>1. \A t \in Tasks :
        Sniper2Send(Sniper2Send(states[t], "strike"), "acquire") \in Sniper2States
  BY SendType
<1>2. QED
  BY <1>1 DEF Struck

\* The outcomes emitted by each run are counted by a natural number.
LEMMA EmitType ==
  ASSUME terminals \in [Runs -> Nat], NEW r \in Runs,
         Emit(r) \/ UNCHANGED terminals
  PROVE  terminals' \in [Runs -> Nat]
  BY DEF Emit

\* A settle phase takes a step of the channel, or leaves it alone, and a run
\* that it leaves paying has its own task in process.
LEMMA SettleKeepsTypes ==
  ASSUME ChannelAssumption, PipelineAssumption, ChannelInv, TaskTypeOK,
         NEW r \in Runs, NEW k, Settle(r, k)
  PROVE  /\ ChannelInv'
         /\ machine' \in [Tasks -> Sniper2States]
         /\ terminals' \in [Runs -> Nat]
         /\ MoveTo(r, "paying") => current' # None /\ current'.task = TaskOf[r]
<1> DEFINE t == TaskOf[r]
<1>1. t \in Tasks
  BY DEF PipelineAssumption
<1>2. \/ UNCHANGED channelVars /\ (MoveTo(r, "threw") \/ IsCurrent(t))
      \/ StartNext(r \in Forced) /\ (MoveTo(r, "threw") \/ current'.task = t)
  <2>1. CASE MoveTo(r, "threw") /\ UNCHANGED channelVars
    BY <2>1
  <2>2. CASE IsCurrent(t) /\ UNCHANGED channelVars
    BY <2>2
  <2>3. CASE StartNext(r \in Forced) /\ (current'.task = t \/ MoveTo(r, "threw"))
    BY <2>3
  <2>4. QED
    BY <2>1, <2>2, <2>3 DEF Settle, Throw
<1>3. ChannelInv'
  <2>1. CASE UNCHANGED channelVars
    BY <2>1, ChannelNextInv
  <2>2. CASE StartNext(r \in Forced)
    BY <2>2, StartNextInv
  <2>3. QED
    BY <1>2, <2>1, <2>2
<1>4. machine' \in [Tasks -> Sniper2States]
  <2>1. UNCHANGED machine \/ machine' = After(t, "paymentStart")
    BY DEF Settle
  <2>2. QED
    BY <1>1, <2>1, AfterType DEF TaskTypeOK
<1>5. terminals' \in [Runs -> Nat]
  <2>1. Emit(r) \/ UNCHANGED terminals
    BY DEF Settle, Throw
  <2>2. QED
    BY <2>1, EmitType DEF TaskTypeOK
<1>6. ASSUME MoveTo(r, "paying")  PROVE  current' # None /\ current'.task = t
  <2>1. ~MoveTo(r, "threw")
    <3>1. SUFFICES ASSUME MoveTo(r, "threw")  PROVE  FALSE
      OBVIOUS
    <3>2. pc'[r] = "paying" /\ pc'[r] = "threw"
      BY <1>6, <3>1 DEF MoveTo
    <3>3. QED
      BY <3>2
  <2>2. CASE UNCHANGED channelVars /\ IsCurrent(t)
    BY <2>2 DEF IsCurrent, channelVars
  <2>3. CASE StartNext(r \in Forced) /\ current'.task = t
    <3>1. current' \in Processing
      BY <2>3, StartNextType
    <3>2. QED
      BY <2>3, <3>1, NoneAssumption
  <2>4. QED
    BY <1>2, <2>1, <2>2, <2>3
<1>7. QED
  BY <1>3, <1>4, <1>5, <1>6

PipelineInv == PoolInv /\ SlotInv /\ ChannelInv /\ TaskTypeOK

\* A run that goes on keeps the channel sound and the task records typed.
LEMMA RunStepKeepsTypes ==
  ASSUME ChannelAssumption, PipelineAssumption, ChannelInv, TaskTypeOK,
         NEW r \in Runs, RunStep(r)
  PROVE  ChannelInv' /\ TaskTypeOK'
<1> USE DEF TaskTypeOK
<1> DEFINE t == TaskOf[r]
<1>1. t \in Tasks /\ Lifetimes \subseteq Nat /\ Estimates \subseteq Nat /\ now \in Nat
  BY DEF PipelineAssumption, ChannelAssumption, ChannelInv, ChannelTypeOK
<1>2. Emit(r) \/ UNCHANGED terminals => terminals' \in [Runs -> Nat]
  BY EmitType
<1>3. UNCHANGED channelVars => ChannelInv'
  BY ChannelNextInv
<1>4. CASE FetchThrows(r) \/ GuardRejects(r) \/ RecheckFails(r)
  <2>1. /\ Emit(r) \/ UNCHANGED terminals
        /\ UNCHANGED <<channelVars, kind, taskVars>>
    BY <1>4 DEF FetchThrows, GuardRejects, RecheckFails, Throw, Return
  <2>2. QED
    BY <1>2, <1>3, <2>1 DEF taskVars
<1>5. CASE GuardsPass(r)
  <2>1. machine' = Struck(machine) /\ UNCHANGED <<channelVars, kind, terminals, reserved, charged>>
    BY <1>5 DEF GuardsPass
  <2>2. QED
    BY <1>3, <2>1, StruckType
<1>6. CASE AcquireThrows(r) \/ AcquireFails(r)
  <2>1. /\ machine' = Struck(machine) \/ machine' = Struck(After(t, "acquireFailed"))
        /\ reserved' = reserved \/ reserved' = [reserved EXCEPT ![t] = None]
        /\ Emit(r) \/ UNCHANGED terminals
        /\ UNCHANGED <<channelVars, kind, charged>>
    BY <1>6 DEF AcquireThrows, AcquireFails, Throw, Return
  <2>2. machine' \in [Tasks -> Sniper2States]
    BY <1>1, <2>1, StruckType, AfterType
  <2>3. QED
    BY <1>1, <1>2, <1>3, <2>1, <2>2
<1>7. ASSUME NEW life \in Lifetimes, AcquireSucceeds(r, life)
      PROVE  ChannelInv' /\ TaskTypeOK'
  <2> DEFINE acquired == Struck(After(t, "acquired"))
  <2>1. /\ \/ machine' = acquired
           \/ machine' = [acquired EXCEPT ![t] = Sniper2Send(@, "queued")]
        /\ reserved' = [reserved EXCEPT ![t] = now + life]
        /\ UNCHANGED channelVars \/ \E est \in Estimates : Enqueue(t, now + life, est)
        /\ Emit(r) \/ UNCHANGED terminals
        /\ UNCHANGED <<kind, charged>>
    BY <1>7 DEF AcquireSucceeds, Return
  <2>2. acquired \in [Tasks -> Sniper2States]
    BY <1>1, StruckType, AfterType
  <2>3. Sniper2Send(acquired[t], "queued") \in Sniper2States
    BY <1>1, <2>2, SendType
  <2>4. machine' \in [Tasks -> Sniper2States]
    <3> HIDE DEF acquired
    <3> QED BY <2>1, <2>2, <2>3
  <2>5. now + life \in Nat
    <3>1. life \in Nat /\ now \in Nat
      BY <1>1
    <3> QED BY ONLY <3>1
  <2>6. ChannelInv'
    BY <1>1, <1>3, <2>1, <2>5, EnqueueInv
  <2>7. QED
    BY <1>2, <2>1, <2>4, <2>5, <2>6
<1>8. CASE RecheckPasses(r)
  <2>1. Settle(r, "run") /\ UNCHANGED <<kind, reserved, charged>>
    BY <1>8 DEF RecheckPasses
  <2>2. QED
    BY <2>1, SettleKeepsTypes
<1>9. CASE \/ SettleSucceeds(r)
           \/ \E reason \in {"payment_timeout", "payment_failed"} : SettleFails(r, reason)
  <2>1. /\ \E event : machine' = After(t, event)
        /\ CompletePayment(t, TRUE) \/ CompletePayment(t, FALSE)
        /\ charged' = charged \/ charged' = [charged EXCEPT ![t] = @ + 1]
        /\ Emit(r)
        /\ UNCHANGED <<kind, reserved>>
    BY <1>9 DEF SettleSucceeds, SettleFails, Return
  <2>2. machine' \in [Tasks -> Sniper2States]
    BY <1>1, <2>1, AfterType
  <2>3. ChannelInv'
    BY <1>1, <1>3, <2>1, CompleteInv DEF CompletePayment
  <2>4. QED
    BY <1>1, <1>2, <2>1, <2>2, <2>3
<1>10. CASE SettleChallenged(r)
  <2>1. /\ current' \in {None, current} /\ isFrozen' \in BOOLEAN
        /\ UNCHANGED <<now, pending, arrivals, durations, lastBegun>>
        /\ machine' = After(t, "paymentFailed")
        /\ Emit(r)
        /\ UNCHANGED <<kind, reserved, charged>>
    BY <1>10 DEF SettleChallenged, Return
  <2>2. ChannelInv'
    BY <2>1 DEF ChannelInv, ChannelTypeOK, ArrivalsAreUnique
  <2>3. QED
    BY <1>1, <1>2, <2>1, <2>2, AfterType
<1>11. QED
  BY <1>4, <1>5, <1>6, <1>7, <1>8, <1>9, <1>10 DEF RunStep

\* So does every other step of the pipeline.
LEMMA PipelineNextKeepsTypes ==
  ASSUME ChannelAssumption, PipelineAssumption, ChannelInv, TaskTypeOK,
         [PipelineNext]_pipelineVars
  PROVE  ChannelInv' /\ TaskTypeOK'
<1> USE DEF TaskTypeOK
<1>1. UNCHANGED channelVars => ChannelInv'
  BY ChannelNextInv
<1>2. ASSUME NEW r \in Runs, NEW k \in {"run", "acquire"}, StartRun(r, k)
      PROVE  ChannelInv' /\ TaskTypeOK'
  BY <1>1, <1>2 DEF StartRun, taskVars
<1>3. ASSUME NEW r \in Runs, SettleRequest(r)  PROVE  ChannelInv' /\ TaskTypeOK'
  <2>1. /\ Settle(r, "settle") /\ "settle" \in Kinds
        /\ kind' = [kind EXCEPT ![r] = "settle"]
        /\ UNCHANGED <<reserved, charged>>
    BY <1>3 DEF SettleRequest
  <2>2. QED
    BY <2>1, SettleKeepsTypes
<1>4. ASSUME NEW r \in Runs, SlotTimesOut(r)  PROVE  ChannelInv' /\ TaskTypeOK'
  <2>1. Emit(r) \/ UNCHANGED terminals
    BY <1>4 DEF SlotTimesOut, Throw
  <2>2. terminals' \in [Runs -> Nat]
    BY <2>1, EmitType
  <2>3. QED
    BY <1>1, <1>4, <2>2 DEF SlotTimesOut, taskVars
<1>5. ASSUME NEW r \in Runs, RunStep(r)  PROVE  ChannelInv' /\ TaskTypeOK'
  BY <1>5, RunStepKeepsTypes
<1>6. ASSUME NEW t \in Tasks, EnqueueRequest(t)  PROVE  ChannelInv' /\ TaskTypeOK'
  <2>1. PICK est \in Estimates : Enqueue(t, reserved[t], est)
    BY <1>6 DEF EnqueueRequest
  <2>2. /\ reserved[t] # None
        /\ machine' = After(t, "queued") /\ UNCHANGED <<runVars, reserved, charged>>
    BY <1>6 DEF EnqueueRequest
  <2>3. reserved[t] \in Nat /\ est \in Nat
    BY <2>2 DEF ChannelAssumption
  <2>4. ChannelInv'
    BY <2>1, <2>3, EnqueueInv
  <2>5. machine' \in [Tasks -> Sniper2States]
    BY <2>2, AfterType
  <2>6. QED
    BY <2>2, <2>4, <2>5 DEF runVars
<1>7. ASSUME NEW t \in Tasks, CancelTask(t)  PROVE  ChannelInv' /\ TaskTypeOK'
  <2>1. machine' = After(t, "cancel") /\ UNCHANGED <<channelVars, runVars, reserved, charged>>
    BY <1>7 DEF CancelTask
  <2>2. machine' \in [Tasks -> Sniper2States]
    BY <2>1, AfterType
  <2>3. QED
    BY <1>1, <2>1, <2>2 DEF runVars
<1>8. CASE ClockTicks
  <2>1. Tick /\ UNCHANGED <<runVars, taskVars>>
    BY <1>8 DEF ClockTicks
  <2>2. ChannelInv'
    BY <2>1, ChannelNextInv DEF ChannelNext
  <2>3. QED
    BY <2>1, <2>2 DEF runVars, taskVars
<1>9. CASE UNCHANGED pipelineVars
  BY <1>1, <1>9 DEF pipelineVars, runVars, taskVars
<1>10. QED
  BY <1>2, <1>3, <1>4, <1>5, <1>6, <1>7, <1>8, <1>9 DEF PipelineNext

\* The channel is sound and the task records are typed at first.
LEMMA PipelineInitInv == PipelineInit => ChannelInv /\ TaskTypeOK
<1> SUFFICES ASSUME PipelineInit  PROVE  ChannelInv /\ TaskTypeOK
  OBVIOUS
<1>1. ChannelInv
  BY ChannelInitInv DEF PipelineInit
<1>2. "configured" \in Sniper2States
  BY DEF Sniper2States, Sniper2Table
<1>3. QED
  BY <1>1, <1>2 DEF PipelineInit, TaskTypeOK

\* The invariants of the pool and of the channel hold in the pipeline, which
\* keeps its types and the callers matched.
THEOREM PipelineInvariant == PipelineSpec => []PipelineInv
<1>1. PipelineSpec => []PoolInv
  BY UsesThePool, PoolInvariant, PTL
<1>2. PipelineInit => SlotInv /\ ChannelInv /\ TaskTypeOK
  BY SlotInvInit, PipelineInitInv
<1>3. PoolInv /\ SlotInv /\ [PipelineNext]_pipelineVars => SlotInv'
  BY PipelineNextKeepsMatch
<1>4. ChannelInv /\ TaskTypeOK /\ [PipelineNext]_pipelineVars => ChannelInv' /\ TaskTypeOK'
  BY PipelineNextKeepsTypes, ChannelAssumption, PipelineAssumption
<1>5. QED
  BY <1>1, <1>2, <1>3, <1>4, PTL DEF PipelineSpec, PipelineInv

\* The pipeline's type invariant holds, for any pool, channel and requests.
THEOREM PipelineTypes == PipelineSpec => []PipelineTypeOK
<1>1. PipelineInv => PipelineTypeOK
  BY DEF PipelineInv, PoolInv, ChannelInv, SlotInv, PcTypeOK, TaskTypeOK, PipelineTypeOK
<1>2. QED
  BY <1>1, PipelineInvariant, PTL

\* The plan that the runs of a card are told is the one of the loop, and misses
\* a reservation only if every order of the queue does: also when runs fail,
\* wait, are cancelled or share a task, and when a challenge freezes the card.
THEOREM RunsArePlannedRight == PipelineSpec => []PlannerIsRight
<1>1. PipelineInv => PlannerIsRight
  BY ChannelAssumption, PlanByTheLoop, PlanIsBest, MedianInTheMiddle
  DEF PipelineInv, PlannerIsRight
<1>2. QED
  BY <1>1, PipelineInvariant, PTL

-----------------------------------------------------------------------------
(* The settle phase *)

\* A step that moves r to `at` makes no other run pay.
LEMMA OnlyOneBeginsToPay ==
  ASSUME PcTypeOK, NEW r \in Runs, NEW at, MoveTo(r, at),
         NEW q \in Runs, pc[q] # "paying", pc'[q] = "paying"
  PROVE  q = r /\ at = "paying"
  BY DEF MoveTo, PcTypeOK

\* A run begins to pay in a settle phase of its own.
LEMMA BeginsToPay ==
  ASSUME PcTypeOK, PipelineNext, NEW q \in Runs, pc[q] # "paying", pc'[q] = "paying"
  PROVE  /\ SettleRequest(q) \/ RecheckPasses(q)
         /\ \E k : Settle(q, k) /\ MoveTo(q, "paying")
<1>1. ASSUME NEW r \in Runs, NEW k, Settle(r, k)
      PROVE  q = r /\ Settle(q, k) /\ MoveTo(q, "paying")
  <2>1. MoveTo(r, "paying") /\ q = r
    BY <1>1, SettleMoves, OnlyOneBeginsToPay
  <2>2. QED
    BY <1>1, <2>1
<1>2. ASSUME NEW r \in Runs, NEW at, at # "paying", MoveTo(r, at)  PROVE  FALSE
  BY <1>2, OnlyOneBeginsToPay
<1>3. ASSUME NEW r \in Runs, NEW k \in {"run", "acquire"}, StartRun(r, k)  PROVE  FALSE
  BY <1>3 DEF StartRun, PcTypeOK
<1>4. ASSUME NEW r \in Runs, SlotTimesOut(r)  PROVE  FALSE
  BY <1>2, <1>4 DEF SlotTimesOut, Throw
<1>5. ASSUME NEW r \in Runs, RunStep(r), ~RecheckPasses(r)  PROVE  FALSE
  <2>1. \E at : at # "paying" /\ MoveTo(r, at)
    <3>1. \/ MoveTo(r, "threw") \/ MoveTo(r, "done") \/ MoveTo(r, "rechecking")
          \/ MoveTo(r, IF r \in Granted THEN "acquiring" ELSE "waiting")
      BY <1>5 DEF RunStep, FetchThrows, GuardRejects, GuardsPass, AcquireThrows,
         AcquireFails, AcquireSucceeds, RecheckFails, SettleSucceeds, SettleFails,
         SettleChallenged, Throw, Return
    <3>2. QED
      BY <3>1
  <2>2. QED
    BY <1>2, <2>1
<1>6. ASSUME NEW t \in Tasks, EnqueueRequest(t) \/ CancelTask(t)  PROVE  FALSE
  BY <1>6 DEF EnqueueRequest, CancelTask, runVars
<1>7. ~ClockTicks
  BY DEF ClockTicks, runVars
<1>8. PICK r \in Runs : SettleRequest(r) \/ RecheckPasses(r)
  BY <1>3, <1>4, <1>5, <1>6, <1>7 DEF PipelineNext
<1>9. QED
  BY <1>1, <1>8 DEF SettleRequest, RecheckPasses

-----------------------------------------------------------------------------
(* Runs that have their task to themselves *)

\* No other run drives r's task, no request of the API settles tasks, and
\* nobody cancels it.
Alone(r) ==
  /\ "settle" \notin Kinds /\ TaskOf[r] \notin Cancels
  /\ \A q \in Runs : TaskOf[q] = TaskOf[r] => q = r

\* What such a run may count on, wherever it is suspended.
OwnsTask(r) ==
  LET state == machine[TaskOf[r]] IN
  /\ pc[r] \in {"idle", "fetching", "waiting"} => state = "configured"
  /\ pc[r] = "acquiring" => state = "acquiring"
  /\ pc[r] = "rechecking" => state = "queued_for_payment"
  /\ pc[r] = "paying" => state = "paying" /\ IsCurrent(TaskOf[r])
  /\ pc[r] \notin Ended => charged[TaskOf[r]] = 0
  /\ state = "succeeded" <=> charged[TaskOf[r]] > 0

\* The way of a machine through a run.
LEMMA SendFacts ==
  /\ Sniper2Send(Sniper2Send("configured", "strike"), "acquire") = "acquiring"
  /\ Sniper2Send("acquiring", "acquireFailed") = "acquire_failed"
  /\ Sniper2Send("acquiring", "acquired") = "acquired"
  /\ Sniper2Send("acquired", "queued") = "queued_for_payment"
  /\ Sniper2Send("queued_for_payment", "paymentStart") = "paying"
  /\ Sniper2Send("paying", "paymentSucceeded") = "succeeded"
  /\ Sniper2Send("paying", "paymentFailed") = "payment_failed"
  /\ Sniper2Send("paying", "paymentTimeout") = "payment_timeout"
  BY DEF Sniper2Send, Transition, Sniper2Table, Sniper2Terminal

\* A step that leaves the run, its machine and its payment where they are.
LEMMA OwnsWhenLeftAlone ==
  ASSUME NEW r \in Runs, OwnsTask(r), pc'[r] = pc[r],
         machine'[TaskOf[r]] = machine[TaskOf[r]], charged'[TaskOf[r]] = charged[TaskOf[r]],
         IsCurrent(TaskOf[r]) => IsCurrent(TaskOf[r])'
  PROVE  OwnsTask(r)'
  BY DEF OwnsTask

\* A step of another run that grants r the slot it waits for.
LEMMA OwnsWhenGranted ==
  ASSUME NEW r \in Runs, OwnsTask(r), pc[r] \in {"fetching", "waiting"}, pc'[r] = "acquiring",
         machine'[TaskOf[r]] =
           Sniper2Send(Sniper2Send(machine[TaskOf[r]], "strike"), "acquire"),
         charged'[TaskOf[r]] = charged[TaskOf[r]]
  PROVE  OwnsTask(r)'
  BY SendFacts DEF OwnsTask

\* Of the tasks of the runs granted a slot, r's is there only for r.
LEMMA StruckAlone ==
  ASSUME PipelineAssumption, NEW r \in Runs, Alone(r), NEW states
  PROVE  Struck(states)[TaskOf[r]] =
           IF r \in Granted
           THEN Sniper2Send(Sniper2Send(states[TaskOf[r]], "strike"), "acquire")
           ELSE states[TaskOf[r]]
<1>1. TaskOf[r] \in Tasks
  BY DEF PipelineAssumption
<1>2. TaskOf[r] \in {TaskOf[q] : q \in Granted} <=> r \in Granted
  BY DEF Alone, Granted
<1>3. QED
  BY <1>1, <1>2 DEF Struck

\* Where a step of another run leaves r.
LEMMA OthersMove ==
  ASSUME SlotInv, NEW q \in Runs, NEW at, MoveTo(q, at), NEW r \in Runs \ {q}
  PROVE  /\ r \notin Granted => pc'[r] = pc[r]
         /\ r \in Granted => pc'[r] = "acquiring" /\ pc[r] # "acquiring"
  BY DEF MoveTo, SlotInv, PcTypeOK, CallersMatch, Granted

\* A step that touches neither the callers nor r's machine.
LEMMA NoneGranted ==
  ASSUME UNCHANGED poolVars
  PROVE  Granted = {}
  BY DEF Granted, poolVars

\* A settle phase of another run keeps r's task in process.
LEMMA OthersSettle ==
  ASSUME machine \in [Tasks -> Sniper2States],
         NEW q \in Runs, NEW k, Settle(q, k), NEW t \in Tasks, t # TaskOf[q]
  PROVE  /\ machine'[t] = machine[t]
         /\ IsCurrent(t) => IsCurrent(t)'
<1>1. machine' = machine \/ machine' = After(TaskOf[q], "paymentStart")
  BY DEF Settle
<1>2. machine'[t] = machine[t]
  BY <1>1 DEF After
<1>3. UNCHANGED channelVars \/ StartNext(q \in Forced)
  BY DEF Settle
<1>4. IsCurrent(t) => IsCurrent(t)'
  BY <1>3 DEF IsCurrent, channelVars, StartNext, CanStart
<1>5. QED
  BY <1>2, <1>4

\* Whatever another run does, r keeps what it counts on.
LEMMA OthersKeepOwn ==
  ASSUME PipelineAssumption, PipelineInv, NEW r \in Runs, Alone(r), OwnsTask(r),
         NEW q \in Runs \ {r}, RunStep(q)
  PROVE  OwnsTask(r)'
<1> DEFINE t == TaskOf[r]
<1>0. t \in Tasks /\ TaskOf[q] \in Tasks /\ TaskOf[q] # t
  BY DEF PipelineAssumption, Alone
<1>1. PoolInv /\ SlotInv
  BY DEF PipelineInv
<1>2. ASSUME UNCHANGED poolVars, NEW at, MoveTo(q, at), machine'[t] = machine[t],
             charged'[t] = charged[t], IsCurrent(t) => IsCurrent(t)'
      PROVE  OwnsTask(r)'
  <2>1. pc'[r] = pc[r]
    BY <1>1, <1>2, NoneGranted, OthersMove
  <2>2. QED
    BY <1>2, <2>1, OwnsWhenLeftAlone
<1>3. ASSUME NEW at, MoveTo(q, at), NEW states, states[t] = machine[t],
             machine' = Struck(states) \/ machine'[t] = Struck(states)[t],
             charged' = charged, current' = current,
             r \in Granted => pc[r] = "waiting"
      PROVE  OwnsTask(r)'
  <2>1. CASE r \in Granted
    <3>1. machine'[t] = Sniper2Send(Sniper2Send(machine[t], "strike"), "acquire")
      BY <1>3, <2>1, StruckAlone
    <3>2. pc'[r] = "acquiring"
      BY <1>1, <1>3, <2>1, OthersMove
    <3>3. QED
      BY <1>3, <2>1, <3>1, <3>2, OwnsWhenGranted
  <2>2. CASE r \notin Granted
    <3>1. machine'[t] = machine[t]
      BY <1>3, <2>2, StruckAlone
    <3>2. pc'[r] = pc[r]
      BY <1>1, <1>3, <2>2, OthersMove
    <3>3. IsCurrent(t) => IsCurrent(t)'
      BY <1>3 DEF IsCurrent
    <3>4. QED
      BY <1>3, <3>1, <3>2, <3>3, OwnsWhenLeftAlone
  <2>3. QED
    BY <2>1, <2>2
<1>4. CASE FetchThrows(q) \/ GuardRejects(q) \/ RecheckFails(q)
  <2>1. /\ UNCHANGED <<poolVars, channelVars, taskVars>>
        /\ MoveTo(q, "threw") \/ MoveTo(q, "done")
    BY <1>4 DEF FetchThrows, GuardRejects, RecheckFails, Throw, Return
  <2>2. IsCurrent(t) => IsCurrent(t)'
    BY <2>1 DEF channelVars, IsCurrent
  <2>3. QED
    BY <1>2, <2>1, <2>2 DEF taskVars
<1>5. CASE GuardsPass(q)
  <2>1. /\ MoveTo(q, IF q \in Granted THEN "acquiring" ELSE "waiting")
        /\ machine' = Struck(machine) /\ charged' = charged /\ current' = current
        /\ Acquire(q)
    BY <1>5 DEF GuardsPass, channelVars
  <2>2. r \notin Granted
    BY <2>1, <1>1 DEF Acquire, Granted, PoolInv, PoolTypeOK
  <2>3. QED
    BY <1>3, <2>1, <2>2
<1>6. CASE AcquireThrows(q) \/ AcquireFails(q) \/ \E life \in Lifetimes : AcquireSucceeds(q, life)
  <2>1. /\ Release(q) /\ charged' = charged
        /\ MoveTo(q, "threw") \/ MoveTo(q, "done") \/ MoveTo(q, "rechecking")
    BY <1>6 DEF AcquireThrows, AcquireFails, AcquireSucceeds, Throw, Return
  <2>2. r \in Granted => pc[r] = "waiting"
    <3>1. caller'[r] = caller[r] \/ caller[r] = "awaiting"
      BY <1>1, <2>1, ReleaseCallers
    <3>2. QED
      BY <1>1, <3>1 DEF Granted, SlotInv, CallersMatch
  <2>3. current' = current
    BY <1>6 DEF AcquireThrows, AcquireFails, AcquireSucceeds, Enqueue, channelVars
  <2>4. \E states : states[t] = machine[t] /\ machine'[t] = Struck(states)[t]
    <3>1. CASE AcquireThrows(q)
      BY <3>1 DEF AcquireThrows
    <3>2. CASE AcquireFails(q)
      <4>1. machine' = Struck(After(TaskOf[q], "acquireFailed"))
        BY <3>2 DEF AcquireFails
      <4>2. After(TaskOf[q], "acquireFailed")[t] = machine[t]
        BY <1>0 DEF After, PipelineInv, TaskTypeOK
      <4>3. QED
        BY <4>1, <4>2
    <3>3. CASE \E life \in Lifetimes : AcquireSucceeds(q, life)
      <4> DEFINE acquired == Struck(After(TaskOf[q], "acquired"))
      <4>1. \/ machine' = acquired
            \/ machine' = [acquired EXCEPT ![TaskOf[q]] = Sniper2Send(@, "queued")]
        BY <3>3 DEF AcquireSucceeds
      <4>2. After(TaskOf[q], "acquired")[t] = machine[t]
        BY <1>0 DEF After, PipelineInv, TaskTypeOK
      <4>3. machine'[t] = acquired[t]
        BY <1>0, <4>1 DEF Struck
      <4>4. QED
        BY <4>2, <4>3
    <3>4. QED
      BY <1>6, <3>1, <3>2, <3>3
  <2>5. QED
    BY <1>3, <2>1, <2>2, <2>3, <2>4
<1>7. CASE RecheckPasses(q)
  <2>1. Settle(q, "run") /\ UNCHANGED <<poolVars, charged>>
    BY <1>7 DEF RecheckPasses
  <2>2. MoveTo(q, "paying") \/ MoveTo(q, "threw")
    BY <2>1, SettleMoves
  <2>3. machine'[t] = machine[t] /\ (IsCurrent(t) => IsCurrent(t)')
    BY <1>0, <2>1, OthersSettle DEF PipelineInv, TaskTypeOK
  <2>4. QED
    BY <1>2, <2>1, <2>2, <2>3
<1>8. CASE \/ SettleSucceeds(q) \/ SettleChallenged(q)
           \/ \E reason \in {"payment_timeout", "payment_failed"} : SettleFails(q, reason)
  <2>1. UNCHANGED poolVars /\ MoveTo(q, "done")
    BY <1>8 DEF SettleSucceeds, SettleFails, SettleChallenged, Return
  <2>2. \E event : machine' = After(TaskOf[q], event)
    BY <1>8 DEF SettleSucceeds, SettleFails, SettleChallenged
  <2>3. machine'[t] = machine[t]
    BY <1>0, <2>2 DEF After, PipelineInv, TaskTypeOK
  <2>4. charged'[t] = charged[t]
    BY <1>0, <1>8 DEF SettleSucceeds, SettleFails, SettleChallenged, PipelineInv, TaskTypeOK
  <2>5. IsCurrent(t) => IsCurrent(t)'
    BY <1>0, <1>8 DEF SettleSucceeds, SettleFails, SettleChallenged, CompletePayment,
       IsCurrent, channelVars
  <2>6. QED
    BY <1>2, <2>1, <2>3, <2>4, <2>5
<1>9. QED
  BY <1>4, <1>5, <1>6, <1>7, <1>8 DEF RunStep

\* A run keeps what it counts on as it goes on.
LEMMA RunKeepsOwn ==
  ASSUME PipelineAssumption, PipelineInv, NEW r \in Runs, Alone(r), OwnsTask(r), RunStep(r)
  PROVE  OwnsTask(r)'
<1> DEFINE t == TaskOf[r]
<1>0. /\ t \in Tasks /\ machine \in [Tasks -> Sniper2States] /\ charged \in [Tasks -> Nat]
      /\ pc \in [Runs -> {"idle"} \cup Suspended \cup Ended]
  BY DEF PipelineAssumption, PipelineInv, TaskTypeOK, SlotInv, PcTypeOK
<1>a. ASSUME NEW at, MoveTo(r, at)  PROVE  pc'[r] = at
  BY <1>0, <1>a DEF MoveTo
<1>1. ASSUME pc'[r] \in Ended, pc[r] \notin Ended, charged' = charged,
             machine'[t] # "succeeded"
      PROVE  OwnsTask(r)'
  BY <1>0, <1>1 DEF OwnsTask
<1>2. CASE FetchThrows(r) \/ GuardRejects(r) \/ RecheckFails(r)
  <2>1. /\ UNCHANGED taskVars /\ pc[r] \in {"fetching", "rechecking"}
        /\ MoveTo(r, "threw") \/ MoveTo(r, "done")
    BY <1>2 DEF FetchThrows, GuardRejects, RecheckFails, Throw, Return
  <2>2. pc'[r] \in Ended
    BY <1>a, <2>1
  <2>3. QED
    BY <1>1, <2>1, <2>2 DEF OwnsTask, taskVars
<1>3. CASE GuardsPass(r)
  <2>1. /\ pc[r] = "fetching" /\ machine' = Struck(machine) /\ charged' = charged
        /\ MoveTo(r, IF r \in Granted THEN "acquiring" ELSE "waiting")
    BY <1>3 DEF GuardsPass
  <2>2. CASE r \in Granted
    BY <1>a, <2>1, <2>2, StruckAlone, OwnsWhenGranted
  <2>3. CASE r \notin Granted
    <3>1. pc'[r] = "waiting" /\ machine'[t] = machine[t]
      BY <1>a, <2>1, <2>3, StruckAlone
    <3>2. QED
      BY <2>1, <3>1 DEF OwnsTask
  <2>4. QED
    BY <2>2, <2>3
<1>4. CASE AcquireThrows(r) \/ AcquireFails(r) \/ \E life \in Lifetimes : AcquireSucceeds(r, life)
  <2>1. /\ pc[r] = "acquiring" /\ Release(r) /\ charged' = charged
    BY <1>4 DEF AcquireThrows, AcquireFails, AcquireSucceeds
  <2>2. machine[t] = "acquiring" /\ charged[t] = 0
    BY <2>1 DEF OwnsTask
  <2>3. r \notin Granted
    BY <2>1, ReleaseCallers DEF PipelineInv, Granted
  <2>4. CASE AcquireThrows(r)
    <3>1. machine'[t] = "acquiring"
      BY <2>2, <2>3, <2>4, StruckAlone DEF AcquireThrows
    <3>2. pc'[r] \in Ended
      BY <1>a, <2>4 DEF AcquireThrows, Throw
    <3>3. QED
      BY <1>1, <2>1, <3>1, <3>2
  <2>5. CASE AcquireFails(r)
    <3>1. After(t, "acquireFailed")[t] = "acquire_failed"
      BY <1>0, <2>2, SendFacts DEF After
    <3>2. machine'[t] = "acquire_failed"
      BY <2>3, <2>5, <3>1, StruckAlone DEF AcquireFails
    <3>3. pc'[r] \in Ended
      BY <1>a, <2>5 DEF AcquireFails, Return
    <3>4. QED
      BY <1>1, <2>1, <3>2, <3>3
  <2>6. CASE \E life \in Lifetimes : AcquireSucceeds(r, life)
    <3> DEFINE acquired == Struck(After(t, "acquired"))
    <3>1. After(t, "acquired")[t] = "acquired"
      BY <1>0, <2>2, SendFacts DEF After
    <3>2. acquired[t] = "acquired"
      BY <2>3, <3>1, StruckAlone
    <3>3. \/ machine' = acquired /\ Return(r)
          \/ /\ machine' = [acquired EXCEPT ![t] = Sniper2Send(@, "queued")]
             /\ Return(r) \/ MoveTo(r, "rechecking")
      BY <2>6 DEF AcquireSucceeds
    <3>4. t \in DOMAIN acquired
      BY <1>0 DEF Struck
    <3>5. \/ machine'[t] = "acquired" /\ pc'[r] = "done"
          \/ machine'[t] = "queued_for_payment" /\ pc'[r] \in {"done", "rechecking"}
      <4> HIDE DEF acquired
      <4> QED BY <1>a, <3>2, <3>3, <3>4, SendFacts DEF Return
    <3>6. QED
      BY <2>1, <2>2, <3>5 DEF OwnsTask
  <2>7. QED
    BY <1>4, <2>4, <2>5, <2>6
<1>5. CASE RecheckPasses(r)
  <2>1. pc[r] = "rechecking" /\ Settle(r, "run") /\ charged' = charged
    BY <1>5 DEF RecheckPasses
  <2>2. machine[t] = "queued_for_payment" /\ charged[t] = 0
    BY <2>1 DEF OwnsTask
  <2>3. After(t, "paymentStart")[t] = "paying"
    BY <1>0, <2>2, SendFacts DEF After
  <2>4. \/ MoveTo(r, "threw") /\ machine'[t] \in {"queued_for_payment", "paying"}
        \/ MoveTo(r, "paying") /\ machine'[t] = "paying"
    BY <2>1, <2>2, <2>3 DEF Settle, Throw
  <2>5. MoveTo(r, "paying") => IsCurrent(t)'
    BY <2>1, SettleKeepsTypes, ChannelAssumption DEF IsCurrent, PipelineInv
  <2>6. QED
    BY <1>a, <2>1, <2>2, <2>4, <2>5 DEF OwnsTask
<1>6. CASE SettleSucceeds(r)
  <2>1. pc[r] = "paying" /\ pc'[r] = "done"
    BY <1>a, <1>6 DEF SettleSucceeds, Return
  <2>2. machine'[t] = "succeeded"
    BY <1>0, <1>6, <2>1, SendFacts DEF SettleSucceeds, OwnsTask, After
  <2>3. charged'[t] > 0
    BY <1>0, <1>6 DEF SettleSucceeds
  <2>4. QED
    BY <2>1, <2>2, <2>3 DEF OwnsTask
<1>7. CASE \/ SettleChallenged(r)
           \/ \E reason \in {"payment_timeout", "payment_failed"} : SettleFails(r, reason)
  <2>1. pc[r] = "paying" /\ pc'[r] = "done" /\ charged' = charged
    BY <1>a, <1>7 DEF SettleFails, SettleChallenged, Return
  <2>2. machine' = After(t, "paymentFailed") \/ machine' = After(t, "paymentTimeout")
    BY <1>7 DEF SettleFails, SettleChallenged
  <2>3. machine'[t] \in {"payment_failed", "payment_timeout"}
    BY <1>0, <2>1, <2>2, SendFacts DEF OwnsTask, After
  <2>4. QED
    BY <1>1, <2>1, <2>3
<1>8. QED
  BY <1>2, <1>3, <1>4, <1>5, <1>6, <1>7 DEF RunStep

\* So does every step of the pipeline.
LEMMA PipelineNextKeepsOwn ==
  ASSUME PipelineAssumption, PipelineInv, NEW r \in Runs, Alone(r), OwnsTask(r),
         [PipelineNext]_pipelineVars
  PROVE  OwnsTask(r)'
<1> DEFINE t == TaskOf[r]
<1>0. /\ t \in Tasks /\ machine \in [Tasks -> Sniper2States]
      /\ pc \in [Runs -> {"idle"} \cup Suspended \cup Ended]
      /\ PoolInv /\ SlotInv
  BY DEF PipelineAssumption, PipelineInv, TaskTypeOK, SlotInv, PcTypeOK
<1>1. ASSUME NEW q \in Runs, NEW k \in {"run", "acquire"}, StartRun(q, k)  PROVE  OwnsTask(r)'
  <2>1. /\ pc[q] = "idle" /\ pc' = [pc EXCEPT ![q] = "fetching"]
        /\ UNCHANGED <<channelVars, taskVars>>
    BY <1>1 DEF StartRun
  <2>2. QED
    BY <1>0, <2>1 DEF OwnsTask, taskVars, channelVars, IsCurrent
<1>2. ASSUME NEW q \in Runs, SettleRequest(q)  PROVE  OwnsTask(r)'
  BY <1>2 DEF SettleRequest, Alone
<1>3. ASSUME NEW q \in Runs, SlotTimesOut(q)  PROVE  OwnsTask(r)'
  <2>1. /\ pc[q] = "waiting" /\ MoveTo(q, "threw") /\ UNCHANGED <<channelVars, taskVars>>
        /\ caller' = [caller EXCEPT ![q] = IF @ = "awaiting" THEN "idle" ELSE @]
    BY <1>3 DEF SlotTimesOut, TimeOut, Throw
  <2>2. Granted = {}
    BY <1>0, <2>1 DEF Granted, PoolInv, PoolTypeOK
  <2>3. pc' = [p \in Runs |-> IF p = q THEN "threw" ELSE pc[p]]
    BY <2>1, <2>2 DEF MoveTo
  <2>4. QED
    BY <1>0, <2>1, <2>3 DEF OwnsTask, taskVars, channelVars, IsCurrent
<1>4. ASSUME NEW q \in Runs, RunStep(q)  PROVE  OwnsTask(r)'
  <2>1. CASE q = r
    BY <1>4, <2>1, RunKeepsOwn
  <2>2. CASE q # r
    BY <1>4, <2>2, OthersKeepOwn
  <2>3. QED
    BY <2>1, <2>2
<1>5. ASSUME NEW u \in Tasks, EnqueueRequest(u)  PROVE  OwnsTask(r)'
  BY <1>5 DEF EnqueueRequest, Alone
<1>6. ASSUME NEW u \in Tasks, CancelTask(u)  PROVE  OwnsTask(r)'
  <2>1. u # t /\ machine' = After(u, "cancel") /\ UNCHANGED <<channelVars, pc, charged>>
    BY <1>6 DEF CancelTask, Alone, runVars
  <2>2. machine'[t] = machine[t]
    BY <1>0, <2>1 DEF After
  <2>3. QED
    BY <2>1, <2>2, OwnsWhenLeftAlone DEF channelVars, IsCurrent
<1>7. CASE ClockTicks \/ UNCHANGED pipelineVars
  <2>1. UNCHANGED <<pc, machine, charged, current>>
    BY <1>7 DEF ClockTicks, Tick, pipelineVars, channelVars, runVars, taskVars
  <2>2. QED
    BY <2>1, OwnsWhenLeftAlone DEF IsCurrent
<1>8. QED
  BY <1>1, <1>2, <1>3, <1>4, <1>5, <1>6, <1>7 DEF PipelineNext

AllAlone == \A r \in Runs : Alone(r)
LoneRunsOwn == \A r \in Runs : Alone(r) => OwnsTask(r)

\* At first every run finds its task configured and not paid.
LEMMA LoneRunsOwnInit == PipelineAssumption /\ PipelineInit => LoneRunsOwn
  BY DEF PipelineAssumption, PipelineInit, LoneRunsOwn, OwnsTask

\* A run with a task of its own always finds the task's machine where the run
\* has left it, and its task in process while it pays, whatever the other
\* runs do with theirs on the same card and on the same sites.
THEOREM LoneRunsOwnTheirTasks == PipelineSpec => []LoneRunsOwn
<1>1. PipelineInit => LoneRunsOwn
  BY LoneRunsOwnInit, PipelineAssumption
<1>2. PipelineInv /\ LoneRunsOwn /\ [PipelineNext]_pipelineVars => LoneRunsOwn'
  <2> SUFFICES ASSUME PipelineInv, LoneRunsOwn, [PipelineNext]_pipelineVars,
                      NEW r \in Runs, Alone(r)
               PROVE  OwnsTask(r)'
    BY DEF LoneRunsOwn, Alone
  <2>1. OwnsTask(r)
    BY DEF LoneRunsOwn
  <2>2. QED
    BY <2>1, PipelineNextKeepsOwn, PipelineAssumption
<1>3. QED
  BY <1>1, <1>2, PipelineInvariant, PTL DEF PipelineSpec

\* With one run per task, that nobody cancels, one payment is made at a time
\* and the machine the user sees says where the run is.
THEOREM RunsKeepTheirTasks == AllAlone => (PipelineSpec => []RunsOwnTheirTasks)
<1> SUFFICES ASSUME AllAlone  PROVE  PipelineSpec => []RunsOwnTheirTasks
  OBVIOUS
<1>1. LoneRunsOwn => RunsOwnTheirTasks
  BY DEF AllAlone, LoneRunsOwn, OwnsTask, RunsOwnTheirTasks, OnePaymentAtATime,
     MachineTracksRun
<1>2. QED
  BY <1>1, LoneRunsOwnTheirTasks, PTL

-----------------------------------------------------------------------------
(* Requests that share a task *)

\* The settle phase of r ends.
Finishes(r) ==
  \/ SettleSucceeds(r)
  \/ \E reason \in {"payment_timeout", "payment_failed"} : SettleFails(r, reason)
  \/ SettleChallenged(r)

\* Another request of r's task, one that pays, has returned.
SettledByAnother(r) ==
  \E q \in Runs \ {r} : TaskOf[q] = TaskOf[r] /\ kind[q] # "acquire" /\ pc[q] = "done"

\* CardPaysOneTask, with which kinds of requests come to recheck and to pay.
TurnInv ==
  /\ OneTaskPays
  /\ \A r \in Runs :
       /\ pc[r] = "rechecking" => kind[r] = "run"
       /\ pc[r] = "paying" => /\ kind[r] # "acquire"
                              /\ IsCurrent(TaskOf[r]) \/ SettledByAnother(r)

\* A slot is granted to a run that waits for it, besides the one that moves.
LEMMA OthersGrantedWait ==
  ASSUME PoolInv, SlotInv, NEW r \in Runs,
         RunStep(r) \/ SettleRequest(r) \/ SlotTimesOut(r),
         NEW q \in Runs \ {r}, q \in Granted
  PROVE  pc[q] = "waiting"
<1>1. caller \in [Runs -> CallerStates]
  BY DEF PoolInv, PoolTypeOK
<1>2. caller'[q] = caller[q] \/ caller[q] = "awaiting" \/ caller'[q] # "granted"
  <2>1. CASE Release(r)
    BY <2>1, ReleaseCallers
  <2>2. CASE Acquire(r) \/ TimeOut(r)
    BY <1>1, <2>2 DEF Acquire, TimeOut
  <2>3. CASE UNCHANGED poolVars
    BY <2>3 DEF poolVars
  <2>4. QED
    BY <2>1, <2>2, <2>3 DEF RunStep, SettleRequest, SlotTimesOut, FetchThrows, GuardRejects,
       GuardsPass, AcquireThrows, AcquireFails, AcquireSucceeds, RecheckFails, RecheckPasses,
       SettleSucceeds, SettleFails, SettleChallenged
<1>3. QED
  BY <1>2 DEF Granted, SlotInv, CallersMatch

\* A run that pays goes on until its settle phase ends, and one that has
\* returned does nothing more.
LEMMA PayingOrDoneStays ==
  ASSUME PoolInv, SlotInv, [PipelineNext]_pipelineVars,
         NEW q \in Runs, pc[q] \in {"paying", "done"}
  PROVE  pc'[q] = pc[q] \/ Finishes(q)
<1>0. pc \in [Runs -> {"idle"} \cup Suspended \cup Ended]
  BY DEF SlotInv, PcTypeOK
<1>1. ASSUME NEW r \in Runs, RunStep(r) \/ SettleRequest(r) \/ SlotTimesOut(r)
      PROVE  pc'[q] = pc[q] \/ Finishes(q)
  <2>1. CASE r = q
    BY <1>1, <2>1 DEF RunStep, SettleRequest, SlotTimesOut, FetchThrows, GuardRejects,
       GuardsPass, AcquireThrows, AcquireFails, AcquireSucceeds, RecheckFails, RecheckPasses,
       SettleSucceeds, SettleFails, SettleChallenged, Finishes
  <2>2. CASE r # q
    <3>1. \E at : MoveTo(r, at)
      <4>1. CASE SettleRequest(r) \/ RecheckPasses(r)
        BY <4>1, SettleMoves DEF SettleRequest, RecheckPasses
      <4>2. CASE ~SettleRequest(r) /\ ~RecheckPasses(r)
        BY <1>1, <4>2 DEF RunStep, SlotTimesOut, FetchThrows, GuardRejects,
           GuardsPass, AcquireThrows, AcquireFails, AcquireSucceeds, RecheckFails,
           SettleSucceeds, SettleFails, SettleChallenged, Throw, Return
      <4>3. QED
        BY <4>1, <4>2
    <3>2. q \notin Granted
      BY <1>1, <2>2, OthersGrantedWait
    <3>3. QED
      BY <2>2, <3>1, <3>2, OthersMove
  <2>3. QED
    BY <2>1, <2>2
<1>2. ASSUME NEW r \in Runs, NEW k \in {"run", "acquire"}, StartRun(r, k)
      PROVE  pc'[q] = pc[q]
  BY <1>0, <1>2 DEF StartRun
<1>3. CASE \/ \E t \in Tasks : EnqueueRequest(t) \/ CancelTask(t)
           \/ ClockTicks \/ UNCHANGED pipelineVars
  BY <1>3 DEF EnqueueRequest, CancelTask, ClockTicks, pipelineVars, runVars
<1>4. QED
  BY <1>1, <1>2, <1>3 DEF PipelineNext

\* The machine of a task comes to `paying` by paymentStart only, and leaves it
\* when the payment ends.
LEMMA PayingFacts ==
  /\ \A s, e : e # "paymentStart" /\ Sniper2Send(s, e) = "paying" => s = "paying"
  /\ \A s : \A e \in {"paymentSucceeded", "paymentFailed", "paymentTimeout"} :
       Sniper2Send(s, e) # "paying"
<1>1. \A s \in DOMAIN Sniper2Table : \A e \in DOMAIN Sniper2Table[s] :
        e # "paymentStart" => Sniper2Table[s][e] # "paying"
  BY DEF Sniper2Table
<1>2. \A e \in {"paymentSucceeded", "paymentFailed", "paymentTimeout"} :
        Sniper2Send("paying", e) # "paying"
  BY SendFacts
<1>3. \A s, e : e # "paymentStart" /\ Sniper2Send(s, e) = "paying" => s = "paying"
  BY <1>1 DEF Sniper2Send, Transition
<1>4. QED
  BY <1>2, <1>3

\* No event but paymentStart, nor a strike, makes a machine show `paying`.
LEMMA AfterShowsPaying ==
  ASSUME machine \in [Tasks -> Sniper2States], NEW t \in Tasks, NEW event,
         event # "paymentStart", NEW u \in Tasks, After(t, event)[u] = "paying"
  PROVE  machine[u] = "paying"
  BY PayingFacts DEF After

LEMMA StruckShowsPaying ==
  ASSUME NEW states \in [Tasks -> Sniper2States], NEW u \in Tasks,
         Struck(states)[u] = "paying"
  PROVE  states[u] = "paying"
  BY PayingFacts DEF Struck

\* The card's entry in process stays, and no task comes to show `paying`.
Quiet ==
  /\ current' = current
  /\ \A u \in Tasks : machine'[u] = "paying" => machine[u] = "paying"

\* A step that is not quiet begins a settle phase or ends one.
LEMMA StepOnCard ==
  ASSUME PipelineAssumption, PipelineInv, [PipelineNext]_pipelineVars
  PROVE  Quiet \/ (\E r \in Runs, k \in {"run", "settle"} : Settle(r, k))
               \/ (\E r \in Runs : Finishes(r))
<1>0. /\ machine \in [Tasks -> Sniper2States]
      /\ \A r \in Runs : TaskOf[r] \in Tasks
  BY DEF PipelineInv, TaskTypeOK, PipelineAssumption
<1>1. ASSUME NEW r \in Runs, RunStep(r), ~RecheckPasses(r), ~Finishes(r)  PROVE  Quiet
  <2>1. CASE FetchThrows(r) \/ GuardRejects(r) \/ RecheckFails(r)
    BY <2>1 DEF FetchThrows, GuardRejects, RecheckFails, taskVars, channelVars, Quiet
  <2>2. CASE GuardsPass(r) \/ AcquireThrows(r)
    <3>1. current' = current /\ machine' = Struck(machine)
      BY <2>2 DEF GuardsPass, AcquireThrows, channelVars
    <3>2. QED
      BY <1>0, <3>1, StruckShowsPaying DEF Quiet
  <2>3. CASE AcquireFails(r)
    <3>1. current' = current /\ machine' = Struck(After(TaskOf[r], "acquireFailed"))
      BY <2>3 DEF AcquireFails, channelVars
    <3>2. After(TaskOf[r], "acquireFailed") \in [Tasks -> Sniper2States]
      BY <1>0, AfterType
    <3>3. QED
      BY <1>0, <3>1, <3>2, StruckShowsPaying, AfterShowsPaying DEF Quiet
  <2>4. ASSUME NEW life \in Lifetimes, AcquireSucceeds(r, life)  PROVE  Quiet
    <3> DEFINE acquired == Struck(After(TaskOf[r], "acquired"))
               queued == [acquired EXCEPT ![TaskOf[r]] = Sniper2Send(@, "queued")]
    <3>1. current' = current /\ (machine' = acquired \/ machine' = queued)
      BY <2>4 DEF AcquireSucceeds, Enqueue, channelVars
    <3>2. After(TaskOf[r], "acquired") \in [Tasks -> Sniper2States]
      BY <1>0, AfterType
    <3>3. \A u \in Tasks : acquired[u] = "paying" => machine[u] = "paying"
      BY <1>0, <3>2, StruckShowsPaying, AfterShowsPaying
    <3>4. acquired \in [Tasks -> Sniper2States]
      BY <3>2, StruckType
    <3>5. \A u \in Tasks : queued[u] = "paying" => acquired[u] = "paying"
      BY <3>4, PayingFacts
    <3>6. QED
      BY <3>1, <3>3, <3>5 DEF Quiet
  <2>5. QED
    BY <1>1, <2>1, <2>2, <2>3, <2>4 DEF RunStep, Finishes
<1>2. CASE \/ \E r \in Runs, k \in {"run", "acquire"} : StartRun(r, k)
           \/ \E r \in Runs : SlotTimesOut(r)
           \/ ClockTicks \/ UNCHANGED pipelineVars
  BY <1>2 DEF StartRun, SlotTimesOut, ClockTicks, Tick, pipelineVars, taskVars, channelVars,
     Quiet
<1>3. ASSUME NEW t \in Tasks, EnqueueRequest(t)  PROVE  Quiet
  <2>1. current' = current /\ machine' = After(t, "queued")
    BY <1>3 DEF EnqueueRequest, Enqueue
  <2>2. QED
    BY <1>0, <2>1, AfterShowsPaying DEF Quiet
<1>4. ASSUME NEW t \in Tasks, CancelTask(t)  PROVE  Quiet
  <2>1. current' = current /\ machine' = After(t, "cancel")
    BY <1>4 DEF CancelTask, channelVars
  <2>2. QED
    BY <1>0, <2>1, AfterShowsPaying DEF Quiet
<1>5. ASSUME NEW r \in Runs, SettleRequest(r) \/ RecheckPasses(r)
      PROVE  \E k \in {"run", "settle"} : Settle(r, k)
  BY <1>5 DEF SettleRequest, RecheckPasses
<1>6. QED
  BY <1>1, <1>2, <1>3, <1>4, <1>5 DEF PipelineNext

\* Where the end of a settle phase leaves the card: the run has returned, its
\* task no longer shows `paying`, and no other task is taken out of process.
LEMMA FinishOnCard ==
  ASSUME PipelineAssumption, machine \in [Tasks -> Sniper2States], NEW r \in Runs, Finishes(r)
  PROVE  /\ pc[r] = "paying" /\ MoveTo(r, "done") /\ UNCHANGED kind
         /\ machine'[TaskOf[r]] # "paying"
         /\ \A u \in Tasks : machine'[u] = "paying" => machine[u] = "paying"
         /\ ~IsCurrent(TaskOf[r]) => current' = current
<1>1. TaskOf[r] \in Tasks
  BY DEF PipelineAssumption
<1>2. /\ pc[r] = "paying" /\ MoveTo(r, "done") /\ UNCHANGED kind
      /\ ~IsCurrent(TaskOf[r]) => current' = current
  BY DEF Finishes, SettleSucceeds, SettleFails, SettleChallenged, Return, CompletePayment,
     channelVars
<1>3. \E event \in {"paymentSucceeded", "paymentFailed", "paymentTimeout"} :
        machine' = After(TaskOf[r], event)
  BY DEF Finishes, SettleSucceeds, SettleFails, SettleChallenged
<1>4. PICK event \in {"paymentSucceeded", "paymentFailed", "paymentTimeout"} :
        machine' = After(TaskOf[r], event)
  BY <1>3
<1>5. machine'[TaskOf[r]] # "paying"
  BY <1>1, <1>4, PayingFacts DEF After
<1>6. \A u \in Tasks : machine'[u] = "paying" => machine[u] = "paying"
  BY <1>1, <1>4, AfterShowsPaying
<1>7. QED
  BY <1>2, <1>5, <1>6

\* A task that comes to show `paying` is the one that its settle phase found
\* or put in process.
LEMMA TasksPayInTurn ==
  ASSUME ChannelAssumption, PipelineAssumption, PipelineInv, OneTaskPays,
         [PipelineNext]_pipelineVars
  PROVE  OneTaskPays'
<1>0. machine \in [Tasks -> Sniper2States] /\ ChannelInv /\ TaskTypeOK
  BY DEF PipelineInv, TaskTypeOK
<1>1. CASE Quiet
  BY <1>1 DEF Quiet, OneTaskPays, IsCurrent
<1>2. ASSUME NEW r \in Runs, NEW k, Settle(r, k)  PROVE  OneTaskPays'
  <2> DEFINE t == TaskOf[r]
  <2>1. \/ UNCHANGED channelVars \/ current = None
    BY <1>2 DEF Settle, StartNext, CanStart
  <2>2. CASE machine' = machine
    BY <2>1, <2>2 DEF OneTaskPays, IsCurrent, channelVars
  <2>3. CASE machine' # machine
    <3>1. /\ machine' = After(t, "paymentStart")
          /\ \/ IsCurrent(t) /\ UNCHANGED channelVars
             \/ StartNext(r \in Forced) /\ current'.task = t
      BY <1>2, <2>3 DEF Settle
    <3>2. IsCurrent(t)'
      <4>1. CASE IsCurrent(t) /\ UNCHANGED channelVars
        BY <4>1 DEF IsCurrent, channelVars
      <4>2. CASE StartNext(r \in Forced) /\ current'.task = t
        <5>1. current' \in Processing
          BY <1>0, <4>2, StartNextType
        <5>2. QED
          BY <4>2, <5>1, NoneAssumption DEF IsCurrent
      <4>3. QED
        BY <3>1, <4>1, <4>2
    <3>3. \A u \in Tasks \ {t} : machine'[u] = machine[u]
      BY <1>0, <3>1 DEF After
    <3>4. QED
      BY <2>1, <3>2, <3>3 DEF OneTaskPays, IsCurrent, channelVars
  <2>4. QED
    BY <2>2, <2>3
<1>3. ASSUME NEW r \in Runs, Finishes(r)  PROVE  OneTaskPays'
  <2>1. /\ machine'[TaskOf[r]] # "paying"
        /\ \A u \in Tasks : machine'[u] = "paying" => machine[u] = "paying"
        /\ ~IsCurrent(TaskOf[r]) => current' = current
    BY <1>0, <1>3, FinishOnCard
  <2>2. QED
    BY <2>1 DEF OneTaskPays, IsCurrent
<1>4. QED
  BY <1>1, <1>2, <1>3, StepOnCard

\* A run keeps its kind once it has started, and rechecks only in a `run`.
LEMMA KindsStay ==
  ASSUME PipelineInv, [PipelineNext]_pipelineVars, NEW p \in Runs
  PROVE  /\ pc[p] # "idle" => kind'[p] = kind[p]
         /\ pc'[p] = "rechecking" =>
              pc[p] = "rechecking" \/ (pc[p] = "acquiring" /\ kind[p] = "run")
<1>0. kind \in [Runs -> Kinds \cup {None}] /\ pc \in [Runs -> {"idle"} \cup Suspended \cup Ended]
  BY DEF PipelineInv, TaskTypeOK, SlotInv, PcTypeOK
<1>1. pc[p] # "idle" => kind'[p] = kind[p]
  BY <1>0 DEF PipelineNext, RunStep, StartRun, SettleRequest, SlotTimesOut, EnqueueRequest,
     CancelTask, ClockTicks, FetchThrows, GuardRejects, GuardsPass, AcquireThrows, AcquireFails,
     AcquireSucceeds, RecheckFails, RecheckPasses, SettleSucceeds, SettleFails,
     SettleChallenged, pipelineVars, runVars
<1>2. ASSUME NEW r \in Runs, NEW at, MoveTo(r, at), at = "rechecking" => r # p
      PROVE  pc'[p] = "rechecking" => pc[p] = "rechecking"
  BY <1>2 DEF MoveTo
<1>3. ASSUME pc'[p] = "rechecking", pc[p] # "rechecking"
      PROVE  pc[p] = "acquiring" /\ kind[p] = "run"
  <2>1. ASSUME NEW r \in Runs, RunStep(r) \/ SettleRequest(r) \/ SlotTimesOut(r)
        PROVE  \/ \E at : MoveTo(r, at) /\ at # "rechecking"
               \/ pc[r] = "acquiring" /\ kind[r] = "run" /\ MoveTo(r, "rechecking")
    <3>1. CASE SettleRequest(r) \/ RecheckPasses(r)
      <4>1. MoveTo(r, "paying") \/ MoveTo(r, "threw")
        BY <3>1, SettleMoves DEF SettleRequest, RecheckPasses
      <4>2. QED
        BY <4>1
    <3>2. CASE GuardsPass(r)
      <4>1. MoveTo(r, IF r \in Granted THEN "acquiring" ELSE "waiting")
        BY <3>2 DEF GuardsPass
      <4>2. QED
        BY <4>1
    <3>3. CASE ~SettleRequest(r) /\ ~RecheckPasses(r) /\ ~GuardsPass(r)
      <4>1. \/ MoveTo(r, "done") \/ MoveTo(r, "threw")
            \/ pc[r] = "acquiring" /\ kind[r] = "run" /\ MoveTo(r, "rechecking")
        BY <2>1, <3>3 DEF RunStep, SlotTimesOut, FetchThrows, GuardRejects,
           AcquireThrows, AcquireFails, AcquireSucceeds, RecheckFails,
           SettleSucceeds, SettleFails, SettleChallenged, Throw, Return
      <4>2. QED
        BY <4>1
    <3>4. QED
      BY <3>1, <3>2, <3>3
  <2>2. ASSUME NEW r \in Runs, NEW k \in {"run", "acquire"}, StartRun(r, k)  PROVE  FALSE
    BY <1>0, <1>3, <2>2 DEF StartRun
  <2>3. ASSUME \/ \E t \in Tasks : EnqueueRequest(t) \/ CancelTask(t)
               \/ ClockTicks \/ UNCHANGED pipelineVars
        PROVE  FALSE
    BY <1>3, <2>3 DEF EnqueueRequest, CancelTask, ClockTicks, pipelineVars, runVars
  <2>4. PICK r \in Runs : RunStep(r) \/ SettleRequest(r) \/ SlotTimesOut(r)
    BY <2>2, <2>3 DEF PipelineNext
  <2>5. QED
    BY <1>2, <1>3, <2>1, <2>4
<1>4. QED
  BY <1>1, <1>3

\* A run that begins to pay has its task in process, and is none of `acquire`.
LEMMA BeginsInTurn ==
  ASSUME ChannelAssumption, PipelineAssumption, PipelineInv, TurnInv, PipelineNext,
         NEW p \in Runs, pc[p] # "paying", pc'[p] = "paying"
  PROVE  IsCurrent(TaskOf[p])' /\ kind'[p] # "acquire"
<1>0. PcTypeOK /\ TaskTypeOK /\ ChannelInv /\ kind \in [Runs -> Kinds \cup {None}]
  BY DEF PipelineInv, SlotInv, TaskTypeOK
<1>1. /\ SettleRequest(p) \/ RecheckPasses(p)
      /\ \E k : Settle(p, k) /\ MoveTo(p, "paying")
  BY <1>0, BeginsToPay
<1>2. current' # None /\ current'.task = TaskOf[p]
  BY <1>0, <1>1, SettleKeepsTypes
<1>3. kind'[p] \in {"run", "settle"}
  BY <1>0, <1>1 DEF SettleRequest, RecheckPasses, TurnInv
<1>4. QED
  BY <1>2, <1>3 DEF IsCurrent

\* A run that goes on paying has its task in process still, or the run that
\* took it out of process has settled the same task.
LEMMA GoesOnInTurn ==
  ASSUME PipelineAssumption, PipelineInv, TurnInv, [PipelineNext]_pipelineVars,
         NEW p \in Runs, pc[p] = "paying", pc'[p] = "paying"
  PROVE  IsCurrent(TaskOf[p])' \/ SettledByAnother(p)'
<1>0. /\ PoolInv /\ SlotInv /\ machine \in [Tasks -> Sniper2States]
      /\ pc \in [Runs -> {"idle"} \cup Suspended \cup Ended]
  BY DEF PipelineInv, TaskTypeOK, SlotInv, PcTypeOK
<1>1. CASE SettledByAnother(p)
  <2>1. PICK q \in Runs \ {p} : TaskOf[q] = TaskOf[p] /\ kind[q] # "acquire" /\ pc[q] = "done"
    BY <1>1 DEF SettledByAnother
  <2>2. ~Finishes(q)
    BY <2>1 DEF Finishes, SettleSucceeds, SettleFails, SettleChallenged
  <2>3. pc'[q] = "done"
    BY <1>0, <2>1, <2>2, PayingOrDoneStays
  <2>4. kind'[q] = kind[q]
    BY <2>1, KindsStay
  <2>5. QED
    BY <2>1, <2>3, <2>4 DEF SettledByAnother
<1>2. CASE IsCurrent(TaskOf[p])
  <2>1. CASE Quiet
    BY <1>2, <2>1 DEF Quiet, IsCurrent
  <2>2. ASSUME NEW r \in Runs, NEW k, Settle(r, k)  PROVE  IsCurrent(TaskOf[p])'
    BY <1>2, <2>2 DEF Settle, StartNext, CanStart, channelVars, IsCurrent
  <2>3. ASSUME NEW r \in Runs, Finishes(r)
        PROVE  IsCurrent(TaskOf[p])' \/ SettledByAnother(p)'
    <3>1. /\ pc[r] = "paying" /\ MoveTo(r, "done") /\ UNCHANGED kind
          /\ ~IsCurrent(TaskOf[r]) => current' = current
      BY <1>0, <2>3, FinishOnCard
    <3>2. pc'[r] = "done" /\ r # p
      BY <3>1 DEF MoveTo
    <3>3. CASE IsCurrent(TaskOf[r])
      <4>1. TaskOf[r] = TaskOf[p]
        BY <1>2, <3>3 DEF IsCurrent
      <4>2. kind'[r] # "acquire"
        BY <3>1 DEF TurnInv
      <4>3. QED
        BY <3>2, <4>1, <4>2 DEF SettledByAnother
    <3>4. CASE ~IsCurrent(TaskOf[r])
      BY <1>2, <3>1, <3>4 DEF IsCurrent
    <3>5. QED
      BY <3>3, <3>4
  <2>4. QED
    BY <2>1, <2>2, <2>3, StepOnCard
<1>3. QED
  BY <1>1, <1>2 DEF TurnInv

\* Whatever requests are made, of whatever tasks: a card has one task that
\* shows `paying` at most, and two of its payments overlap only where a task
\* was requested twice.
THEOREM OneTaskOfACardPays == PipelineSpec => []CardPaysOneTask
<1>1. PipelineInit => TurnInv
  BY PipelineAssumption DEF PipelineInit, TurnInv, OneTaskPays
<1>2. PipelineInv /\ TurnInv /\ [PipelineNext]_pipelineVars => TurnInv'
  <2> SUFFICES ASSUME PipelineInv, TurnInv, [PipelineNext]_pipelineVars  PROVE  TurnInv'
    OBVIOUS
  <2>1. OneTaskPays'
    BY TasksPayInTurn, ChannelAssumption, PipelineAssumption DEF TurnInv
  <2>2. ASSUME NEW p \in Runs, pc'[p] = "rechecking"  PROVE  kind'[p] = "run"
    <3>1. pc[p] # "idle" /\ kind[p] = "run"
      BY <2>2, KindsStay DEF TurnInv
    <3>2. QED
      BY <3>1, KindsStay
  <2>3. ASSUME NEW p \in Runs, pc'[p] = "paying"
        PROVE  /\ kind'[p] # "acquire"
               /\ IsCurrent(TaskOf[p])' \/ SettledByAnother(p)'
    <3>1. CASE pc[p] = "paying"
      <4>1. kind'[p] = kind[p]
        BY <3>1, KindsStay
      <4>2. QED
        BY <2>3, <3>1, <4>1, GoesOnInTurn, PipelineAssumption DEF TurnInv
    <3>2. CASE pc[p] # "paying"
      <4>1. PipelineNext
        BY <2>3, <3>2 DEF pipelineVars, runVars
      <4>2. QED
        BY <2>3, <3>2, <4>1, BeginsInTurn, ChannelAssumption, PipelineAssumption
    <3>3. QED
      BY <3>1, <3>2
  <2>4. QED
    BY <2>1, <2>2, <2>3 DEF TurnInv
<1>3. TurnInv => CardPaysOneTask
  BY DEF TurnInv, CardPaysOneTask, OverlapsAreShared, SettledByAnother
<1>4. QED
  BY <1>1, <1>2, <1>3, PipelineInvariant, PTL DEF PipelineSpec

-----------------------------------------------------------------------------
(* The frozen channel *)

\* A challenge freezes the channel as it takes the payment out of process,
\* and a frozen channel takes no other.
FrozenIsIdle == isFrozen => current = None

LEMMA FrozenStaysIdle ==
  ASSUME AllAlone, LoneRunsOwn, FrozenIsIdle, [PipelineNext]_pipelineVars
  PROVE  FrozenIsIdle'
<1>1. CASE UNCHANGED <<isFrozen, current>>
  BY <1>1 DEF FrozenIsIdle
<1>2. ASSUME NEW r \in Runs, NEW k, Settle(r, k)  PROVE  FrozenIsIdle'
  BY <1>1, <1>2 DEF Settle, StartNext, CanStart, FrozenIsIdle, channelVars
<1>3. ASSUME NEW r \in Runs, RunStep(r)  PROVE  FrozenIsIdle'
  <2>1. CASE RecheckPasses(r)
    BY <1>2, <2>1 DEF RecheckPasses
  <2>2. CASE SettleChallenged(r)
    <3>1. IsCurrent(TaskOf[r])
      BY <2>2 DEF SettleChallenged, AllAlone, LoneRunsOwn, OwnsTask
    <3>2. QED
      BY <2>2, <3>1 DEF SettleChallenged, FrozenIsIdle
  <2>3. CASE SettleSucceeds(r) \/ \E reason \in {"payment_timeout", "payment_failed"} :
                                    SettleFails(r, reason)
    BY <1>1, <2>3 DEF SettleSucceeds, SettleFails, CompletePayment, Complete,
       FrozenIsIdle, channelVars
  <2>4. CASE \/ FetchThrows(r) \/ GuardRejects(r) \/ GuardsPass(r) \/ AcquireThrows(r)
             \/ AcquireFails(r) \/ RecheckFails(r)
             \/ \E life \in Lifetimes : AcquireSucceeds(r, life)
    BY <1>1, <2>4 DEF FetchThrows, GuardRejects, GuardsPass, AcquireThrows, AcquireFails,
       RecheckFails, AcquireSucceeds, Enqueue, channelVars
  <2>5. QED
    BY <1>3, <2>1, <2>2, <2>3, <2>4 DEF RunStep
<1>4. ASSUME NEW r \in Runs, SettleRequest(r)  PROVE  FrozenIsIdle'
  BY <1>2, <1>4 DEF SettleRequest
<1>5. CASE \/ \E r \in Runs, k \in {"run", "acquire"} : StartRun(r, k)
           \/ \E r \in Runs : SlotTimesOut(r)
           \/ \E t \in Tasks : EnqueueRequest(t) \/ CancelTask(t)
           \/ ClockTicks \/ UNCHANGED pipelineVars
  BY <1>1, <1>5 DEF StartRun, SlotTimesOut, EnqueueRequest, Enqueue, CancelTask, ClockTicks,
     Tick, channelVars, pipelineVars
<1>6. QED
  BY <1>3, <1>4, <1>5 DEF PipelineNext

\* With one run per task no payment begins on a card that a challenge froze.
THEOREM NothingStartsFrozen == AllAlone => (PipelineSpec => NoPaymentStartsFrozen)
<1> SUFFICES ASSUME AllAlone  PROVE  PipelineSpec => NoPaymentStartsFrozen
  OBVIOUS
<1> DEFINE Thawed == \A r \in Runs : pc[r] # "paying" /\ pc'[r] = "paying" => ~isFrozen
<1>1. PipelineInit => FrozenIsIdle
  BY DEF PipelineInit, ChannelInit, FrozenIsIdle
<1>2. LoneRunsOwn /\ FrozenIsIdle /\ [PipelineNext]_pipelineVars => FrozenIsIdle'
  BY FrozenStaysIdle
<1>3. PipelineInv /\ FrozenIsIdle /\ [PipelineNext]_pipelineVars => [Thawed]_pipelineVars
  <2> SUFFICES ASSUME PipelineInv, FrozenIsIdle, PipelineNext,
                      NEW q \in Runs, pc[q] # "paying", pc'[q] = "paying"
               PROVE  ~isFrozen
    OBVIOUS
  <2>1. PICK k : Settle(q, k) /\ MoveTo(q, "paying")
    BY BeginsToPay DEF PipelineInv, SlotInv
  <2>2. ~MoveTo(q, "threw")
    BY DEF MoveTo
  <2>3. IsCurrent(TaskOf[q]) \/ StartNext(q \in Forced)
    BY <2>1, <2>2 DEF Settle, Throw
  <2>4. QED
    BY <2>3 DEF IsCurrent, StartNext, CanStart, FrozenIsIdle
<1>4. PipelineSpec => [][Thawed]_pipelineVars
  BY <1>1, <1>2, <1>3, PipelineInvariant, LoneRunsOwnTheirTasks, PTL DEF PipelineSpec
<1>5. QED
  BY <1>4 DEF NoPaymentStartsFrozen
=============================================================================
