----------------------------- MODULE SumTheorems -----------------------------
(***************************************************************************)
(* Sums over finite sets.  The community modules define a sum of a         *)
(* function by recursion over the subsets of its indices, taking out an    *)
(* element that CHOOSE names.  Here it is shown that the recursion defines *)
(* something, that the order in which the elements are taken does not      *)
(* matter, and how a sum grows with its indices and its summands.          *)
(***************************************************************************)
EXTENDS Integers, Functions, FiniteSetTheorems, WellFoundedInduction, TLAPS

\* The element that the recursion takes out of s.
Pick(s) == CHOOSE x \in s : TRUE

\* g is the function the recursion over the subsets of S asks for.
IsSumOver(g, F, S) ==
  g = [s \in SUBSET S |-> IF s = {} THEN 0 ELSE F[Pick(s)] + g[s \ {Pick(s)}]]

\* The sum is the value at S of a function that satisfies the recursion.
LEMMA SumIsChosen ==
  ASSUME NEW F, NEW S
  PROVE  SumFunctionOnSet(F, S) = (CHOOSE g : IsSumOver(g, F, S))[S]
  BY DEF SumFunctionOnSet, FoldFunctionOnSet, MapThenFoldSet, IsSumOver, Pick

\* A finite set that is not empty has the element taken out of it.
LEMMA PickIsMember ==
  ASSUME NEW s, s # {}
  PROVE  Pick(s) \in s
  BY DEF Pick

\* Induction over the subsets of a finite set: a set of subsets that is not
\* empty has one of which no strict subset is in it.
LEMMA SmallestSubset ==
  ASSUME NEW S, IsFiniteSet(S), NEW T \in SUBSET SUBSET S, T # {}
  PROVE  \E s \in T : \A t \in T : t \subseteq s => t = s
<1>1. T \subseteq FiniteSubsetsOf(S)
  BY FS_Subset DEF FiniteSubsetsOf
<1>2. IsWellFoundedOn(StrictSubsetOrdering(S), FiniteSubsetsOf(S))
  BY FS_StrictSubsetOrderingWellFounded
<1>3. PICK s \in T : \A t \in T : <<t, s>> \notin StrictSubsetOrdering(S)
  BY <1>1, <1>2, WFMin
<1>4. QED
  BY <1>3 DEF StrictSubsetOrdering

\* The recursion has one solution at most.
LEMMA SumUnique ==
  ASSUME NEW F, NEW S, IsFiniteSet(S), NEW g, NEW h,
         IsSumOver(g, F, S), IsSumOver(h, F, S)
  PROVE  g = h
<1> DEFINE T == {s \in SUBSET S : g[s] # h[s]}
<1>1. SUFFICES ASSUME T # {}  PROVE  FALSE
  BY DEF IsSumOver
<1>2. PICK s \in T : \A t \in T : t \subseteq s => t = s
  <2>1. T \in SUBSET SUBSET S
    OBVIOUS
  <2> HIDE DEF T
  <2>2. QED
    BY <1>1, <2>1, SmallestSubset
<1>3. s # {}
  BY DEF IsSumOver
<1>4. Pick(s) \in s
  BY <1>3, PickIsMember
<1>5. g[s \ {Pick(s)}] = h[s \ {Pick(s)}]
  BY <1>2, <1>4
<1>6. QED
  BY <1>3, <1>5 DEF IsSumOver

\* A solution for a set gives the sum of each of its subsets.
LEMMA SumOfSubset ==
  ASSUME NEW F, NEW S, IsFiniteSet(S), NEW g, IsSumOver(g, F, S), NEW s \in SUBSET S
  PROVE  SumFunctionOnSet(F, s) = g[s]
<1> DEFINE h == [t \in SUBSET s |-> g[t]]
<1>1. IsSumOver(h, F, s)
  <2>1. ASSUME NEW t \in SUBSET s, t # {}  PROVE  h[t] = F[Pick(t)] + h[t \ {Pick(t)}]
    <3>1. t \ {Pick(t)} \in SUBSET s /\ t \in SUBSET S
      OBVIOUS
    <3>2. g[t] = F[Pick(t)] + g[t \ {Pick(t)}]
      BY <2>1, <3>1 DEF IsSumOver
    <3>3. QED
      BY <3>1, <3>2
  <2>2. h[{}] = 0
    BY DEF IsSumOver
  <2>3. \A t \in SUBSET s : h[t] = IF t = {} THEN 0 ELSE F[Pick(t)] + h[t \ {Pick(t)}]
    BY <2>1, <2>2
  <2>4. h = [t \in SUBSET s |-> h[t]]
    OBVIOUS
  <2> HIDE DEF h
  <2>5. QED
    BY <2>3, <2>4 DEF IsSumOver
<1>2. IsFiniteSet(s)
  BY FS_Subset
<1>3. h = CHOOSE k : IsSumOver(k, F, s)
  <2>1. IsSumOver(CHOOSE k : IsSumOver(k, F, s), F, s)
    BY <1>1
  <2>2. QED
    BY <1>1, <1>2, <2>1, SumUnique
<1>4. QED
  BY <1>3, SumIsChosen

\* Every finite set has a solution, and with it a sum.
LEMMA SumExists ==
  ASSUME NEW F, NEW S, IsFiniteSet(S)
  PROVE  \E g : IsSumOver(g, F, S)
<1> DEFINE T == {s \in SUBSET S : ~ \E g : IsSumOver(g, F, s)}
<1>1. SUFFICES ASSUME T # {}  PROVE  FALSE
  OBVIOUS
<1>2. PICK s \in T : \A t \in T : t \subseteq s => t = s
  <2>1. T \in SUBSET SUBSET S
    OBVIOUS
  <2> HIDE DEF T
  <2>2. QED
    BY <1>1, <2>1, SmallestSubset
<1> DEFINE Value(t) == SumFunctionOnSet(F, t)
           h == [t \in SUBSET s |-> IF t = {} THEN 0
                                    ELSE F[Pick(t)] + Value(t \ {Pick(t)})]
<1>3. ASSUME NEW t \in SUBSET s, t # s
      PROVE  Value(t) = IF t = {} THEN 0 ELSE F[Pick(t)] + Value(t \ {Pick(t)})
  <2>1. PICK g : IsSumOver(g, F, t)
    BY <1>2, <1>3
  <2>2. IsFiniteSet(t)
    BY FS_Subset
  <2>3. \A u \in SUBSET t : Value(u) = g[u]
    BY <2>1, <2>2, SumOfSubset
  <2>4. g[t] = IF t = {} THEN 0 ELSE F[Pick(t)] + g[t \ {Pick(t)}]
    BY <2>1 DEF IsSumOver
  <2>5. t \in SUBSET t /\ t \ {Pick(t)} \in SUBSET t
    OBVIOUS
  <2> HIDE DEF Value
  <2>6. QED
    BY <2>3, <2>4, <2>5
<1>4. ASSUME NEW t \in SUBSET s, t # {}  PROVE  Value(t \ {Pick(t)}) = h[t \ {Pick(t)}]
  <2>1. t \ {Pick(t)} \in SUBSET s /\ t \ {Pick(t)} # s
    BY <1>4, PickIsMember
  <2> HIDE DEF Value
  <2>2. QED
    BY <1>3, <2>1
<1>5. IsSumOver(h, F, s)
  <2> HIDE DEF Value
  <2>1. \A t \in SUBSET s : h[t] = IF t = {} THEN 0 ELSE F[Pick(t)] + h[t \ {Pick(t)}]
    BY <1>4
  <2>2. h = [t \in SUBSET s |-> h[t]]
    OBVIOUS
  <2> HIDE DEF h
  <2>3. QED
    BY <2>1, <2>2 DEF IsSumOver
<1>6. QED
  <2> HIDE DEF h
  <2>1. QED
    BY <1>2, <1>5

\* The equation that a sum satisfies, for the element the recursion takes out.
LEMMA SumEquation ==
  ASSUME NEW F, NEW S, IsFiniteSet(S)
  PROVE  SumFunctionOnSet(F, S) =
           IF S = {} THEN 0 ELSE F[Pick(S)] + SumFunctionOnSet(F, S \ {Pick(S)})
<1>1. PICK g : IsSumOver(g, F, S)
  BY SumExists
<1>2. SumFunctionOnSet(F, S) = g[S]
  BY <1>1, SumOfSubset
<1>3. SumFunctionOnSet(F, S \ {Pick(S)}) = g[S \ {Pick(S)}]
  BY <1>1, SumOfSubset
<1>4. QED
  BY <1>1, <1>2, <1>3 DEF IsSumOver

-----------------------------------------------------------------------------
(* What sums of natural numbers satisfy *)

\* A sum over nothing is zero.
LEMMA SumEmpty ==
  ASSUME NEW F
  PROVE  SumFunctionOnSet(F, {}) = 0
  BY SumEquation, FS_EmptySet

\* A sum of natural numbers is one.
LEMMA SumType ==
  ASSUME NEW F, NEW S, IsFiniteSet(S), \A x \in S : F[x] \in Nat
  PROVE  SumFunctionOnSet(F, S) \in Nat
<1> DEFINE T == {s \in SUBSET S : SumFunctionOnSet(F, s) \notin Nat}
<1>1. SUFFICES ASSUME T # {}  PROVE  FALSE
  OBVIOUS
<1>2. PICK s \in T : \A t \in T : t \subseteq s => t = s
  <2>1. T \in SUBSET SUBSET S
    OBVIOUS
  <2> HIDE DEF T
  <2>2. QED
    BY <1>1, <2>1, SmallestSubset
<1>3. IsFiniteSet(s)
  BY FS_Subset
<1>4. s # {}
  <2>1. {} \notin T
    BY SumEmpty
  <2>2. QED
    BY <1>2, <2>1
<1>5. Pick(s) \in s /\ F[Pick(s)] \in Nat
  BY <1>4, PickIsMember
<1>6. SumFunctionOnSet(F, s \ {Pick(s)}) \in Nat
  BY <1>2, <1>5
<1>7. QED
  BY <1>2, <1>3, <1>4, <1>5, <1>6, SumEquation

\* Whichever element is taken out first, the sum is the same.
LEMMA SumRemove ==
  ASSUME NEW F, NEW S, IsFiniteSet(S), \A x \in S : F[x] \in Nat, NEW e \in S
  PROVE  SumFunctionOnSet(F, S) = F[e] + SumFunctionOnSet(F, S \ {e})
<1> DEFINE Value(s) == SumFunctionOnSet(F, s)
           T == {s \in SUBSET S : \E x \in s : Value(s) # F[x] + Value(s \ {x})}
<1>1. SUFFICES ASSUME T # {}  PROVE  FALSE
  <2>1. S \in SUBSET S /\ S \notin T
    OBVIOUS
  <2>2. \A x \in S : SumFunctionOnSet(F, S) = F[x] + SumFunctionOnSet(F, S \ {x})
    BY <2>1
  <2>3. QED
    BY <2>2
<1>2. PICK s \in T : \A t \in T : t \subseteq s => t = s
  <2>1. T \in SUBSET SUBSET S
    OBVIOUS
  <2> HIDE DEF T
  <2>2. QED
    BY <1>1, <2>1, SmallestSubset
<1> HIDE DEF Value
<1>3. \A t \in SUBSET S : Value(t) \in Nat
  BY FS_Subset, SumType DEF Value
<1>4. \A t \in SUBSET S : t # {} => Pick(t) \in t /\ Value(t) = F[Pick(t)] + Value(t \ {Pick(t)})
  BY FS_Subset, SumEquation, PickIsMember DEF Value
<1>5. PICK x \in s : Value(s) # F[x] + Value(s \ {x})
  BY <1>2
<1> DEFINE p == Pick(s)
<1>6. p \in s /\ p # x /\ Value(s) = F[p] + Value(s \ {p})
  BY <1>4, <1>5
<1> HIDE DEF p
<1>7. Value(s \ {p}) = F[x] + Value((s \ {p}) \ {x})
  <2>1. s \ {p} \notin T /\ s \ {p} \in SUBSET S /\ x \in s \ {p}
    BY <1>2, <1>5, <1>6
  <2>2. QED
    BY <2>1
<1>8. Value(s \ {x}) = F[p] + Value((s \ {x}) \ {p})
  <2>1. s \ {x} \notin T /\ s \ {x} \in SUBSET S /\ p \in s \ {x}
    BY <1>2, <1>5, <1>6
  <2>2. QED
    BY <2>1
<1>9. (s \ {p}) \ {x} = (s \ {x}) \ {p}
  OBVIOUS
<1>10. F[p] \in Nat /\ F[x] \in Nat /\ Value((s \ {p}) \ {x}) \in Nat
  BY <1>3, <1>5, <1>6
<1>11. Value(s) = F[x] + Value(s \ {x})
  <2>1. Value(s) = F[p] + (F[x] + Value((s \ {p}) \ {x}))
    BY <1>6, <1>7
  <2>2. Value(s \ {x}) = F[p] + Value((s \ {p}) \ {x})
    BY <1>8, <1>9
  <2>3. QED
    BY <1>10, <2>1, <2>2
<1>12. QED
  BY <1>5, <1>11

\* A new index adds its summand to the sum.
LEMMA SumAdd ==
  ASSUME NEW F, NEW S, IsFiniteSet(S), NEW e, e \notin S, F[e] \in Nat,
         \A x \in S : F[x] \in Nat
  PROVE  SumFunctionOnSet(F, S \cup {e}) = F[e] + SumFunctionOnSet(F, S)
<1>1. IsFiniteSet(S \cup {e}) /\ e \in S \cup {e} /\ \A x \in S \cup {e} : F[x] \in Nat
  BY FS_AddElement
<1>2. (S \cup {e}) \ {e} = S
  OBVIOUS
<1>3. SumFunctionOnSet(F, S \cup {e}) = F[e] + SumFunctionOnSet(F, (S \cup {e}) \ {e})
  BY <1>1, SumRemove
<1>4. QED
  BY <1>2, <1>3

\* An index adds its summand to the sum at most.
LEMMA SumAddBound ==
  ASSUME NEW F, NEW S, IsFiniteSet(S), NEW e, F[e] \in Nat, \A x \in S : F[x] \in Nat
  PROVE  SumFunctionOnSet(F, S \cup {e}) <= F[e] + SumFunctionOnSet(F, S)
<1>1. SumFunctionOnSet(F, S) \in Nat
  BY SumType
<1>2. CASE e \in S
  <2>1. S \cup {e} = S
    BY <1>2
  <2>2. QED
    BY <1>1, <2>1
<1>3. CASE e \notin S
  BY <1>1, <1>3, SumAdd
<1>4. QED
  BY <1>2, <1>3

\* The sum of what is in two sets that have nothing in common.
LEMMA SumUnion ==
  ASSUME NEW F, NEW S, NEW R, IsFiniteSet(S), IsFiniteSet(R), S \cap R = {},
         \A x \in S \cup R : F[x] \in Nat
  PROVE  SumFunctionOnSet(F, S \cup R) = SumFunctionOnSet(F, S) + SumFunctionOnSet(F, R)
<1> DEFINE Value(s) == SumFunctionOnSet(F, s)
           T == {s \in SUBSET S : Value(s \cup R) # Value(s) + Value(R)}
<1>1. SUFFICES ASSUME T # {}  PROVE  FALSE
  <2>1. S \in SUBSET S /\ S \notin T
    OBVIOUS
  <2>2. SumFunctionOnSet(F, S \cup R) = SumFunctionOnSet(F, S) + SumFunctionOnSet(F, R)
    BY <2>1
  <2>3. QED
    BY <2>2
<1>2. PICK s \in T : \A t \in T : t \subseteq s => t = s
  <2>1. T \in SUBSET SUBSET S
    OBVIOUS
  <2> HIDE DEF T
  <2>2. QED
    BY <1>1, <2>1, SmallestSubset
<1>3. \A t \in SUBSET S : IsFiniteSet(t) /\ IsFiniteSet(t \cup R)
  BY FS_Subset, FS_Union
<1>4. Value({}) = 0 /\ Value(R) \in Nat
  BY SumEmpty, SumType DEF Value
<1> HIDE DEF Value
<1>5. s # {}
  <2>1. {} \cup R = R
    OBVIOUS
  <2>2. Value({} \cup R) = Value({}) + Value(R)
    BY <1>4, <2>1
  <2>3. {} \notin T
    BY <2>2
  <2>4. QED
    BY <1>2, <2>3
<1>6. PICK e \in s : TRUE
  BY <1>5
<1>7. Value(s) = F[e] + Value(s \ {e})
  BY <1>3, <1>6, SumRemove DEF Value
<1>8. Value(s \cup R) = F[e] + Value((s \cup R) \ {e})
  BY <1>3, <1>6, SumRemove DEF Value
<1>9. (s \cup R) \ {e} = (s \ {e}) \cup R
  BY <1>2, <1>6
<1>10. Value((s \ {e}) \cup R) = Value(s \ {e}) + Value(R)
  <2>1. s \ {e} \notin T /\ s \ {e} \in SUBSET S
    BY <1>2, <1>6
  <2>2. QED
    BY <2>1
<1>11. F[e] \in Nat /\ Value(s \ {e}) \in Nat
  <2>1. IsFiniteSet(s \ {e}) /\ \A x \in s \ {e} : F[x] \in Nat
    BY <1>3
  <2>2. QED
    BY <1>6, <2>1, SumType DEF Value
<1>12. QED
  BY <1>2, <1>4, <1>7, <1>8, <1>9, <1>10, <1>11

\* A sum grows with its indices.
LEMMA SumMonotone ==
  ASSUME NEW F, NEW S, IsFiniteSet(S), \A x \in S : F[x] \in Nat, NEW R \in SUBSET S
  PROVE  SumFunctionOnSet(F, R) <= SumFunctionOnSet(F, S)
<1>1. IsFiniteSet(R) /\ IsFiniteSet(S \ R) /\ R \cap (S \ R) = {} /\ R \cup (S \ R) = S
  BY FS_Subset, FS_Difference
<1>2. SumFunctionOnSet(F, S) = SumFunctionOnSet(F, R) + SumFunctionOnSet(F, S \ R)
  BY <1>1, SumUnion
<1>3. SumFunctionOnSet(F, R) \in Nat /\ SumFunctionOnSet(F, S \ R) \in Nat
  BY <1>1, SumType
<1>4. QED
  BY <1>2, <1>3

\* A sum grows with its summands.
LEMMA SumBounded ==
  ASSUME NEW F, NEW G, NEW S, IsFiniteSet(S),
         \A x \in S : F[x] \in Nat /\ G[x] \in Nat /\ F[x] <= G[x]
  PROVE  SumFunctionOnSet(F, S) <= SumFunctionOnSet(G, S)
<1> DEFINE FS(s) == SumFunctionOnSet(F, s)
           GS(s) == SumFunctionOnSet(G, s)
           T == {s \in SUBSET S : ~(FS(s) <= GS(s))}
<1>1. SUFFICES ASSUME T # {}  PROVE  FALSE
  <2>1. S \in SUBSET S /\ S \notin T
    OBVIOUS
  <2>2. SumFunctionOnSet(F, S) <= SumFunctionOnSet(G, S)
    BY <2>1
  <2>3. QED
    BY <2>2
<1>2. PICK s \in T : \A t \in T : t \subseteq s => t = s
  <2>1. T \in SUBSET SUBSET S
    OBVIOUS
  <2> HIDE DEF T
  <2>2. QED
    BY <1>1, <2>1, SmallestSubset
<1>3. \A t \in SUBSET S : IsFiniteSet(t)
  BY FS_Subset
<1>4. \A t \in SUBSET S : FS(t) \in Nat /\ GS(t) \in Nat
  BY <1>3, SumType DEF FS, GS
<1>5. FS({}) = 0 /\ GS({}) = 0
  BY SumEmpty DEF FS, GS
<1>6. s # {}
  <2> HIDE DEF FS, GS
  <2>1. {} \notin T
    BY <1>5
  <2>2. QED
    BY <1>2, <2>1
<1>7. PICK e \in s : TRUE
  BY <1>6
<1>8. FS(s) = F[e] + FS(s \ {e}) /\ GS(s) = G[e] + GS(s \ {e})
  BY <1>3, <1>7, SumRemove DEF FS, GS
<1> HIDE DEF FS, GS
<1>9. FS(s \ {e}) <= GS(s \ {e})
  <2>1. s \ {e} \notin T /\ s \ {e} \in SUBSET S
    BY <1>2, <1>7
  <2>2. QED
    BY <2>1
<1>10. /\ F[e] \in Nat /\ G[e] \in Nat /\ F[e] <= G[e]
       /\ FS(s \ {e}) \in Nat /\ GS(s \ {e}) \in Nat
  BY <1>4, <1>7
<1>11. QED
  BY <1>2, <1>8, <1>9, <1>10

\* Only the summands of its indices count in a sum.
LEMMA SumAgree ==
  ASSUME NEW F, NEW G, NEW S, IsFiniteSet(S), \A x \in S : F[x] \in Nat /\ F[x] = G[x]
  PROVE  SumFunctionOnSet(F, S) = SumFunctionOnSet(G, S)
<1>1. SumFunctionOnSet(F, S) <= SumFunctionOnSet(G, S)
  BY SumBounded
<1>2. SumFunctionOnSet(G, S) <= SumFunctionOnSet(F, S)
  BY SumBounded
<1>3. SumFunctionOnSet(F, S) \in Nat /\ SumFunctionOnSet(G, S) \in Nat
  BY SumType
<1>4. QED
  BY <1>1, <1>2, <1>3

\* A sum changes with one of its summands by as much as this one.
LEMMA SumChange ==
  ASSUME NEW F, NEW G, NEW S, IsFiniteSet(S), NEW e \in S,
         \A x \in S : F[x] \in Nat /\ G[x] \in Nat,
         \A x \in S : x # e => G[x] = F[x]
  PROVE  SumFunctionOnSet(G, S) + F[e] = SumFunctionOnSet(F, S) + G[e]
<1> DEFINE rest == S \ {e}
<1>1. IsFiniteSet(rest) /\ \A x \in rest : F[x] \in Nat /\ F[x] = G[x]
  BY FS_RemoveElement
<1>2. /\ SumFunctionOnSet(F, S) = F[e] + SumFunctionOnSet(F, rest)
      /\ SumFunctionOnSet(G, S) = G[e] + SumFunctionOnSet(G, rest)
  BY SumRemove
<1> HIDE DEF rest
<1>3. SumFunctionOnSet(F, rest) = SumFunctionOnSet(G, rest)
  BY <1>1, SumAgree
<1>4. SumFunctionOnSet(F, rest) \in Nat
  BY <1>1, SumType
<1>5. QED
  BY <1>2, <1>3, <1>4

\* Nothing adds up to nothing.
LEMMA SumOfZeros ==
  ASSUME NEW F, NEW S, IsFiniteSet(S), \A x \in S : F[x] = 0
  PROVE  SumFunctionOnSet(F, S) = 0
<1> DEFINE Value(s) == SumFunctionOnSet(F, s)
           T == {s \in SUBSET S : Value(s) # 0}
<1>1. SUFFICES ASSUME T # {}  PROVE  FALSE
  <2>1. S \in SUBSET S /\ S \notin T
    OBVIOUS
  <2>2. QED
    BY <2>1
<1>2. PICK s \in T : \A t \in T : t \subseteq s => t = s
  <2>1. T \in SUBSET SUBSET S
    OBVIOUS
  <2> HIDE DEF T
  <2>2. QED
    BY <1>1, <2>1, SmallestSubset
<1>3. IsFiniteSet(s) /\ \A x \in s : F[x] \in Nat
  BY FS_Subset
<1>4. Value({}) = 0
  BY SumEmpty
<1>5. PICK e \in s : TRUE
  BY <1>4
<1>6. Value(s) = F[e] + Value(s \ {e}) /\ F[e] = 0
  BY <1>3, SumRemove
<1>7. Value(s \ {e}) = 0
  BY <1>2
<1>8. QED
  BY <1>2, <1>6, <1>7
=============================================================================
