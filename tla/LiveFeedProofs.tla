---------------------------- MODULE LiveFeedProofs ----------------------------
(***************************************************************************)
(* The feed for any clients, patterns and size of the replay buffer, and   *)
(* for any topics emitted at once.  What a connection is sent is read off  *)
(* the loop of Receive, whose result is found by a least counterexample:   *)
(* an increasing choice of the wanted events.  From it FeedInv, which has  *)
(* the numbers of the buffered events consecutive, is kept by an emission, *)
(* by the replay and by what a client does.                                *)
(***************************************************************************)
EXTENDS LiveFeed, SequenceTheorems, FiniteSetTheorems, WellFoundedInduction, TLAPS

-----------------------------------------------------------------------------
(* What a connection is sent *)

\* A set of numbers that is not empty has a least one.
LEMMA LeastNumber ==
  ASSUME NEW S, S \subseteq Nat, S # {}
  PROVE  \E n \in S : \A k \in S : n <= k
<1> DEFINE R == {ss \in Nat \X Nat : ss[1] < ss[2]}
<1>1. IsWellFoundedOn(R, Nat)
  BY NatLessThanWellFounded, Zenon DEF OpToRel
<1> HIDE DEF R
<1>2. PICK n \in S : \A k \in S : ~(<<k, n>> \in R)
  BY <1>1, WFMin
<1>3. \A k \in S : n <= k
  <2> SUFFICES ASSUME NEW k \in S, ~(n <= k)  PROVE  FALSE
    OBVIOUS
  <2>1. k \in Nat /\ n \in Nat /\ k < n
    OBVIOUS
  <2>2. <<k, n>> \in R
    BY <2>1 DEF R
  <2>3. QED
    BY <1>2, <2>2
<1>4. QED
  BY <1>3

Topics == {"terminal", "in-app", "created", "audit", "reminder", "dismissed"}
EventRecord == [id : Nat \ {0}, topic : Topics, within : Nat]

Wanted(k, e, since) == e.id > since /\ MatchesAny(k.topics, e)

\* g is the function the loop over the first n events of s asks for.
IsReceiving(g, k, s, since, n) ==
  g = [i \in 0..n |->
         IF i = 0 THEN k.got
         ELSE IF Wanted(k, s[i], since) THEN Append(g[i - 1], s[i].id) ELSE g[i - 1]]

\* The loop's result is chosen among the functions that do what it does.
LEMMA ReceiveIsChosen ==
  ASSUME NEW k, NEW s, NEW since
  PROVE  Receive(k, s, since) =
           [k EXCEPT !.got = (CHOOSE g : IsReceiving(g, k, s, since, Len(s)))[Len(s)]]
BY DEF Receive, IsReceiving, Wanted

\* The loop over n events does something, for every n.
LEMMA ReceivingExists ==
  ASSUME NEW k, NEW s, NEW since, NEW N \in Nat
  PROVE  \E g : IsReceiving(g, k, s, since, N)
<1> DEFINE S == {n \in Nat : ~ \E g : IsReceiving(g, k, s, since, n)}
<1>1. SUFFICES ASSUME S # {}  PROVE  FALSE
  OBVIOUS
<1>2. PICK n \in S : \A j \in S : n <= j
  <2>1. S \subseteq Nat
    OBVIOUS
  <2> HIDE DEF S
  <2>2. QED
    BY <1>1, <2>1, LeastNumber
<1>3. n \in Nat /\ ~ \E g : IsReceiving(g, k, s, since, n)
  BY <1>2
<1>4. n # 0
  <2> SUFFICES ASSUME n = 0  PROVE  \E g : IsReceiving(g, k, s, since, n)
    BY <1>3
  <2> DEFINE g == [i \in 0..0 |-> k.got]
  <2>1. \A i \in 0..0 : i = 0
    OBVIOUS
  <2>2. IsReceiving(g, k, s, since, 0)
    BY <2>1 DEF IsReceiving
  <2>3. QED
    BY <2>2
<1>5. n - 1 \in Nat /\ n - 1 \notin S
  BY <1>2, <1>3, <1>4
<1>6. PICK f : IsReceiving(f, k, s, since, n - 1)
  BY <1>5
<1> DEFINE Then(before, i) == IF Wanted(k, s[i], since) THEN Append(before, s[i].id) ELSE before
           g == [i \in 0..n |-> IF i = n THEN Then(f[n - 1], n) ELSE f[i]]
<1>7. \A i \in 0..(n - 1) : f[i] = IF i = 0 THEN k.got ELSE Then(f[i - 1], i)
  BY <1>6 DEF IsReceiving
<1> HIDE DEF Then
<1>8. \A i \in 0..n : g[i] = IF i = 0 THEN k.got ELSE Then(g[i - 1], i)
  <2> SUFFICES ASSUME NEW i \in 0..n
               PROVE  g[i] = IF i = 0 THEN k.got ELSE Then(g[i - 1], i)
    OBVIOUS
  <2>1. CASE i = n
    <3>1. g[i] = Then(f[n - 1], n) /\ i # 0
      BY <1>4, <2>1
    <3>2. n - 1 \in 0..n /\ n - 1 # n
      BY <1>3, <1>5
    <3>3. g[i - 1] = f[n - 1]
      BY <2>1, <3>2
    <3>4. QED
      BY <2>1, <3>1, <3>3
  <2>2. CASE i = 0
    BY <1>3, <1>4, <1>5, <1>7, <2>2
  <2>3. CASE i # n /\ i # 0
    <3>1. i \in 0..(n - 1) /\ i - 1 \in 0..n /\ i - 1 # n
      BY <1>3, <2>3
    <3>2. g[i] = f[i] /\ g[i - 1] = f[i - 1]
      BY <2>3, <3>1
    <3>3. QED
      BY <1>7, <2>3, <3>1, <3>2
  <2>4. QED
    BY <2>1, <2>2, <2>3
<1>9. g = [i \in 0..n |-> g[i]]
  OBVIOUS
<1> HIDE DEF g
<1>10. IsReceiving(g, k, s, since, n)
  BY <1>8, <1>9 DEF IsReceiving, Then
<1>11. QED
  BY <1>3, <1>10

\* m lists the indices of the wanted among the first n events in their order.
IsSelection(m, k, s, since, n) ==
  /\ m \in Seq(1..n)
  /\ \A i, j \in DOMAIN m : i < j => m[i] < m[j]
  /\ \A i \in 1..n : Wanted(k, s[i], since) <=> \E j \in DOMAIN m : m[j] = i

Ids(m, s) == [j \in 1..Len(m) |-> s[m[j]].id]

\* got is what k has got when it was sent the wanted of the first n events.
IsSent(got, k, s, since, n) ==
  \E m : IsSelection(m, k, s, since, n) /\ got = k.got \o Ids(m, s)

\* After n events of the loop the wanted ones among them have been appended.
LEMMA ReceivingSelects ==
  ASSUME NEW k, k.got \in Seq(Nat), NEW s \in Seq(EventRecord), NEW since,
         NEW g, IsReceiving(g, k, s, since, Len(s)), NEW N \in Nat, N <= Len(s)
  PROVE  IsSent(g[N], k, s, since, N)
<1> DEFINE Right(n) == \E m : IsSelection(m, k, s, since, n) /\ g[n] = k.got \o Ids(m, s)
           S == {n \in 0..Len(s) : ~Right(n)}
<1>1. SUFFICES ASSUME S # {}  PROVE  FALSE
  BY DEF IsSent
<1>2. PICK n \in S : \A j \in S : n <= j
  <2>1. S \subseteq Nat
    OBVIOUS
  <2> HIDE DEF S
  <2>2. QED
    BY <1>1, <2>1, LeastNumber
<1>3. n \in 0..Len(s) /\ n \in Nat /\ ~Right(n) /\ Len(s) \in Nat
  BY <1>2
<1>4. \A i \in 0..Len(s) : g[i] = IF i = 0 THEN k.got
        ELSE IF Wanted(k, s[i], since) THEN Append(g[i - 1], s[i].id) ELSE g[i - 1]
  BY DEF IsReceiving
<1>5. n # 0
  <2> SUFFICES ASSUME n = 0  PROVE  Right(n)
    BY <1>3
  <2> DEFINE m == <<>>
  <2>1. IsSelection(m, k, s, since, 0)
    BY DEF IsSelection
  <2>2. Ids(m, s) = <<>>
    BY DEF Ids
  <2>3. g[0] = k.got \o Ids(m, s)
    BY <1>4, <2>2, <1>3
  <2>4. QED
    BY <2>1, <2>3
<1>6. n - 1 \in 0..Len(s) /\ Right(n - 1)
  <2>1. n - 1 \in 0..Len(s) /\ ~(n <= n - 1)
    BY <1>3, <1>5
  <2>2. n - 1 \notin S
    <3> HIDE DEF S
    <3>1. QED
      BY <1>2, <2>1
  <2>3. QED
    BY <2>1, <2>2
<1>7. PICK m : IsSelection(m, k, s, since, n - 1) /\ g[n - 1] = k.got \o Ids(m, s)
  BY <1>6
<1>8. /\ m \in Seq(1..(n - 1)) /\ Len(m) \in Nat /\ DOMAIN m = 1..Len(m)
      /\ \A j \in DOMAIN m : m[j] \in 1..(n - 1)
  BY <1>7 DEF IsSelection
<1>9. n \in 1..Len(s) /\ s[n] \in EventRecord
  BY <1>3, <1>5
<1>10. Ids(m, s) \in Seq(Nat)
  <2>1. \A j \in 1..Len(m) : s[m[j]] \in EventRecord
    BY <1>3, <1>8
  <2>2. \A j \in 1..Len(m) : s[m[j]].id \in Nat
    BY <2>1 DEF EventRecord
  <2>3. QED
    BY <1>8, <2>2 DEF Ids
<1>11. CASE Wanted(k, s[n], since)
  <2> DEFINE w == Append(m, n)
  <2>1. /\ w \in Seq(1..n) /\ Len(w) = Len(m) + 1 /\ DOMAIN w = 1..(Len(m) + 1)
        /\ w[Len(m) + 1] = n /\ \A j \in 1..Len(m) : w[j] = m[j]
    <3>1. m \in Seq(1..n)
      BY <1>3, <1>8
    <3>2. n \in 1..n
      BY <1>9
    <3>3. QED
      BY <3>1, <3>2
  <2>2. \A i, j \in DOMAIN w : i < j => w[i] < w[j]
    <3> SUFFICES ASSUME NEW i \in DOMAIN w, NEW j \in DOMAIN w, i < j  PROVE  w[i] < w[j]
      OBVIOUS
    <3> HIDE DEF w
    <3>1. i \in 1..Len(m) /\ w[i] = m[i] /\ m[i] \in 1..(n - 1)
      BY <1>8, <2>1
    <3>2. CASE j = Len(m) + 1
      BY <1>3, <2>1, <3>1, <3>2
    <3>3. CASE j # Len(m) + 1
      <4>1. j \in 1..Len(m) /\ w[j] = m[j]
        BY <1>8, <2>1, <3>3
      <4>2. m[i] < m[j]
        BY <1>7, <1>8, <3>1, <4>1 DEF IsSelection
      <4>3. QED
        BY <3>1, <4>1, <4>2
    <3>4. QED
      BY <3>2, <3>3
  <2>3. \A i \in 1..n : Wanted(k, s[i], since) <=> \E j \in DOMAIN w : w[j] = i
    <3> SUFFICES ASSUME NEW i \in 1..n
                 PROVE  Wanted(k, s[i], since) <=> \E j \in DOMAIN w : w[j] = i
      OBVIOUS
    <3> HIDE DEF w
    <3>1. CASE i = n
      <4>1. Len(m) + 1 \in DOMAIN w /\ w[Len(m) + 1] = i
        BY <1>8, <2>1, <3>1
      <4>2. QED
        BY <1>11, <3>1, <4>1
    <3>2. CASE i # n
      <4>1. i \in 1..(n - 1)
        BY <1>3, <3>2
      <4>2. Wanted(k, s[i], since) <=> \E j \in DOMAIN m : m[j] = i
        BY <1>7, <4>1 DEF IsSelection
      <4>3. ASSUME NEW j \in DOMAIN w, w[j] = i  PROVE  \E q \in DOMAIN m : m[q] = i
        <5>1. j \in DOMAIN m /\ w[j] = m[j]
          BY <1>8, <2>1, <3>2, <4>3
        <5>2. QED
          BY <4>3, <5>1
      <4>4. ASSUME NEW j \in DOMAIN m, m[j] = i  PROVE  \E q \in DOMAIN w : w[q] = i
        <5>1. j \in DOMAIN w /\ w[j] = m[j]
          BY <1>8, <2>1
        <5>2. QED
          BY <4>4, <5>1
      <4>5. QED
        BY <4>2, <4>3, <4>4
    <3>3. QED
      BY <3>1, <3>2
  <2>4. Ids(w, s) = Append(Ids(m, s), s[n].id)
    <3>1. Len(Ids(m, s)) = Len(m)
      BY <1>8 DEF Ids
    <3> HIDE DEF w
    <3>2. \A j \in 1..(Len(m) + 1) :
            s[w[j]].id = IF j = Len(m) + 1 THEN s[n].id ELSE Ids(m, s)[j]
      BY <1>8, <2>1 DEF Ids
    <3>3. Append(Ids(m, s), s[n].id) =
            [j \in 1..(Len(m) + 1) |-> IF j = Len(m) + 1 THEN s[n].id ELSE Ids(m, s)[j]]
      BY <1>8, <1>10, <3>1
    <3>4. QED
      BY <2>1, <3>2, <3>3 DEF Ids
  <2>5. g[n] = Append(k.got \o Ids(m, s), s[n].id)
    BY <1>3, <1>4, <1>5, <1>7, <1>11
  <2>6. Append(k.got \o Ids(m, s), s[n].id) = k.got \o Append(Ids(m, s), s[n].id)
    <3>1. s[n].id \in Nat
      BY <1>9 DEF EventRecord
    <3> DEFINE a == k.got
               b == Ids(m, s)
               e == s[n].id
    <3>2. a \in Seq(Nat) /\ b \in Seq(Nat) /\ e \in Nat
      BY <1>10, <3>1
    <3> HIDE DEF a, b, e
    <3>3. Append(a \o b, e) = a \o Append(b, e)
      <4>1. a \o b \in Seq(Nat) /\ <<e>> \in Seq(Nat)
        BY <3>2
      <4>2. Append(a \o b, e) = (a \o b) \o <<e>> /\ Append(b, e) = b \o <<e>>
        BY <3>2, <4>1, AppendIsConcat
      <4>3. (a \o b) \o <<e>> = a \o (b \o <<e>>)
        BY <3>2, <4>1, ConcatAssociative
      <4>4. QED
        BY <4>2, <4>3
    <3>4. QED
      BY <3>3 DEF a, b, e
  <2>7. QED
    <3> HIDE DEF w
    <3>1. IsSelection(w, k, s, since, n) /\ g[n] = k.got \o Ids(w, s)
      BY <2>1, <2>2, <2>3, <2>4, <2>5, <2>6 DEF IsSelection
    <3>2. QED
      BY <1>3, <3>1
<1>12. CASE ~Wanted(k, s[n], since)
  <2>1. g[n] = k.got \o Ids(m, s)
    BY <1>3, <1>4, <1>5, <1>7, <1>12
  <2>2. IsSelection(m, k, s, since, n)
    <3>1. m \in Seq(1..n)
      BY <1>3, <1>8
    <3>2. \A i \in 1..n : Wanted(k, s[i], since) <=> \E j \in DOMAIN m : m[j] = i
      <4> SUFFICES ASSUME NEW i \in 1..n
                   PROVE  Wanted(k, s[i], since) <=> \E j \in DOMAIN m : m[j] = i
        OBVIOUS
      <4>1. CASE i = n
        BY <1>3, <1>8, <1>12, <4>1
      <4>2. CASE i # n
        BY <1>3, <1>7, <4>2 DEF IsSelection
      <4>3. QED
        BY <4>1, <4>2
    <3>3. QED
      BY <1>7, <3>1, <3>2 DEF IsSelection
  <2>3. QED
    BY <1>3, <2>1, <2>2
<1>13. QED
  BY <1>11, <1>12

\* A connection is sent those of the events that it wants, in their order.
LEMMA ReceiveSelects ==
  ASSUME NEW k, k.got \in Seq(Nat), NEW s \in Seq(EventRecord), NEW since
  PROVE  \E m : /\ IsSelection(m, k, s, since, Len(s))
                /\ Ids(m, s) \in Seq(Nat)
                /\ Receive(k, s, since) = [k EXCEPT !.got = k.got \o Ids(m, s)]
<1> DEFINE h == CHOOSE g : IsReceiving(g, k, s, since, Len(s))
<1>1. Len(s) \in Nat
  OBVIOUS
<1>2. IsReceiving(h, k, s, since, Len(s))
  <2>1. \E g : IsReceiving(g, k, s, since, Len(s))
    BY <1>1, ReceivingExists
  <2>2. QED
    BY <2>1
<1>3. Receive(k, s, since) = [k EXCEPT !.got = h[Len(s)]]
  BY ReceiveIsChosen
<1> HIDE DEF h
<1>a. k.got \in Seq(Nat) /\ s \in Seq(EventRecord)
  OBVIOUS
<1>4. \A N \in Nat : N <= Len(s) => IsSent(h[N], k, s, since, N)
  <2>1. QED
    BY <1>a, <1>2, ReceivingSelects, SMT
<1>5. PICK m : IsSelection(m, k, s, since, Len(s)) /\ h[Len(s)] = k.got \o Ids(m, s)
  <2>1. IsSent(h[Len(s)], k, s, since, Len(s))
    BY <1>1, <1>4
  <2>2. QED
    BY <2>1 DEF IsSent
<1>6. Ids(m, s) \in Seq(Nat)
  <2>1. \A j \in 1..Len(m) : m[j] \in 1..Len(s)
    BY <1>5 DEF IsSelection
  <2>a. \A j \in 1..Len(m) : s[m[j]] \in EventRecord
    BY <2>1
  <2>2. \A j \in 1..Len(m) : s[m[j]].id \in Nat
    BY <2>a DEF EventRecord
  <2>3. Len(m) \in Nat
    BY <1>5 DEF IsSelection
  <2>4. QED
    BY <2>2, <2>3 DEF Ids
<1>7. QED
  BY <1>3, <1>5, <1>6

-----------------------------------------------------------------------------
(* The feed *)

ConnRecord == [open : BOOLEAN, topics : SUBSET Patterns, since : Nat,
               got : Seq(Nat), subscribes : Nat]

\* The buffer holds the last events, under consecutive numbers.
BufferIsConsecutive ==
  /\ nextId \in Nat \ {0}
  /\ events \in Seq(EventRecord)
  /\ Len(events) <= ReplayLimit /\ Len(events) < nextId
  /\ \A i \in DOMAIN events : events[i].id = nextId - 1 - Len(events) + i

\* A connection has only what was emitted, and nothing before it subscribes.
OnlyTheEmitted(k) ==
  /\ k.since < nextId
  /\ \A i \in DOMAIN k.got : k.got[i] \in 1..(nextId - 1)
  /\ k.subscribes = 0 => k.topics = {} /\ k.got = <<>>

ConnectionsTypeOK ==
  /\ conn \in [Clients -> ConnRecord]
  /\ \A c \in Clients : OnlyTheEmitted(conn[c])

FeedInv == BufferIsConsecutive /\ ConnectionsTypeOK /\ FeedConsistent

\* How the connection k, sent the events s, comes to have `got`.
IsExtended(got, k, s, since) ==
  /\ got \in Seq(Nat) /\ Len(k.got) <= Len(got)
  /\ \A i \in 1..Len(k.got) : got[i] = k.got[i]
  /\ \A i \in (Len(k.got) + 1)..Len(got) :
       \E q \in DOMAIN s : Wanted(k, s[q], since) /\ got[i] = s[q].id
  /\ \A i, j \in (Len(k.got) + 1)..Len(got) : i < j =>
       \E q, r \in DOMAIN s : q < r /\ got[i] = s[q].id /\ got[j] = s[r].id
  /\ \A q \in DOMAIN s : Wanted(k, s[q], since) =>
       \E i \in (Len(k.got) + 1)..Len(got) : got[i] = s[q].id

\* What Receive() makes of a connection, in terms of indices of `got`.
LEMMA ReceiveExtends ==
  ASSUME NEW k \in ConnRecord, NEW s \in Seq(EventRecord), NEW since
  PROVE  \E got : /\ IsExtended(got, k, s, since)
                  /\ Receive(k, s, since) = [k EXCEPT !.got = got]
<1>1. k.got \in Seq(Nat)
  BY DEF ConnRecord
<1>2. PICK m : /\ IsSelection(m, k, s, since, Len(s))
               /\ Ids(m, s) \in Seq(Nat)
               /\ Receive(k, s, since) = [k EXCEPT !.got = k.got \o Ids(m, s)]
  BY <1>1, ReceiveSelects
<1> DEFINE a == k.got
           b == Ids(m, s)
           got == a \o b
<1>3. /\ m \in Seq(1..Len(s)) /\ Len(m) \in Nat /\ DOMAIN m = 1..Len(m)
      /\ Len(s) \in Nat /\ DOMAIN s = 1..Len(s)
  BY <1>2 DEF IsSelection
<1>4. \A j \in 1..Len(m) : m[j] \in 1..Len(s)
  BY <1>3
<1>5. /\ Len(b) = Len(m) /\ \A j \in 1..Len(m) : b[j] = s[m[j]].id
  BY <1>3 DEF Ids
<1>6. a \in Seq(Nat) /\ b \in Seq(Nat) /\ Len(a) \in Nat
  BY <1>1, <1>2
<1>7. /\ \A i, j \in 1..Len(m) : i < j => m[i] < m[j]
      /\ \A i \in 1..Len(s) : Wanted(k, s[i], since) <=> \E j \in 1..Len(m) : m[j] = i
  BY <1>2, <1>3 DEF IsSelection
<1>8. \A j \in 1..Len(m) : Wanted(k, s[m[j]], since)
  BY <1>4, <1>7
<1> HIDE DEF a, b
<1>9. /\ got \in Seq(Nat) /\ Len(got) = Len(a) + Len(m)
      /\ \A i \in 1..Len(a) : got[i] = a[i]
      /\ \A i \in (Len(a) + 1)..(Len(a) + Len(m)) : got[i] = b[i - Len(a)]
  <2>1. Len(a \o b) = Len(a) + Len(b) /\ a \o b \in Seq(Nat)
    BY <1>6
  <2>2. \A i \in 1..(Len(a) + Len(b)) : (a \o b)[i] = IF i <= Len(a) THEN a[i] ELSE b[i - Len(a)]
    BY <1>6
  <2>3. \A i \in 1..Len(a) : i \in 1..(Len(a) + Len(b)) /\ i <= Len(a)
    BY <1>3, <1>5, <1>6
  <2>4. \A i \in (Len(a) + 1)..(Len(a) + Len(m)) : i \in 1..(Len(a) + Len(b)) /\ ~(i <= Len(a))
    BY <1>3, <1>5, <1>6
  <2>5. QED
    BY <1>5, <2>1, <2>2, <2>3, <2>4
<1> HIDE DEF got
<1>10. \A i \in (Len(a) + 1)..Len(got) :
         i - Len(a) \in 1..Len(m) /\ got[i] = s[m[i - Len(a)]].id
  BY <1>3, <1>5, <1>6, <1>9
<1>11. ASSUME NEW i \in (Len(a) + 1)..Len(got)
       PROVE  \E q \in DOMAIN s : Wanted(k, s[q], since) /\ got[i] = s[q].id
  <2>1. /\ m[i - Len(a)] \in DOMAIN s /\ Wanted(k, s[m[i - Len(a)]], since)
        /\ got[i] = s[m[i - Len(a)]].id
    BY <1>3, <1>4, <1>8, <1>10
  <2>2. QED
    BY <2>1
<1>12. ASSUME NEW i \in (Len(a) + 1)..Len(got), NEW j \in (Len(a) + 1)..Len(got), i < j
       PROVE  \E q, r \in DOMAIN s : q < r /\ got[i] = s[q].id /\ got[j] = s[r].id
  <2> DEFINE q == m[i - Len(a)]
             r == m[j - Len(a)]
  <2>1. i - Len(a) \in 1..Len(m) /\ j - Len(a) \in 1..Len(m) /\ i - Len(a) < j - Len(a)
    BY <1>6, <1>10, <1>12
  <2>2. q \in DOMAIN s /\ r \in DOMAIN s /\ q < r
    BY <1>3, <1>4, <1>7, <2>1
  <2>3. got[i] = s[q].id /\ got[j] = s[r].id
    BY <1>10
  <2> HIDE DEF q, r
  <2>4. QED
    BY <2>2, <2>3
<1>13. ASSUME NEW q \in DOMAIN s, Wanted(k, s[q], since)
       PROVE  \E i \in (Len(a) + 1)..Len(got) : got[i] = s[q].id
  <2>1. PICK j \in 1..Len(m) : m[j] = q
    BY <1>3, <1>7, <1>13
  <2>2. Len(a) + j \in (Len(a) + 1)..Len(got) /\ (Len(a) + j) - Len(a) = j
    BY <1>3, <1>6, <1>9
  <2>3. got[Len(a) + j] = s[q].id
    BY <1>10, <2>1, <2>2
  <2>4. QED
    BY <2>2, <2>3
<1>14. Len(a) <= Len(got)
  BY <1>3, <1>6, <1>9
<1>15. IsExtended(got, k, s, since)
  BY <1>9, <1>11, <1>12, <1>13, <1>14 DEF IsExtended, a
<1>16. QED
  BY <1>2, <1>15 DEF a, b, got

DistinctIds(s) == \A q, r \in DOMAIN s : s[q].id = s[r].id => q = r

TimesGrow(k, s, since, got, x) ==
  /\ Times(k.got, x) \in Nat /\ Times(got, x) \in Nat
  /\ Times(got, x) <= Times(k.got, x) + 1
  /\ (\A q \in DOMAIN s : Wanted(k, s[q], since) => s[q].id # x)
       => Times(got, x) = Times(k.got, x)

\* How often a connection has an event, if the numbers sent it are distinct.
LEMMA TimesExtended ==
  ASSUME NEW k, k.got \in Seq(Nat), NEW s \in Seq(EventRecord), NEW since, NEW got,
         IsExtended(got, k, s, since), DistinctIds(s), NEW x
  PROVE  TimesGrow(k, s, since, got, x)
<1> DEFINE a == k.got
           Old == {i \in DOMAIN a : a[i] = x}
           New == {i \in DOMAIN got : got[i] = x}
<1>1. /\ a \in Seq(Nat) /\ Len(a) \in Nat /\ DOMAIN a = 1..Len(a)
      /\ got \in Seq(Nat) /\ Len(got) \in Nat /\ DOMAIN got = 1..Len(got)
      /\ Len(a) <= Len(got) /\ \A i \in 1..Len(a) : got[i] = a[i]
  BY DEF IsExtended
<1>2. /\ \A i \in (Len(a) + 1)..Len(got) :
           \E q \in DOMAIN s : Wanted(k, s[q], since) /\ got[i] = s[q].id
      /\ \A i, j \in (Len(a) + 1)..Len(got) : i < j =>
           \E q, r \in DOMAIN s : q < r /\ got[i] = s[q].id /\ got[j] = s[r].id
  BY DEF IsExtended
<1>3. Times(k.got, x) = Cardinality(Old) /\ Times(got, x) = Cardinality(New)
  BY DEF Times
<1>4. DOMAIN s = 1..Len(s) /\ Len(s) \in Nat
  OBVIOUS
<1> HIDE DEF a
<1>5. IsFiniteSet(Old) /\ IsFiniteSet(New)
  <2>1. IsFiniteSet(1..Len(a)) /\ IsFiniteSet(1..Len(got))
    BY <1>1, FS_Interval
  <2>2. Old \subseteq 1..Len(a) /\ New \subseteq 1..Len(got)
    BY <1>1
  <2> HIDE DEF Old, New
  <2>3. QED
    BY <2>1, <2>2, FS_Subset
<1>6. \A i \in 1..Len(got) : got[i] = x => i \in Old \/ i \in (Len(a) + 1)..Len(got)
  BY <1>1
<1>7. Old \subseteq New
  BY <1>1
<1>8. \A i, j \in (Len(a) + 1)..Len(got) : got[i] = x /\ got[j] = x => i = j
  <2> SUFFICES ASSUME NEW i \in (Len(a) + 1)..Len(got), NEW j \in (Len(a) + 1)..Len(got),
                      got[i] = x, got[j] = x, i < j
               PROVE  FALSE
    BY <1>1
  <2>1. PICK q \in DOMAIN s, r \in DOMAIN s : q < r /\ got[i] = s[q].id /\ got[j] = s[r].id
    BY <1>2
  <2>2. q = r
    BY <2>1 DEF DistinctIds
  <2>3. QED
    BY <1>4, <2>1, <2>2
<1>9. Cardinality(Old) \in Nat /\ Cardinality(New) \in Nat
  <2> HIDE DEF Old, New
  <2>1. QED
    BY <1>5, FS_CardinalityType
<1>10. CASE \E i \in (Len(a) + 1)..Len(got) : got[i] = x
  <2>1. PICK i \in (Len(a) + 1)..Len(got) : got[i] = x
    BY <1>10
  <2>2. New = Old \cup {i}
    <3>1. i \in New
      BY <1>1, <2>1
    <3>2. \A j \in New : j \in Old \/ j = i
      BY <1>1, <1>6, <1>8, <2>1
    <3> HIDE DEF New, Old
    <3>3. QED
      BY <1>7, <3>1, <3>2
  <2>3. PICK q \in DOMAIN s : Wanted(k, s[q], since) /\ got[i] = s[q].id
    BY <1>2, <2>1
  <2>4. i \notin Old
    BY <1>1, <2>1
  <2> HIDE DEF New, Old
  <2>5. Cardinality(New) = Cardinality(Old) + 1
    BY <1>5, <2>2, <2>4, FS_AddElement
  <2>6. QED
    BY <1>3, <1>9, <2>1, <2>3, <2>5 DEF TimesGrow, a
<1>11. CASE ~ \E i \in (Len(a) + 1)..Len(got) : got[i] = x
  <2>1. \A j \in New : j \in Old
    BY <1>1, <1>6, <1>11
  <2> HIDE DEF New, Old
  <2>2. New = Old
    BY <1>7, <2>1
  <2>3. QED
    BY <1>3, <1>9, <2>2 DEF TimesGrow, a
<1>12. QED
  BY <1>10, <1>11

\* What FeedConsistent asks of one connection.
CaughtUpAt(k) ==
  \A i \in DOMAIN events :
    k.open /\ events[i].id > k.since /\ MatchesAny(k.topics, events[i])
      => events[i].id \in ToSet(k.got)

OnceAt(k) == \A id \in 1..(nextId - 1) : Times(k.got, id) <= k.subscribes

OrderedAt(k) ==
  k.subscribes <= 1 =>
    \A i, j \in DOMAIN k.got :
      i < j /\ k.got[i] > k.got[j]
        => \A q \in DOMAIN events : events[q].id = k.got[i] => events[q].within = k.got[j]

KeptUp(k) == OnlyTheEmitted(k) /\ CaughtUpAt(k) /\ OnceAt(k) /\ OrderedAt(k)

\* The invariant speaks of one connection at a time.
LEMMA FeedInvAtEach ==
  FeedInv <=> /\ BufferIsConsecutive
              /\ conn \in [Clients -> ConnRecord]
              /\ \A c \in Clients : KeptUp(conn[c])
<1>1. OutOfOrderOnlyNested <=> \A c \in Clients : OrderedAt(conn[c])
  <2> DEFINE All(x, y) == \A e \in ToSet(events) : e.id = x => e.within = y
             Each(x, y) == \A q \in DOMAIN events : events[q].id = x => events[q].within = y
  <2>1. \A x, y : All(x, y) <=> Each(x, y)
    BY DEF ToSet
  <2>2. OutOfOrderOnlyNested <=>
          \A c \in Clients : conn[c].subscribes <= 1 =>
            \A i, j \in DOMAIN conn[c].got :
              i < j /\ conn[c].got[i] > conn[c].got[j] => All(conn[c].got[i], conn[c].got[j])
    BY DEF OutOfOrderOnlyNested
  <2>3. \A c \in Clients : OrderedAt(conn[c]) <=>
          (conn[c].subscribes <= 1 =>
            \A i, j \in DOMAIN conn[c].got :
              i < j /\ conn[c].got[i] > conn[c].got[j] => Each(conn[c].got[i], conn[c].got[j]))
    BY DEF OrderedAt
  <2> HIDE DEF All, Each
  <2>4. QED
    BY <2>1, <2>2, <2>3
<1>2. CaughtUp <=> \A c \in Clients : CaughtUpAt(conn[c])
  BY DEF CaughtUp, CaughtUpAt
<1>3. OncePerSubscribe <=> \A c \in Clients : OnceAt(conn[c])
  BY DEF OncePerSubscribe, OnceAt
<1>4. QED
  BY <1>1, <1>2, <1>3 DEF FeedInv, FeedConsistent, ConnectionsTypeOK, KeptUp

LEMMA FeedInvAtEachNext ==
  FeedInv' <=> (/\ BufferIsConsecutive
                /\ conn \in [Clients -> ConnRecord]
                /\ \A c \in Clients : KeptUp(conn[c]))'
BY FeedInvAtEach, PTL

-----------------------------------------------------------------------------
(* An emission *)

\* The events `stored` are numbered on, and those of `sent` are among them, in
\* order but for what is emitted within the handler of another.
IsEmission(stored, sent) ==
  /\ stored \in Seq(EventRecord) /\ sent \in Seq(EventRecord)
  /\ \A i \in DOMAIN stored : stored[i].id = nextId + i - 1
  /\ \A q \in DOMAIN sent : \E i \in DOMAIN stored : sent[q] = stored[i]
  /\ DistinctIds(sent)
  /\ \A q, r \in DOMAIN sent :
       q < r /\ sent[q].id > sent[r].id => sent[q].within = sent[r].id

\* The buffer after an emission holds events it held before and emitted ones.
OnlyAddsTo(stored) ==
  \A i \in DOMAIN events' : \/ \E j \in DOMAIN events : events'[i] = events[j]
                            \/ \E j \in DOMAIN stored : events'[i] = stored[j]

\* The buffer stays consecutive, whether or not its oldest events are dropped.
LEMMA EmissionIsStored ==
  ASSUME BufferIsConsecutive, NEW stored \in Seq(EventRecord),
         \A i \in DOMAIN stored : stored[i].id = nextId + i - 1,
         nextId' = nextId + Len(stored), Store(events \o stored)
  PROVE  BufferIsConsecutive' /\ OnlyAddsTo(stored)
<1> DEFINE all == events \o stored
           n == Len(events) + Len(stored)
<1>1. /\ nextId \in Nat \ {0} /\ events \in Seq(EventRecord) /\ Len(events) \in Nat
      /\ Len(events) <= ReplayLimit /\ Len(events) < nextId
      /\ DOMAIN events = 1..Len(events)
      /\ \A i \in 1..Len(events) : events[i].id = nextId - 1 - Len(events) + i
  BY DEF BufferIsConsecutive
<1>2. /\ Len(stored) \in Nat /\ DOMAIN stored = 1..Len(stored)
      /\ \A i \in 1..Len(stored) : stored[i].id = nextId + i - 1
  OBVIOUS
<1>3. ReplayLimit \in Nat \ {0}
  BY FeedAssumption DEF FeedAssumption
<1>4. /\ all \in Seq(EventRecord) /\ Len(all) = n
      /\ \A i \in 1..n : all[i] = IF i <= Len(events) THEN events[i]
                                  ELSE stored[i - Len(events)]
  BY <1>1, <1>2
<1>5. nextId' - 1 = nextId + Len(stored) - 1 /\ n \in Nat /\ nextId' \in Nat \ {0} /\ n < nextId'
  BY <1>1, <1>2
<1>6. events' = IF Len(all) > ReplayLimit THEN SubSeq(all, Len(all) - ReplayLimit + 1, Len(all)) ELSE all
  BY DEF Store, Kept
<1> HIDE DEF all
<1>7. \A i \in 1..n : all[i].id = nextId' - 1 - n + i
  <2> SUFFICES ASSUME NEW i \in 1..n  PROVE  all[i].id = nextId' - 1 - n + i
    OBVIOUS
  <2>1. CASE i <= Len(events)
    <3>1. i \in 1..Len(events) /\ all[i] = events[i]
      BY <1>1, <1>2, <1>4, <2>1
    <3>2. QED
      BY <1>1, <1>2, <1>5, <3>1
  <2>2. CASE ~(i <= Len(events))
    <3>1. i - Len(events) \in 1..Len(stored) /\ all[i] = stored[i - Len(events)]
      BY <1>1, <1>2, <1>4, <2>2
    <3>2. all[i].id = nextId + (i - Len(events)) - 1
      BY <1>2, <3>1
    <3>3. QED
      BY <1>1, <1>2, <1>5, <3>2
  <2>3. QED
    BY <2>1, <2>2
<1>8. \A i \in 1..n : \/ \E j \in DOMAIN events : all[i] = events[j]
                      \/ \E j \in DOMAIN stored : all[i] = stored[j]
  <2> SUFFICES ASSUME NEW i \in 1..n
               PROVE  \/ \E j \in DOMAIN events : all[i] = events[j]
                      \/ \E j \in DOMAIN stored : all[i] = stored[j]
    OBVIOUS
  <2>1. CASE i <= Len(events)
    <3>1. i \in DOMAIN events /\ all[i] = events[i]
      BY <1>1, <1>2, <1>4, <2>1
    <3>2. QED
      BY <3>1
  <2>2. CASE ~(i <= Len(events))
    <3>1. i - Len(events) \in DOMAIN stored /\ all[i] = stored[i - Len(events)]
      BY <1>1, <1>2, <1>4, <2>2
    <3>2. QED
      BY <3>1
  <2>3. QED
    BY <2>1, <2>2
<1>9. CASE n > ReplayLimit
  <2> DEFINE d == n - ReplayLimit
  <2>1. d \in Nat /\ d + ReplayLimit = n
    BY <1>3, <1>5, <1>9
  <2>2. events' = SubSeq(all, d + 1, n)
    BY <1>4, <1>6, <1>9
  <2> HIDE DEF d
  <2>3. /\ events' \in Seq(EventRecord) /\ Len(events') = ReplayLimit
        /\ \A i \in 1..ReplayLimit : events'[i] = all[d + i]
    <3>1. /\ d + 1 \in 1..(Len(all) + 1) /\ n \in d..Len(all) /\ n - (d + 1) + 1 = ReplayLimit
          /\ d + 1 <= n
      BY <1>3, <1>4, <1>5, <2>1
    <3>2. \A i \in (d + 1)..n : i \in 1..Len(all)
      BY <1>4, <1>5, <2>1
    <3>3. SubSeq(all, d + 1, n) \in Seq(EventRecord)
      BY <1>4, <3>1, <3>2, SubSeqProperties
    <3>4. Len(SubSeq(all, d + 1, n)) = ReplayLimit
      BY <1>3, <1>4, <1>5, <2>1, <3>1, <3>2, SubSeqProperties
    <3>5. \A i \in 1..ReplayLimit : SubSeq(all, d + 1, n)[i] = all[d + i]
      <4>1. \A i \in 1..ReplayLimit : i + (d + 1) - 1 = d + i
        BY <1>3, <2>1
      <4>2. QED
        BY <1>3, <1>4, <1>5, <2>1, <3>1, <3>2, <4>1, SubSeqProperties
    <3>6. QED
      BY <2>2, <3>3, <3>4, <3>5
  <2>4. \A i \in DOMAIN events' : d + i \in 1..n /\ events'[i] = all[d + i]
    BY <1>3, <1>5, <2>1, <2>3
  <2>5. \A i \in DOMAIN events' : events'[i].id = nextId' - 1 - Len(events') + i
    <3> SUFFICES ASSUME NEW i \in DOMAIN events'
                 PROVE  events'[i].id = nextId' - 1 - Len(events') + i
      OBVIOUS
    <3>1. events'[i].id = nextId' - 1 - n + (d + i)
      BY <1>7, <2>4
    <3>2. i \in Nat
      BY <2>3
    <3>3. QED
      BY <1>3, <1>5, <2>1, <2>3, <3>1, <3>2
  <2>6. Len(events') <= ReplayLimit /\ Len(events') < nextId'
    BY <1>3, <1>5, <1>9, <2>3
  <2>7. BufferIsConsecutive'
    BY <1>5, <2>3, <2>5, <2>6 DEF BufferIsConsecutive
  <2>8. OnlyAddsTo(stored)
    <3> SUFFICES ASSUME NEW i \in DOMAIN events'
                 PROVE  \/ \E j \in DOMAIN events : events'[i] = events[j]
                        \/ \E j \in DOMAIN stored : events'[i] = stored[j]
      BY DEF OnlyAddsTo
    <3>1. QED
      BY <1>8, <2>4
  <2>9. QED
    BY <2>7, <2>8
<1>10. CASE ~(n > ReplayLimit)
  <2>1. events' = all /\ DOMAIN all = 1..n /\ n <= ReplayLimit
    BY <1>3, <1>4, <1>5, <1>6, <1>10
  <2>2. QED
    BY <1>4, <1>5, <1>7, <1>8, <2>1 DEF BufferIsConsecutive, OnlyAddsTo
<1>11. QED
  BY <1>9, <1>10

\* The connection l is k after it was sent something.
SentOn(k, l, got) ==
  /\ l.got = got /\ l.open = k.open /\ l.topics = k.topics
  /\ l.since = k.since /\ l.subscribes = k.subscribes

\* A connection that is sent what an emission stores keeps up with the feed.
LEMMA EmissionKeepsUp ==
  ASSUME BufferIsConsecutive, BufferIsConsecutive', NEW stored, NEW sent,
         IsEmission(stored, sent), OnlyAddsTo(stored), nextId' = nextId + Len(stored),
         NEW k \in ConnRecord, KeptUp(k), NEW got, IsExtended(got, k, sent, 0),
         k.open => \A i \in DOMAIN stored : \E q \in DOMAIN sent : sent[q] = stored[i],
         NEW l, SentOn(k, l, got)
  PROVE  KeptUp(l)'
<1> DEFINE n == Len(k.got)
<1>1. /\ k.got \in Seq(Nat) /\ n \in Nat /\ k.topics \subseteq Patterns
      /\ k.since \in Nat /\ k.subscribes \in Nat /\ DOMAIN k.got = 1..n
  BY DEF ConnRecord
<1>2. /\ got \in Seq(Nat) /\ n <= Len(got) /\ Len(got) \in Nat /\ DOMAIN got = 1..Len(got)
      /\ \A i \in 1..n : got[i] = k.got[i]
      /\ \A i \in (n + 1)..Len(got) : \E q \in DOMAIN sent : Wanted(k, sent[q], 0) /\ got[i] = sent[q].id
      /\ \A i, j \in (n + 1)..Len(got) : i < j =>
           \E q, r \in DOMAIN sent : q < r /\ got[i] = sent[q].id /\ got[j] = sent[r].id
      /\ \A q \in DOMAIN sent : Wanted(k, sent[q], 0) =>
           \E i \in (n + 1)..Len(got) : got[i] = sent[q].id
  BY DEF IsExtended
<1>4. /\ nextId \in Nat \ {0} /\ events \in Seq(EventRecord) /\ Len(events) \in Nat
      /\ DOMAIN events = 1..Len(events) /\ Len(events) < nextId
      /\ \A i \in DOMAIN events : events[i].id = nextId - 1 - Len(events) + i
  BY DEF BufferIsConsecutive
<1>5. /\ stored \in Seq(EventRecord) /\ sent \in Seq(EventRecord) /\ DistinctIds(sent)
      /\ Len(stored) \in Nat /\ DOMAIN stored = 1..Len(stored) /\ DOMAIN sent = 1..Len(sent)
      /\ \A i \in DOMAIN stored : stored[i].id = nextId + i - 1
      /\ \A q \in DOMAIN sent : \E i \in DOMAIN stored : sent[q] = stored[i]
      /\ \A q, r \in DOMAIN sent :
           q < r /\ sent[q].id > sent[r].id => sent[q].within = sent[r].id
  BY DEF IsEmission
<1>6. \A i \in DOMAIN events : events[i].id \in Nat /\ events[i].id < nextId
  BY <1>4
<1>7. \A i \in DOMAIN stored :
        stored[i].id \in Nat /\ nextId <= stored[i].id /\ stored[i].id < nextId'
  BY <1>4, <1>5
<1>8. \A q \in DOMAIN sent :
        sent[q].id \in Nat /\ nextId <= sent[q].id /\ sent[q].id < nextId'
  BY <1>5, <1>7
<1>9. /\ k.since < nextId /\ \A i \in 1..n : k.got[i] \in 1..(nextId - 1)
      /\ k.subscribes = 0 => k.topics = {} /\ k.got = <<>>
  BY <1>1 DEF KeptUp, OnlyTheEmitted
<1>10. nextId' \in Nat /\ nextId <= nextId'
  BY <1>4, <1>5
<1> HIDE DEF n
<1>11. \A i \in 1..Len(got) : i \in 1..n \/ i \in (n + 1)..Len(got)
  BY <1>1, <1>2
<1>12. \A i \in 1..n : got[i] \in 1..(nextId - 1)
  BY <1>2, <1>9
<1>13. \A i \in (n + 1)..Len(got) : got[i] \in Nat /\ nextId <= got[i] /\ got[i] < nextId'
  BY <1>2, <1>8
<1>14. \A q \in DOMAIN sent : Wanted(k, sent[q], 0) => k.subscribes # 0
  BY <1>9 DEF Wanted, MatchesAny
<1>15. OnlyTheEmitted(l)'
  <2>1. \A i \in 1..Len(got) : got[i] \in 1..(nextId' - 1)
    <3>1. \A i \in 1..n : got[i] \in 1..(nextId' - 1)
      BY <1>4, <1>10, <1>12
    <3>2. \A i \in (n + 1)..Len(got) : got[i] \in 1..(nextId' - 1)
      BY <1>4, <1>10, <1>13
    <3>3. QED
      BY <1>11, <3>1, <3>2
  <2>2. k.since < nextId'
    BY <1>1, <1>4, <1>9, <1>10
  <2>3. k.subscribes = 0 => got = <<>>
    <3> SUFFICES ASSUME k.subscribes = 0  PROVE  got = <<>>
      OBVIOUS
    <3>1. ~ \E i \in (n + 1)..Len(got) : TRUE
      BY <1>2, <1>14
    <3>2. n = 0
      BY <1>9 DEF n
    <3>3. Len(got) = 0
      BY <1>2, <3>1, <3>2
    <3>4. QED
      BY <1>2, <3>3
  <2>4. QED
    BY <1>2, <1>9, <2>1, <2>2, <2>3 DEF OnlyTheEmitted, SentOn
<1>16. CaughtUpAt(l)'
  <2> SUFFICES ASSUME NEW i \in DOMAIN events', k.open, events'[i].id > k.since,
                      MatchesAny(k.topics, events'[i])
               PROVE  events'[i].id \in ToSet(got)
    BY DEF CaughtUpAt, SentOn
  <2>1. CASE \E j \in DOMAIN events : events'[i] = events[j]
    <3>1. PICK j \in DOMAIN events : events'[i] = events[j]
      BY <2>1
    <3>2. events[j].id \in ToSet(k.got)
      BY <3>1 DEF KeptUp, CaughtUpAt
    <3>3. PICK q \in 1..n : k.got[q] = events[j].id
      BY <1>1, <3>2 DEF ToSet
    <3>4. q \in DOMAIN got /\ got[q] = events'[i].id
      BY <1>1, <1>2, <3>1, <3>3
    <3>5. QED
      BY <3>4 DEF ToSet
  <2>2. CASE \E j \in DOMAIN stored : events'[i] = stored[j]
    <3>1. PICK j \in DOMAIN stored : events'[i] = stored[j]
      BY <2>2
    <3>2. PICK q \in DOMAIN sent : sent[q] = stored[j]
      OBVIOUS
    <3>3. Wanted(k, sent[q], 0)
      BY <1>4, <1>7, <3>1, <3>2 DEF Wanted
    <3>4. PICK r \in (n + 1)..Len(got) : got[r] = sent[q].id
      BY <1>2, <3>3
    <3>5. r \in DOMAIN got /\ got[r] = events'[i].id
      BY <1>1, <1>2, <3>1, <3>2, <3>4
    <3>6. QED
      BY <3>5 DEF ToSet
  <2>3. QED
    BY <2>1, <2>2 DEF OnlyAddsTo
<1>17. OnceAt(l)'
  <2> SUFFICES ASSUME NEW id \in 1..(nextId' - 1)  PROVE  Times(got, id) <= k.subscribes
    BY DEF OnceAt, SentOn
  <2>1. /\ Times(k.got, id) \in Nat /\ Times(got, id) \in Nat
        /\ Times(got, id) <= Times(k.got, id) + 1
        /\ (\A q \in DOMAIN sent : Wanted(k, sent[q], 0) => sent[q].id # id)
              => Times(got, id) = Times(k.got, id)
    <3>1. /\ k.got \in Seq(Nat) /\ sent \in Seq(EventRecord)
          /\ IsExtended(got, k, sent, 0) /\ DistinctIds(sent)
      BY <1>1, <1>5
    <3>2. TimesGrow(k, sent, 0, got, id)
      BY <3>1, TimesExtended
    <3>3. QED
      BY <3>2 DEF TimesGrow
  <2>2. CASE id < nextId
    <3>1. \A q \in DOMAIN sent : sent[q].id # id
      BY <1>4, <1>8, <2>2
    <3>2. id \in 1..(nextId - 1)
      BY <1>4, <2>2
    <3>3. Times(k.got, id) <= k.subscribes
      BY <3>2 DEF KeptUp, OnceAt
    <3>4. QED
      BY <2>1, <3>1, <3>3
  <2>3. CASE ~(id < nextId)
    <3>1. {i \in DOMAIN k.got : k.got[i] = id} = {}
      <4>1. \A i \in DOMAIN k.got : k.got[i] # id
        BY <1>1, <1>4, <1>9, <2>3 DEF n
      <4>2. QED
        BY <4>1
    <3>2. Times(k.got, id) = 0
      BY <3>1, FS_EmptySet DEF Times
    <3>3. CASE \E q \in DOMAIN sent : Wanted(k, sent[q], 0)
      BY <1>1, <1>14, <2>1, <3>2, <3>3
    <3>4. CASE ~ \E q \in DOMAIN sent : Wanted(k, sent[q], 0)
      BY <1>1, <2>1, <3>2, <3>4
    <3>5. QED
      BY <3>3, <3>4
  <2>4. QED
    BY <2>2, <2>3
<1>18. OrderedAt(l)'
  <2> SUFFICES ASSUME k.subscribes <= 1, NEW i \in DOMAIN got, NEW j \in DOMAIN got,
                      i < j, got[i] > got[j], NEW q \in DOMAIN events', events'[q].id = got[i]
               PROVE  events'[q].within = got[j]
    BY DEF OrderedAt, SentOn
  <2>0. i \in 1..Len(got) /\ j \in 1..Len(got)
    BY <1>2
  <2>1. CASE i \in 1..n /\ j \in 1..n
    <3>1. /\ got[i] = k.got[i] /\ got[j] = k.got[j] /\ got[i] \in Nat /\ got[i] < nextId
          /\ i \in DOMAIN k.got /\ j \in DOMAIN k.got
      <4>1. got[i] \in 1..(nextId - 1) /\ got[i] = k.got[i] /\ got[j] = k.got[j]
        BY <1>2, <1>12, <2>1
      <4>2. QED
        BY <1>1, <1>4, <2>1, <4>1
    <3>2. ~ \E r \in DOMAIN stored : events'[q] = stored[r]
      BY <1>4, <1>7, <3>1
    <3>3. PICK r \in DOMAIN events : events'[q] = events[r]
      BY <3>2 DEF OnlyAddsTo
    <3>4. QED
      BY <3>1, <3>3 DEF KeptUp, OrderedAt
  <2>2. CASE i \in 1..n /\ j \in (n + 1)..Len(got)
    <3>1. got[i] \in 1..(nextId - 1) /\ got[j] \in Nat /\ nextId <= got[j]
      BY <1>12, <1>13, <2>2
    <3>2. QED
      BY <1>4, <3>1
  <2>3. CASE i \in (n + 1)..Len(got) /\ j \in 1..n
    BY <1>1, <2>0, <2>3
  <2>4. CASE i \in (n + 1)..Len(got) /\ j \in (n + 1)..Len(got)
    <3>1. PICK a \in DOMAIN sent, b \in DOMAIN sent : a < b /\ got[i] = sent[a].id /\ got[j] = sent[b].id
      BY <1>2, <2>4
    <3>2. sent[a].within = got[j]
      BY <1>5, <3>1
    <3>3. got[i] \in Nat /\ nextId <= got[i]
      BY <1>13, <2>4
    <3>4. ~ \E r \in DOMAIN events : events'[q] = events[r]
      BY <1>4, <1>6, <3>3
    <3>5. PICK r \in DOMAIN stored : events'[q] = stored[r]
      BY <3>4 DEF OnlyAddsTo
    <3>6. PICK s \in DOMAIN stored : sent[a] = stored[s]
      BY <1>5
    <3>7. stored[r].id = stored[s].id
      BY <3>1, <3>5, <3>6
    <3>8. r = s
      BY <1>4, <1>5, <3>7
    <3>9. QED
      BY <3>2, <3>5, <3>6, <3>8
  <2>5. QED
    BY <1>11, <2>0, <2>1, <2>2, <2>3, <2>4
<1>19. QED
  BY <1>15, <1>16, <1>17, <1>18 DEF KeptUp

\* A connection of which only `got` is changed.
LEMMA ReceiveKeepsRest ==
  ASSUME NEW k \in ConnRecord, NEW got \in Seq(Nat)
  PROVE  [k EXCEPT !.got = got] \in ConnRecord /\ SentOn(k, [k EXCEPT !.got = got], got)
<1>1. k = [open |-> k.open, topics |-> k.topics, since |-> k.since, got |-> k.got,
           subscribes |-> k.subscribes]
  BY DEF ConnRecord
<1>2. [k EXCEPT !.got = got] =
        [open |-> k.open, topics |-> k.topics, since |-> k.since, got |-> got,
         subscribes |-> k.subscribes]
  BY <1>1
<1>3. k.open \in BOOLEAN /\ k.topics \in SUBSET Patterns /\ k.since \in Nat /\ k.subscribes \in Nat
  BY DEF ConnRecord
<1> DEFINE l == [k EXCEPT !.got = got]
<1>4. /\ l.got = got /\ l.open = k.open /\ l.topics = k.topics
      /\ l.since = k.since /\ l.subscribes = k.subscribes
  BY <1>2
<1>5. l \in ConnRecord
  BY <1>2, <1>3 DEF ConnRecord
<1> HIDE DEF l
<1>6. l \in ConnRecord /\ SentOn(k, l, got)
  BY <1>4, <1>5 DEF SentOn
<1>7. QED
  BY <1>6 DEF l

\* Every connection keeps up when the events of an emission are published.
LEMMA EmissionKeepsInv ==
  ASSUME FeedInv, NEW stored, NEW sent, IsEmission(stored, sent),
         \A i \in DOMAIN stored : \E q \in DOMAIN sent : sent[q] = stored[i],
         nextId' = nextId + Len(stored), Store(events \o stored), Publish(sent)
  PROVE  FeedInv'
<1>1. BufferIsConsecutive /\ conn \in [Clients -> ConnRecord]
  BY FeedInvAtEach
<1>2. \A c \in Clients : KeptUp(conn[c])
  BY FeedInvAtEach
<1>3. stored \in Seq(EventRecord) /\ sent \in Seq(EventRecord)
  BY DEF IsEmission
<1>4. BufferIsConsecutive' /\ OnlyAddsTo(stored)
  BY <1>1, <1>3, EmissionIsStored DEF IsEmission
<1>5. ASSUME NEW c \in Clients
      PROVE  conn'[c] \in ConnRecord /\ KeptUp(conn[c])'
  <2>1. PICK k \in ConnRecord : k = conn[c]
    BY <1>1
  <2>2. PICK l : l = IF k.open THEN Receive(k, sent, 0) ELSE k
    OBVIOUS
  <2>3. KeptUp(k)
    <3>1. KeptUp(conn[c])
      BY <1>2
    <3>2. QED
      BY <2>1, <3>1 DEF KeptUp, OnlyTheEmitted, CaughtUpAt, OnceAt, OrderedAt
  <2>4. l = conn'[c]
    BY <2>1, <2>2 DEF Publish
  <2>5. l \in ConnRecord /\ KeptUp(l)'
    <3>1. CASE k.open
      <4>1. PICK got : /\ IsExtended(got, k, sent, 0)
                       /\ Receive(k, sent, 0) = [k EXCEPT !.got = got]
        BY <1>3, ReceiveExtends
      <4>2. got \in Seq(Nat)
        BY <4>1 DEF IsExtended
      <4>3. l = [k EXCEPT !.got = got]
        BY <2>2, <3>1, <4>1
      <4>4. l \in ConnRecord /\ SentOn(k, l, got)
        BY <4>2, <4>3, ReceiveKeepsRest
      <4>5. KeptUp(l)'
        BY <1>1, <1>4, <2>3, <4>1, <4>4, EmissionKeepsUp
      <4>6. QED
        BY <4>4, <4>5
    <3>2. CASE ~k.open
      <4>1. l = k /\ k.got \in Seq(Nat)
        BY <2>2, <3>2 DEF ConnRecord
      <4>2. SentOn(k, k, k.got)
        BY DEF SentOn
      <4>3. IsExtended(k.got, k, <<>>, 0)
        BY <4>1 DEF IsExtended
      <4>4. IsEmission(stored, <<>>)
        BY DEF IsEmission, DistinctIds
      <4>5. KeptUp(k)'
        BY <1>1, <1>4, <2>3, <3>2, <4>2, <4>3, <4>4, EmissionKeepsUp
      <4>6. QED
        BY <4>1, <4>5
    <3>3. QED
      BY <3>1, <3>2
  <2>6. KeptUp(conn[c])'
    BY <2>4, <2>5 DEF KeptUp, OnlyTheEmitted, CaughtUpAt, OnceAt, OrderedAt
  <2>7. QED
    BY <2>4, <2>5, <2>6
<1>6. conn' \in [Clients -> ConnRecord]
  BY <1>5 DEF Publish
<1>7. (\A c \in Clients : KeptUp(conn[c]))'
  BY <1>5
<1>8. (/\ BufferIsConsecutive
       /\ conn \in [Clients -> ConnRecord]
       /\ \A c \in Clients : KeptUp(conn[c]))'
  BY <1>4, <1>6, <1>7
<1>9. QED
  BY <1>8, FeedInvAtEachNext

\* emit() stores and publishes in one order.
LEMMA EmitKeepsInv ==
  ASSUME FeedInv, NEW topics \in Seq(Topics), Emit(topics)
  PROVE  FeedInv'
<1> DEFINE batch == [i \in DOMAIN topics |-> Event(nextId + i - 1, topics[i], 0)]
<1>1. nextId \in Nat \ {0}
  BY DEF FeedInv, BufferIsConsecutive
<1>2. /\ nextId' = nextId + Len(topics) /\ Store(events \o batch) /\ Publish(batch)
  BY DEF Emit
<1>3. Len(topics) \in Nat /\ DOMAIN topics = 1..Len(topics)
  OBVIOUS
<1>4. \A i \in 1..Len(topics) :
        /\ batch[i] \in EventRecord /\ batch[i].id = nextId + i - 1
  <2> SUFFICES ASSUME NEW i \in 1..Len(topics)
               PROVE  batch[i] \in EventRecord /\ batch[i].id = nextId + i - 1
    OBVIOUS
  <2>1. batch[i] = [id |-> nextId + i - 1, topic |-> topics[i], within |-> 0]
    BY <1>3 DEF Event
  <2>2. nextId + i - 1 \in Nat \ {0} /\ topics[i] \in Topics
    BY <1>1, <1>3
  <2>3. QED
    BY <2>1, <2>2 DEF EventRecord
<1>5. DOMAIN batch = 1..Len(topics) /\ batch \in Seq(EventRecord) /\ Len(batch) = Len(topics)
  BY <1>3, <1>4
<1> HIDE DEF batch
<1>6. DistinctIds(batch)
  BY <1>1, <1>4, <1>5 DEF DistinctIds
<1>7. \A q, r \in DOMAIN batch : q < r => ~(batch[q].id > batch[r].id)
  BY <1>1, <1>4, <1>5
<1>8. IsEmission(batch, batch)
  BY <1>4, <1>5, <1>6, <1>7 DEF IsEmission
<1>9. QED
  BY <1>2, <1>5, <1>8, EmissionKeepsInv

\* The inner events come first to the connections, the outer one is stored first.
LEMMA EmitNestedKeepsInv ==
  ASSUME FeedInv, NEW outer \in Topics, NEW inner \in Seq(Topics), EmitNested(outer, inner)
  PROVE  FeedInv'
<1> DEFINE first == Event(nextId, outer, 0)
           rest == [i \in DOMAIN inner |-> Event(nextId + i, inner[i], nextId)]
           stored == <<first>> \o rest
           sent == rest \o <<first>>
           n == Len(inner)
<1>1. nextId \in Nat \ {0} /\ n \in Nat /\ DOMAIN inner = 1..n /\ events \in Seq(EventRecord)
  BY DEF FeedInv, BufferIsConsecutive
<1>2. /\ nextId' = nextId + 1 + n /\ Store(events \o <<first>> \o rest) /\ Publish(sent)
  BY DEF EmitNested
<1>3. first \in EventRecord /\ first.id = nextId
  BY <1>1 DEF Event, EventRecord
<1>4. \A i \in 1..n :
        rest[i] \in EventRecord /\ rest[i].id = nextId + i /\ rest[i].within = nextId
  <2> SUFFICES ASSUME NEW i \in 1..n
               PROVE  rest[i] \in EventRecord /\ rest[i].id = nextId + i /\ rest[i].within = nextId
    OBVIOUS
  <2>1. rest[i] = [id |-> nextId + i, topic |-> inner[i], within |-> nextId]
    BY <1>1 DEF Event
  <2>2. nextId + i \in Nat \ {0} /\ inner[i] \in Topics
    BY <1>1
  <2>3. QED
    BY <1>1, <2>1, <2>2 DEF EventRecord
<1>5. rest \in Seq(EventRecord) /\ Len(rest) = n
  BY <1>1, <1>4
<1> HIDE DEF first, rest, n
<1>6. /\ stored \in Seq(EventRecord) /\ Len(stored) = n + 1 /\ DOMAIN stored = 1..(n + 1)
      /\ stored[1] = first /\ \A i \in 1..n : stored[i + 1] = rest[i]
  BY <1>1, <1>3, <1>5
<1>7. /\ sent \in Seq(EventRecord) /\ Len(sent) = n + 1 /\ DOMAIN sent = 1..(n + 1)
      /\ sent[n + 1] = first /\ \A i \in 1..n : sent[i] = rest[i]
  BY <1>1, <1>3, <1>5
<1>8. events \o <<first>> \o rest = events \o stored
  <2>1. <<first>> \in Seq(EventRecord)
    BY <1>3
  <2>2. (events \o <<first>>) \o rest = events \o (<<first>> \o rest)
    BY <1>1, <1>5, <2>1, ConcatAssociative
  <2>3. QED
    BY <2>2
<1> HIDE DEF stored, sent
<1>9. \A i \in 1..(n + 1) : i = 1 \/ (i - 1 \in 1..n /\ (i - 1) + 1 = i)
  BY <1>1
<1>10. \A i \in 1..(n + 1) : stored[i].id = nextId + i - 1
  <2> SUFFICES ASSUME NEW i \in 1..(n + 1)  PROVE  stored[i].id = nextId + i - 1
    OBVIOUS
  <2>1. CASE i = 1
    BY <1>1, <1>3, <1>6, <2>1
  <2>2. CASE i # 1
    <3>1. i - 1 \in 1..n /\ stored[i] = rest[i - 1]
      BY <1>6, <1>9, <2>2
    <3>2. QED
      BY <1>1, <1>4, <3>1
  <2>3. QED
    BY <2>1, <2>2
<1>11. \A q \in 1..(n + 1) : q = n + 1 \/ q \in 1..n
  BY <1>1
<1>12. ASSUME NEW q \in 1..(n + 1)  PROVE  \E i \in 1..(n + 1) : sent[q] = stored[i]
  <2>1. CASE q = n + 1
    <3>1. 1 \in 1..(n + 1) /\ sent[q] = stored[1]
      BY <1>1, <1>6, <1>7, <2>1
    <3>2. QED
      BY <3>1
  <2>2. CASE q \in 1..n
    <3>1. q + 1 \in 1..(n + 1) /\ sent[q] = stored[q + 1]
      BY <1>1, <1>6, <1>7, <2>2
    <3>2. QED
      BY <3>1
  <2>3. QED
    BY <1>11, <2>1, <2>2
<1>13. ASSUME NEW i \in 1..(n + 1)  PROVE  \E q \in 1..(n + 1) : sent[q] = stored[i]
  <2>1. CASE i = 1
    <3>1. n + 1 \in 1..(n + 1) /\ sent[n + 1] = stored[i]
      BY <1>1, <1>6, <1>7, <2>1
    <3>2. QED
      BY <3>1
  <2>2. CASE i # 1
    <3>1. i - 1 \in 1..n /\ stored[i] = rest[i - 1]
      BY <1>6, <1>9, <2>2
    <3>2. i - 1 \in 1..(n + 1) /\ sent[i - 1] = stored[i]
      BY <1>1, <1>7, <3>1
    <3>3. QED
      BY <3>2
  <2>3. QED
    BY <2>1, <2>2
<1>14. \A q \in 1..n : sent[q].id = nextId + q /\ sent[q].within = nextId
  BY <1>4, <1>7
<1>15. sent[n + 1].id = nextId
  BY <1>3, <1>7
<1>16. DistinctIds(sent)
  <2> SUFFICES ASSUME NEW q \in 1..(n + 1), NEW r \in 1..(n + 1), sent[q].id = sent[r].id
               PROVE  q = r
    BY <1>7 DEF DistinctIds
  <2>1. CASE q \in 1..n /\ r \in 1..n
    <3>1. nextId + q = nextId + r
      BY <1>14, <2>1
    <3>2. QED
      BY <1>1, <3>1
  <2>2. CASE q = n + 1 /\ r \in 1..n
    BY <1>1, <1>14, <1>15, <2>2
  <2>3. CASE q \in 1..n /\ r = n + 1
    BY <1>1, <1>14, <1>15, <2>3
  <2>4. QED
    BY <1>11, <2>1, <2>2, <2>3
<1>17. ASSUME NEW q \in 1..(n + 1), NEW r \in 1..(n + 1), q < r, sent[q].id > sent[r].id
       PROVE  sent[q].within = sent[r].id
  <2>1. q \in 1..n
    BY <1>1, <1>17
  <2>2. r = n + 1
    BY <1>1, <1>11, <1>14, <1>17, <2>1
  <2>3. QED
    BY <1>14, <1>15, <2>1, <2>2
<1>18. IsEmission(stored, sent)
  BY <1>6, <1>7, <1>10, <1>12, <1>16, <1>17 DEF IsEmission
<1>19. nextId' = nextId + Len(stored)
  BY <1>1, <1>2, <1>6
<1>20. QED
  BY <1>2, <1>6, <1>7, <1>8, <1>13, <1>18, <1>19, EmissionKeepsInv

-----------------------------------------------------------------------------
(* The connections *)

\* A connection that subscribes, and is replayed the buffer, keeps up.
LEMMA ReplayKeepsUp ==
  ASSUME BufferIsConsecutive, NEW k \in ConnRecord, KeptUp(k),
         NEW m \in ConnRecord, m.got = k.got, m.since = k.since, m.open = k.open,
         m.subscribes = k.subscribes + 1,
         NEW got, IsExtended(got, m, events, m.since), NEW l, SentOn(m, l, got)
  PROVE  KeptUp(l)
<1> DEFINE n == Len(k.got)
<1>1. /\ k.got \in Seq(Nat) /\ n \in Nat /\ k.since \in Nat /\ k.subscribes \in Nat
      /\ DOMAIN k.got = 1..n
  BY DEF ConnRecord
<1>2. /\ got \in Seq(Nat) /\ n <= Len(got) /\ Len(got) \in Nat /\ DOMAIN got = 1..Len(got)
      /\ \A i \in 1..n : got[i] = k.got[i]
      /\ \A i \in (n + 1)..Len(got) :
           \E q \in DOMAIN events : Wanted(m, events[q], m.since) /\ got[i] = events[q].id
      /\ \A i, j \in (n + 1)..Len(got) : i < j =>
           \E q, r \in DOMAIN events : q < r /\ got[i] = events[q].id /\ got[j] = events[r].id
      /\ \A q \in DOMAIN events : Wanted(m, events[q], m.since) =>
           \E i \in (n + 1)..Len(got) : got[i] = events[q].id
  BY DEF IsExtended
<1>3. /\ nextId \in Nat \ {0} /\ events \in Seq(EventRecord) /\ Len(events) \in Nat
      /\ DOMAIN events = 1..Len(events) /\ Len(events) < nextId
      /\ \A i \in DOMAIN events : events[i].id = nextId - 1 - Len(events) + i
  BY DEF BufferIsConsecutive
<1>4. \A i \in DOMAIN events : events[i].id \in 1..(nextId - 1)
  BY <1>3
<1>5. DistinctIds(events)
  BY <1>3 DEF DistinctIds
<1>6. /\ k.since < nextId /\ \A i \in 1..n : k.got[i] \in 1..(nextId - 1)
      /\ k.subscribes = 0 => k.got = <<>>
  BY <1>1 DEF KeptUp, OnlyTheEmitted
<1> HIDE DEF n
<1>7. \A i \in 1..Len(got) : i \in 1..n \/ i \in (n + 1)..Len(got)
  BY <1>1, <1>2
<1>8. OnlyTheEmitted(l)
  <2>1. \A i \in (n + 1)..Len(got) : got[i] \in 1..(nextId - 1)
    BY <1>2, <1>4
  <2>2. \A i \in 1..n : got[i] \in 1..(nextId - 1)
    BY <1>2, <1>6
  <2>3. \A i \in 1..Len(got) : got[i] \in 1..(nextId - 1)
    BY <1>7, <2>1, <2>2
  <2>4. l.subscribes # 0
    BY <1>1 DEF SentOn
  <2>5. QED
    BY <1>2, <1>6, <2>3, <2>4 DEF OnlyTheEmitted, SentOn
<1>9. CaughtUpAt(l)
  <2> SUFFICES ASSUME NEW q \in DOMAIN events, events[q].id > m.since,
                      MatchesAny(m.topics, events[q])
               PROVE  events[q].id \in ToSet(got)
    BY DEF CaughtUpAt, SentOn
  <2>1. Wanted(m, events[q], m.since)
    BY DEF Wanted
  <2>2. PICK i \in (n + 1)..Len(got) : got[i] = events[q].id
    BY <1>2, <2>1
  <2>3. i \in DOMAIN got
    BY <1>1, <1>2
  <2>4. QED
    BY <2>2, <2>3 DEF ToSet
<1>10. OnceAt(l)
  <2> SUFFICES ASSUME NEW id \in 1..(nextId - 1)  PROVE  Times(got, id) <= k.subscribes + 1
    BY DEF OnceAt, SentOn
  <2>1. m.got \in Seq(Nat)
    BY <1>1
  <2>2. TimesGrow(m, events, m.since, got, id)
    BY <1>3, <1>5, <2>1, TimesExtended
  <2>3. Times(k.got, id) \in Nat /\ Times(got, id) \in Nat /\ Times(got, id) <= Times(k.got, id) + 1
    BY <2>2 DEF TimesGrow
  <2>4. Times(k.got, id) <= k.subscribes
    BY DEF KeptUp, OnceAt
  <2>5. QED
    BY <1>1, <2>3, <2>4
<1>11. OrderedAt(l)
  <2> SUFFICES ASSUME k.subscribes + 1 <= 1, NEW i \in DOMAIN got, NEW j \in DOMAIN got,
                      i < j, got[i] > got[j]
               PROVE  FALSE
    BY DEF OrderedAt, SentOn
  <2>1. n = 0
    BY <1>1, <1>6 DEF n
  <2>2. i \in (n + 1)..Len(got) /\ j \in (n + 1)..Len(got)
    BY <1>2, <2>1
  <2>3. PICK q \in DOMAIN events, r \in DOMAIN events :
          q < r /\ got[i] = events[q].id /\ got[j] = events[r].id
    BY <1>2, <2>2
  <2>4. events[q].id < events[r].id /\ events[q].id \in Nat /\ events[r].id \in Nat
    BY <1>3, <1>4, <2>3
  <2>5. QED
    BY <2>3, <2>4
<1>12. QED
  BY <1>8, <1>9, <1>10, <1>11 DEF KeptUp

\* A connection that was not sent anything has nothing to catch up with.
LEMMA FreshKeepsUp ==
  ASSUME BufferIsConsecutive, NEW k \in ConnRecord, k.since < nextId, k.topics = {},
         k.got = <<>>, k.subscribes = 0
  PROVE  KeptUp(k)
<1>1. \A id : Times(<<>>, id) = 0
  <2> SUFFICES ASSUME NEW id  PROVE  Times(<<>>, id) = 0
    OBVIOUS
  <2>1. {i \in DOMAIN <<>> : <<>>[i] = id} = {}
    OBVIOUS
  <2>2. QED
    BY <2>1, FS_EmptySet DEF Times
<1>2. OnceAt(k)
  BY <1>1 DEF OnceAt
<1>3. OnlyTheEmitted(k)
  BY DEF OnlyTheEmitted
<1>4. CaughtUpAt(k)
  BY DEF CaughtUpAt, MatchesAny
<1>5. OrderedAt(k)
  BY DEF OrderedAt
<1>6. QED
  BY <1>2, <1>3, <1>4, <1>5 DEF KeptUp

\* A connection that is opened or closed is one that was not sent anything.
LEMMA ClosedIsFresh ==
  ASSUME NEW open \in BOOLEAN, NEW since \in Nat
  PROVE  \E k \in ConnRecord :
           /\ k = [Closed EXCEPT !.open = open, !.since = since]
           /\ k.since = since /\ k.topics = {} /\ k.got = <<>> /\ k.subscribes = 0
<1> DEFINE k == [open |-> open, topics |-> {}, since |-> since, got |-> <<>>, subscribes |-> 0]
<1>1. {} \in SUBSET Patterns /\ <<>> \in Seq(Nat) /\ 0 \in Nat
  OBVIOUS
<1>2. k \in ConnRecord
  BY <1>1 DEF ConnRecord
<1>3. k = [Closed EXCEPT !.open = open, !.since = since]
  <2>1. PICK z : z = Closed
    OBVIOUS
  <2>2. /\ z = [open |-> z.open, topics |-> z.topics, since |-> z.since, got |-> z.got,
                subscribes |-> z.subscribes]
        /\ z.topics = {} /\ z.got = <<>> /\ z.subscribes = 0
    BY <2>1 DEF Closed
  <2>3. PICK y : y = [z EXCEPT !.open = open]
    OBVIOUS
  <2>4. /\ y = [open |-> y.open, topics |-> y.topics, since |-> y.since, got |-> y.got,
                subscribes |-> y.subscribes]
        /\ y.open = open /\ y.topics = {} /\ y.got = <<>> /\ y.subscribes = 0
    BY <2>2, <2>3
  <2>5. [y EXCEPT !.since = since] = k
    <3>1. y = [open |-> y.open, topics |-> y.topics, since |-> y.since, got |-> y.got,
               subscribes |-> y.subscribes]
      BY <2>4
    <3>2. [y EXCEPT !.since = since] =
            [open |-> y.open, topics |-> y.topics, since |-> since, got |-> y.got,
             subscribes |-> y.subscribes]
      BY <3>1
    <3>3. k = [open |-> y.open, topics |-> y.topics, since |-> since, got |-> y.got,
               subscribes |-> y.subscribes]
      BY <2>4
    <3>4. QED
      BY <3>2, <3>3
  <2>6. QED
    BY <2>1, <2>3, <2>5
<1>4. k.since = since /\ k.topics = {} /\ k.got = <<>> /\ k.subscribes = 0
  OBVIOUS
<1> HIDE DEF k
<1>5. QED
  BY <1>2, <1>3, <1>4

\* What one connection does is no other's concern.
LEMMA MoveKeepsInv ==
  ASSUME FeedInv, NEW who \in Clients, NEW k \in ConnRecord, KeptUp(k),
         conn' = [conn EXCEPT ![who] = k], UNCHANGED <<nextId, events>>
  PROVE  FeedInv'
<1>1. BufferIsConsecutive /\ conn \in [Clients -> ConnRecord]
  BY FeedInvAtEach
<1>2. \A c \in Clients : KeptUp(conn[c])
  BY FeedInvAtEach
<1>3. conn' \in [Clients -> ConnRecord]
  BY <1>1
<1>4. ASSUME NEW c \in Clients  PROVE  KeptUp(conn[c])'
  <2>1. PICK l : l = conn'[c]
    OBVIOUS
  <2>2. KeptUp(l)
    <3>1. CASE c = who
      BY <1>1, <2>1, <3>1
    <3>2. CASE c # who
      <4>1. l = conn[c]
        BY <1>1, <2>1, <3>2
      <4>2. QED
        BY <1>2, <4>1
    <3>3. QED
      BY <3>1, <3>2
  <2>3. QED
    BY <2>1, <2>2 DEF KeptUp, OnlyTheEmitted, CaughtUpAt, OnceAt, OrderedAt
<1>5. BufferIsConsecutive'
  BY <1>1 DEF BufferIsConsecutive
<1>6. (/\ BufferIsConsecutive
       /\ conn \in [Clients -> ConnRecord]
       /\ \A c \in Clients : KeptUp(conn[c]))'
  BY <1>3, <1>4, <1>5
<1>7. QED
  BY <1>6, FeedInvAtEachNext

\* Whatever a client does, all connections have what they may expect.
LEMMA ClientMoveKeepsInv ==
  ASSUME FeedInv, NEW c \in Clients, ClientMove(c)
  PROVE  FeedInv'
<1>1. BufferIsConsecutive /\ conn \in [Clients -> ConnRecord]
  BY FeedInvAtEach
<1>2. nextId \in Nat \ {0}
  BY <1>1 DEF BufferIsConsecutive
<1>3. PICK k \in ConnRecord : k = conn[c]
  BY <1>1
<1>4. KeptUp(k)
  <2>1. KeptUp(conn[c])
    BY FeedInvAtEach
  <2>2. QED
    BY <1>3, <2>1
<1>5. k = [open |-> k.open, topics |-> k.topics, since |-> k.since, got |-> k.got,
           subscribes |-> k.subscribes]
  BY DEF ConnRecord
<1>6. /\ k.open \in BOOLEAN /\ k.topics \in SUBSET Patterns /\ k.since \in Nat
      /\ k.got \in Seq(Nat) /\ k.subscribes \in Nat
  BY DEF ConnRecord
<1>7. ASSUME NEW since \in 0..(nextId - 1), Connect(c, since)  PROVE  FeedInv'
  <2>1. since \in Nat /\ since < nextId
    BY <1>2
  <2>2. PICK l \in ConnRecord :
          /\ l = [Closed EXCEPT !.open = TRUE, !.since = since]
          /\ l.since = since /\ l.topics = {} /\ l.got = <<>> /\ l.subscribes = 0
    BY <2>1, ClosedIsFresh
  <2>3. KeptUp(l)
    BY <1>1, <2>1, <2>2, FreshKeepsUp
  <2>4. conn' = [conn EXCEPT ![c] = l] /\ UNCHANGED <<nextId, events>>
    BY <1>7, <2>2 DEF Connect
  <2>5. QED
    BY <2>3, <2>4, MoveKeepsInv
<1>8. ASSUME Disconnect(c)  PROVE  FeedInv'
  <2>1. PICK l \in ConnRecord :
          /\ l = [Closed EXCEPT !.open = FALSE, !.since = 0]
          /\ l.since = 0 /\ l.topics = {} /\ l.got = <<>> /\ l.subscribes = 0
    BY ClosedIsFresh
  <2>2. l = Closed
    BY <2>1 DEF Closed
  <2>3. KeptUp(l)
    <3>1. l.since < nextId
      BY <1>2, <2>1
    <3>2. QED
      BY <1>1, <2>1, <3>1, FreshKeepsUp
  <2>4. conn' = [conn EXCEPT ![c] = l] /\ UNCHANGED <<nextId, events>>
    BY <1>8, <2>2 DEF Disconnect
  <2>5. QED
    BY <2>3, <2>4, MoveKeepsInv
<1>9. ASSUME NEW p \in Patterns, UnsubscribeFrom(c, p)  PROVE  FeedInv'
  <2>1. PICK l : l = [k EXCEPT !.topics = @ \ {p}]
    OBVIOUS
  <2>2. l = [open |-> k.open, topics |-> k.topics \ {p}, since |-> k.since, got |-> k.got,
             subscribes |-> k.subscribes]
    BY <1>5, <2>1
  <2>3. l \in ConnRecord
    BY <1>6, <2>2 DEF ConnRecord
  <2>4. KeptUp(l)
    <3>1. /\ l.got = k.got /\ l.open = k.open /\ l.since = k.since
          /\ l.subscribes = k.subscribes /\ l.topics \subseteq k.topics
      BY <2>2
    <3>2. OnlyTheEmitted(l)
      BY <1>4, <3>1 DEF KeptUp, OnlyTheEmitted
    <3>3. CaughtUpAt(l)
      BY <1>4, <3>1 DEF KeptUp, CaughtUpAt, MatchesAny
    <3>4. OnceAt(l)
      BY <1>4, <3>1 DEF KeptUp, OnceAt
    <3>5. OrderedAt(l)
      BY <1>4, <3>1 DEF KeptUp, OrderedAt
    <3>6. QED
      BY <3>2, <3>3, <3>4, <3>5 DEF KeptUp
  <2>5. conn' = [conn EXCEPT ![c] = l] /\ UNCHANGED <<nextId, events>>
    BY <1>1, <1>3, <1>9, <2>1 DEF UnsubscribeFrom
  <2>6. QED
    BY <2>3, <2>4, <2>5, MoveKeepsInv
<1>10. ASSUME NEW p \in Patterns, SubscribeTo(c, p)  PROVE  FeedInv'
  <2>1. PICK m : m = [k EXCEPT !.topics = @ \cup {p}, !.subscribes = @ + 1]
    OBVIOUS
  <2>2. m = [open |-> k.open, topics |-> k.topics \cup {p}, since |-> k.since, got |-> k.got,
             subscribes |-> k.subscribes + 1]
    BY <1>5, <2>1
  <2>3. m \in ConnRecord
    BY <1>6, <2>2 DEF ConnRecord
  <2>4. events \in Seq(EventRecord)
    BY <1>1 DEF BufferIsConsecutive
  <2>a. PICK since : since = m.since
    OBVIOUS
  <2>b. PICK got : /\ IsExtended(got, m, events, since)
                   /\ Receive(m, events, since) = [m EXCEPT !.got = got]
    BY <2>3, <2>4, ReceiveExtends
  <2>5. /\ IsExtended(got, m, events, m.since)
        /\ Receive(m, events, m.since) = [m EXCEPT !.got = got]
    BY <2>a, <2>b
  <2>6. got \in Seq(Nat)
    BY <2>5 DEF IsExtended
  <2>7. PICK l : l = [m EXCEPT !.got = got]
    OBVIOUS
  <2>8. l \in ConnRecord /\ SentOn(m, l, got)
    BY <2>3, <2>6, <2>7, ReceiveKeepsRest
  <2>9. /\ m.got = k.got /\ m.since = k.since /\ m.open = k.open
        /\ m.subscribes = k.subscribes + 1
    BY <2>2
  <2>10. KeptUp(l)
    BY <1>1, <1>4, <2>3, <2>5, <2>8, <2>9, ReplayKeepsUp
  <2>11. conn' = [conn EXCEPT ![c] = l] /\ UNCHANGED <<nextId, events>>
    <3>1. conn' = [conn EXCEPT ![c] = Receive(m, events, m.since)]
      BY <1>3, <1>10, <2>1 DEF SubscribeTo
    <3>2. QED
      BY <1>10, <2>5, <2>7, <3>1 DEF SubscribeTo
  <2>12. QED
    BY <2>8, <2>10, <2>11, MoveKeepsInv
<1>11. QED
  BY <1>7, <1>8, <1>9, <1>10 DEF ClientMove

\* Nothing was emitted, and nobody is connected.
LEMMA FeedInvInit == ASSUME FeedInit  PROVE  FeedInv
<1>1. BufferIsConsecutive
  BY FeedAssumption DEF FeedInit, BufferIsConsecutive, FeedAssumption
<1>2. ASSUME NEW c \in Clients  PROVE  conn[c] \in ConnRecord /\ KeptUp(conn[c])
  <2>1. PICK l \in ConnRecord :
          /\ l = [Closed EXCEPT !.open = FALSE, !.since = 0]
          /\ l.since = 0 /\ l.topics = {} /\ l.got = <<>> /\ l.subscribes = 0
    BY ClosedIsFresh
  <2>2. l = Closed /\ conn[c] = l
    BY <2>1 DEF Closed, FeedInit
  <2>3. nextId \in Nat /\ 0 < nextId
    BY DEF FeedInit
  <2>4. KeptUp(l)
    BY <1>1, <2>1, <2>3, FreshKeepsUp
  <2>5. QED
    BY <2>2, <2>4
<1>3. conn \in [Clients -> ConnRecord]
  BY <1>2 DEF FeedInit
<1>4. QED
  BY <1>1, <1>2, <1>3, FeedInvAtEach
===============================================================================
