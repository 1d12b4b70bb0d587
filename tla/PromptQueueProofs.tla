-------------------------- MODULE PromptQueueProofs --------------------------
(***************************************************************************)
(* What the operations on the prompt queue return and preserve, for queues *)
(* of any length.                                                          *)
(*                                                                         *)
(* `Only` picks the k-th smallest kept position.  That there is one for    *)
(* every k is the pigeonhole principle: the rank of a position, the number *)
(* of kept positions before it, is an injection from the kept positions    *)
(* into 0 .. n - 1, where n is their number, and so it is onto.            *)
(***************************************************************************)
EXTENDS PromptQueue, Integers, Functions, FiniteSetTheorems, WellFoundedInduction, TLAPS

(* How many elements of K are smaller than i. *)
RankIn(K, i) == Cardinality({j \in K : j < i})

(* The rank of an element is a number smaller than the size of the set, and ranks are strictly *)
(* increasing: the positions kept by a sweep can be told apart by their rank.                 *)
LEMMA RankFacts ==
    ASSUME NEW K \in SUBSET Nat, IsFiniteSet(K)
    PROVE  /\ Cardinality(K) \in Nat
           /\ \A i \in K : RankIn(K, i) \in 0 .. (Cardinality(K) - 1)
           /\ \A i, j \in K : i < j => RankIn(K, i) < RankIn(K, j)
  <1>1. Cardinality(K) \in Nat
    BY FS_CardinalityType
  <1>2. ASSUME NEW i \in K
        PROVE  /\ IsFiniteSet({j \in K : j < i})
               /\ RankIn(K, i) \in Nat
               /\ RankIn(K, i) <= Cardinality(K) - 1
    <2>1. {j \in K : j < i} \in SUBSET (K \ {i})
      OBVIOUS
    <2>2. IsFiniteSet(K \ {i}) /\ Cardinality(K \ {i}) = Cardinality(K) - 1
      BY FS_RemoveElement
    <2>3. IsFiniteSet({j \in K : j < i})
          /\ Cardinality({j \in K : j < i}) <= Cardinality(K \ {i})
      BY <2>1, <2>2, FS_Subset
    <2>4. Cardinality({j \in K : j < i}) \in Nat
      BY <2>3, FS_CardinalityType
    <2> QED  BY <2>2, <2>3, <2>4 DEF RankIn
  <1>3. ASSUME NEW i \in K, NEW j \in K, i < j
        PROVE  RankIn(K, i) < RankIn(K, j)
    <2> DEFINE A == {m \in K : m < i}
               B == {m \in K : m < j}
    <2>1. A \cup {i} \in SUBSET B /\ i \notin A
      <3>1. i \in Nat /\ j \in Nat /\ i < j
        BY <1>3
      <3>2. ASSUME NEW m \in A \cup {i}
            PROVE  m \in K /\ m < j
        BY <3>1
      <3>3. i \notin A
        BY <3>1
      <3> QED  BY <3>2, <3>3
    <2>2. IsFiniteSet(A) /\ IsFiniteSet(B) /\ Cardinality(A) \in Nat /\ Cardinality(B) \in Nat
      BY <1>2 DEF RankIn
    <2>3. Cardinality(A \cup {i}) = Cardinality(A) + 1
      BY <2>1, <2>2, FS_AddElement
    <2>4. Cardinality(A \cup {i}) <= Cardinality(B)
      BY <2>1, <2>2, FS_Subset
    <2> QED  BY <2>2, <2>3, <2>4 DEF RankIn
  <1>4. \A i \in K : RankIn(K, i) \in 0 .. (Cardinality(K) - 1)
    <2> TAKE i \in K
    <2>1. RankIn(K, i) \in Nat /\ RankIn(K, i) <= Cardinality(K) - 1
      BY <1>2
    <2> QED  BY <1>1, <2>1
  <1> QED  BY <1>1, <1>3, <1>4

(* Every k from 1 to the size of K has a k-th smallest element of K, and Nth finds it. *)
LEMMA NthFacts ==
    ASSUME NEW K \in SUBSET Nat, IsFiniteSet(K), NEW k \in 1 .. Cardinality(K)
    PROVE  Nth(K, k) \in K /\ RankIn(K, Nth(K, k)) = k - 1
  <1> DEFINE n == Cardinality(K)
             f == [i \in K |-> RankIn(K, i)]
  <1>1. n \in Nat
    BY RankFacts
  <1>2. f \in [K -> 0 .. (n - 1)]
    BY RankFacts
  <1>3. \A i, j \in K : f[i] = f[j] => i = j
    <2> SUFFICES ASSUME NEW i \in K, NEW j \in K, RankIn(K, i) = RankIn(K, j)
                 PROVE  i = j
      OBVIOUS
    <2>1. ~(i < j) /\ ~(j < i)
      BY RankFacts
    <2> QED  BY <2>1
  <1>4. f \in Injection(K, 0 .. (n - 1))
    BY <1>2, <1>3 DEF Injection, IsInjective
  <1>5. IsFiniteSet(0 .. (n - 1)) /\ Cardinality(0 .. (n - 1)) = n
    <2>1. n - 1 \in Int /\ 0 \in Int
      BY <1>1
    <2> HIDE DEF n
    <2>2. IsFiniteSet(0 .. (n - 1))
          /\ Cardinality(0 .. (n - 1)) = IF 0 > n - 1 THEN 0 ELSE (n - 1) - 0 + 1
      BY <2>1, FS_Interval
    <2> QED  BY <1>1, <2>2
  <1>6. f \in Surjection(K, 0 .. (n - 1))
    BY <1>4, <1>5, FS_Injection
  <1>7. k - 1 \in 0 .. (n - 1)
    BY <1>1
  <1>8. PICK i \in K : f[i] = k - 1
    BY <1>6, <1>7 DEF Surjection
  <1>9. \E m \in K : Cardinality({j \in K : j < m}) = k - 1
    BY <1>8 DEF RankIn
  <1> HIDE DEF n, f
  <1> QED  BY <1>9 DEF Nth, RankIn

(***************************************************************************)
(* A sweep returns a sequence: its elements are the kept elements of the   *)
(* swept queue, each at a position of its own.                             *)
(***************************************************************************)
LEMMA OnlyFacts ==
    ASSUME NEW S, NEW s \in Seq(S), NEW Keep
    PROVE  /\ Only(s, Keep) \in Seq(S)
           /\ Only(s, Keep) \in Seq(S \cap Keep)
           /\ Len(Only(s, Keep)) = Cardinality(KeptAt(s, Keep))
           /\ Cardinality(KeptAt(s, Keep)) \in Nat
           /\ IsFiniteSet(KeptAt(s, Keep))
           /\ KeptAt(s, Keep) \in SUBSET Nat
  <1> DEFINE K == KeptAt(s, Keep)
             n == Cardinality(K)
             r == [k \in 1 .. n |-> s[Nth(K, k)]]
  <1>1. K \subseteq 1 .. Len(s) /\ Len(s) \in Nat
    BY DEF KeptAt
  <1>2. IsFiniteSet(K) /\ K \in SUBSET Nat
    <2>1. IsFiniteSet(1 .. Len(s))
      BY <1>1, FS_Interval
    <2> QED  BY <1>1, <2>1, FS_Subset
  <1>3. n \in Nat
    BY <1>2, RankFacts
  <1>4. \A k \in 1 .. n : Nth(K, k) \in K
    BY <1>2, NthFacts
  <1>5. \A i \in K : s[i] \in S \cap Keep
    BY DEF KeptAt
  <1>6. Only(s, Keep) = r
    BY DEF Only
  <1> HIDE DEF K, n
  <1>7. r \in Seq(S \cap Keep) /\ r \in Seq(S) /\ Len(r) = n
    BY <1>3, <1>4, <1>5
  <1> QED  BY <1>2, <1>3, <1>6, <1>7 DEF K, n

(* The k-th element of a sweep is the element at the k-th kept position. *)
LEMMA OnlyAt ==
    ASSUME NEW S, NEW s \in Seq(S), NEW Keep, NEW k \in 1 .. Len(Only(s, Keep))
    PROVE  /\ Nth(KeptAt(s, Keep), k) \in KeptAt(s, Keep)
           /\ RankIn(KeptAt(s, Keep), Nth(KeptAt(s, Keep), k)) = k - 1
           /\ Only(s, Keep)[k] = s[Nth(KeptAt(s, Keep), k)]
  <1> DEFINE K == KeptAt(s, Keep)
  <1>1. IsFiniteSet(K) /\ K \in SUBSET Nat /\ k \in 1 .. Cardinality(K)
    BY OnlyFacts
  <1>2. Nth(K, k) \in K /\ RankIn(K, Nth(K, k)) = k - 1
    BY <1>1, NthFacts
  <1>3. Only(s, Keep)[k] = s[Nth(K, k)]
    BY <1>1 DEF Only
  <1> QED  BY <1>2, <1>3

(* A sweep that keeps the front of a queue leaves it at the front. *)
LEMMA OnlyKeepsHead ==
    ASSUME NEW S, NEW s \in Seq(S), NEW Keep, s # << >>, Head(s) \in Keep
    PROVE  Only(s, Keep) # << >> /\ Head(Only(s, Keep)) = Head(s)
  <1> DEFINE K == KeptAt(s, Keep)
  <1>1. 1 \in K /\ \A i \in K : i >= 1 /\ i \in Nat
    BY DEF KeptAt
  <1>2. IsFiniteSet(K) /\ K \in SUBSET Nat /\ Cardinality(K) \in Nat
    BY OnlyFacts
  <1>3. Cardinality(K) # 0
    BY <1>1, <1>2, FS_EmptySet
  <1>4. 1 \in 1 .. Cardinality(K)
    BY <1>2, <1>3
  <1>5. Nth(K, 1) \in K /\ RankIn(K, Nth(K, 1)) = 1 - 1
    BY <1>2, <1>4, NthFacts
  <1>6. RankIn(K, 1) \in 0 .. (Cardinality(K) - 1)
    BY <1>1, <1>2, RankFacts
  <1>7. ~(1 < Nth(K, 1))
    BY <1>1, <1>2, <1>5, <1>6, RankFacts
  <1>8. Nth(K, 1) = 1
    BY <1>1, <1>5, <1>7
  <1>9. Only(s, Keep) \in Seq(S) /\ Len(Only(s, Keep)) = Cardinality(K)
    BY OnlyFacts
  <1>10. Only(s, Keep)[1] = s[Nth(K, 1)]
    BY <1>4, <1>9, OnlyAt
  <1> HIDE DEF K
  <1>11. Only(s, Keep) # << >>
    BY <1>2, <1>3, <1>9
  <1> QED  BY <1>8, <1>9, <1>10, <1>11

(* A sweep keeps every element it is asked to keep and no other. *)
LEMMA OnlyElems ==
    ASSUME NEW S, NEW s \in Seq(S), NEW Keep
    PROVE  Elems(Only(s, Keep)) = Elems(s) \cap Keep
  <1> DEFINE K == KeptAt(s, Keep)
             r == Only(s, Keep)
  <1>1. /\ r \in Seq(S) /\ Len(r) = Cardinality(K) /\ Cardinality(K) \in Nat
        /\ IsFiniteSet(K) /\ K \in SUBSET Nat
    BY OnlyFacts
  <1>2. \A k \in 1 .. Len(r) : Nth(K, k) \in K /\ r[k] = s[Nth(K, k)]
    BY OnlyAt
  <1>3. \A i \in K : i \in DOMAIN s /\ s[i] \in Keep
    BY DEF KeptAt
  <1>4. ASSUME NEW i \in K
        PROVE  \E k \in 1 .. Len(r) : r[k] = s[i]
    <2>1. RankIn(K, i) \in 0 .. (Cardinality(K) - 1)
      BY <1>1, RankFacts
    <2> DEFINE k == RankIn(K, i) + 1
    <2>2. k \in 1 .. Cardinality(K) /\ k - 1 = RankIn(K, i)
      BY <1>1, <2>1
    <2>3. Nth(K, k) \in K /\ RankIn(K, Nth(K, k)) = k - 1
      BY <1>1, <2>2, NthFacts
    <2> HIDE DEF k
    <2>4. ~(i < Nth(K, k)) /\ ~(Nth(K, k) < i)
      BY <1>1, <2>1, <2>2, <2>3, RankFacts
    <2>5. i \in Nat /\ Nth(K, k) \in Nat
      BY <1>1, <2>3
    <2>6. Nth(K, k) = i
      BY <2>4, <2>5
    <2> QED  BY <1>1, <1>2, <2>2, <2>6
  <1>5. DOMAIN r = 1 .. Len(r)
    BY <1>1
  <1> HIDE DEF r
  <1>6. \A x \in Elems(r) : x \in Elems(s) \cap Keep
    BY <1>2, <1>3, <1>5 DEF Elems
  <1>7. \A x \in Elems(s) \cap Keep : x \in Elems(r)
    BY <1>4, <1>5 DEF Elems, KeptAt
  <1> QED  BY <1>6, <1>7 DEF r

(* A sweep of a queue without repetitions has none. *)
LEMMA OnlyKeepsDistinct ==
    ASSUME NEW S, NEW s \in Seq(S), NEW Keep,
           \A i, j \in DOMAIN s : s[i] = s[j] => i = j
    PROVE  \A i, j \in DOMAIN Only(s, Keep) : Only(s, Keep)[i] = Only(s, Keep)[j] => i = j
  <1> DEFINE K == KeptAt(s, Keep)
             r == Only(s, Keep)
  <1>1. /\ r \in Seq(S) /\ Len(r) = Cardinality(K) /\ Cardinality(K) \in Nat
        /\ IsFiniteSet(K) /\ K \in SUBSET Nat
    BY OnlyFacts
  <1>2. \A k \in 1 .. Len(r) : Nth(K, k) \in K /\ r[k] = s[Nth(K, k)]
    BY OnlyAt
  <1> SUFFICES ASSUME NEW i \in 1 .. Len(r), NEW j \in 1 .. Len(r), r[i] = r[j]
               PROVE  i = j
    BY <1>1
  <1>3. Nth(K, i) = Nth(K, j)
    BY <1>2 DEF KeptAt
  <1>4. RankIn(K, Nth(K, i)) = i - 1
    BY <1>1, NthFacts
  <1>5. RankIn(K, Nth(K, j)) = j - 1
    BY <1>1, NthFacts
  <1>6. i - 1 = j - 1
    BY <1>3, <1>4, <1>5
  <1> QED  BY <1>1, <1>6

(***************************************************************************)
(* A sweep (State::sweep_pending_inputs) leaves exactly the wanted prompts *)
(* in the order they were queued in: it is the map of an order-preserving  *)
(* choice of positions that reaches every position of a wanted prompt.     *)
(***************************************************************************)
THEOREM SweepIsSubsequence ==
    ASSUME NEW S, NEW s \in Seq(S), NEW Keep
    PROVE  \E f \in [1 .. Len(Only(s, Keep)) -> 1 .. Len(s)] :
             /\ \A i, j \in 1 .. Len(Only(s, Keep)) : i < j => f[i] < f[j]
             /\ \A k \in 1 .. Len(Only(s, Keep)) :
                   Only(s, Keep)[k] = s[f[k]] /\ s[f[k]] \in Keep
             /\ \A x \in 1 .. Len(s) : s[x] \in Keep =>
                   \E k \in 1 .. Len(Only(s, Keep)) : f[k] = x
  <1> DEFINE t == Only(s, Keep)
             n == Len(t)
             K == KeptAt(s, Keep)
             f == [k \in 1 .. n |-> Nth(K, k)]
  <1>1. n = Cardinality(K) /\ n \in Nat /\ IsFiniteSet(K) /\ K \in SUBSET Nat
    BY OnlyFacts
  <1>2. \A x : x \in K <=> x \in 1 .. Len(s) /\ s[x] \in Keep
    BY DEF KeptAt
  <1>3. \A k \in 1 .. n : Nth(K, k) \in K /\ RankIn(K, Nth(K, k)) = k - 1 /\ t[k] = s[Nth(K, k)]
    BY OnlyAt
  <1>4. /\ \A i \in K : RankIn(K, i) \in 0 .. (n - 1)
        /\ \A i, j \in K : i < j => RankIn(K, i) < RankIn(K, j)
    BY <1>1, RankFacts
  <1> HIDE DEF t, n, K
  <1>5. f \in [1 .. n -> 1 .. Len(s)]
    BY <1>2, <1>3
  <1>6. \A k \in 1 .. n : t[k] = s[f[k]] /\ s[f[k]] \in Keep
    BY <1>2, <1>3
  <1>7. \A i, j \in 1 .. n : i < j => f[i] < f[j]
    <2> TAKE i, j \in 1 .. n
    <2> HAVE i < j
    <2> DEFINE a == Nth(K, i)
               c == Nth(K, j)
    <2>1. a \in K /\ c \in K /\ RankIn(K, a) = i - 1 /\ RankIn(K, c) = j - 1
      BY <1>3
    <2> HIDE DEF a, c
    <2>2. a \in Nat /\ c \in Nat /\ i \in Nat /\ j \in Nat
      BY <1>1, <2>1
    <2>3. ~(c < a) /\ a # c
      BY <1>4, <2>1, <2>2
    <2>4. a < c
      BY <2>2, <2>3
    <2> QED  BY <2>4 DEF a, c
  <1>8. ASSUME NEW x \in 1 .. Len(s), s[x] \in Keep
        PROVE  \E k \in 1 .. n : f[k] = x
    <2> DEFINE k == RankIn(K, x) + 1
               a == Nth(K, k)
    <2>1. x \in K /\ x \in Nat /\ RankIn(K, x) \in 0 .. (n - 1)
      BY <1>1, <1>2, <1>4, <1>8
    <2>2. k \in 1 .. n /\ k - 1 = RankIn(K, x)
      BY <1>1, <2>1
    <2> HIDE DEF k
    <2>3. a \in K /\ RankIn(K, a) = RankIn(K, x)
      BY <1>3, <2>2
    <2> HIDE DEF a
    <2>4. a \in Nat /\ RankIn(K, x) \in Nat
      BY <1>1, <2>1, <2>3
    <2>5. ~(a < x) /\ ~(x < a)
      BY <1>4, <2>1, <2>3, <2>4
    <2>6. a = x
      BY <2>1, <2>4, <2>5
    <2> QED  BY <2>2, <2>6 DEF a
  <1> HIDE DEF f
  <1>9. \E g \in [1 .. n -> 1 .. Len(s)] :
          /\ \A i, j \in 1 .. n : i < j => g[i] < g[j]
          /\ \A k \in 1 .. n : t[k] = s[g[k]] /\ s[g[k]] \in Keep
          /\ \A x \in 1 .. Len(s) : s[x] \in Keep => \E k \in 1 .. n : g[k] = x
    BY <1>5, <1>6, <1>7, <1>8
  <1> QED  BY <1>9 DEF t, n

(* The front of the queue never ends up behind the insertion point of the fallback prompt, and *)
(* the insertion point is one of the queue.                                                  *)
LEMMA BehindRunningFacts ==
    ASSUME NEW S, NEW q \in Seq(S), NEW run
    PROVE  /\ BehindRunning(q, run) \in 0 .. Len(q)
           /\ q # << >> /\ Head(q) = run => BehindRunning(q, run) = 1
  BY DEF BehindRunning

(* A send-now prompt lands behind the running front and inside the queue. *)
LEMMA SendNowSlotFacts ==
    ASSUME NEW S, NEW q \in Seq(S), NEW run, NEW sn
    PROVE  /\ SendNowSlot(q, run, sn) \in 0 .. Len(q)
           /\ q # << >> /\ Head(q) = run => SendNowSlot(q, run, sn) >= 1
  <1> DEFINE b == BehindRunning(q, run)
             T == (b + 1) .. Len(q)
             C == {k \in T : \A j \in (b + 1) .. k : q[j] \in sn}
  <1>1. b \in 0 .. Len(q) /\ Len(q) \in Nat /\ (q # << >> /\ Head(q) = run => b = 1)
    BY BehindRunningFacts
  <1> HIDE DEF b
  <1>2. b + 1 \in Int /\ Len(q) \in Int
    BY <1>1
  <1>3. IsFiniteSet(T)
    BY <1>2, FS_Interval
  <1>4. Cardinality(T) = IF b + 1 > Len(q) THEN 0 ELSE Len(q) - (b + 1) + 1
    BY <1>2, FS_Interval
  <1>5. C \in SUBSET T
    OBVIOUS
  <1> HIDE DEF T, C
  <1>6. IsFiniteSet(C) /\ Cardinality(C) <= Cardinality(T)
    BY <1>3, <1>5, FS_Subset
  <1>7. Cardinality(C) \in Nat
    BY <1>6, FS_CardinalityType
  <1>8. SendNowSlot(q, run, sn) = b + Cardinality(C)
    BY DEF SendNowSlot, b, T, C
  <1> QED  BY <1>1, <1>4, <1>6, <1>7, <1>8

(* A set of numbers that is not empty has a smallest element. *)
LEMMA LeastNumber ==
    ASSUME NEW T, T \subseteq Nat, T # {}
    PROVE  \E m \in T : \A i \in T : m <= i
  <1>1. PICK m \in T : \A i \in T : ~(<<i, m>> \in OpToRel(<, Nat))
    BY WFMin, NatLessThanWellFounded, Zenon
  <1>2. \A i \in T : ~(i < m)
    BY <1>1, Zenon DEF OpToRel
  <1>3. \A i \in T : m <= i
    BY <1>2
  <1> QED  BY <1>3

(***************************************************************************)
(* Where the loop of queue_input stops: behind the running front, at the   *)
(* first position with no send-now prompt, or at the end.  Everything      *)
(* between is send-now, so a send-now prompt overtakes no earlier one and  *)
(* every other prompt.                                                     *)
(***************************************************************************)
THEOREM SendNowSlotStops ==
    ASSUME NEW S, NEW q \in Seq(S), NEW run, NEW sn
    PROVE  /\ SendNowSlot(q, run, sn) \in BehindRunning(q, run) .. Len(q)
           /\ \A k \in (BehindRunning(q, run) + 1) .. SendNowSlot(q, run, sn) : q[k] \in sn
           /\ SendNowSlot(q, run, sn) < Len(q) => q[SendNowSlot(q, run, sn) + 1] \notin sn
  <1> DEFINE b == BehindRunning(q, run)
             n == Len(q)
             C == {k \in (b + 1) .. n : \A j \in (b + 1) .. k : q[j] \in sn}
             T == {k \in (b + 1) .. (n + 1) : k \notin C}
  <1>1. b \in Nat /\ n \in Nat /\ b <= n
    BY BehindRunningFacts
  <1>2. SendNowSlot(q, run, sn) = b + Cardinality(C)
    BY DEF SendNowSlot
  <1> HIDE DEF b, n
  <1>3. \A k \in C : k \in (b + 1) .. n /\ \A j \in (b + 1) .. k : q[j] \in sn
    OBVIOUS
  <1>4. \A k \in (b + 1) .. n : (\A j \in (b + 1) .. k : q[j] \in sn) => k \in C
    OBVIOUS
  <1> HIDE DEF C
  <1>5. PICK m \in T : \A i \in T : m <= i
    <2>1. n + 1 \in T
      BY <1>1, <1>3
    <2>2. T \subseteq Nat
      BY <1>1
    <2> HIDE DEF T
    <2> QED  BY <2>1, <2>2, LeastNumber
  <1>6. m \in (b + 1) .. (n + 1) /\ m \notin C /\ m \in Nat /\ m - 1 \in b .. n
    BY <1>1
  <1>7. ASSUME NEW k \in (b + 1) .. (m - 1)
        PROVE  k \in C
    <2>1. k \in (b + 1) .. (n + 1) /\ ~(m <= k)
      BY <1>1, <1>6
    <2> QED  BY <1>5, <2>1
  <1>8. ASSUME NEW k \in C
        PROVE  k \in (b + 1) .. (m - 1)
    <2>1. k \in (b + 1) .. n /\ \A j \in (b + 1) .. k : q[j] \in sn
      BY <1>3
    <2>2. CASE m <= k
      <3>1. m \in (b + 1) .. n /\ \A j \in (b + 1) .. m : j \in (b + 1) .. k
        BY <1>1, <1>6, <2>1, <2>2
      <3>2. \A j \in (b + 1) .. m : q[j] \in sn
        BY <2>1, <3>1
      <3> QED  BY <1>4, <1>6, <3>1, <3>2
    <2>3. CASE ~(m <= k)
      BY <1>1, <1>6, <2>1, <2>3
    <2> QED  BY <2>2, <2>3
  <1>9. C = (b + 1) .. (m - 1)
    BY <1>7, <1>8
  <1>10. Cardinality(C) = (m - 1) - b
    <2>1. b + 1 \in Int /\ m - 1 \in Int
      BY <1>1, <1>6
    <2>2. Cardinality((b + 1) .. (m - 1)) =
            IF b + 1 > m - 1 THEN 0 ELSE (m - 1) - (b + 1) + 1
      BY <2>1, FS_Interval
    <2> QED  BY <1>1, <1>6, <1>9, <2>2
  <1> DEFINE p == SendNowSlot(q, run, sn)
  <1>11. p = m - 1
    BY <1>1, <1>2, <1>6, <1>10
  <1> HIDE DEF p
  <1>12. \A k \in (b + 1) .. p : q[k] \in sn
    <2> TAKE k \in (b + 1) .. p
    <2>1. k \in C /\ k \in (b + 1) .. k
      BY <1>1, <1>6, <1>7, <1>11
    <2> QED  BY <1>3, <2>1
  <1>13. p < n => q[p + 1] \notin sn
    <2> SUFFICES ASSUME p < n, q[p + 1] \in sn
                 PROVE  FALSE
      OBVIOUS
    <2>1. m = p + 1 /\ m \in (b + 1) .. n /\ p \in Nat
      BY <1>1, <1>6, <1>11
    <2>2. ASSUME NEW j \in (b + 1) .. m
          PROVE  j \in (b + 1) .. p \/ j = p + 1
      <3>1. j \in Nat /\ j <= p + 1 /\ b + 1 <= j
        BY <1>1, <2>1
      <3> QED  BY <1>1, <2>1, <3>1
    <2>3. \A j \in (b + 1) .. m : q[j] \in sn
      BY <1>12, <2>2
    <2> QED  BY <1>4, <1>6, <2>1, <2>3
  <1>14. p \in b .. n
    BY <1>6, <1>11
  <1> QED  BY <1>12, <1>13, <1>14 DEF p, b, n

(* A prompt queued at the back leaves the front where it is. *)
LEMMA AppendFacts ==
    ASSUME NEW S, NEW s \in Seq(S), NEW x \in S
    PROVE  /\ Append(s, x) \in Seq(S)
           /\ Append(s, x) # << >>
           /\ s # << >> => Head(Append(s, x)) = Head(s)
  OBVIOUS

(* An insertion behind the front leaves the front where it is; any insertion adds the one element. *)
LEMMA InsertBehindFacts ==
    ASSUME NEW S, NEW s \in Seq(S), NEW p \in 0 .. Len(s), NEW x \in S
    PROVE  /\ InsertBehind(s, p, x) \in Seq(S)
           /\ InsertBehind(s, p, x) # << >>
           /\ p >= 1 => Head(InsertBehind(s, p, x)) = Head(s)
  <1> DEFINE a == SubSeq(s, 1, p)
             c == SubSeq(s, p + 1, Len(s))
  <1>1. a \in Seq(S) /\ Len(a) = p /\ (p >= 1 => a[1] = s[1])
    OBVIOUS
  <1>2. c \in Seq(S)
    OBVIOUS
  <1> HIDE DEF a, c
  <1>3. a \o <<x>> \in Seq(S) /\ Len(a \o <<x>>) = p + 1
        /\ (p >= 1 => (a \o <<x>>)[1] = s[1])
    BY <1>1
  <1>4. (a \o <<x>>) \o c \in Seq(S) /\ Len((a \o <<x>>) \o c) >= 1
        /\ (p >= 1 => ((a \o <<x>>) \o c)[1] = s[1])
    BY <1>2, <1>3
  <1>5. InsertBehind(s, p, x) = (a \o <<x>>) \o c
    BY DEF InsertBehind, a, c
  <1>6. InsertBehind(s, p, x) # << >>
    BY <1>4, <1>5
  <1>7. p >= 1 => Head(InsertBehind(s, p, x)) = Head(s)
    BY <1>4, <1>5, <1>6
  <1> QED  BY <1>4, <1>5, <1>6, <1>7

(* A reorder never moves a front that is not movable, such as the running turn's slot. *)
LEMMA ReorderedFacts ==
    ASSUME NEW S, NEW q \in Seq(S), NEW movable, NEW ord \in Seq(S)
    PROVE  /\ Reordered(q, movable, ord) \in Seq(S)
           /\ q # << >> /\ Head(q) \notin movable =>
                 /\ Reordered(q, movable, ord) # << >>
                 /\ Head(Reordered(q, movable, ord)) = Head(q)
  <1> DEFINE a == Only(q, Elems(q) \ movable)
             b == Only(ord, Elems(q) \cap movable)
             c == Only(q, movable \ Elems(ord))
  <1>1. a \in Seq(S) /\ b \in Seq(S) /\ c \in Seq(S)
    BY OnlyFacts
  <1>2. Reordered(q, movable, ord) = a \o b \o c
    BY DEF Reordered
  <1>3. ASSUME q # << >>, Head(q) \notin movable
        PROVE  a # << >> /\ Head(a) = Head(q)
    <2>1. Head(q) \in Elems(q) \ movable
      BY <1>3 DEF Elems
    <2> QED  BY <1>3, <2>1, OnlyKeepsHead
  <1> HIDE DEF a, b, c
  <1>4. (a \o b) \o c \in Seq(S)
    BY <1>1
  <1>5. ASSUME a # << >>
        PROVE  (a \o b) \o c # << >> /\ Head((a \o b) \o c) = Head(a)
    <2>1. Len(a) >= 1
      BY <1>1, <1>5
    <2>2. a \o b \in Seq(S) /\ Len(a \o b) >= 1 /\ (a \o b)[1] = a[1]
      BY <1>1, <2>1
    <2>3. Len((a \o b) \o c) >= 1 /\ ((a \o b) \o c)[1] = a[1]
      BY <1>1, <2>2
    <2> QED  BY <1>1, <1>4, <1>5, <2>3
  <1> QED  BY <1>2, <1>3, <1>4, <1>5

-----------------------------------------------------------------------------
(* What the operations do to the set of queued prompts, and that none of them doubles one. *)

(* No prompt is in the queue twice. *)
Distinct(s) == \A j, k \in DOMAIN s : s[j] = s[k] => j = k

(* The elements of a queue are prompts, and its front is one of them. *)
LEMMA ElemsFacts ==
    ASSUME NEW S, NEW s \in Seq(S)
    PROVE  /\ Elems(s) \subseteq S
           /\ s = << >> <=> Elems(s) = {}
           /\ s # << >> => Head(s) \in Elems(s)
  <1>1. DOMAIN s = 1 .. Len(s) /\ Len(s) \in Nat /\ \A i \in 1 .. Len(s) : s[i] \in S
    OBVIOUS
  <1>2. s # << >> => 1 \in DOMAIN s /\ Head(s) = s[1]
    OBVIOUS
  <1>3. Elems(<< >>) = {}
    BY DEF Elems
  <1> QED  BY <1>1, <1>2, <1>3 DEF Elems

(* The empty queue and a queue of one. *)
LEMMA SmallFacts ==
    /\ Elems(<< >>) = {} /\ Distinct(<< >>)
    /\ \A x : Elems(<<x>>) = {x} /\ Distinct(<<x>>)
  <1>1. Elems(<< >>) = {} /\ Distinct(<< >>)
    BY DEF Elems, Distinct
  <1>2. ASSUME NEW x
        PROVE  Elems(<<x>>) = {x} /\ Distinct(<<x>>)
    <2>1. DOMAIN <<x>> = {1} /\ <<x>>[1] = x
      OBVIOUS
    <2> QED  BY <2>1 DEF Elems, Distinct
  <1> QED  BY <1>1, <1>2

(* Two queues in a row. *)
LEMMA ConcatElems ==
    ASSUME NEW S, NEW a \in Seq(S), NEW b \in Seq(S)
    PROVE  /\ Elems(a \o b) = Elems(a) \cup Elems(b)
           /\ Distinct(a) /\ Distinct(b) /\ Elems(a) \cap Elems(b) = {} => Distinct(a \o b)
  <1> DEFINE m == Len(a)
             n == Len(b)
             c == a \o b
  <1>1. /\ m \in Nat /\ n \in Nat /\ DOMAIN a = 1 .. m /\ DOMAIN b = 1 .. n
        /\ DOMAIN c = 1 .. (m + n)
        /\ \A i \in 1 .. m : c[i] = a[i]
        /\ \A i \in 1 .. n : c[m + i] = b[i]
    OBVIOUS
  <1> HIDE DEF c, m, n
  <1>2. ASSUME NEW i \in 1 .. (m + n)
        PROVE  \/ i \in 1 .. m /\ c[i] = a[i] /\ c[i] \in Elems(a)
               \/ i - m \in 1 .. n /\ c[i] = b[i - m] /\ c[i] \in Elems(b)
    <2>1. CASE i <= m
      BY <1>1, <2>1 DEF Elems
    <2>2. CASE ~(i <= m)
      <3>1. i - m \in 1 .. n /\ m + (i - m) = i
        BY <1>1, <2>2
      <3> QED  BY <1>1, <3>1 DEF Elems
    <2> QED  BY <2>1, <2>2
  <1>3. Elems(c) \subseteq Elems(a) \cup Elems(b)
    BY <1>1, <1>2 DEF Elems
  <1>4. Elems(a) \cup Elems(b) \subseteq Elems(c)
    <2>1. \A i \in 1 .. m : i \in 1 .. (m + n)
      BY <1>1
    <2>2. \A i \in 1 .. n : m + i \in 1 .. (m + n)
      BY <1>1
    <2> QED  BY <1>1, <2>1, <2>2 DEF Elems
  <1>5. ASSUME Distinct(a), Distinct(b), Elems(a) \cap Elems(b) = {}
        PROVE  Distinct(c)
    <2> SUFFICES ASSUME NEW i \in 1 .. (m + n), NEW j \in 1 .. (m + n), c[i] = c[j]
                 PROVE  i = j
      BY <1>1 DEF Distinct
    <2>1. CASE i \in 1 .. m /\ c[i] = a[i] /\ c[i] \in Elems(a)
      <3>1. j \in 1 .. m /\ c[j] = a[j]
        BY <1>2, <1>5, <2>1
      <3> QED  BY <1>1, <1>5, <2>1, <3>1 DEF Distinct
    <2>2. CASE i - m \in 1 .. n /\ c[i] = b[i - m] /\ c[i] \in Elems(b)
      <3>1. j - m \in 1 .. n /\ c[j] = b[j - m]
        BY <1>2, <1>5, <2>2
      <3>2. i - m = j - m
        BY <1>1, <1>5, <2>2, <3>1 DEF Distinct
      <3> QED  BY <1>1, <3>2
    <2> QED  BY <1>2, <2>1, <2>2
  <1> QED  BY <1>3, <1>4, <1>5 DEF c

(* A prompt added at the back. *)
LEMMA AppendElems ==
    ASSUME NEW S, NEW s \in Seq(S), NEW x \in S
    PROVE  /\ Elems(Append(s, x)) = Elems(s) \cup {x}
           /\ Distinct(s) /\ x \notin Elems(s) => Distinct(Append(s, x))
  <1> DEFINE b == <<x>>
  <1>1. Append(s, x) = s \o b /\ b \in Seq(S)
    OBVIOUS
  <1>2. Elems(b) = {x} /\ Distinct(b)
    BY SmallFacts
  <1> HIDE DEF b
  <1>3. /\ Elems(s \o b) = Elems(s) \cup Elems(b)
        /\ Distinct(s) /\ Distinct(b) /\ Elems(s) \cap Elems(b) = {} => Distinct(s \o b)
    BY <1>1, ConcatElems
  <1> QED  BY <1>1, <1>2, <1>3

(* The front popped: pop_front of a queue without repetitions removes that prompt. *)
LEMMA TailElems ==
    ASSUME NEW S, NEW s \in Seq(S), s # << >>, Distinct(s)
    PROVE  /\ Tail(s) \in Seq(S)
           /\ Elems(Tail(s)) = Elems(s) \ {Head(s)}
           /\ Distinct(Tail(s))
  <1> DEFINE n == Len(s)
             t == Tail(s)
  <1>1. /\ n \in Nat /\ n >= 1 /\ DOMAIN s = 1 .. n /\ t \in Seq(S) /\ Head(s) = s[1]
        /\ DOMAIN t = 1 .. (n - 1) /\ \A i \in 1 .. (n - 1) : t[i] = s[i + 1]
    OBVIOUS
  <1> HIDE DEF n, t
  <1>2. \A i \in 1 .. (n - 1) : i + 1 \in 1 .. n /\ i + 1 # 1
    BY <1>1
  <1>3. \A i \in 1 .. n : i # 1 => i - 1 \in 1 .. (n - 1) /\ (i - 1) + 1 = i
    BY <1>1
  <1>4. Elems(t) \subseteq Elems(s) \ {Head(s)}
    BY <1>1, <1>2 DEF Elems, Distinct
  <1>5. Elems(s) \ {Head(s)} \subseteq Elems(t)
    <2>1. ASSUME NEW i \in 1 .. n, s[i] # s[1]
          PROVE  s[i] \in Elems(t)
      <3>1. i - 1 \in 1 .. (n - 1) /\ t[i - 1] = s[(i - 1) + 1] /\ (i - 1) + 1 = i
        BY <1>1, <1>3, <2>1
      <3>2. i - 1 \in DOMAIN t /\ t[i - 1] = s[i]
        BY <1>1, <3>1
      <3> QED  BY <3>2 DEF Elems
    <2> QED  BY <1>1, <2>1 DEF Elems
  <1>6. Distinct(t)
    <2> SUFFICES ASSUME NEW i \in 1 .. (n - 1), NEW j \in 1 .. (n - 1), t[i] = t[j]
                 PROVE  i = j
      BY <1>1 DEF Distinct
    <2>1. i + 1 = j + 1
      BY <1>1, <1>2 DEF Distinct
    <2> QED  BY <1>1, <2>1
  <1> QED  BY <1>1, <1>4, <1>5, <1>6 DEF t

(* The last one taken off. *)
LEMMA FrontElems ==
    ASSUME NEW S, NEW s \in Seq(S), s # << >>, Distinct(s)
    PROVE  LET f == SubSeq(s, 1, Len(s) - 1)
           IN  /\ f \in Seq(S) /\ s[Len(s)] \in Elems(s)
               /\ Elems(f) = Elems(s) \ {s[Len(s)]}
               /\ Distinct(f)
  <1> DEFINE n == Len(s)
             f == SubSeq(s, 1, n - 1)
  <1>1. n \in Nat /\ n >= 1 /\ DOMAIN s = 1 .. n
    OBVIOUS
  <1>2. f \in Seq(S) /\ DOMAIN f = 1 .. (n - 1) /\ \A i \in 1 .. (n - 1) : f[i] = s[i]
    OBVIOUS
  <1> HIDE DEF n, f
  <1>3. \A i \in 1 .. n : i # n => i \in 1 .. (n - 1)
    BY <1>1
  <1>4. n \in 1 .. n /\ \A i \in 1 .. (n - 1) : i \in 1 .. n /\ i # n
    BY <1>1
  <1>5. Elems(f) \subseteq Elems(s) \ {s[n]}
    BY <1>1, <1>2, <1>4 DEF Elems, Distinct
  <1>6. Elems(s) \ {s[n]} \subseteq Elems(f)
    BY <1>1, <1>2, <1>3 DEF Elems
  <1>7. Distinct(f) /\ s[n] \in Elems(s)
    BY <1>1, <1>2, <1>4 DEF Elems, Distinct
  <1> QED  BY <1>2, <1>5, <1>6, <1>7 DEF f, n

(* An insertion anywhere adds the one prompt. *)
LEMMA InsertBehindElems ==
    ASSUME NEW S, NEW s \in Seq(S), NEW p \in 0 .. Len(s), NEW x \in S
    PROVE  /\ Elems(InsertBehind(s, p, x)) = Elems(s) \cup {x}
           /\ Distinct(s) /\ x \notin Elems(s) => Distinct(InsertBehind(s, p, x))
  <1> DEFINE n == Len(s)
             a == SubSeq(s, 1, p)
             c == SubSeq(s, p + 1, n)
  <1>1. n \in Nat /\ p \in Nat /\ p <= n /\ DOMAIN s = 1 .. n
    OBVIOUS
  <1>2. a \in Seq(S) /\ DOMAIN a = 1 .. p /\ \A i \in 1 .. p : a[i] = s[i]
    OBVIOUS
  <1>3. c \in Seq(S) /\ DOMAIN c = 1 .. (n - p) /\ \A i \in 1 .. (n - p) : c[i] = s[i + p]
    OBVIOUS
  <1> DEFINE b == <<x>>
             d == a \o b
  <1>4. b \in Seq(S) /\ Elems(b) = {x} /\ Distinct(b)
    BY SmallFacts
  <1>5. InsertBehind(s, p, x) = d \o c
    BY DEF InsertBehind
  <1> HIDE DEF n, a, b, c
  <1>6. \A i \in 1 .. p : i \in 1 .. n
    BY <1>1
  <1>7. \A i \in 1 .. (n - p) : i + p \in 1 .. n /\ i + p \notin 1 .. p
    BY <1>1
  <1>8. \A i \in 1 .. n : i \notin 1 .. p => i - p \in 1 .. (n - p) /\ (i - p) + p = i
    BY <1>1
  <1>9. Elems(a) \cup Elems(c) = Elems(s)
    <2>1. Elems(a) \cup Elems(c) \subseteq Elems(s)
      BY <1>1, <1>2, <1>3, <1>6, <1>7 DEF Elems
    <2>2. ASSUME NEW i \in 1 .. n
          PROVE  s[i] \in Elems(a) \cup Elems(c)
      <3>1. CASE i \in 1 .. p
        BY <1>2, <3>1 DEF Elems
      <3>2. CASE i \notin 1 .. p
        <4>1. i - p \in 1 .. (n - p) /\ c[i - p] = s[(i - p) + p] /\ (i - p) + p = i
          BY <1>3, <1>8, <3>2
        <4> QED  BY <1>3, <4>1 DEF Elems
      <3> QED  BY <3>1, <3>2
    <2> QED  BY <1>1, <2>1, <2>2 DEF Elems
  <1>10. ASSUME Distinct(s)
         PROVE  Distinct(a) /\ Distinct(c) /\ Elems(a) \cap Elems(c) = {}
    <2>1. Distinct(a)
      BY <1>1, <1>2, <1>6, <1>10 DEF Distinct
    <2>2. Distinct(c)
      <3> SUFFICES ASSUME NEW i \in 1 .. (n - p), NEW j \in 1 .. (n - p), c[i] = c[j]
                   PROVE  i = j
        BY <1>3 DEF Distinct
      <3>1. i + p = j + p
        BY <1>1, <1>3, <1>7, <1>10 DEF Distinct
      <3> QED  BY <1>1, <3>1
    <2>3. Elems(a) \cap Elems(c) = {}
      <3> SUFFICES ASSUME NEW i \in 1 .. p, NEW j \in 1 .. (n - p), a[i] = c[j]
                   PROVE  FALSE
        BY <1>2, <1>3 DEF Elems
      <3>1. i = j + p
        BY <1>1, <1>2, <1>3, <1>6, <1>7, <1>10 DEF Distinct
      <3> QED  BY <1>7, <3>1
    <2> QED  BY <2>1, <2>2, <2>3
  <1>11. /\ d \in Seq(S) /\ Elems(d) = Elems(a) \cup {x}
         /\ Distinct(s) /\ x \notin Elems(s) => Distinct(d)
    <2>1. d \in Seq(S)
      BY <1>2, <1>4
    <2>2. /\ Elems(d) = Elems(a) \cup Elems(b)
          /\ Distinct(a) /\ Distinct(b) /\ Elems(a) \cap Elems(b) = {} => Distinct(d)
      BY <1>2, <1>4, ConcatElems
    <2> QED  BY <1>4, <1>9, <1>10, <2>1, <2>2
  <1> HIDE DEF d
  <1>12. /\ Elems(d \o c) = Elems(d) \cup Elems(c)
         /\ Distinct(d) /\ Distinct(c) /\ Elems(d) \cap Elems(c) = {} => Distinct(d \o c)
    BY <1>3, <1>11, ConcatElems
  <1> QED  BY <1>5, <1>9, <1>10, <1>11, <1>12

(* A reorder loses no prompt and doubles none, if no prompt is named twice. *)
LEMMA ReorderedElems ==
    ASSUME NEW S, NEW q \in Seq(S), NEW movable, NEW ord \in Seq(S), Distinct(q), Distinct(ord)
    PROVE  /\ Elems(Reordered(q, movable, ord)) = Elems(q)
           /\ Distinct(Reordered(q, movable, ord))
  <1> DEFINE a == Only(q, Elems(q) \ movable)
             b == Only(ord, Elems(q) \cap movable)
             c == Only(q, movable \ Elems(ord))
  <1>1. a \in Seq(S) /\ b \in Seq(S) /\ c \in Seq(S)
    BY OnlyFacts
  <1>2. /\ Elems(a) = Elems(q) \cap (Elems(q) \ movable)
        /\ Elems(b) = Elems(ord) \cap (Elems(q) \cap movable)
        /\ Elems(c) = Elems(q) \cap (movable \ Elems(ord))
    BY OnlyElems
  <1>3. Distinct(a) /\ Distinct(b) /\ Distinct(c)
    BY OnlyKeepsDistinct DEF Distinct
  <1> DEFINE d == a \o b
  <1>4. Reordered(q, movable, ord) = d \o c
    BY DEF Reordered
  <1> HIDE DEF a, b, c
  <1>5. d \in Seq(S)
    BY <1>1
  <1>6. /\ Elems(d) = Elems(a) \cup Elems(b)
        /\ Distinct(a) /\ Distinct(b) /\ Elems(a) \cap Elems(b) = {} => Distinct(d)
    BY <1>1, ConcatElems
  <1> HIDE DEF d
  <1>7. /\ Elems(d \o c) = Elems(d) \cup Elems(c)
        /\ Distinct(d) /\ Distinct(c) /\ Elems(d) \cap Elems(c) = {} => Distinct(d \o c)
    BY <1>1, <1>5, ConcatElems
  <1> QED  BY <1>2, <1>3, <1>4, <1>6, <1>7

-----------------------------------------------------------------------------
(* When two sweeps leave the same queue. *)

(* Sets that a bijection relates have the same size. *)
LEMMA SameSize ==
    ASSUME NEW K, NEW M, IsFiniteSet(K), NEW f \in [K -> M],
           \A i, j \in K : f[i] = f[j] => i = j, \A m \in M : \E i \in K : f[i] = m
    PROVE  Cardinality(M) = Cardinality(K)
  <1>1. f \in Bijection(K, M)
    BY DEF Bijection, Injection, Surjection, IsInjective
  <1>2. ExistsBijection(K, M)
    BY <1>1 DEF ExistsBijection
  <1> QED  BY <1>2, FS_Bijection

(* A map between sets of positions that keeps their order and reaches all of them. *)
OrderMap(f, K, M) ==
    /\ f \in [K -> M]
    /\ \A i, j \in K : i < j => f[i] < f[j]
    /\ \A m \in M : \E i \in K : f[i] = m

(* The k-th position goes to the k-th position. *)
LEMMA OrderMapNth ==
    ASSUME NEW K \in SUBSET Nat, NEW M \in SUBSET Nat, IsFiniteSet(K), IsFiniteSet(M),
           NEW f, OrderMap(f, K, M)
    PROVE  /\ Cardinality(M) = Cardinality(K)
           /\ \A k \in 1 .. Cardinality(K) : Nth(M, k) = f[Nth(K, k)]
  <1>0. /\ f \in [K -> M] /\ \A i, j \in K : i < j => f[i] < f[j]
        /\ \A m \in M : \E i \in K : f[i] = m
    BY DEF OrderMap
  <1>1. \A i, j \in K : f[i] = f[j] => i = j
    <2> TAKE i, j \in K
    <2>1. i \in Nat /\ j \in Nat /\ f[i] \in Nat /\ f[j] \in Nat
      BY <1>0
    <2>2. (i < j => f[i] < f[j]) /\ (j < i => f[j] < f[i])
      BY <1>0
    <2> QED  BY <2>1, <2>2
  <1>2. Cardinality(M) = Cardinality(K)
    BY <1>0, <1>1, SameSize
  <1>3. ASSUME NEW i \in K
        PROVE  RankIn(M, f[i]) = RankIn(K, i)
    <2> DEFINE A == {j \in K : j < i}
               B == {m \in M : m < f[i]}
               g == [j \in A |-> f[j]]
    <2>1. \A j \in A : f[j] \in B
      BY <1>0
    <2>2. g \in [A -> B] /\ \A j, l \in A : g[j] = g[l] => j = l
      BY <1>1, <2>1
    <2>3. ASSUME NEW m \in B
          PROVE  \E j \in A : g[j] = m
      <3>1. PICK j \in K : f[j] = m
        BY <1>0
      <3>2. j \in Nat /\ i \in Nat /\ f[i] \in Nat /\ f[j] \in Nat /\ f[j] < f[i]
        BY <1>0, <3>1
      <3>3. j < i
        <4>1. ~(i < j) /\ i # j
          BY <1>0, <3>2
        <4> QED  BY <3>2, <4>1
      <3> QED  BY <3>1, <3>3
    <2>4. IsFiniteSet(A)
      BY FS_Subset
    <2> HIDE DEF A, B, g
    <2>5. Cardinality(B) = Cardinality(A)
      BY <2>2, <2>3, <2>4, SameSize
    <2> QED  BY <2>5 DEF RankIn, A, B
  <1>4. ASSUME NEW k \in 1 .. Cardinality(K)
        PROVE  Nth(M, k) = f[Nth(K, k)]
    <2>1. Nth(K, k) \in K /\ RankIn(K, Nth(K, k)) = k - 1
      BY NthFacts
    <2>2. k \in 1 .. Cardinality(M)
      BY <1>2
    <2>3. Nth(M, k) \in M /\ RankIn(M, Nth(M, k)) = k - 1
      BY <2>2, NthFacts
    <2> DEFINE a == Nth(M, k)
               b == f[Nth(K, k)]
    <2>4. b \in M /\ RankIn(M, b) = k - 1
      BY <1>0, <1>3, <2>1
    <2> HIDE DEF a, b
    <2>5. a \in M /\ RankIn(M, a) = k - 1
      BY <2>3 DEF a
    <2>6. \A i, j \in M : i < j => RankIn(M, i) < RankIn(M, j)
      BY RankFacts
    <2>7. ~(a < b) /\ ~(b < a)
      <3>1. \A x \in {k - 1} : ~(x < x)
        OBVIOUS
      <3> QED  BY <2>4, <2>5, <2>6, <3>1
    <2>8. a = b
      BY <2>4, <2>5, <2>7
    <2> QED  BY <2>8 DEF a, b
  <1> QED  BY <1>2, <1>4

(* The positions A keeps of s correspond in order to those B keeps of t, and hold the same. *)
Carries(f, s, A, t, B) ==
    /\ OrderMap(f, KeptAt(s, A), KeptAt(t, B))
    /\ \A i \in KeptAt(s, A) : t[f[i]] = s[i]

(* Two sweeps leave the same queue when the positions they keep correspond in order and hold  *)
(* the same prompts.                                                                          *)
LEMMA OnlySame ==
    ASSUME NEW S, NEW s \in Seq(S), NEW t \in Seq(S), NEW A, NEW B, NEW f, Carries(f, s, A, t, B)
    PROVE  Only(s, A) = Only(t, B)
  <1>0. /\ OrderMap(f, KeptAt(s, A), KeptAt(t, B))
        /\ \A i \in KeptAt(s, A) : t[f[i]] = s[i]
    BY DEF Carries
  <1> DEFINE K == KeptAt(s, A)
             M == KeptAt(t, B)
  <1>1. K \in SUBSET Nat /\ M \in SUBSET Nat /\ IsFiniteSet(K) /\ IsFiniteSet(M)
    BY OnlyFacts
  <1>2. /\ Cardinality(M) = Cardinality(K)
        /\ \A k \in 1 .. Cardinality(K) : Nth(M, k) = f[Nth(K, k)]
    BY <1>0, <1>1, OrderMapNth
  <1>3. \A k \in 1 .. Cardinality(K) : t[Nth(M, k)] = s[Nth(K, k)]
    <2> TAKE k \in 1 .. Cardinality(K)
    <2>1. Nth(K, k) \in K
      BY <1>1, NthFacts
    <2> QED  BY <1>0, <1>2, <2>1
  <1>4. Only(s, A) = [k \in 1 .. Cardinality(K) |-> s[Nth(K, k)]]
    BY DEF Only
  <1>5. Only(t, B) = [k \in 1 .. Cardinality(M) |-> t[Nth(M, k)]]
    BY DEF Only
  <1> HIDE DEF K, M
  <1> QED  BY <1>2, <1>3, <1>4, <1>5

(* A sweep depends only on which of the queued prompts it keeps. *)
LEMMA OnlyAgrees ==
    ASSUME NEW S, NEW s \in Seq(S), NEW A, NEW B, Elems(s) \cap A = Elems(s) \cap B
    PROVE  Only(s, A) = Only(s, B)
  <1>1. KeptAt(s, A) = KeptAt(s, B)
    BY DEF KeptAt, Elems
  <1> QED  BY <1>1 DEF Only

(* Where a concatenation has its elements. *)
LEMMA ConcatAt ==
    ASSUME NEW S, NEW a \in Seq(S), NEW b \in Seq(S)
    PROVE  /\ a \o b \in Seq(S) /\ Len(a \o b) = Len(a) + Len(b)
           /\ \A i \in 1 .. Len(a) : (a \o b)[i] = a[i]
           /\ \A i \in 1 .. Len(b) : (a \o b)[Len(a) + i] = b[i]
  OBVIOUS

(* t is s with x inserted behind its first p elements. *)
InsertedAt(t, s, p, x) ==
    /\ DOMAIN t = 1 .. (Len(s) + 1)
    /\ \A i \in 1 .. p : t[i] = s[i]
    /\ t[p + 1] = x
    /\ \A i \in (p + 1) .. Len(s) : t[i + 1] = s[i]

(* Where an insertion has its elements. *)
LEMMA InsertBehindAt ==
    ASSUME NEW S, NEW s \in Seq(S), NEW p \in 0 .. Len(s), NEW x \in S
    PROVE  InsertBehind(s, p, x) \in Seq(S) /\ InsertedAt(InsertBehind(s, p, x), s, p, x)
  <1> DEFINE t == InsertBehind(s, p, x)
             n == Len(s)
  <1>1. t \in Seq(S)
    BY InsertBehindFacts
  <1> DEFINE a == SubSeq(s, 1, p)
             b == <<x>>
             c == SubSeq(s, p + 1, n)
  <1>2. n \in Nat /\ p \in Nat /\ p <= n /\ DOMAIN s = 1 .. n
    OBVIOUS
  <1>3. a \in Seq(S) /\ Len(a) = p /\ \A i \in 1 .. p : a[i] = s[i]
    BY <1>2
  <1>0. c \in Seq(S) /\ Len(c) = n - p
    OBVIOUS
  <1>4. c \in Seq(S) /\ DOMAIN c = 1 .. (n - p) /\ \A i \in 1 .. (n - p) : c[i] = s[i + p]
    OBVIOUS
  <1>5. b \in Seq(S) /\ Len(b) = 1 /\ b[1] = x
    OBVIOUS
  <1> DEFINE d == a \o b
             l == Len(b)
  <1> HIDE DEF a, b, c, n
  <1>6. /\ d \in Seq(S) /\ Len(d) = Len(a) + l /\ \A i \in 1 .. Len(a) : d[i] = a[i]
        /\ \A i \in 1 .. l : d[Len(a) + i] = b[i]
    <2>1. a \in Seq(S) /\ b \in Seq(S)
      BY <1>3, <1>5
    <2> QED  BY <2>1, ConcatAt
  <1> HIDE DEF d
  <1>7. d \in Seq(S) /\ Len(d) = p + 1 /\ d[p + 1] = x /\ \A i \in 1 .. p : d[i] = s[i]
    <2>1. l = 1 /\ b[l] = x
      BY <1>5
    <2> HIDE DEF l
    <2> QED  BY <1>2, <1>3, <1>6, <2>1
  <1>8. /\ DOMAIN (d \o c) = 1 .. (n + 1)
        /\ \A i \in 1 .. (p + 1) : (d \o c)[i] = d[i]
        /\ \A i \in 1 .. (n - p) : (d \o c)[p + 1 + i] = c[i]
    <2>1. /\ d \o c \in Seq(S) /\ Len(d \o c) = Len(d) + Len(c)
          /\ \A i \in 1 .. Len(d) : (d \o c)[i] = d[i]
          /\ \A i \in 1 .. Len(c) : (d \o c)[Len(d) + i] = c[i]
      <3>1. c \in Seq(S) /\ d \in Seq(S)
        BY <1>0, <1>7
      <3> QED  BY <3>1, ConcatAt
    <2>2. Len(d) + Len(c) = n + 1
      BY <1>2, <1>0, <1>7
    <2> QED  BY <1>0, <1>7, <2>1, <2>2
  <1>9. t = d \o c
    BY DEF InsertBehind, a, b, c, d, n
  <1>10. ASSUME NEW i \in (p + 1) .. n
         PROVE  t[i + 1] = s[i]
    <2> DEFINE j == i - p
    <2>1. j \in 1 .. (n - p) /\ p + 1 + j = i + 1 /\ j + p = i
      BY <1>2
    <2> HIDE DEF t, j
    <2>2. c[j] = s[i]
      BY <1>4, <2>1
    <2>3. (d \o c)[i + 1] = c[j]
      BY <1>8, <2>1
    <2> QED  BY <1>9, <2>2, <2>3
  <1> HIDE DEF t
  <1>11. DOMAIN t = 1 .. (n + 1)
    BY <1>8, <1>9
  <1>12. \A i \in 1 .. (p + 1) : t[i] = d[i]
    BY <1>8, <1>9
  <1>13. \A i \in 1 .. p : t[i] = s[i]
    <2> TAKE i \in 1 .. p
    <2>1. i \in 1 .. (p + 1)
      BY <1>2
    <2>2. d[i] = s[i]
      BY <1>7
    <2> QED  BY <1>12, <2>1, <2>2
  <1>14. t[p + 1] = x
    <2>1. p + 1 \in 1 .. (p + 1)
      BY <1>2
    <2> QED  BY <1>7, <1>12, <2>1
  <1>15. /\ t \in Seq(S) /\ DOMAIN t = 1 .. (n + 1)
         /\ \A i \in 1 .. p : t[i] = s[i]
         /\ t[p + 1] = x
         /\ \A i \in (p + 1) .. n : t[i + 1] = s[i]
    BY <1>1, <1>10, <1>11, <1>13, <1>14
  <1> QED  BY <1>15 DEF t, n, InsertedAt

(* A sweep does not see an insertion of what it does not keep. *)
LEMMA OnlyInsert ==
    ASSUME NEW S, NEW s \in Seq(S), NEW p \in 0 .. Len(s), NEW x \in S, NEW A, x \notin A
    PROVE  Only(InsertBehind(s, p, x), A) = Only(s, A)
  <1> DEFINE t == InsertBehind(s, p, x)
             n == Len(s)
             K == KeptAt(s, A)
             M == KeptAt(t, A)
             f == [i \in K |-> IF i <= p THEN i ELSE i + 1]
  <1>1. /\ n \in Nat /\ p \in Nat /\ p <= n /\ t \in Seq(S) /\ DOMAIN s = 1 .. n
        /\ DOMAIN t = 1 .. (n + 1)
        /\ \A i \in 1 .. p : t[i] = s[i]
        /\ t[p + 1] = x
        /\ \A i \in (p + 1) .. n : t[i + 1] = s[i]
    <2>1. t \in Seq(S) /\ InsertedAt(t, s, p, x)
      BY InsertBehindAt
    <2> HIDE DEF t
    <2> QED  BY <2>1 DEF InsertedAt
  <1> HIDE DEF t, n
  <1>2. \A i \in K : f[i] \in M /\ t[f[i]] = s[i]
    BY <1>1 DEF KeptAt
  <1>3. \A m \in M : \E i \in K : f[i] = m
    <2> TAKE m \in M
    <2>1. m \in 1 .. (n + 1) /\ t[m] \in A
      BY <1>1 DEF KeptAt
    <2>2. CASE m <= p
      <3>1. m \in K
        BY <1>1, <2>1, <2>2 DEF KeptAt
      <3> QED  BY <2>2, <3>1
    <2>3. CASE m > p
      <3>1. m # p + 1
        BY <1>1, <2>1
      <3>2. m - 1 \in (p + 1) .. n /\ (m - 1) + 1 = m
        BY <1>1, <2>1, <2>3, <3>1
      <3>3. m - 1 \in K /\ ~(m - 1 <= p)
        BY <1>1, <2>1, <3>2 DEF KeptAt
      <3> QED  BY <3>2, <3>3
    <2> QED  BY <1>1, <2>1, <2>2, <2>3
  <1>4. \A i, j \in K : i < j => f[i] < f[j]
    <2> TAKE i, j \in K
    <2>1. i \in Nat /\ j \in Nat
      BY <1>1 DEF KeptAt
    <2> QED  BY <1>1, <2>1
  <1>5. OrderMap(f, K, M)
    BY <1>2, <1>3, <1>4 DEF OrderMap
  <1>6. Carries(f, s, A, t, A)
    BY <1>2, <1>5 DEF Carries
  <1> HIDE DEF f
  <1>7. Only(s, A) = Only(t, A)
    BY <1>1, <1>6, OnlySame
  <1> QED  BY <1>7 DEF t

(* An insertion behind the last element is an append. *)
LEMMA InsertLast ==
    ASSUME NEW S, NEW s \in Seq(S), NEW x \in S
    PROVE  InsertBehind(s, Len(s), x) = Append(s, x)
  <1> DEFINE n == Len(s)
             t == InsertBehind(s, n, x)
             w == Append(s, x)
  <1>1. /\ n \in Nat /\ DOMAIN w = 1 .. (n + 1) /\ w \in Seq(S) /\ w[n + 1] = x
        /\ \A i \in 1 .. n : w[i] = s[i]
    OBVIOUS
  <1>2. /\ t \in Seq(S) /\ DOMAIN t = 1 .. (n + 1) /\ t[n + 1] = x
        /\ \A i \in 1 .. n : t[i] = s[i]
    <2>1. n \in 0 .. Len(s)
      BY <1>1
    <2> HIDE DEF n
    <2>2. t \in Seq(S) /\ InsertedAt(t, s, n, x)
      BY <2>1, InsertBehindAt
    <2> HIDE DEF t
    <2> QED  BY <2>2 DEF InsertedAt, n
  <1> HIDE DEF n, t, w
  <1>3. \A i \in 1 .. (n + 1) : t[i] = w[i]
    <2> TAKE i \in 1 .. (n + 1)
    <2>1. i \in 1 .. n \/ i = n + 1
      BY <1>1
    <2> QED  BY <1>1, <1>2, <2>1
  <1>4. t = [i \in 1 .. (n + 1) |-> t[i]] /\ w = [i \in 1 .. (n + 1) |-> w[i]]
    BY <1>1, <1>2
  <1>5. t = w
    BY <1>3, <1>4
  <1> QED  BY <1>5 DEF n, t, w

(* A prompt that is not kept leaves no trace at the back either. *)
LEMMA OnlySkips ==
    ASSUME NEW S, NEW s \in Seq(S), NEW x \in S, NEW A, x \notin A
    PROVE  Only(Append(s, x), A) = Only(s, A)
  <1>1. Len(s) \in 0 .. Len(s)
    OBVIOUS
  <1>2. Only(InsertBehind(s, Len(s), x), A) = Only(s, A)
    BY <1>1, OnlyInsert
  <1>3. InsertBehind(s, Len(s), x) = Append(s, x)
    BY InsertLast
  <1> QED  BY <1>2, <1>3

(* A sweep does not see the loss of a front it does not keep. *)
LEMMA OnlyTail ==
    ASSUME NEW S, NEW s \in Seq(S), s # << >>, NEW A, Head(s) \notin A
    PROVE  Only(Tail(s), A) = Only(s, A)
  <1> DEFINE t == Tail(s)
             n == Len(s)
             K == KeptAt(t, A)
             M == KeptAt(s, A)
             f == [i \in K |-> i + 1]
  <1>1. /\ n \in Nat /\ n >= 1 /\ DOMAIN s = 1 .. n /\ t \in Seq(S) /\ Head(s) = s[1]
        /\ DOMAIN t = 1 .. (n - 1) /\ \A i \in 1 .. (n - 1) : t[i] = s[i + 1]
    OBVIOUS
  <1> HIDE DEF t, n
  <1>2. \A i \in K : f[i] \in M /\ s[f[i]] = t[i]
    BY <1>1 DEF KeptAt
  <1>3. \A m \in M : \E i \in K : f[i] = m
    <2> TAKE m \in M
    <2>1. m \in 1 .. n /\ s[m] \in A /\ m # 1
      BY <1>1 DEF KeptAt
    <2>2. m - 1 \in 1 .. (n - 1) /\ (m - 1) + 1 = m
      BY <1>1, <2>1
    <2>3. m - 1 \in K
      BY <1>1, <2>1, <2>2 DEF KeptAt
    <2> QED  BY <2>2, <2>3
  <1>4. \A i, j \in K : i < j => f[i] < f[j]
    <2> TAKE i, j \in K
    <2>1. i \in Nat /\ j \in Nat
      BY <1>1 DEF KeptAt
    <2> QED  BY <2>1
  <1>5. OrderMap(f, K, M)
    BY <1>2, <1>3, <1>4 DEF OrderMap
  <1>6. Carries(f, t, A, s, A)
    BY <1>2, <1>5 DEF Carries
  <1> HIDE DEF f
  <1>7. Only(t, A) = Only(s, A)
    BY <1>1, <1>6, OnlySame
  <1> QED  BY <1>7 DEF t

(* A sweep after one that keeps all it keeps is that sweep alone. *)
LEMMA OnlyTwice ==
    ASSUME NEW S, NEW s \in Seq(S), NEW A, NEW B, Elems(s) \cap B \subseteq A
    PROVE  Only(Only(s, A), B) = Only(s, B)
  <1> DEFINE t == Only(s, A)
             L == KeptAt(s, A)
             K == KeptAt(t, B)
             M == KeptAt(s, B)
             f == [k \in K |-> Nth(L, k)]
  <1>1. /\ t \in Seq(S) /\ Len(t) = Cardinality(L) /\ Cardinality(L) \in Nat
        /\ DOMAIN t = 1 .. Cardinality(L) /\ IsFiniteSet(L) /\ L \in SUBSET Nat
    <2>1. /\ t \in Seq(S) /\ Len(t) = Cardinality(L) /\ Cardinality(L) \in Nat
          /\ IsFiniteSet(L) /\ L \in SUBSET Nat
      BY OnlyFacts
    <2> HIDE DEF t, L
    <2>2. DOMAIN t = 1 .. Len(t)
      BY <2>1
    <2> QED  BY <2>1, <2>2
  <1>2. \A k \in 1 .. Cardinality(L) : /\ Nth(L, k) \in L /\ RankIn(L, Nth(L, k)) = k - 1
                                       /\ t[k] = s[Nth(L, k)]
    BY <1>1, OnlyAt
  <1>3. /\ \A i \in L : RankIn(L, i) \in 0 .. (Cardinality(L) - 1)
        /\ \A i, j \in L : i < j => RankIn(L, i) < RankIn(L, j)
    BY <1>1, RankFacts
  <1>4. M \subseteq L /\ M = {i \in L : s[i] \in B}
    BY DEF KeptAt, Elems
  <1>5. K = {k \in 1 .. Cardinality(L) : t[k] \in B}
    BY <1>1 DEF KeptAt
  <1> HIDE DEF t, L, K, M
  <1>6. \A k \in K : f[k] \in M /\ s[f[k]] = t[k]
    BY <1>2, <1>4, <1>5
  <1>7. \A i, j \in K : i < j => f[i] < f[j]
    <2> TAKE i, j \in K
    <2> HAVE i < j
    <2> DEFINE a == Nth(L, i)
               b == Nth(L, j)
    <2>1. /\ a \in L /\ b \in L /\ a \in Nat /\ b \in Nat /\ i \in Nat /\ j \in Nat
          /\ RankIn(L, a) = i - 1 /\ RankIn(L, b) = j - 1
      <3>1. i \in 1 .. Cardinality(L) /\ j \in 1 .. Cardinality(L)
        BY <1>5
      <3>2. /\ a \in L /\ b \in L
            /\ RankIn(L, a) = i - 1 /\ RankIn(L, b) = j - 1
        BY <1>2, <3>1
      <3>3. i \in Nat /\ j \in Nat
        BY <1>1, <3>1
      <3> HIDE DEF a, b
      <3>4. a \in Nat /\ b \in Nat
        BY <1>1, <3>2
      <3> QED  BY <3>2, <3>3, <3>4
    <2> HIDE DEF a, b
    <2>2. ~(b < a) /\ a # b
      BY <1>3, <2>1
    <2>3. a < b
      BY <2>1, <2>2
    <2> QED  BY <2>3 DEF a, b
  <1>8. \A m \in M : \E k \in K : f[k] = m
    <2> TAKE m \in M
    <2> DEFINE k == RankIn(L, m) + 1
               a == Nth(L, k)
    <2>1. m \in L /\ s[m] \in B /\ k \in 1 .. Cardinality(L) /\ k - 1 = RankIn(L, m)
      BY <1>1, <1>3, <1>4
    <2> HIDE DEF k
    <2>2. a \in L /\ RankIn(L, a) = RankIn(L, m) /\ t[k] = s[a]
      BY <1>2, <2>1
    <2> HIDE DEF a
    <2>3. a = m
      <3>1. a \in Nat /\ m \in Nat /\ RankIn(L, m) \in Nat
        BY <1>1, <1>3, <2>1, <2>2
      <3>2. ~(a < m) /\ ~(m < a)
        BY <1>3, <2>1, <2>2, <3>1
      <3> QED  BY <3>1, <3>2
    <2>4. k \in K
      BY <1>5, <2>1, <2>2, <2>3
    <2> QED  BY <2>3, <2>4 DEF a
  <1>9. OrderMap(f, K, M)
    BY <1>6, <1>7, <1>8 DEF OrderMap
  <1>10. Carries(f, t, B, s, B)
    BY <1>6, <1>9 DEF Carries, K, M
  <1> HIDE DEF f
  <1>11. Only(t, B) = Only(s, B)
    BY <1>1, <1>10, OnlySame
  <1> QED  BY <1>11 DEF t

=============================================================================
