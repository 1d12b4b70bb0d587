--------------------------- MODULE QueueLoopsProofs ---------------------------
(***************************************************************************)
(* The closed forms of PromptQueue are what the loops of the code compute, *)
(* for queues and lists of any length.                                     *)
(*                                                                         *)
(* A loop is a recursive function, which TLA+ takes to be some function    *)
(* that satisfies its equation.  So each proof has two halves: the closed  *)
(* form, taken over the positions the loop passes, satisfies the equation, *)
(* so that there is such a function; and a function that satisfies it can  *)
(* differ from the closed form at no position, because it would agree at   *)
(* the one before the first where it does.                                 *)
(***************************************************************************)
EXTENDS QueueLoops, PromptQueueProofs

(* A sweep that keeps everything changes nothing. *)
LEMMA OnlyAll ==
    ASSUME NEW S, NEW t \in Seq(S), NEW A, Elems(t) \subseteq A
    PROVE  KeptAt(t, A) = 1 .. Len(t) /\ Only(t, A) = t
  <1> DEFINE n == Len(t)
             K == 1 .. n
  <1>1. n \in Nat /\ DOMAIN t = 1 .. n
    OBVIOUS
  <1>2. KeptAt(t, A) = K
    BY <1>1 DEF KeptAt, Elems
  <1>3. K \in SUBSET Nat /\ IsFiniteSet(K) /\ Cardinality(K) = n
    BY <1>1, FS_Interval
  <1>4. ASSUME NEW k \in 1 .. n
        PROVE  RankIn(K, k) = k - 1
    <2>1. {j \in K : j < k} = 1 .. (k - 1)
      BY <1>1
    <2>2. Cardinality(1 .. (k - 1)) = IF 1 > k - 1 THEN 0 ELSE k - 1 - 1 + 1
      BY <1>1, FS_Interval
    <2>3. Cardinality(1 .. (k - 1)) = k - 1
      BY <1>1, <2>2
    <2> QED  BY <2>1, <2>3 DEF RankIn
  <1> HIDE DEF K
  <1>5. ASSUME NEW k \in 1 .. n
        PROVE  Nth(K, k) = k
    <2> DEFINE a == Nth(K, k)
    <2>1. a \in K /\ RankIn(K, a) = k - 1
      BY <1>3, NthFacts
    <2> HIDE DEF a
    <2>2. a \in 1 .. n
      BY <2>1 DEF K
    <2>3. a - 1 = k - 1
      BY <1>4, <2>1, <2>2
    <2> QED  BY <1>1, <2>2, <2>3 DEF a
  <1>6. Only(t, A) = [k \in 1 .. n |-> t[Nth(K, k)]]
    BY <1>2, <1>3 DEF Only
  <1>7. Only(t, A) = [k \in 1 .. n |-> t[k]]
    BY <1>5, <1>6
  <1> QED  BY <1>1, <1>2, <1>7 DEF K

(* A queue is what a sweep keeps of s when its places correspond in order to the kept ones. *)
LEMMA OnlyIs ==
    ASSUME NEW S, NEW s \in Seq(S), NEW t \in Seq(S), NEW A, NEW g,
           OrderMap(g, 1 .. Len(t), KeptAt(s, A)), \A k \in 1 .. Len(t) : t[k] = s[g[k]]
    PROVE  Only(s, A) = t
  <1>1. Elems(t) \subseteq S
    BY ElemsFacts
  <1>2. KeptAt(t, S) = 1 .. Len(t) /\ Only(t, S) = t
    BY <1>1, OnlyAll
  <1>3. Carries(g, t, S, s, A)
    BY <1>2 DEF Carries
  <1> QED  BY <1>2, <1>3, OnlySame

(* A prompt that is kept and comes last stays last. *)
LEMMA OnlyAppend ==
    ASSUME NEW S, NEW s \in Seq(S), NEW x \in S, NEW A, x \in A
    PROVE  Only(Append(s, x), A) = Append(Only(s, A), x)
  <1> DEFINE n == Len(s)
             w == Append(s, x)
             r == Only(s, A)
             m == Len(r)
             t == Append(r, x)
             K == KeptAt(w, A)
  <1>1. /\ n \in Nat /\ DOMAIN w = 1 .. (n + 1) /\ w \in Seq(S) /\ w[n + 1] = x
        /\ \A i \in 1 .. n : w[i] = s[i]
    OBVIOUS
  <1>2. r \in Seq(S)
    BY OnlyFacts
  <1>3. PICK f \in [1 .. m -> 1 .. n] :
          /\ \A i, j \in 1 .. m : i < j => f[i] < f[j]
          /\ \A k \in 1 .. m : r[k] = s[f[k]] /\ s[f[k]] \in A
          /\ \A i \in 1 .. n : s[i] \in A => \E k \in 1 .. m : f[k] = i
    BY SweepIsSubsequence
  <1> HIDE DEF n, w, r
  <1>4. /\ m \in Nat /\ t \in Seq(S) /\ Len(t) = m + 1 /\ t[m + 1] = x
        /\ \A k \in 1 .. m : t[k] = r[k]
    BY <1>2
  <1>5. \A i : i \in K <=> i \in 1 .. (n + 1) /\ w[i] \in A
    BY <1>1 DEF KeptAt
  <1> HIDE DEF m, t, K
  <1> DEFINE g == [k \in 1 .. (m + 1) |-> IF k <= m THEN f[k] ELSE n + 1]
  <1>6. ASSUME NEW k \in 1 .. (m + 1)
        PROVE  g[k] \in K /\ t[k] = w[g[k]]
    <2>1. CASE k <= m
      <3>1. k \in 1 .. m /\ g[k] = f[k] /\ f[k] \in 1 .. n
        BY <1>4, <2>1
      <3>2. f[k] \in 1 .. (n + 1) /\ w[f[k]] = s[f[k]]
        BY <1>1, <3>1
      <3> QED  BY <1>3, <1>4, <1>5, <3>1, <3>2
    <2>2. CASE ~(k <= m)
      <3>1. k = m + 1 /\ g[k] = n + 1 /\ n + 1 \in 1 .. (n + 1)
        BY <1>1, <1>4, <2>2
      <3> QED  BY <1>1, <1>4, <1>5, <3>1
    <2> QED  BY <2>1, <2>2
  <1>7. ASSUME NEW i \in 1 .. (m + 1), NEW j \in 1 .. (m + 1), i < j
        PROVE  g[i] < g[j]
    <2>1. i \in 1 .. m /\ g[i] = f[i] /\ f[i] \in 1 .. n
      BY <1>4, <1>7
    <2>2. CASE j <= m
      BY <1>3, <1>4, <1>7, <2>1, <2>2
    <2>3. CASE ~(j <= m)
      BY <1>1, <2>1, <2>3
    <2> QED  BY <2>2, <2>3
  <1>8. ASSUME NEW i \in K
        PROVE  \E k \in 1 .. (m + 1) : g[k] = i
    <2>1. CASE i = n + 1
      <3>1. m + 1 \in 1 .. (m + 1) /\ g[m + 1] = n + 1
        BY <1>4
      <3> QED  BY <2>1, <3>1
    <2>2. CASE i # n + 1
      <3>1. i \in 1 .. n /\ s[i] \in A
        BY <1>1, <1>5, <2>2
      <3>2. PICK k \in 1 .. m : f[k] = i
        BY <1>3, <3>1
      <3>3. k \in 1 .. (m + 1) /\ g[k] = i
        BY <1>4, <3>2
      <3> QED  BY <3>3
    <2> QED  BY <2>1, <2>2
  <1>9. g \in [1 .. (m + 1) -> K]
    BY <1>6
  <1> HIDE DEF g
  <1>10. OrderMap(g, 1 .. Len(t), K)
    BY <1>4, <1>7, <1>8, <1>9 DEF OrderMap
  <1>11. \A k \in 1 .. Len(t) : t[k] = w[g[k]]
    BY <1>4, <1>6
  <1>12. Only(w, A) = t
    <2>1. OrderMap(g, 1 .. Len(t), KeptAt(w, A)) /\ w \in Seq(S) /\ t \in Seq(S)
      BY <1>1, <1>4, <1>10 DEF K
    <2> QED  BY <1>11, <2>1, OnlyIs
  <1> QED  BY <1>12 DEF w, t, r

(* The first n elements of a queue, one by one. *)
LEMMA PrefixFacts ==
    ASSUME NEW S, NEW s \in Seq(S)
    PROVE  /\ SubSeq(s, 1, 0) = << >> /\ SubSeq(s, 1, Len(s)) = s
           /\ \A n \in 0 .. Len(s) : SubSeq(s, 1, n) \in Seq(S)
           /\ \A n \in 1 .. Len(s) :
                 s[n] \in S /\ SubSeq(s, 1, n) = Append(SubSeq(s, 1, n - 1), s[n])
  OBVIOUS

(***************************************************************************)
(* The loop of a sweep computes `Only`: what sweep_pending_inputs and the  *)
(* other filters of the queue keep is what the model says they keep, for   *)
(* every queue and every set of prompts to keep.                           *)
(***************************************************************************)
THEOREM SweepIsLoop ==
    ASSUME NEW S, NEW s \in Seq(S), NEW Keep
    PROVE  Swept(s, Keep) = Only(s, Keep)
  <1> DEFINE m      == Len(s)
             C(n)   == Only(SubSeq(s, 1, n), Keep)
             Def(k) == k = [n \in 0 .. m |->
                              IF n = 0 THEN << >>
                              ELSE IF s[n] \in Keep THEN Append(k[n - 1], s[n]) ELSE k[n - 1]]
             kept   == CHOOSE k : Def(k)
             g      == [n \in 0 .. m |-> C(n)]
  <1>1. m \in Nat
    OBVIOUS
  <1>2. C(0) = << >> /\ C(m) = Only(s, Keep)
    <2>1. SubSeq(s, 1, 0) = << >> /\ SubSeq(s, 1, m) = s
      BY PrefixFacts
    <2>2. Only(<< >>, Keep) = << >>
      <3>1. << >> \in Seq(S) /\ Len(<< >>) = 0
        OBVIOUS
      <3>2. Elems(<< >>) \subseteq Keep
        BY SmallFacts
      <3> QED  BY <3>1, <3>2, OnlyAll
    <2> QED  BY <2>1, <2>2
  <1>3. ASSUME NEW n \in 1 .. m
        PROVE  C(n) = IF s[n] \in Keep THEN Append(C(n - 1), s[n]) ELSE C(n - 1)
    <2> DEFINE u == SubSeq(s, 1, n - 1)
    <2>1. s[n] \in S /\ SubSeq(s, 1, n) = Append(u, s[n]) /\ u \in Seq(S)
      <3>1. n - 1 \in 0 .. m
        BY <1>1
      <3> QED  BY <3>1, PrefixFacts
    <2> HIDE DEF u
    <2>2. CASE s[n] \in Keep
      <3>1. Only(Append(u, s[n]), Keep) = Append(Only(u, Keep), s[n])
        BY <2>1, <2>2, OnlyAppend
      <3> QED  BY <2>1, <2>2, <3>1 DEF u
    <2>3. CASE s[n] \notin Keep
      <3>1. Only(Append(u, s[n]), Keep) = Only(u, Keep)
        BY <2>1, <2>3, OnlySkips
      <3> QED  BY <2>1, <2>3, <3>1 DEF u
    <2> QED  BY <2>2, <2>3
  <1>4. Swept(s, Keep) = kept[m]
    BY DEF Swept
  <1> HIDE DEF C, m
  <1>5. Def(g)
    <2>1. \A n \in 0 .. m : n # 0 => n \in 1 .. m /\ n - 1 \in 0 .. m
      BY <1>1
    <2> QED  BY <1>2, <1>3, <2>1
  <1> HIDE DEF Def, g
  <1>6. Def(kept)
    BY <1>5
  <1> HIDE DEF kept
  <1> DEFINE Bad == {n \in 0 .. m : kept[n] # C(n)}
  <1>7. Bad = {}
    <2> SUFFICES ASSUME Bad # {}
                 PROVE  FALSE
      OBVIOUS
    <2>1. Bad \subseteq Nat
      BY <1>1
    <2> HIDE DEF Bad
    <2>2. PICK n \in Bad : \A i \in Bad : n <= i
      BY <2>1, LeastNumber
    <2>3. n \in 0 .. m /\ kept[n] # C(n)
      BY <2>2 DEF Bad
    <2>4. n # 0
      <3>1. 0 \in 0 .. m
        BY <1>1
      <3>2. kept[0] = << >>
        BY <1>6, <3>1 DEF Def
      <3> QED  BY <1>2, <2>3, <3>2
    <2>5. n \in 1 .. m /\ n - 1 \in 0 .. m /\ ~(n <= n - 1)
      BY <1>1, <2>3, <2>4
    <2>6. kept[n - 1] = C(n - 1)
      BY <2>2, <2>5 DEF Bad
    <2>7. kept[n] = IF s[n] \in Keep THEN Append(kept[n - 1], s[n]) ELSE kept[n - 1]
      BY <1>6, <2>3, <2>4 DEF Def
    <2> QED  BY <1>3, <2>3, <2>5, <2>6, <2>7
  <1>8. m \in 0 .. m
    BY <1>1
  <1> QED  BY <1>2, <1>4, <1>7, <1>8

(* Where the loop of queue_input may stop when it starts behind i: at the first prompt that   *)
(* is not in sn, or at the end.                                                               *)
StopsAt(s, sn, i, j) ==
    /\ j \in i .. Len(s)
    /\ \A k \in (i + 1) .. j : s[k] \in sn
    /\ j < Len(s) => s[j + 1] \notin sn

(* There is such a place, whatever the queue. *)
LEMMA LoopStops ==
    ASSUME NEW S, NEW s \in Seq(S), NEW sn, NEW i \in 0 .. Len(s)
    PROVE  \E j : StopsAt(s, sn, i, j)
  <1> DEFINE n == Len(s)
             T == {j \in i .. n : j < n => s[j + 1] \notin sn}
  <1>1. n \in Nat /\ i \in 0 .. n
    OBVIOUS
  <1> HIDE DEF n
  <1>2. n \in T /\ T \subseteq Nat
    BY <1>1
  <1> HIDE DEF T
  <1>3. PICK j \in T : \A k \in T : j <= k
    BY <1>2, LeastNumber
  <1>4. j \in i .. n /\ (j < n => s[j + 1] \notin sn)
    BY DEF T
  <1>5. ASSUME NEW k \in (i + 1) .. j
        PROVE  s[k] \in sn
    <2>1. k - 1 \in i .. n /\ ~(j <= k - 1) /\ k - 1 + 1 = k
      BY <1>1, <1>4
    <2>2. k - 1 \notin T
      BY <1>3, <2>1
    <2> QED  BY <2>1, <2>2 DEF T
  <1> QED  BY <1>4, <1>5 DEF StopsAt, n

(* And only one. *)
LEMMA LoopStopsOnce ==
    ASSUME NEW S, NEW s \in Seq(S), NEW sn, NEW i \in 0 .. Len(s), NEW j, NEW k,
           StopsAt(s, sn, i, j), StopsAt(s, sn, i, k)
    PROVE  j = k
  <1> DEFINE n == Len(s)
  <1>1. n \in Nat /\ i \in 0 .. n /\ j \in i .. n /\ k \in i .. n
    BY DEF StopsAt
  <1>2. ASSUME NEW a \in i .. n, NEW b \in i .. n, a < b, StopsAt(s, sn, i, a),
               StopsAt(s, sn, i, b)
        PROVE  FALSE
    <2>1. a + 1 \in (i + 1) .. b /\ a < n
      BY <1>1, <1>2
    <2> QED  BY <1>2, <2>1 DEF StopsAt
  <1>3. ~(j < k) /\ ~(k < j)
    BY <1>1, <1>2
  <1> QED  BY <1>1, <1>3

(***************************************************************************)
(* The loop of queue_input stops where SendNowSlot says, for every queue,  *)
(* running prompt and set of send-now prompts.                             *)
(***************************************************************************)
THEOREM SlotIsLoop ==
    ASSUME NEW S, NEW s \in Seq(S), NEW r, NEW sn
    PROVE  SteppedOver(s, BehindRunning(s, r), sn) = SendNowSlot(s, r, sn)
  <1> DEFINE n      == Len(s)
             b      == BehindRunning(s, r)
             Def(k) == k = [i \in 0 .. n |->
                              IF i < n /\ s[i + 1] \in sn THEN k[i + 1] ELSE i]
             stop   == CHOOSE k : Def(k)
             g      == [i \in 0 .. n |-> CHOOSE j : StopsAt(s, sn, i, j)]
  <1>1. n \in Nat /\ b \in 0 .. n
    BY BehindRunningFacts
  <1>2. SteppedOver(s, b, sn) = stop[b]
    BY DEF SteppedOver
  <1>3. StopsAt(s, sn, b, SendNowSlot(s, r, sn))
    BY SendNowSlotStops DEF StopsAt
  <1>4. ASSUME NEW i \in 0 .. n, NEW j, StopsAt(s, sn, i, j)
        PROVE  g[i] = j
    <2>1. StopsAt(s, sn, i, g[i])
      BY <1>4
    <2> QED  BY <1>4, <2>1, LoopStopsOnce
  <1>5. ASSUME NEW i \in 0 .. n
        PROVE  \E j : StopsAt(s, sn, i, j)
    BY LoopStops
  <1> HIDE DEF g
  <1>6. ASSUME NEW i \in 0 .. n, NEW j, i < n, s[i + 1] \in sn, StopsAt(s, sn, i + 1, j)
        PROVE  StopsAt(s, sn, i, j)
    <2>1. j \in (i + 1) .. n /\ (\A k \in (i + 1 + 1) .. j : s[k] \in sn)
          /\ (j < n => s[j + 1] \notin sn)
      BY <1>6 DEF StopsAt
    <2>2. \A k \in (i + 1) .. j : k = i + 1 \/ k \in (i + 1 + 1) .. j
      BY <1>1, <2>1
    <2>3. j \in i .. n
      BY <1>1, <2>1
    <2> QED  BY <1>6, <2>1, <2>2, <2>3 DEF StopsAt
  <1>7. Def(g)
    <2>1. ASSUME NEW i \in 0 .. n
          PROVE  g[i] = IF i < n /\ s[i + 1] \in sn THEN g[i + 1] ELSE i
      <3>1. CASE i < n /\ s[i + 1] \in sn
        <4>1. i + 1 \in 0 .. n
          BY <1>1, <3>1
        <4>2. PICK j : StopsAt(s, sn, i + 1, j)
          BY <1>5, <4>1
        <4>3. g[i + 1] = j
          BY <1>4, <4>1, <4>2
        <4>4. g[i] = j
          BY <1>4, <1>6, <3>1, <4>2
        <4> QED  BY <3>1, <4>3, <4>4
      <3>2. CASE ~(i < n /\ s[i + 1] \in sn)
        <4>1. i \in i .. n /\ \A k \in (i + 1) .. i : FALSE
          BY <1>1
        <4>2. StopsAt(s, sn, i, i)
          BY <3>2, <4>1 DEF StopsAt
        <4> QED  BY <1>4, <3>2, <4>2
      <3> QED  BY <3>1, <3>2
    <2>2. g = [i \in 0 .. n |-> g[i]]
      BY DEF g
    <2> QED  BY <2>1, <2>2
  <1> HIDE DEF Def
  <1>8. Def(stop)
    BY <1>7
  <1> HIDE DEF stop, b, n
  <1> DEFINE p   == SendNowSlot(s, r, sn)
             Bad == {d \in 0 .. (p - b) : stop[p - d] # p}
  <1>9. /\ p \in b .. n /\ (\A k \in (b + 1) .. p : s[k] \in sn)
        /\ (p < n => s[p + 1] \notin sn)
    BY <1>3 DEF StopsAt, n
  <1> HIDE DEF p
  <1>10. \A i \in 0 .. n : stop[i] = IF i < n /\ s[i + 1] \in sn THEN stop[i + 1] ELSE i
    BY <1>8 DEF Def
  <1>11. Bad = {}
    <2> SUFFICES ASSUME Bad # {}
                 PROVE  FALSE
      OBVIOUS
    <2>1. Bad \subseteq Nat
      BY <1>1, <1>9
    <2> HIDE DEF Bad
    <2>2. PICK d \in Bad : \A i \in Bad : d <= i
      BY <2>1, LeastNumber
    <2>3. d \in 0 .. (p - b) /\ stop[p - d] # p
      BY <2>2 DEF Bad
    <2>4. d # 0
      <3>1. p \in 0 .. n /\ stop[p] = p
        BY <1>1, <1>9, <1>10
      <3> QED  BY <1>1, <1>9, <2>3, <3>1
    <2>5. /\ d - 1 \in 0 .. (p - b) /\ ~(d <= d - 1) /\ p - (d - 1) = p - d + 1
          /\ p - d \in 0 .. n /\ p - d < n /\ p - d + 1 \in (b + 1) .. p
      BY <1>1, <1>9, <2>3, <2>4
    <2>6. stop[p - d + 1] = p
      BY <2>2, <2>5 DEF Bad
    <2>7. stop[p - d] = stop[p - d + 1]
      BY <1>9, <1>10, <2>5
    <2> QED  BY <2>3, <2>6, <2>7
  <1>12. p - b \in 0 .. (p - b) /\ p - (p - b) = b
    BY <1>1, <1>9
  <1>13. stop[b] = p
    BY <1>11, <1>12
  <1> QED  BY <1>2, <1>13 DEF p, b

-----------------------------------------------------------------------------
(* The reorder of the shared queue. *)

(* The sort key of a row: its place in the list, or one past the end if it is not named. *)
LEMMA RankOf ==
    ASSUME NEW S, NEW o \in Seq(S), Distinct(o), NEW x
    PROVE  /\ x \in Elems(o) => Rank(o, x) \in 1 .. Len(o) /\ o[Rank(o, x)] = x
           /\ x \notin Elems(o) => Rank(o, x) = Len(o) + 1
           /\ \A i \in 1 .. Len(o) : o[i] = x => Rank(o, x) = i
  <1>1. DOMAIN o = 1 .. Len(o)
    OBVIOUS
  <1>2. CASE x \in Elems(o)
    <2>1. \E i \in DOMAIN o : o[i] = x
      BY <1>2 DEF Elems
    <2>2. Rank(o, x) = CHOOSE i \in DOMAIN o : o[i] = x
      BY <1>2 DEF Rank
    <2>3. Rank(o, x) \in DOMAIN o /\ o[Rank(o, x)] = x
      BY <2>1, <2>2
    <2> QED  BY <1>1, <1>2, <2>3 DEF Distinct
  <1>3. CASE x \notin Elems(o)
    BY <1>1, <1>3 DEF Rank, Elems
  <1> QED  BY <1>2, <1>3

(* A set of places that holds with each place all those before it is an initial stretch. *)
LEMMA InitialStretch ==
    ASSUME NEW m \in Nat, NEW A, A \subseteq 1 .. m,
           \A i, j \in 1 .. m : i < j /\ j \in A => i \in A
    PROVE  Cardinality(A) \in 0 .. m /\ A = 1 .. Cardinality(A)
  <1> DEFINE T == {k \in 1 .. (m + 1) : k \notin A}
  <1>1. m + 1 \in T /\ T \subseteq Nat
    OBVIOUS
  <1> HIDE DEF T
  <1>2. PICK k \in T : \A i \in T : k <= i
    BY <1>1, LeastNumber
  <1>3. k \in 1 .. (m + 1) /\ k \notin A
    BY DEF T
  <1>4. ASSUME NEW i \in 1 .. (k - 1)
        PROVE  i \in A
    <2>1. i \in 1 .. (m + 1) /\ ~(k <= i)
      BY <1>3
    <2> QED  BY <1>2, <2>1 DEF T
  <1>5. ASSUME NEW i \in A
        PROVE  i \in 1 .. (k - 1)
    <2>1. i \in 1 .. m /\ i # k
      BY <1>3
    <2>2. ~(k < i)
      BY <1>3, <2>1
    <2> QED  BY <1>3, <2>1, <2>2
  <1>6. A = 1 .. (k - 1)
    BY <1>4, <1>5
  <1>7. Cardinality(1 .. (k - 1)) = k - 1
    <2>1. Cardinality(1 .. (k - 1)) = IF 1 > k - 1 THEN 0 ELSE k - 1 - 1 + 1
      BY <1>3, FS_Interval
    <2> QED  BY <1>3, <2>1
  <1> QED  BY <1>3, <1>6, <1>7

(***************************************************************************)
(* One row more of those the client named: in the list's order it comes    *)
(* behind the rows that the list names before it.                          *)
(***************************************************************************)
LEMMA NamedRowInserted ==
    ASSUME NEW S, NEW o \in Seq(S), Distinct(o), NEW E, NEW x, x \in Elems(o), x \notin E
    PROVE  LET a == Only(o, E)
               p == Cardinality(NotAbove(a, o, Rank(o, x)))
           IN  p \in 0 .. Len(a) /\ Only(o, E \cup {x}) = InsertBehind(a, p, x)
  <1> DEFINE n == Len(o)
             r == Rank(o, x)
             a == Only(o, E)
             m == Len(a)
             N == NotAbove(a, o, r)
             p == Cardinality(N)
             t == InsertBehind(a, p, x)
             K == KeptAt(o, E \cup {x})
  <1>1. n \in Nat /\ DOMAIN o = 1 .. n /\ r \in 1 .. n /\ o[r] = x /\ x \in S
    <2>1. r \in 1 .. n /\ o[r] = x
      BY RankOf
    <2> QED  BY <2>1
  <1>2. a \in Seq(S)
    BY OnlyFacts
  <1>3. PICK f \in [1 .. m -> 1 .. n] :
          /\ \A i, j \in 1 .. m : i < j => f[i] < f[j]
          /\ \A k \in 1 .. m : a[k] = o[f[k]] /\ o[f[k]] \in E
          /\ \A i \in 1 .. n : o[i] \in E => \E k \in 1 .. m : f[k] = i
    BY SweepIsSubsequence
  <1>4. ASSUME NEW k \in 1 .. m
        PROVE  Rank(o, a[k]) = f[k]
    <2>1. f[k] \in 1 .. Len(o) /\ o[f[k]] = a[k]
      BY <1>3
    <2>2. \A i \in 1 .. Len(o) : o[i] = a[k] => Rank(o, a[k]) = i
      BY RankOf
    <2> QED  BY <2>1, <2>2
  <1>5. \A i : i \in K <=> i \in 1 .. n /\ (o[i] \in E \/ o[i] = x)
    BY <1>1 DEF KeptAt
  <1> HIDE DEF n, r, a, K
  <1>6. m \in Nat /\ DOMAIN a = 1 .. m
    BY <1>2
  <1> HIDE DEF m
  <1>7. \A k : k \in N <=> k \in 1 .. m /\ f[k] <= r
    BY <1>4, <1>6 DEF NotAbove
  <1> HIDE DEF N
  <1>8. p \in 0 .. m /\ N = 1 .. p
    <2>1. ASSUME NEW i \in 1 .. m, NEW j \in 1 .. m, i < j, j \in N
          PROVE  i \in N
      <3>1. f[i] < f[j] /\ f[j] <= r /\ f[i] \in 1 .. n /\ f[j] \in 1 .. n
        BY <1>3, <1>7, <2>1
      <3> QED  BY <1>1, <1>7, <3>1
    <2>2. N \subseteq 1 .. m
      BY <1>7
    <2> QED  BY <1>6, <2>1, <2>2, InitialStretch
  <1> HIDE DEF p
  <1>9. \A k \in 1 .. m : f[k] \in 1 .. n /\ f[k] # r /\ (f[k] < r <=> k <= p)
    <2> TAKE k \in 1 .. m
    <2>1. f[k] \in 1 .. n /\ f[k] # r
      BY <1>1, <1>3
    <2>2. f[k] <= r <=> k <= p
      BY <1>6, <1>7, <1>8
    <2> QED  BY <1>1, <2>1, <2>2
  <1>10. /\ t \in Seq(S) /\ DOMAIN t = 1 .. (m + 1)
         /\ \A i \in 1 .. p : t[i] = a[i]
         /\ t[p + 1] = x
         /\ \A i \in (p + 1) .. m : t[i + 1] = a[i]
    <2>1. p \in 0 .. Len(a)
      BY <1>8 DEF m
    <2>2. t \in Seq(S) /\ InsertedAt(t, a, p, x)
      <3>1. a \in Seq(S) /\ x \in S
        BY <1>1, <1>2
      <3> QED  BY <2>1, <3>1, InsertBehindAt
    <2> HIDE DEF t
    <2> QED  BY <2>2 DEF m, InsertedAt
  <1> HIDE DEF t
  <1>11. Len(t) = m + 1
    BY <1>6, <1>10
  <1> DEFINE g == [k \in 1 .. (m + 1) |-> IF k <= p THEN f[k]
                                          ELSE IF k = p + 1 THEN r ELSE f[k - 1]]
             Low(k)  == k \in 1 .. m /\ k <= p /\ g[k] = f[k] /\ t[k] = a[k]
             Mid(k)  == k = p + 1 /\ g[k] = r /\ t[k] = x
             High(k) == k - 1 \in 1 .. m /\ k > p + 1 /\ g[k] = f[k - 1] /\ t[k] = a[k - 1]
  <1>12. ASSUME NEW k \in 1 .. (m + 1)
         PROVE  Low(k) \/ Mid(k) \/ High(k)
    <2>1. CASE k <= p
      BY <1>6, <1>8, <1>10, <2>1
    <2>2. CASE k = p + 1
      BY <1>6, <1>8, <1>10, <2>2
    <2>3. CASE k > p + 1
      <3>1. k - 1 \in (p + 1) .. m /\ k - 1 + 1 = k /\ k - 1 \in 1 .. m /\ ~(k <= p) /\ k # p + 1
        BY <1>6, <1>8, <2>3
      <3> QED  BY <1>10, <2>3, <3>1
    <2> QED  BY <1>6, <1>8, <2>1, <2>2, <2>3
  <1>13. g \in [1 .. (m + 1) -> K]
    <2>1. ASSUME NEW k \in 1 .. (m + 1)
          PROVE  g[k] \in K
      BY <1>1, <1>3, <1>5, <1>9, <1>12
    <2> QED  BY <2>1
  <1>14. \A k \in 1 .. (m + 1) : t[k] = o[g[k]]
    BY <1>1, <1>3, <1>12
  <1>15. ASSUME NEW i \in 1 .. (m + 1), NEW j \in 1 .. (m + 1), i < j
         PROVE  g[i] < g[j]
    <2> USE <1>1, <1>6, <1>8, <1>9, <1>15
    <2>1. CASE Low(i)
      BY <1>3, <1>12, <2>1
    <2>2. CASE Mid(i)
      BY <1>12, <2>2
    <2>3. CASE High(i)
      <3>1. High(j) /\ i - 1 < j - 1
        BY <1>12, <2>3
      <3> QED  BY <1>3, <2>3, <3>1
    <2> QED  BY <1>12, <2>1, <2>2, <2>3
  <1>16. ASSUME NEW i \in K
         PROVE  \E k \in 1 .. (m + 1) : g[k] = i
    <2>1. CASE i = r
      <3>1. p + 1 \in 1 .. (m + 1) /\ g[p + 1] = r
        BY <1>6, <1>8
      <3> QED  BY <2>1, <3>1
    <2>2. CASE i # r
      <3>1. i \in 1 .. n /\ o[i] \in E
        BY <1>1, <1>5, <2>2 DEF Distinct
      <3>2. PICK k \in 1 .. m : f[k] = i
        BY <1>3, <3>1
      <3>3. CASE k <= p
        <4>1. k \in 1 .. (m + 1) /\ g[k] = i
          BY <1>6, <3>2, <3>3
        <4> QED  BY <4>1
      <3>4. CASE ~(k <= p)
        <4>1. k + 1 \in 1 .. (m + 1) /\ g[k + 1] = i
          BY <1>6, <1>8, <3>2, <3>4
        <4> QED  BY <4>1
      <3> QED  BY <3>3, <3>4
    <2> QED  BY <2>1, <2>2
  <1> HIDE DEF g, Low, Mid, High
  <1>17. OrderMap(g, 1 .. Len(t), KeptAt(o, E \cup {x}))
    BY <1>11, <1>13, <1>15, <1>16 DEF OrderMap, K
  <1>18. \A k \in 1 .. Len(t) : t[k] = o[g[k]]
    BY <1>11, <1>14
  <1>19. Only(o, E \cup {x}) = t
    <2>1. o \in Seq(S) /\ t \in Seq(S)
      BY <1>10
    <2> QED  BY <1>17, <1>18, <2>1, OnlyIs
  <1> QED  BY <1>8, <1>19 DEF t, p, N, m, a, r

(* Two queues are equal when they are equally long and agree place by place. *)
LEMMA SameSequence ==
    ASSUME NEW S, NEW a \in Seq(S), NEW b \in Seq(S), NEW n \in Nat,
           DOMAIN a = 1 .. n, DOMAIN b = 1 .. n, \A i \in 1 .. n : a[i] = b[i]
    PROVE  a = b
  <1>1. a = [i \in 1 .. n |-> a[i]] /\ b = [i \in 1 .. n |-> b[i]]
    OBVIOUS
  <1> QED  BY <1>1

(* An insertion into the first of two queues in a row. *)
LEMMA InsertConcat ==
    ASSUME NEW S, NEW a \in Seq(S), NEW b \in Seq(S), NEW p \in 0 .. Len(a), NEW x \in S
    PROVE  InsertBehind(a \o b, p, x) = InsertBehind(a, p, x) \o b
  <1> DEFINE m == Len(a)
             n == Len(b)
             c == a \o b
             d == InsertBehind(a, p, x)
             u == InsertBehind(c, p, x)
             w == d \o b
  <1>1. m \in Nat /\ n \in Nat /\ p \in Nat /\ p <= m
    OBVIOUS
  <1>2. /\ c \in Seq(S) /\ Len(c) = m + n
        /\ \A i \in 1 .. m : c[i] = a[i]
        /\ \A i \in 1 .. n : c[m + i] = b[i]
    BY ConcatAt
  <1>3. /\ d \in Seq(S) /\ DOMAIN d = 1 .. (m + 1)
        /\ \A i \in 1 .. p : d[i] = a[i]
        /\ d[p + 1] = x
        /\ \A i \in (p + 1) .. m : d[i + 1] = a[i]
    <2>1. d \in Seq(S) /\ InsertedAt(d, a, p, x)
      BY InsertBehindAt
    <2> HIDE DEF d
    <2> QED  BY <2>1 DEF InsertedAt
  <1> HIDE DEF m, n, c, d
  <1>4. /\ u \in Seq(S) /\ DOMAIN u = 1 .. (m + n + 1)
        /\ \A i \in 1 .. p : u[i] = c[i]
        /\ u[p + 1] = x
        /\ \A i \in (p + 1) .. (m + n) : u[i + 1] = c[i]
    <2>1. p \in 0 .. Len(c)
      BY <1>1, <1>2
    <2>2. u \in Seq(S) /\ InsertedAt(u, c, p, x)
      <3>1. c \in Seq(S)
        BY <1>2
      <3> QED  BY <2>1, <3>1, InsertBehindAt
    <2> HIDE DEF u
    <2> QED  BY <1>2, <2>2 DEF InsertedAt
  <1>5. /\ w \in Seq(S) /\ DOMAIN w = 1 .. (m + n + 1)
        /\ \A i \in 1 .. (m + 1) : w[i] = d[i]
        /\ \A i \in 1 .. n : w[m + 1 + i] = b[i]
    <2>1. Len(d) = m + 1
      BY <1>1, <1>3
    <2>2. /\ w \in Seq(S) /\ Len(w) = Len(d) + Len(b)
          /\ \A i \in 1 .. Len(d) : w[i] = d[i]
          /\ \A i \in 1 .. Len(b) : w[Len(d) + i] = b[i]
      BY <1>3, ConcatAt
    <2> HIDE DEF w
    <2>3. Len(w) = m + n + 1
      BY <1>1, <2>1, <2>2 DEF n
    <2> QED  BY <2>1, <2>2, <2>3 DEF n
  <1> HIDE DEF u, w
  <1>6. ASSUME NEW i \in 1 .. (m + n + 1)
        PROVE  u[i] = w[i]
    <2>1. CASE i <= p
      <3>1. i \in 1 .. p /\ i \in 1 .. m /\ i \in 1 .. (m + 1)
        BY <1>1, <2>1
      <3> QED  BY <1>2, <1>3, <1>4, <1>5, <3>1
    <2>2. CASE i = p + 1
      <3>1. i \in 1 .. (m + 1)
        BY <1>1, <2>2
      <3> QED  BY <1>3, <1>4, <1>5, <2>2, <3>1
    <2>3. CASE i > p + 1 /\ i <= m + 1
      <3> DEFINE j == i - 1
      <3>1. /\ j \in (p + 1) .. (m + n) /\ j \in (p + 1) .. m /\ j \in 1 .. m /\ j + 1 = i
            /\ i \in 1 .. (m + 1)
        BY <1>1, <2>3
      <3> HIDE DEF j
      <3>2. u[i] = c[j] /\ c[j] = a[j]
        BY <1>2, <1>4, <3>1
      <3>3. w[i] = d[i] /\ d[i] = a[j]
        BY <1>3, <1>5, <3>1
      <3> QED  BY <3>2, <3>3
    <2>4. CASE i > m + 1
      <3> DEFINE j == i - 1
                 k == i - (m + 1)
      <3>1. /\ j \in (p + 1) .. (m + n) /\ j + 1 = i /\ k \in 1 .. n /\ m + k = j
            /\ m + 1 + k = i
        BY <1>1, <2>4
      <3> HIDE DEF j, k
      <3>2. u[i] = c[j] /\ c[j] = b[k]
        BY <1>2, <1>4, <3>1
      <3>3. w[i] = b[k]
        BY <1>5, <3>1
      <3> QED  BY <3>2, <3>3
    <2> QED  BY <1>1, <2>1, <2>2, <2>3, <2>4
  <1>7. u = w
    <2>1. m + n + 1 \in Nat
      BY <1>1
    <2> QED  BY <1>4, <1>5, <1>6, <2>1, SameSequence
  <1> QED  BY <1>7 DEF u, w, c, d

(* An append to the second of two queues in a row. *)
LEMMA AppendConcat ==
    ASSUME NEW S, NEW a \in Seq(S), NEW b \in Seq(S), NEW x \in S
    PROVE  a \o Append(b, x) = Append(a \o b, x)
  OBVIOUS

(* What the sort makes of the rows u: the named ones in the list's order, then the others. *)
RowsByRank(S, u, o) == Only(o, Elems(u)) \o Only(u, S \ Elems(o))

(* One round of the sort. *)
LEMMA SortRound ==
    ASSUME NEW S, NEW u \in Seq(S), NEW x \in S, x \notin Elems(u), NEW o \in Seq(S), Distinct(o)
    PROVE  LET t == RowsByRank(S, u, o)
           IN  RowsByRank(S, Append(u, x), o) =
                 InsertBehind(t, Cardinality(NotAbove(t, o, Rank(o, x))), x)
  <1> DEFINE E == Elems(u)
             U == S \ Elems(o)
             a == Only(o, E)
             b == Only(u, U)
             t == a \o b
             r == Rank(o, x)
             m == Len(a)
             n == Len(b)
             N == NotAbove(t, o, r)
  <1>1. Elems(Append(u, x)) = E \cup {x}
    BY AppendElems
  <1>2. a \in Seq(S) /\ b \in Seq(S)
    BY OnlyFacts
  <1>3. Elems(a) = Elems(o) \cap E /\ Elems(b) = E \cap U
    BY OnlyElems
  <1>4. RowsByRank(S, u, o) = t
    BY DEF RowsByRank
  <1>5. RowsByRank(S, Append(u, x), o) = Only(o, E \cup {x}) \o Only(Append(u, x), U)
    BY <1>1 DEF RowsByRank
  <1>6. /\ t \in Seq(S) /\ Len(t) = m + n /\ DOMAIN t = 1 .. (m + n) /\ m \in Nat /\ n \in Nat
        /\ DOMAIN a = 1 .. m /\ DOMAIN b = 1 .. n
        /\ \A i \in 1 .. m : t[i] = a[i]
        /\ \A i \in 1 .. n : t[m + i] = b[i]
    BY <1>2, ConcatAt
  <1> HIDE DEF a, b, t, E
  <1>7. CASE x \in Elems(o)
    <2> DEFINE p == Cardinality(NotAbove(a, o, r))
    <2>1. p \in 0 .. m /\ Only(o, E \cup {x}) = InsertBehind(a, p, x)
      BY <1>7, NamedRowInserted DEF a, E
    <2>2. Only(Append(u, x), U) = b
      <3>1. x \notin U
        BY <1>7
      <3> QED  BY <3>1, OnlySkips DEF b
    <2>3. r \in 1 .. Len(o) /\ Len(o) \in Nat
      BY <1>7, RankOf
    <2>4. ASSUME NEW i \in 1 .. n
          PROVE  ~(Rank(o, t[m + i]) <= r)
      <3>1. b[i] \notin Elems(o)
        BY <1>3, <1>6 DEF Elems
      <3>2. Rank(o, b[i]) = Len(o) + 1
        BY <3>1, RankOf
      <3> QED  BY <1>6, <2>3, <3>2
    <2> HIDE DEF r
    <2>5. N = NotAbove(a, o, r)
      <3>1. ASSUME NEW i
            PROVE  i \in NotAbove(t, o, r) <=> i \in NotAbove(a, o, r)
        <4>1. CASE i \in 1 .. m
          <5>1. i \in 1 .. (m + n) /\ t[i] = a[i]
            BY <1>6, <4>1
          <5> QED  BY <1>6, <4>1, <5>1 DEF NotAbove
        <4>2. CASE i \in 1 .. (m + n) /\ i \notin 1 .. m
          <5>1. i - m \in 1 .. n /\ m + (i - m) = i
            BY <1>6, <4>2
          <5>2. ~(Rank(o, t[i]) <= r)
            BY <2>4, <5>1
          <5> QED  BY <1>6, <4>2, <5>2 DEF NotAbove
        <4>3. CASE i \notin 1 .. (m + n)
          <5>1. i \notin 1 .. m
            BY <1>6, <4>3
          <5> QED  BY <1>6, <4>3, <5>1 DEF NotAbove
        <4> QED  BY <4>1, <4>2, <4>3
      <3> QED  BY <3>1
    <2>6. InsertBehind(t, p, x) = InsertBehind(a, p, x) \o b
      <3> HIDE DEF p
      <3> QED  BY <1>2, <2>1, InsertConcat DEF t
    <2> QED  BY <1>4, <1>5, <2>1, <2>2, <2>5, <2>6 DEF r
  <1>8. CASE x \notin Elems(o)
    <2>1. Only(Append(u, x), U) = Append(b, x)
      <3>1. x \in U
        BY <1>8
      <3> QED  BY <3>1, OnlyAppend DEF b
    <2>2. Only(o, E \cup {x}) = a
      <3>1. Elems(o) \cap (E \cup {x}) = Elems(o) \cap E
        BY <1>8
      <3> QED  BY <3>1, OnlyAgrees DEF a
    <2>3. N = 1 .. (m + n)
      <3>1. ASSUME NEW i \in 1 .. (m + n)
            PROVE  Rank(o, t[i]) <= r
        <4>1. r = Len(o) + 1 /\ Len(o) \in Nat
          BY <1>8, RankOf
        <4>2. Rank(o, t[i]) \in 1 .. Len(o) \/ Rank(o, t[i]) = Len(o) + 1
          BY RankOf
        <4> QED  BY <4>1, <4>2
      <3> QED  BY <1>6, <3>1 DEF NotAbove
    <2>4. Cardinality(N) = m + n
      <3> DEFINE l == m + n
      <3>1. l \in Nat
        BY <1>6
      <3> HIDE DEF l
      <3>2. Cardinality(1 .. l) = IF 1 > l THEN 0 ELSE l - 1 + 1
        BY <3>1, FS_Interval
      <3>3. Cardinality(1 .. l) = l
        BY <3>1, <3>2
      <3> QED  BY <2>3, <3>3 DEF l
    <2>5. InsertBehind(t, m + n, x) = Append(t, x)
      BY <1>6, InsertLast
    <2>6. a \o Append(b, x) = Append(t, x)
      BY <1>2, AppendConcat DEF t
    <2> QED  BY <1>4, <1>5, <2>1, <2>2, <2>4, <2>5, <2>6
  <1> QED  BY <1>7, <1>8

(***************************************************************************)
(* The stable sort by rank puts the rows the client named first, in the    *)
(* order of its list, and leaves the others behind them in their own.      *)
(***************************************************************************)
LEMMA SortIsLoop ==
    ASSUME NEW S, NEW s \in Seq(S), Distinct(s), NEW o \in Seq(S), Distinct(o)
    PROVE  SortedByRank(s, o) = RowsByRank(S, s, o)
  <1> DEFINE m      == Len(s)
             C(n)   == RowsByRank(S, SubSeq(s, 1, n), o)
             Def(k) == k = [n \in 0 .. m |->
                               IF n = 0 THEN << >>
                               ELSE InsertBehind(k[n - 1],
                                      Cardinality(NotAbove(k[n - 1], o, Rank(o, s[n]))), s[n])]
             sorted == CHOOSE k : Def(k)
             g      == [n \in 0 .. m |-> C(n)]
  <1>1. m \in Nat /\ DOMAIN s = 1 .. m
    OBVIOUS
  <1>2. C(0) = << >> /\ C(m) = RowsByRank(S, s, o)
    <2>1. SubSeq(s, 1, 0) = << >> /\ SubSeq(s, 1, m) = s
      BY PrefixFacts
    <2>2. << >> \in Seq(S) /\ Elems(<< >>) = {}
      BY SmallFacts
    <2> DEFINE a == Only(o, {})
               b == Only(<< >>, S \ Elems(o))
    <2>3. Elems(a) = {} /\ a \in Seq(S)
      BY OnlyElems, OnlyFacts
    <2>4. Elems(b) = {} /\ b \in Seq(S)
      BY <2>2, OnlyElems, OnlyFacts
    <2> HIDE DEF a, b
    <2>5. a = << >> /\ b = << >>
      BY <2>3, <2>4, ElemsFacts
    <2>6. RowsByRank(S, << >>, o) = a \o b
      BY <2>2 DEF RowsByRank, a, b
    <2>7. RowsByRank(S, << >>, o) = << >>
      BY <2>5, <2>6
    <2> QED  BY <2>1, <2>7
  <1>3. ASSUME NEW n \in 1 .. m
        PROVE  C(n) = InsertBehind(C(n - 1),
                        Cardinality(NotAbove(C(n - 1), o, Rank(o, s[n]))), s[n])
    <2> DEFINE u == SubSeq(s, 1, n - 1)
    <2>1. s[n] \in S /\ SubSeq(s, 1, n) = Append(u, s[n]) /\ u \in Seq(S)
      <3>1. n - 1 \in 0 .. m
        BY <1>1
      <3> QED  BY <3>1, PrefixFacts
    <2>2. DOMAIN u = 1 .. (n - 1) /\ \A i \in 1 .. (n - 1) : u[i] = s[i]
      BY <1>1
    <2>3. s[n] \notin Elems(u)
      <3> HIDE DEF u
      <3>1. \A i \in 1 .. (n - 1) : i \in 1 .. m /\ i # n
        BY <1>1
      <3> QED  BY <1>1, <2>2, <3>1 DEF Elems, Distinct
    <2> HIDE DEF u
    <2>4. RowsByRank(S, Append(u, s[n]), o) =
            InsertBehind(RowsByRank(S, u, o),
              Cardinality(NotAbove(RowsByRank(S, u, o), o, Rank(o, s[n]))), s[n])
      BY <2>1, <2>3, SortRound
    <2> QED  BY <2>1, <2>4 DEF u
  <1>4. SortedByRank(s, o) = sorted[m]
    BY DEF SortedByRank
  <1> HIDE DEF C, m
  <1>5. Def(g)
    <2>1. \A n \in 0 .. m : n # 0 => n \in 1 .. m /\ n - 1 \in 0 .. m
      BY <1>1
    <2> QED  BY <1>2, <1>3, <2>1
  <1> HIDE DEF Def, g
  <1>6. Def(sorted)
    BY <1>5
  <1> HIDE DEF sorted
  <1> DEFINE Bad == {n \in 0 .. m : sorted[n] # C(n)}
  <1>7. Bad = {}
    <2> SUFFICES ASSUME Bad # {}
                 PROVE  FALSE
      OBVIOUS
    <2>1. Bad \subseteq Nat
      BY <1>1
    <2> HIDE DEF Bad
    <2>2. PICK n \in Bad : \A i \in Bad : n <= i
      BY <2>1, LeastNumber
    <2>3. n \in 0 .. m /\ sorted[n] # C(n)
      BY <2>2 DEF Bad
    <2>4. n # 0
      <3>1. 0 \in 0 .. m
        BY <1>1
      <3>2. sorted[0] = << >>
        BY <1>6, <3>1 DEF Def
      <3> QED  BY <1>2, <2>3, <3>2
    <2>5. n \in 1 .. m /\ n - 1 \in 0 .. m /\ ~(n <= n - 1)
      BY <1>1, <2>3, <2>4
    <2>6. sorted[n - 1] = C(n - 1)
      BY <2>2, <2>5 DEF Bad
    <2>7. sorted[n] = InsertBehind(sorted[n - 1],
                        Cardinality(NotAbove(sorted[n - 1], o, Rank(o, s[n]))), s[n])
      BY <1>6, <2>3, <2>4 DEF Def
    <2> QED  BY <1>3, <2>3, <2>5, <2>6, <2>7
  <1>8. m \in 0 .. m
    BY <1>1
  <1> QED  BY <1>2, <1>4, <1>7, <1>8

(* Three queues in a row. *)
LEMMA ConcatAssociates ==
    ASSUME NEW S, NEW a \in Seq(S), NEW b \in Seq(S), NEW c \in Seq(S)
    PROVE  (a \o b) \o c = a \o (b \o c)
  OBVIOUS

(***************************************************************************)
(* handle_reorder_queue: parting the queue and sorting the rows by rank    *)
(* gives the closed form that the session's model uses, for every queue    *)
(* and every list without repetitions.                                     *)
(***************************************************************************)
THEOREM ReorderIsLoop ==
    ASSUME NEW S, NEW s \in Seq(S), Distinct(s), NEW M, NEW o \in Seq(S), Distinct(o)
    PROVE  PartedAndSorted(s, M, o) = Reordered(s, M, o)
  <1> DEFINE a == Only(s, Elems(s) \ M)
             b == Only(o, Elems(s) \cap M)
             c == Only(s, M \ Elems(o))
             u == Only(s, M)
  <1>1. Swept(s, Elems(s) \ M) = a /\ Swept(s, M) = u
    BY SweepIsLoop
  <1>2. u \in Seq(S) /\ a \in Seq(S) /\ b \in Seq(S) /\ c \in Seq(S)
    BY OnlyFacts
  <1>3. Elems(u) = Elems(s) \cap M /\ Elems(s) \subseteq S
    BY OnlyElems, ElemsFacts
  <1>4. Distinct(u)
    BY OnlyKeepsDistinct DEF Distinct
  <1>5. Only(u, S \ Elems(o)) = c
    <2>1. Only(u, M \ Elems(o)) = c
      <3>1. Elems(s) \cap (M \ Elems(o)) \subseteq M
        OBVIOUS
      <3> QED  BY <3>1, OnlyTwice
    <2>2. Elems(u) \cap (S \ Elems(o)) = Elems(u) \cap (M \ Elems(o))
      BY <1>3
    <2> HIDE DEF u
    <2>3. Only(u, S \ Elems(o)) = Only(u, M \ Elems(o))
      BY <1>2, <2>2, OnlyAgrees
    <2> QED  BY <2>1, <2>3
  <1> HIDE DEF a, c, u
  <1>6. SortedByRank(u, o) = b \o c
    <2>1. SortedByRank(u, o) = RowsByRank(S, u, o)
      BY <1>2, <1>4, SortIsLoop
    <2> QED  BY <1>3, <1>5, <2>1 DEF RowsByRank
  <1> HIDE DEF b
  <1>7. a \o b \o c = a \o (b \o c)
    BY <1>2, ConcatAssociates
  <1>8. PartedAndSorted(s, M, o) = a \o (b \o c)
    BY <1>1, <1>6 DEF PartedAndSorted
  <1>9. Reordered(s, M, o) = a \o b \o c
    BY DEF Reordered, a, b, c
  <1> QED  BY <1>7, <1>8, <1>9

=============================================================================
