------------------------- MODULE CircuitBreakerProofs -------------------------
(***************************************************************************)
(* OneTakeover, TypeOK and WindowCounts for any set of callers, any        *)
(* durations, any limit of the window and any word size.                   *)
(*                                                                         *)
(* What a caller about to exchange the claim knows is that the time it     *)
(* loaded was as old as the lease when it was compared.  That stays true   *)
(* while time passes (Leased): both times age together, until the loaded   *)
(* one reaches Horizon, which is further from any clock reading than the   *)
(* lease.  The exchange succeeds only on a claim equal to the loaded one.  *)
(*                                                                         *)
(* For the window, dropping entries from the front is a shift of the rest, *)
(* a bijection between the failures that stay and those counted before     *)
(* (BadDrop), and the loop of evict has a first young entry to stop at     *)
(* because the positions are well-founded (EvictStops).                    *)
(***************************************************************************)
EXTENDS CircuitBreaker, Functions, FiniteSetTheorems, SequenceTheorems,
        WellFoundedInduction, TLAPS

(* The times the atomics and the callers hold. *)
TimesOK ==
    /\ opened \in 0 .. Horizon
    /\ claimed \in 0 .. Horizon
    /\ pc \in [Callers -> InCheck \cup InRecord \cup {"idle", "admitted"}]
    /\ clock \in [Callers -> 0 .. MaxStall]
    /\ loaded \in [Callers -> 0 .. Horizon]

(* A caller that is about to take a claim over has seen it expired. *)
Leased == \A c \in Callers : pc[c] = "takeover" => Since(loaded[c], clock[c]) >= OpenFor

LeaseInv == TimesOK /\ Leased

(* Ages stay within the horizon, which no clock reading comes close to. *)
LEMMA HorizonFacts ==
    /\ Horizon \in Nat
    /\ MaxStall \in Nat /\ OpenFor \in Nat
    /\ \A t \in 0 .. MaxStall : Horizon - t >= OpenFor /\ t \in 0 .. Horizon
    /\ \A a \in 0 .. Horizon : Older(a) \in 0 .. Horizon /\ Older(a) \in {a + 1, Horizon}
BY BreakerAssumption DEF Horizon, Older

(* A new breaker has no caller that is about to take a probe over. *)
LEMMA InitLease == Init => LeaseInv
BY HorizonFacts DEF Init, LeaseInv, TimesOK, Leased, NoTime

(* A caller that moves to a place other than the exchange keeps everyone's lease. *)
LEMMA GotoLease ==
    ASSUME LeaseInv,
           opened' \in 0 .. Horizon, claimed' \in 0 .. Horizon,
           NEW c \in Callers, NEW p \in InCheck \cup InRecord \cup {"idle", "admitted"},
           NEW t \in 0 .. MaxStall, NEW l \in 0 .. Horizon,
           GotoWith(c, p, t, l),
           p = "takeover" => Since(l, t) >= OpenFor
    PROVE  LeaseInv'
<1>1. TimesOK'
  BY HorizonFacts DEF LeaseInv, TimesOK, GotoWith, NoTime
<1>2. Leased'
  BY HorizonFacts DEF LeaseInv, TimesOK, Leased, GotoWith, HoldsClock, HoldsLoaded
<1> QED
  BY <1>1, <1>2 DEF LeaseInv

(* No step of a caller and no tick makes what a caller loaded younger than the lease. *)
LEMMA NextLease ==
    ASSUME LeaseInv, [Next]_vars
    PROVE  LeaseInv'
<1> USE HorizonFacts
<1>0. /\ opened \in 0 .. Horizon /\ claimed \in 0 .. Horizon
      /\ \A c \in Callers : clock[c] \in 0 .. MaxStall /\ loaded[c] \in 0 .. Horizon
  BY DEF LeaseInv, TimesOK
<1> DEFINE Places == InCheck \cup InRecord \cup {"idle", "admitted"}
           Moves(c) == \E p \in Places, t \in 0 .. MaxStall, l \in 0 .. Horizon :
                         /\ GotoWith(c, p, t, l)
                         /\ p = "takeover" => Since(l, t) >= OpenFor
<1>1. ASSUME NEW c \in Callers, Moves(c), opened' \in 0 .. Horizon, claimed' \in 0 .. Horizon
      PROVE  LeaseInv'
  <2>1. PICK p \in Places, t \in 0 .. MaxStall, l \in 0 .. Horizon :
               GotoWith(c, p, t, l) /\ (p = "takeover" => Since(l, t) >= OpenFor)
    BY <1>1
  <2> QED
    BY <1>1, <2>1, GotoLease
<1>2. ASSUME NEW c \in Callers, NEW p \in Places \ {"takeover"}, Goto(c, p)
      PROVE  Moves(c)
  BY <1>0, <1>2 DEF Goto
<1>3. ASSUME NEW c \in Callers, CheckSteps(c) \/ Check(c)
      PROVE  Moves(c) /\ opened' \in 0 .. Horizon /\ claimed' \in 0 .. Horizon
  <2>1. CASE Check(c)
    BY <2>1, <1>0, <1>2 DEF Check, InCheck, atomics
  <2>2. CASE LoadOpened(c)
    BY <2>2, <1>0 DEF LoadOpened, InCheck, NoTime, atomics
  <2>3. CASE CompareElapsed(c)
    BY <2>3, <1>0, <1>2 DEF CompareElapsed, InCheck, atomics
  <2>4. CASE CasHalfOpen(c)
    BY <2>4, <1>0, <1>2 DEF CasHalfOpen, InCheck
  <2>5. CASE MirrorHalfOpen(c)
    BY <2>5, <1>0, <1>2 DEF MirrorHalfOpen, InCheck
  <2>6. CASE Reevaluate(c)
    BY <2>6, <1>0, <1>2 DEF Reevaluate, InCheck, atomics
  <2>7. CASE ReadClock(c)
    BY <2>7, <1>0 DEF ReadClock, InCheck, NoTime, atomics
  <2>8. CASE AddProbe(c)
    BY <2>8, <1>0, <1>2 DEF AddProbe, InCheck
  <2>9. CASE StoreClaim(c)
    BY <2>9, <1>0, <1>2 DEF StoreClaim
  <2>10. CASE SubProbe(c)
    BY <2>10, <1>0, <1>2 DEF SubProbe, InCheck
  <2>11. CASE LoadClaim(c)
    <3> DEFINE p == IF Since(claimed, clock[c]) >= OpenFor THEN "takeover" ELSE "idle"
    <3>1. p \in Places /\ (p = "takeover" => Since(claimed, clock[c]) >= OpenFor)
      BY DEF InCheck
    <3>2. GotoWith(c, p, clock[c], claimed)
      BY <2>11 DEF LoadClaim
    <3>3. Moves(c)
      <4> HIDE DEF p
      <4> QED BY <3>1, <3>2, <1>0
    <3> QED
      BY <2>11, <3>3, <1>0 DEF LoadClaim, atomics
  <2>12. CASE TakeOver(c)
    BY <2>12, <1>0, <1>2 DEF TakeOver
  <2> QED
    BY <1>3, <2>1, <2>2, <2>3, <2>4, <2>5, <2>6, <2>7, <2>8, <2>9, <2>10, <2>11, <2>12
    DEF CheckSteps
<1>4. ASSUME NEW c \in Callers, RecordSteps(c) \/ Abandon(c) \/ \E bad \in BOOLEAN : Record(c, bad)
      PROVE  Moves(c) /\ opened' \in 0 .. Horizon /\ claimed' \in 0 .. Horizon
  <2>1. CASE \E bad \in BOOLEAN : Record(c, bad)
    <3>1. ASSUME NEW p \in {"sample", "late"}, GotoWith(c, p, 0, NoTime)
          PROVE  Moves(c)
      BY <3>1 DEF InRecord, NoTime
    <3>2. ASSUME NEW bad \in BOOLEAN, Goto(c, IF bad THEN "trip" ELSE "close")
          PROVE  Moves(c)
      BY <3>2, <1>2 DEF InRecord
    <3> HIDE DEF Moves
    <3> QED
      BY <2>1, <1>0, <3>1, <3>2 DEF Record, atomics
  <2>2. CASE \E bad \in BOOLEAN : Sample(c, bad)
    BY <2>2, <1>0, <1>2 DEF Sample, InRecord, atomics
  <2>3. CASE Abandon(c)
    BY <2>3, <1>0, <1>2 DEF Abandon, atomics
  <2>4. CASE TripState(c) \/ TripOpened(c) \/ TripProbes(c) \/ TripFast(c)
    <3>1. \E p \in Places \ {"takeover"} : Goto(c, p)
      BY <2>4 DEF TripState, TripOpened, TripProbes, TripFast, InRecord
    <3>2. opened' \in 0 .. Horizon /\ claimed' \in 0 .. Horizon
      BY <2>4, <1>0 DEF TripState, TripOpened, TripProbes, TripFast
    <3> QED
      BY <3>1, <3>2, <1>2
  <2>5. CASE CloseState(c) \/ CloseWindow(c) \/ CloseProbes(c) \/ CloseFast(c)
    BY <2>5, <1>0, <1>2 DEF CloseState, CloseWindow, CloseProbes, CloseFast, InRecord, atomics
  <2> QED
    BY <1>4, <2>1, <2>2, <2>3, <2>4, <2>5 DEF RecordSteps
<1>5. CASE Tick
  <2>1. TimesOK'
    BY <1>5, <1>0 DEF Tick, LeaseInv, TimesOK, NoTime, HoldsClock, HoldsLoaded
  <2>2. Leased'
    BY <1>5, <1>0 DEF Tick, LeaseInv, TimesOK, Leased, Since, HoldsClock, HoldsLoaded
  <2> QED
    BY <2>1, <2>2 DEF LeaseInv
<1>6. CASE ReadErrorRate \/ UNCHANGED vars
  BY <1>6 DEF ReadErrorRate, vars, atomics, LeaseInv, TimesOK, Leased
<1> QED
  BY <1>1, <1>3, <1>4, <1>5, <1>6 DEF Next

(***************************************************************************)
(* Of the callers that saw one claim expire at most one is admitted for it *)
(* (try_half_open_probe): the exchange of the others meets a claim younger *)
(* than the lease, and fails.                                              *)
(***************************************************************************)
THEOREM TakeoverIsUnique == Spec => OneTakeover
<1> DEFINE Unique == \A c \in Callers :
                        pc[c] = "takeover" /\ pc'[c] = "admitted"
                          => Since(claimed, clock[c]) >= OpenFor
<1>1. ASSUME LeaseInv, [Next]_vars, NEW c \in Callers, pc[c] = "takeover", pc'[c] = "admitted"
      PROVE  Since(claimed, clock[c]) >= OpenFor
  <2>1. ASSUME NEW d \in Callers, NEW p, NEW t, NEW l, GotoWith(d, p, t, l)
        PROVE  d = c
    BY <1>1, <2>1 DEF GotoWith, LeaseInv, TimesOK
  <2>2. ASSUME NEW d \in Callers, CheckSteps(d)
        PROVE  TakeOver(c)
    <3>1. d = c
      BY <2>1, <2>2 DEF CheckSteps, LoadOpened, CompareElapsed, CasHalfOpen, MirrorHalfOpen,
         Reevaluate, ReadClock, AddProbe, StoreClaim, SubProbe, LoadClaim, TakeOver, Goto
    <3> QED
      BY <1>1, <2>2, <3>1 DEF CheckSteps, LoadOpened, CompareElapsed, CasHalfOpen,
         MirrorHalfOpen, Reevaluate, ReadClock, AddProbe, StoreClaim, SubProbe, LoadClaim
  <2>3. ASSUME NEW d \in Callers, RecordSteps(d)
        PROVE  FALSE
    <3>1. d = c
      BY <2>1, <2>3 DEF RecordSteps, Sample, TripState, TripOpened, TripProbes, TripFast,
         CloseState, CloseWindow, CloseProbes, CloseFast, Goto
    <3> QED
      BY <1>1, <2>3, <3>1 DEF RecordSteps, Sample, TripState, TripOpened, TripProbes, TripFast,
         CloseState, CloseWindow, CloseProbes, CloseFast
  <2>4. ASSUME NEW d \in Callers, Check(d) \/ Abandon(d) \/ \E bad \in BOOLEAN : Record(d, bad)
        PROVE  FALSE
    <3>1. d = c
      BY <2>1, <2>4 DEF Check, Abandon, Record, Goto
    <3> QED
      BY <1>1, <2>4, <3>1 DEF Check, Abandon, Record
  <2>5. TakeOver(c)
    BY <1>1, <2>2, <2>3, <2>4 DEF Next, ReadErrorRate, Tick, vars
  <2> QED
    BY <1>1, <2>5 DEF TakeOver, Goto, GotoWith, LeaseInv, Leased, TimesOK
<1>2. LeaseInv /\ [Next]_vars => [Unique]_vars
  BY <1>1
<1>3. LeaseInv /\ [Next]_vars => LeaseInv'
  BY NextLease
<1> QED
  BY <1>2, <1>3, InitLease, PTL DEF Spec, OneTakeover

-----------------------------------------------------------------------------
(* The sliding window. *)

(* The positions of the failing entries. *)
BadAt(es) == {i \in DOMAIN es : es[i].bad}

(* A set of positions of a sequence is finite, and how many there are is a number. *)
LEMMA PositionsFinite ==
    ASSUME NEW S, NEW s \in Seq(S), NEW T \in SUBSET DOMAIN s
    PROVE  IsFiniteSet(T) /\ Cardinality(T) \in Nat
<1>1. Len(s) \in Nat /\ DOMAIN s = 1 .. Len(s)
  OBVIOUS
<1>2. IsFiniteSet(1 .. Len(s))
  BY <1>1, FS_Interval
<1>3. IsFiniteSet(T)
  BY <1>1, <1>2, FS_Subset
<1> QED
  BY <1>3, FS_CardinalityType

(* One more entry is one more failure if it is one. *)
LEMMA BadAppend ==
    ASSUME NEW es \in Seq(Samples), NEW x \in Samples
    PROVE  Cardinality(BadAt(Append(es, x))) = Cardinality(BadAt(es)) + (IF x.bad THEN 1 ELSE 0)
<1> DEFINE n == Len(es) + 1
<1>0. Len(es) \in Nat /\ DOMAIN es = 1 .. Len(es) /\ DOMAIN Append(es, x) = 1 .. n
  OBVIOUS
<1>1. \A i \in 1 .. Len(es) : Append(es, x)[i] = es[i]
  OBVIOUS
<1>2. Append(es, x)[n] = x
  OBVIOUS
<1>3. BadAt(es) \subseteq 1 .. Len(es) /\ n \notin BadAt(es)
  BY <1>0 DEF BadAt
<1>4. IsFiniteSet(BadAt(es)) /\ Cardinality(BadAt(es)) \in Nat
  BY PositionsFinite, <1>3, <1>0
<1>5. CASE x.bad
  <2>1. BadAt(Append(es, x)) = BadAt(es) \cup {n}
    BY <1>0, <1>1, <1>2, <1>5 DEF BadAt
  <2> QED
    BY <1>3, <1>4, <1>5, <2>1, FS_AddElement
<1>6. CASE ~x.bad
  <2>1. BadAt(Append(es, x)) = BadAt(es)
    BY <1>0, <1>1, <1>2, <1>6 DEF BadAt
  <2> QED
    BY <1>4, <1>6, <2>1
<1> QED
  BY <1>5, <1>6

(* Dropping the first n entries drops their failures: the rest moves n places to the front. *)
LEMMA BadDrop ==
    ASSUME NEW es \in Seq(Samples), NEW n \in 0 .. Len(es)
    PROVE  /\ SubSeq(es, n + 1, Len(es)) \in Seq(Samples)
           /\ Len(SubSeq(es, n + 1, Len(es))) = Len(es) - n
           /\ Cardinality({i \in 1 .. n : es[i].bad}) \in Nat
           /\ Cardinality(BadAt(SubSeq(es, n + 1, Len(es))))
                 = Cardinality(BadAt(es)) - Cardinality({i \in 1 .. n : es[i].bad})
<1> DEFINE r == SubSeq(es, n + 1, Len(es))
           A == {i \in 1 .. n : es[i].bad}
           B == {i \in n + 1 .. Len(es) : es[i].bad}
           f == [i \in BadAt(r) |-> i + n]
<1>0. Len(es) \in Nat /\ n \in Nat /\ n <= Len(es) /\ DOMAIN es = 1 .. Len(es)
  OBVIOUS
<1>1. r \in Seq(Samples) /\ Len(r) = Len(es) - n /\ DOMAIN r = 1 .. (Len(es) - n)
  <2>1. \A i \in n + 1 .. Len(es) : es[i] \in Samples
    BY <1>0
  <2>2. r \in Seq(Samples)
    BY <1>0, <2>1, SubSeqProperties
  <2>3. Len(r) = IF n + 1 <= Len(es) THEN Len(es) - (n + 1) + 1 ELSE 0
    BY <1>0, <2>1, SubSeqProperties
  <2> HIDE DEF r
  <2>4. Len(r) = Len(es) - n
    <3>1. CASE n + 1 <= Len(es)
      BY <1>0, <2>3, <3>1
    <3>2. CASE ~(n + 1 <= Len(es))
      <4>0. \A a, b \in Nat : a <= b /\ ~(a + 1 <= b) => a = b
        OBVIOUS
      <4>1. n = Len(es)
        BY <1>0, <3>2, <4>0
      <4>2. Len(r) = 0
        BY <2>3, <3>2, Zenon
      <4> QED
        BY <1>0, <4>1, <4>2
    <3> QED
      BY <3>1, <3>2
  <2>5. DOMAIN r = 1 .. Len(r)
    BY <2>2
  <2> QED
    BY <2>2, <2>4, <2>5
<1>2. \A i \in 1 .. (Len(es) - n) : r[i] = es[i + n]
  BY <1>0
<1>3. BadAt(es) = A \cup B /\ A \cap B = {}
  BY <1>0 DEF BadAt
<1>4. /\ IsFiniteSet(A) /\ Cardinality(A) \in Nat
      /\ IsFiniteSet(B) /\ Cardinality(B) \in Nat
      /\ IsFiniteSet(BadAt(r)) /\ Cardinality(BadAt(r)) \in Nat
  <2>1. A \in SUBSET DOMAIN es /\ B \in SUBSET DOMAIN es /\ BadAt(r) \in SUBSET DOMAIN r
    BY <1>0 DEF BadAt
  <2> HIDE DEF A, B, r
  <2> QED
    BY <1>1, <2>1, PositionsFinite
<1>5. Cardinality(BadAt(es)) = Cardinality(A) + Cardinality(B)
  <2> HIDE DEF A, B
  <2>1. Cardinality(BadAt(es)) = Cardinality(A) + Cardinality(B) - Cardinality({})
    BY <1>3, <1>4, FS_Union
  <2> QED
    BY <1>4, <2>1, FS_EmptySet
<1>6. f \in Bijection(BadAt(r), B)
  <2>0. \A i : i \in BadAt(r) <=> i \in 1 .. (Len(es) - n) /\ es[i + n].bad
    <3> HIDE DEF r
    <3> QED
      BY <1>1, <1>2 DEF BadAt
  <2>1. f \in [BadAt(r) -> B]
    <3>1. \A i \in BadAt(r) : i + n \in B
      BY <1>0, <2>0
    <3> QED
      BY <3>1
  <2>2. \A i, j \in BadAt(r) : f[i] = f[j] => i = j
    <3>1. BadAt(r) \subseteq Nat
      BY <1>0, <2>0
    <3> HIDE DEF r
    <3> QED
      BY <1>0, <3>1
  <2>3. \A k \in B : \E i \in BadAt(r) : f[i] = k
    <3> TAKE k \in B
    <3>1. k - n \in BadAt(r) /\ (k - n) + n = k
      BY <1>0, <2>0
    <3> QED
      BY <3>1
  <2> HIDE DEF f, B, r
  <2> QED
    BY <2>1, <2>2, <2>3 DEF Bijection, Injection, Surjection, IsInjective
<1>7. Cardinality(B) = Cardinality(BadAt(r))
  <2> HIDE DEF f, B, r
  <2> QED
    BY <1>4, <1>6, FS_Bijection DEF ExistsBijection
<1> QED
  BY <1>1, <1>4, <1>5, <1>7

(* The window as it should be. *)
WindowOK(es, f) ==
    /\ es \in Seq(Samples) /\ Len(es) <= MaxEntries
    /\ f = Cardinality(BadAt(es))

(* push keeps the window within its limit and its count right. *)
LEMMA PushFacts ==
    ASSUME NEW es, NEW f, WindowOK(es, f), NEW s \in Samples
    PROVE  WindowOK(Push(es, f, s).entries, Push(es, f, s).failures)
<1>0. es \in Seq(Samples) /\ Len(es) \in Nat /\ f = Cardinality(BadAt(es)) /\ Len(es) <= MaxEntries
      /\ MaxEntries \in Nat \ {0}
  BY BreakerAssumption DEF WindowOK
<1>1. CASE Len(es) >= MaxEntries
  <2> DEFINE t == SubSeq(es, 2, Len(es))
  <2>1. Len(es) # 0 /\ 1 \in 0 .. Len(es) /\ Tail(es) = t /\ Head(es) = es[1]
    BY <1>0, <1>1
  <2>2. /\ t \in Seq(Samples) /\ Len(t) = Len(es) - 1
        /\ Cardinality(BadAt(t)) = f - Cardinality({i \in 1 .. 1 : es[i].bad})
    BY <1>0, <2>1, BadDrop, 1 + 1 = 2
  <2>3. Cardinality({i \in 1 .. 1 : es[i].bad}) = IF Head(es).bad THEN 1 ELSE 0
    <3>1. CASE Head(es).bad
      <4>1. {i \in 1 .. 1 : es[i].bad} = {1}
        BY <2>1, <3>1
      <4> QED
        BY <3>1, <4>1, FS_Singleton
    <3>2. CASE ~Head(es).bad
      <4>1. {i \in 1 .. 1 : es[i].bad} = {}
        BY <2>1, <3>2
      <4> QED
        BY <3>2, <4>1, FS_EmptySet
    <3> QED
      BY <3>1, <3>2
  <2>4. /\ Push(es, f, s).entries = Append(t, s)
        /\ Push(es, f, s).failures
             = f - (IF Head(es).bad THEN 1 ELSE 0) + (IF s.bad THEN 1 ELSE 0)
    BY <1>1, <2>1 DEF Push
  <2> HIDE DEF t
  <2>5. Append(t, s) \in Seq(Samples) /\ Len(Append(t, s)) = Len(es)
    BY <1>0, <2>2
  <2> QED
    BY <1>0, <2>2, <2>3, <2>4, <2>5, BadAppend DEF WindowOK
<1>2. CASE ~(Len(es) >= MaxEntries)
  <2>1. /\ Push(es, f, s).entries = Append(es, s)
        /\ Push(es, f, s).failures = f - 0 + (IF s.bad THEN 1 ELSE 0)
    BY <1>2 DEF Push
  <2>2. Append(es, s) \in Seq(Samples) /\ Len(Append(es, s)) = Len(es) + 1
    BY <1>0
  <2>3. f \in Nat
    BY <1>0, PositionsFinite DEF BadAt
  <2> QED
    BY <1>0, <1>2, <2>1, <2>2, <2>3, BadAppend DEF WindowOK
<1> QED
  BY <1>1, <1>2

(* The loop of evict stops: in front of the first entry that is young enough, or at the end. *)
LEMMA EvictStops ==
    ASSUME NEW es \in Seq(Samples), NEW now \in Nat
    PROVE  \E k \in 0 .. Len(es) :
              /\ \A i \in 1 .. k : es[i].age - now > WindowFor
              /\ k < Len(es) => es[k + 1].age - now <= WindowFor
<1> DEFINE Young == {i \in 1 .. Len(es) : ~(es[i].age - now > WindowFor)}
<1>0. Len(es) \in Nat /\ \A i \in 1 .. Len(es) : es[i].age \in Nat
  <2>1. Len(es) \in Nat /\ \A i \in 1 .. Len(es) : es[i] \in Samples
    OBVIOUS
  <2>2. \A x \in Samples : x.age \in 0 .. Horizon
    BY DEF Samples
  <2> QED
    BY <2>1, <2>2, HorizonFacts
<1>1. CASE Young = {}
  BY <1>0, <1>1
<1>2. CASE Young # {}
  <2>1. Young \subseteq Nat
    BY <1>0
  <2>2. PICK m \in Young : \A i \in Young : ~(<<i, m>> \in OpToRel(<, Nat))
    <3> HIDE DEF Young
    <3> QED
      BY <1>2, <2>1, WFMin, NatLessThanWellFounded, Zenon
  <2>3. \A i \in Young : ~(i < m)
    <3> HIDE DEF Young
    <3> QED
      BY <2>1, <2>2, Zenon DEF OpToRel
  <2>4. /\ m - 1 \in 0 .. Len(es)
        /\ \A i \in 1 .. m - 1 : es[i].age - now > WindowFor
    BY <1>0, <2>3
  <2>5. es[(m - 1) + 1].age - now <= WindowFor
    <3>1. (m - 1) + 1 = m /\ ~(es[m].age - now > WindowFor) /\ es[m].age \in Nat
      BY <1>0
    <3> QED
      BY <3>1, BreakerAssumption
  <2> QED
    BY <2>4, <2>5
<1> QED
  BY <1>1, <1>2

(* evict takes as many failures off the count as it takes failing entries out. *)
LEMMA EvictFacts ==
    ASSUME NEW es, NEW f, WindowOK(es, f), NEW now \in Nat
    PROVE  LET w == Evict([entries |-> es, failures |-> f], now)
           IN  WindowOK(w.entries, w.failures)
<1> DEFINE Stop(k) == /\ \A i \in 1 .. k : es[i].age - now > WindowFor
                      /\ k < Len(es) => es[k + 1].age - now <= WindowFor
           n == CHOOSE k \in 0 .. Len(es) : Stop(k)
           w == Evict([entries |-> es, failures |-> f], now)
<1>1. n \in 0 .. Len(es)
  BY EvictStops DEF WindowOK
<1>2. /\ w.entries = SubSeq(es, n + 1, Len(es))
      /\ w.failures = f - Cardinality({i \in 1 .. n : es[i].bad})
  BY DEF Evict
<1> HIDE DEF n, w
<1>3. Len(es) - n <= MaxEntries /\ es \in Seq(Samples)
  BY <1>1, BreakerAssumption DEF WindowOK
<1>4. WindowOK(w.entries, w.failures)
  BY <1>1, <1>2, <1>3, BadDrop DEF WindowOK
<1> QED
  BY <1>4 DEF w

(* The failing entries counted by a window whose entries are the same but for their age. *)
LEMMA BadOlder ==
    ASSUME NEW es \in Seq(Samples)
    PROVE  LET o == [i \in DOMAIN es |-> [es[i] EXCEPT !.age = Older(@)]]
           IN  o \in Seq(Samples) /\ Len(o) = Len(es) /\ BadAt(o) = BadAt(es)
<1> DEFINE o == [i \in DOMAIN es |-> [es[i] EXCEPT !.age = Older(@)]]
<1>1. \A x \in Samples :
         /\ [x EXCEPT !.age = Older(@)] \in Samples
         /\ [x EXCEPT !.age = Older(@)].bad = x.bad
  BY HorizonFacts DEF Samples
<1>2. Len(es) \in Nat /\ DOMAIN es = 1 .. Len(es) /\ \A i \in DOMAIN es : es[i] \in Samples
  OBVIOUS
<1>3. o \in [1 .. Len(es) -> Samples]
  BY <1>1, <1>2
<1>4. o \in Seq(Samples) /\ Len(o) = Len(es)
  <2> HIDE DEF o
  <2> QED
    BY <1>2, <1>3
<1>5. DOMAIN o = DOMAIN es /\ \A i \in DOMAIN es : o[i].bad = es[i].bad
  BY <1>1, <1>2
<1>6. BadAt(o) = BadAt(es)
  <2> HIDE DEF o
  <2> QED
    BY <1>5 DEF BadAt
<1> QED
  BY <1>4, <1>6

(* The inductive invariant of the breaker. *)
BreakerInv ==
    /\ LeaseInv
    /\ state \in States /\ fast \in BOOLEAN /\ probes \in 0 .. WordMax
    /\ WindowOK(entries, failures)

(* A new breaker has an empty window and well-typed atomics. *)
LEMMA InitBreaker == Init => BreakerInv
<1> SUFFICES ASSUME Init PROVE BreakerInv
  OBVIOUS
<1>1. BadAt(<< >>) = {}
  BY DEF BadAt
<1>2. WindowOK(entries, failures)
  BY <1>1, FS_EmptySet, BreakerAssumption DEF Init, WindowOK
<1>3. state \in States /\ fast \in BOOLEAN
  BY DEF Init, States
<1>4. probes \in 0 .. WordMax
  BY BreakerAssumption DEF Init
<1> QED
  BY <1>2, <1>3, <1>4, InitLease DEF BreakerInv

(* A caller's sample leaves the window as it should be. *)
LEMMA SampleWindow ==
    ASSUME BreakerInv, NEW c \in Callers, NEW bad \in BOOLEAN
    PROVE  WindowOK(Sampled(c, bad).entries, Sampled(c, bad).failures)
<1> DEFINE s == [age |-> clock[c], bad |-> bad]
           q == Push(entries, failures, s)
<1>1. clock[c] \in Nat /\ s \in Samples
  BY HorizonFacts DEF BreakerInv, LeaseInv, TimesOK, Samples
<1>2. WindowOK(q.entries, q.failures)
  <2> HIDE DEF s
  <2> QED
    BY <1>1, PushFacts DEF BreakerInv
<1>3. q = [entries |-> q.entries, failures |-> q.failures]
  BY DEF Push
<1>4. Sampled(c, bad) = Evict(q, clock[c])
  BY DEF Sampled
<1> HIDE DEF q
<1> QED
  BY <1>1, <1>2, <1>3, <1>4, EvictFacts

(* Every step keeps the types and the window's count and limit. *)
LEMMA NextBreaker ==
    ASSUME BreakerInv, [Next]_vars
    PROVE  BreakerInv'
<1>0. LeaseInv'
  BY NextLease DEF BreakerInv
<1>1. state' \in States /\ fast' \in BOOLEAN
  <2>1. ASSUME NEW c \in Callers, CheckSteps(c)
        PROVE  state' \in States /\ fast' \in BOOLEAN
    BY <2>1 DEF BreakerInv, States, CheckSteps, LoadOpened, CompareElapsed, CasHalfOpen,
       MirrorHalfOpen, Reevaluate, ReadClock, AddProbe, StoreClaim, SubProbe, LoadClaim, TakeOver,
       atomics
  <2>2. ASSUME NEW c \in Callers, RecordSteps(c)
        PROVE  state' \in States /\ fast' \in BOOLEAN
    BY <2>2 DEF BreakerInv, States, RecordSteps, Sample, TripState, TripOpened, TripProbes,
       TripFast, CloseState, CloseWindow, CloseProbes, CloseFast, atomics
  <2> QED
    BY <2>1, <2>2 DEF Next, Check, Record, Abandon, ReadErrorRate, Tick, vars, atomics, BreakerInv
<1>2. probes' \in 0 .. WordMax
  <2>1. ASSUME NEW c \in Callers, AddProbe(c) \/ SubProbe(c)
        PROVE  probes' \in 0 .. WordMax
    <3>1. \A x \in Nat : x % (WordMax + 1) \in 0 .. WordMax
      BY BreakerAssumption
    <3>2. probes + 1 \in Nat /\ probes + WordMax \in Nat
      BY BreakerAssumption DEF BreakerInv
    <3> QED
      BY <2>1, <3>1, <3>2 DEF AddProbe, SubProbe
  <2>2. ASSUME NEW c \in Callers, CheckSteps(c), ~AddProbe(c), ~SubProbe(c)
        PROVE  probes' = probes
    BY <2>2 DEF CheckSteps, LoadOpened, CompareElapsed, CasHalfOpen, MirrorHalfOpen, Reevaluate,
       ReadClock, StoreClaim, LoadClaim, TakeOver, atomics
  <2>3. ASSUME NEW c \in Callers, RecordSteps(c)
        PROVE  probes' \in {probes, 0}
    BY <2>3 DEF RecordSteps, Sample, TripState, TripOpened, TripProbes, TripFast, CloseState,
       CloseWindow, CloseProbes, CloseFast, atomics
  <2>4. ASSUME NEW c \in Callers, Check(c) \/ Abandon(c) \/ \E bad \in BOOLEAN : Record(c, bad)
        PROVE  probes' = probes
    BY <2>4 DEF Check, Abandon, Record, atomics
  <2>5. probes \in 0 .. WordMax /\ 0 \in 0 .. WordMax
    BY BreakerAssumption DEF BreakerInv
  <2> QED
    BY <2>1, <2>2, <2>3, <2>4, <2>5 DEF Next, ReadErrorRate, Tick, vars, atomics
<1>3. WindowOK(entries, failures)'
  <2>0. WindowOK(entries, failures)
    BY DEF BreakerInv
  <2>1. ASSUME NEW c \in Callers, NEW bad \in BOOLEAN, Sample(c, bad)
        PROVE  WindowOK(entries', failures')
    BY <2>1, SampleWindow DEF Sample
  <2>2. ASSUME NEW c \in Callers, CloseWindow(c)
        PROVE  WindowOK(entries', failures')
    <3>1. BadAt(<< >>) = {}
      BY DEF BadAt
    <3>2. << >> \in Seq(Samples) /\ Len(<< >>) <= MaxEntries
      BY BreakerAssumption
    <3>3. entries' = << >> /\ failures' = 0
      BY <2>2 DEF CloseWindow
    <3> QED
      BY <3>1, <3>2, <3>3, FS_EmptySet DEF WindowOK
  <2>3. CASE ReadErrorRate
    BY <2>0, <2>3, EvictFacts DEF ReadErrorRate
  <2>4. CASE Tick
    BY <2>0, <2>4, BadOlder DEF Tick, WindowOK
  <2>5. ASSUME NEW c \in Callers, CheckSteps(c)
        PROVE  UNCHANGED window
    BY <2>5 DEF CheckSteps, LoadOpened, CompareElapsed, CasHalfOpen,
       MirrorHalfOpen, Reevaluate, ReadClock, AddProbe, StoreClaim, SubProbe, LoadClaim, TakeOver
  <2>6. ASSUME NEW c \in Callers, RecordSteps(c), ~CloseWindow(c), ~\E bad \in BOOLEAN : Sample(c, bad)
        PROVE  UNCHANGED window
    BY <2>6 DEF RecordSteps, TripState, TripOpened, TripProbes, TripFast, CloseState, CloseProbes,
       CloseFast
  <2>7. ASSUME NEW c \in Callers, Check(c) \/ Abandon(c) \/ \E bad \in BOOLEAN : Record(c, bad)
        PROVE  UNCHANGED window
    BY <2>7 DEF Check, Abandon, Record
  <2>8. CASE UNCHANGED window
    BY <2>0, <2>8 DEF window
  <2>9. UNCHANGED vars => UNCHANGED window
    BY DEF vars, window
  <2> QED
    BY <2>1, <2>2, <2>3, <2>4, <2>5, <2>6, <2>7, <2>8, <2>9 DEF Next
<1> QED
  BY <1>0, <1>1, <1>2, <1>3 DEF BreakerInv

(* BreakerInv holds in every execution. *)
LEMMA BreakerInvariance == Spec => []BreakerInv
<1>1. BreakerInv /\ [Next]_vars => BreakerInv'
  BY NextBreaker
<1> QED
  BY <1>1, InitBreaker, PTL DEF Spec

(***************************************************************************)
(* The breaker's type invariant, for any limit of the window, any number   *)
(* of callers and any word: the window never outgrows MAX_WINDOW_ENTRIES   *)
(* and the failure count never goes below zero (SlidingWindow is unsigned).*)
(***************************************************************************)
THEOREM BreakerTypeCorrect == Spec => []TypeOK
<1>1. BreakerInv => TypeOK
  <2> SUFFICES ASSUME BreakerInv PROVE TypeOK
    OBVIOUS
  <2>1. entries \in Seq(Samples) /\ Len(entries) <= MaxEntries /\ failures \in Nat
    BY PositionsFinite DEF BreakerInv, WindowOK, BadAt
  <2> QED
    BY <2>1 DEF BreakerInv, LeaseInv, TimesOK, TypeOK
<1> QED
  BY <1>1, BreakerInvariance, PTL

(***************************************************************************)
(* SlidingWindow's incremental count is exact in every reachable state:    *)
(* push, evict and clear keep it, in whatever order samples arrive.        *)
(***************************************************************************)
THEOREM WindowCountIsExact == Spec => []WindowCounts
<1>1. BreakerInv => WindowCounts
  BY DEF BreakerInv, WindowOK, BadAt, WindowCounts
<1> QED
  BY <1>1, BreakerInvariance, PTL

=============================================================================
