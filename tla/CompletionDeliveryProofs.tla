---------------------- MODULE CompletionDeliveryProofs ----------------------
(***************************************************************************)
(* Proofs about CompletionDelivery, for any sets of bash tasks and         *)
(* subagents and any numbers of prompts, cancels and calls: its types, that *)
(* no completion vanishes between the surfaces, and that an exit a running *)
(* call received does not wake the model as well.                          *)
(***************************************************************************)
EXTENDS CompletionDelivery, PromptQueueProofs, TLAPS

TurnType ==
    [pc : TurnPcs, hand : SUBSET Tasks, suppress : SUBSET Tasks, got : SUBSET Tasks,
     used : SUBSET Tasks, wait : SUBSET Tasks, pristine : BOOLEAN]

Bridged == [task : Tasks, quiet : BOOLEAN]
Mailed == [kind : {"prompt", "inject"}, task : Tasks]

(* The variables TypeOK leaves out or types only in part. *)
Values ==
    /\ autoWake \in BOOLEAN
    /\ turn \in TurnType
    /\ bridge \in Seq(Bridged)
    /\ cmds \in Seq(Mailed)
    /\ notifs \in Seq(Tasks)

(* Tasks the session's mailbox speaks of, those of its prompts, and those  *)
(* the bridge will announce.                                               *)
Sent == {e.task : e \in Elems(cmds)}
Waking == {e.task : e \in {x \in Elems(cmds) : x.kind = "prompt"}}
Loud == {e.task : e \in {x \in Elems(bridge) : ~x.quiet}}

(* The tasks that somebody announces: the bridge, the mailbox, a queued    *)
(* prompt or a pending notification.                                       *)
News == Sent \cup Loud \cup Ids(queue) \cup Elems(notifs)

(* Only what has ended is announced. *)
KnownInv == News \subseteq done

(* Which of its fields a turn uses at which position. *)
LocalsInv ==
    /\ turn.pc # "wait" => turn.wait = {}
    /\ turn.pc \notin {"answered", "applying"} => turn.got = {}
    /\ turn.pc \notin {"listed", "asking", "applying", "done"} => turn.hand = {}
    /\ turn.pc \notin {"marking", "asking", "applying", "done"} => turn.used = {}
    /\ turn.pc \notin {"asked", "answered", "marking", "asking", "applying", "done"}
         => turn.suppress = {}

(* Past its start a turn's own prompt is in the conversation. *)
Past == turn.pc \in {"loop", "wait", "marking", "asking", "applying", "done"}
HeadInv == Past => Head(queue).ids \subseteq told

(* What carries a completion to the conversation and cannot miss it: a     *)
(* wait does not count, for it may expire, and neither does an answer of   *)
(* the coordinator, which is dropped when the id is already reported, or a *)
(* pending notification, which the limit may drop.                         *)
Held == turn.hand \cup turn.used
Firm == told \cup Waking \cup Ids(queue) \cup Held \cup preempted \cup aborted

(* Whatever makes a reminder skip an id is backed by such a carrier. *)
FirmInv == delivered \cup turn.suppress \cup reported \subseteq Firm

(* A subagent that ended is carried, in the coordinator's buffer, or in    *)
(* the answer a turn is about to apply.                                    *)
FoundInv == Subagents \cap done \subseteq Firm \cup unread \cup turn.got

(* A running bash task for which a wait is registered is block_waited. *)
WaitInv == \A t \in Bash \ done : Registered(t) # {} => t \in waited

(* The exit that a running call received, nobody announces. *)
AwaitInv == awaited \subseteq done /\ awaited \cap News = {}

IndInv ==
    /\ TypeOK /\ Values /\ KnownInv /\ LocalsInv /\ HeadInv
    /\ FirmInv /\ FoundInv /\ WaitInv /\ AwaitInv

-----------------------------------------------------------------------------
(* The queues.                                                             *)

(* A sequence that is not empty has the elements of its tail and its head. *)
LEMMA HeadTailElems ==
    ASSUME NEW S, NEW s \in Seq(S), s # << >>
    PROVE  /\ Head(s) \in S /\ Tail(s) \in Seq(S)
           /\ Elems(s) = {Head(s)} \cup Elems(Tail(s))
  <1> DEFINE n == Len(s)
             t == Tail(s)
  <1>1. /\ n \in Nat /\ n >= 1 /\ DOMAIN s = 1 .. n /\ t \in Seq(S) /\ Head(s) = s[1]
        /\ DOMAIN t = 1 .. (n - 1) /\ \A i \in 1 .. (n - 1) : t[i] = s[i + 1]
        /\ Head(s) \in S
    OBVIOUS
  <1> HIDE DEF n, t
  <1>2. ASSUME NEW x \in Elems(s)
        PROVE  x \in {Head(s)} \cup Elems(t)
    <2>1. PICK i \in 1 .. n : x = s[i]
      BY <1>1 DEF Elems
    <2>2. CASE i = 1
      BY <2>1, <2>2, <1>1
    <2>3. CASE i # 1
      <3>1. i - 1 \in 1 .. (n - 1) /\ (i - 1) + 1 = i
        BY <2>3, <1>1
      <3>2. t[i - 1] = x
        BY <3>1, <2>1, <1>1
      <3> QED
        BY <3>1, <3>2, <1>1 DEF Elems
    <2> QED
      BY <2>2, <2>3
  <1>3. ASSUME NEW x \in {Head(s)} \cup Elems(t)
        PROVE  x \in Elems(s)
    <2>1. CASE x = Head(s)
      BY <2>1, <1>1 DEF Elems
    <2>2. CASE x \in Elems(t)
      <3>1. PICK i \in 1 .. (n - 1) : x = t[i]
        BY <2>2, <1>1 DEF Elems
      <3>2. i + 1 \in 1 .. n /\ x = s[i + 1]
        BY <3>1, <1>1
      <3> QED
        BY <3>2, <1>1 DEF Elems
    <2> QED
      BY <1>3, <2>1, <2>2
  <1> QED
    BY <1>1, <1>2, <1>3 DEF t

(* An element that is put before a sequence begins the result. *)
LEMMA ConsHead ==
    ASSUME NEW S, NEW s \in Seq(S), NEW e \in S
    PROVE  <<e>> \o s \in Seq(S) /\ <<e>> \o s # << >> /\ Head(<<e>> \o s) = e
  <1> DEFINE a == <<e>>
  <1>1. a \in Seq(S) /\ Len(a) >= 1 /\ a[1] = e
    OBVIOUS
  <1>2. ASSUME NEW b \in Seq(S), Len(b) >= 1
        PROVE  b \o s \in Seq(S) /\ Len(b \o s) >= 1 /\ (b \o s)[1] = b[1]
    BY <1>2
  <1> HIDE DEF a
  <1>3. a \o s \in Seq(S) /\ Len(a \o s) >= 1 /\ (a \o s)[1] = e
    BY <1>1, <1>2
  <1>4. a \o s # << >> /\ Head(a \o s) = e
    BY <1>3
  <1> QED
    BY <1>3, <1>4 DEF a

(* A sweep makes no queue longer. *)
LEMMA OnlyShorter ==
    ASSUME NEW S, NEW s \in Seq(S), NEW Keep
    PROVE  Len(Only(s, Keep)) <= Len(s)
  <1> DEFINE n == Len(s)
             K == KeptAt(s, Keep)
  <1>1. n \in Nat /\ DOMAIN s = 1 .. n /\ K \subseteq 1 .. n
    BY DEF KeptAt
  <1>2. Len(Only(s, Keep)) = Cardinality(K)
    BY OnlyFacts
  <1> HIDE DEF n, K
  <1>3. IsFiniteSet(1 .. n) /\ Cardinality(1 .. n) = n
    BY <1>1, FS_Interval
  <1>4. Cardinality(K) <= Cardinality(1 .. n)
    BY <1>1, <1>3, FS_Subset
  <1> QED
    BY <1>2, <1>3, <1>4 DEF n, K

(* The prompts of the model are entries of the queue. *)
LEMMA EntryTypes ==
    /\ User \in Entries /\ User.ids = {}
    /\ \A t \in Tasks : Wake(t) \in Entries /\ Wake(t).ids = {t}
    /\ \A S \in SUBSET Tasks : Drain(S) \in Entries /\ Drain(S).ids = S
  BY DEF User, Wake, Drain, Entries

(* What a queue carries when a prompt joins it, starts it or leaves it. *)
LEMMA IdsFacts ==
    ASSUME NEW q \in Seq(Entries)
    PROVE  /\ Ids(q) \subseteq Tasks
           /\ \A e \in Entries :
                /\ Append(q, e) \in Seq(Entries) /\ Append(q, e) # << >>
                /\ Ids(Append(q, e)) = Ids(q) \cup e.ids
                /\ q # << >> => Head(Append(q, e)) = Head(q)
                /\ <<e>> \o q \in Seq(Entries) /\ <<e>> \o q # << >>
                /\ Ids(<<e>> \o q) = e.ids \cup Ids(q)
                /\ Head(<<e>> \o q) = e
                /\ <<e>> \in Seq(Entries) /\ <<e>> # << >> /\ Ids(<<e>>) = e.ids
                /\ Head(<<e>>) = e
           /\ q # << >> => /\ Head(q) \in Entries /\ Tail(q) \in Seq(Entries)
                           /\ Ids(q) = Head(q).ids \cup Ids(Tail(q))
           /\ Ids(<< >>) = {}
  <1>1. Ids(q) \subseteq Tasks
    <2>1. \A e \in Entries : e.ids \subseteq Tasks
      BY DEF Entries
    <2>2. Elems(q) \subseteq Entries
      BY ElemsFacts
    <2> QED
      BY <2>1, <2>2 DEF Ids
  <1>2. ASSUME NEW e \in Entries
        PROVE  /\ Append(q, e) \in Seq(Entries) /\ Append(q, e) # << >>
               /\ Ids(Append(q, e)) = Ids(q) \cup e.ids
               /\ q # << >> => Head(Append(q, e)) = Head(q)
    <2>1. Elems(Append(q, e)) = Elems(q) \cup {e}
      BY AppendElems
    <2>2. Ids(Append(q, e)) = Ids(q) \cup e.ids
      BY <2>1 DEF Ids
    <2> QED
      BY <2>2, AppendFacts
  <1>3. ASSUME NEW e \in Entries
        PROVE  /\ <<e>> \in Seq(Entries) /\ <<e>> # << >> /\ Ids(<<e>>) = e.ids
               /\ Head(<<e>>) = e
               /\ Elems(<<e>>) = {e}
    <2>1. Elems(<<e>>) = {e}
      BY SmallFacts
    <2>2. Ids(<<e>>) = e.ids
      BY <2>1 DEF Ids
    <2> QED
      BY <2>1, <2>2
  <1>4. ASSUME NEW e \in Entries
        PROVE  /\ <<e>> \o q \in Seq(Entries) /\ <<e>> \o q # << >>
               /\ Ids(<<e>> \o q) = e.ids \cup Ids(q)
               /\ Head(<<e>> \o q) = e
    <2> DEFINE a == <<e>>
    <2>0. a \in Seq(Entries) /\ Elems(a) = {e}
      BY <1>3
    <2> HIDE DEF a
    <2>1. Elems(a \o q) = {e} \cup Elems(q)
      BY <2>0, ConcatElems
    <2>2. Ids(a \o q) = e.ids \cup Ids(q)
      BY <2>1 DEF Ids
    <2> QED
      BY <2>2, ConsHead DEF a
  <1>5. ASSUME q # << >>
        PROVE  /\ Head(q) \in Entries /\ Tail(q) \in Seq(Entries)
               /\ Ids(q) = Head(q).ids \cup Ids(Tail(q))
    <2>1. /\ Head(q) \in Entries /\ Tail(q) \in Seq(Entries)
          /\ Elems(q) = {Head(q)} \cup Elems(Tail(q))
      BY <1>5, HeadTailElems
    <2> QED
      BY <2>1 DEF Ids
  <1>6. Ids(<< >>) = {}
    BY SmallFacts DEF Ids
  <1> QED
    BY <1>1, <1>2, <1>3, <1>4, <1>5, <1>6

(* The same for one prompt. *)
LEMMA JoinIds ==
    ASSUME NEW q \in Seq(Entries), NEW e \in Entries
    PROVE  /\ Append(q, e) \in Seq(Entries) /\ Append(q, e) # << >>
           /\ Ids(Append(q, e)) = Ids(q) \cup e.ids
           /\ q # << >> => Head(Append(q, e)) = Head(q)
           /\ <<e>> \o q \in Seq(Entries) /\ <<e>> \o q # << >>
           /\ Ids(<<e>> \o q) = e.ids \cup Ids(q)
           /\ Head(<<e>> \o q) = e
  BY IdsFacts, Zenon

(* What a sweep of the queue keeps. *)
LEMMA SweepIds ==
    ASSUME NEW q \in Seq(Entries), NEW K
    PROVE  /\ Only(q, K) \in Seq(Entries)
           /\ Ids(Only(q, K)) = UNION {e.ids : e \in Elems(q) \cap K}
  <1>1. Elems(Only(q, K)) = Elems(q) \cap K
    BY OnlyElems
  <1> QED
    BY <1>1, OnlyFacts DEF Ids

(* A sweep adds nothing. *)
LEMMA SweepShrinks ==
    ASSUME NEW q \in Seq(Entries), NEW K
    PROVE  Ids(Only(q, K)) \subseteq Ids(q)
  <1>1. Ids(Only(q, K)) = UNION {e.ids : e \in Elems(q) \cap K}
    BY SweepIds
  <1>2. Ids(q) = UNION {e.ids : e \in Elems(q)}
    BY DEF Ids
  <1> QED
    BY <1>1, <1>2

(* A prompt is among those a sweep keeps or among those it removes. *)
LEMMA SweepSplits ==
    ASSUME NEW q \in Seq(Entries), NEW K, NEW L, Entries \subseteq K \cup L
    PROVE  Ids(q) \subseteq Ids(Only(q, K)) \cup Ids(Only(q, L))
  <1>1. Elems(q) \subseteq Entries
    BY ElemsFacts
  <1>2. Elems(q) \subseteq (Elems(q) \cap K) \cup (Elems(q) \cap L)
    BY <1>1
  <1>3. Ids(Only(q, K)) = UNION {e.ids : e \in Elems(q) \cap K}
    BY SweepIds
  <1>4. Ids(Only(q, L)) = UNION {e.ids : e \in Elems(q) \cap L}
    BY SweepIds
  <1> QED
    BY <1>2, <1>3, <1>4 DEF Ids

-----------------------------------------------------------------------------
(* The turn.                                                               *)

(* A turn that has just come to a position holds nothing. *)
LEMMA TurnFields ==
    ASSUME NEW c \in TurnPcs
    PROVE  /\ Turn(c) \in TurnType
           /\ Turn(c).pc = c /\ Turn(c).hand = {} /\ Turn(c).suppress = {}
           /\ Turn(c).got = {} /\ Turn(c).used = {} /\ Turn(c).wait = {}
  BY DEF Turn, TurnType

(* A turn starts if and only if there is a prompt for it. *)
LEMMA StartedFields ==
    ASSUME NEW q
    PROVE  /\ Started(q) \in TurnType
           /\ Started(q).pc = IF q = << >> THEN "none" ELSE "start"
           /\ Started(q).hand = {} /\ Started(q).suppress = {}
           /\ Started(q).got = {} /\ Started(q).used = {} /\ Started(q).wait = {}
  <1>1. "none" \in TurnPcs /\ "start" \in TurnPcs
    BY DEF TurnPcs
  <1>2. CASE q = << >>
    BY <1>1, <1>2, TurnFields DEF Started, NoTurn
  <1>3. CASE q # << >>
    BY <1>1, <1>3, TurnFields DEF Started
  <1> QED
    BY <1>2, <1>3

(* The initial states. *)
LEMMA InitInv == Init => IndInv
  <1> SUFFICES ASSUME Init PROVE IndInv
    OBVIOUS
  <1> USE DeliveryAssumption
  <1>1. "none" \in TurnPcs
    BY DEF TurnPcs
  <1>2. /\ turn \in TurnType /\ turn.pc = "none" /\ turn.hand = {} /\ turn.suppress = {}
        /\ turn.got = {} /\ turn.used = {} /\ turn.wait = {}
    BY <1>1, TurnFields DEF Init, NoTurn
  <1>3. Elems(bridge) = {} /\ Elems(cmds) = {} /\ Elems(queue) = {} /\ Elems(notifs) = {}
    BY SmallFacts DEF Init
  <1>4. News = {}
    BY <1>3 DEF Sent, Loud, News, Ids
  <1>41. waiters \in [Tasks -> [Calls -> WaitStates]] /\ \A t \in Tasks : Registered(t) = {}
    BY DEF Init, WaitStates, Registered
  <1>42. WaitsOK
    BY <1>41 DEF Init, WaitsOK
  <1>5. TypeOK
    BY <1>1, <1>2, <1>42 DEF Init, TypeOK, Idle
  <1>6. Values
    BY <1>2 DEF Init, Values
  <1>7. KnownInv /\ LocalsInv /\ HeadInv
    BY <1>2, <1>4 DEF KnownInv, LocalsInv, HeadInv, Past
  <1>8. FirmInv /\ FoundInv
    BY <1>2 DEF Init, FirmInv, FoundInv
  <1>9. WaitInv /\ AwaitInv
    BY <1>4, <1>41 DEF Init, WaitInv, AwaitInv, Tasks
  <1> QED
    BY <1>5, <1>6, <1>7, <1>8, <1>9 DEF IndInv

(* The queues, the mailbox and the bridge stay as they are. *)
QueuesStay == UNCHANGED <<queue, cmds, bridge, notifs>>

(* What is announced is a matter of these four only. *)
LEMMA CarriersStay ==
    ASSUME QueuesStay
    PROVE  /\ Sent' = Sent /\ Waking' = Waking /\ Loud' = Loud /\ Ids(queue)' = Ids(queue)
           /\ News' = News
  BY DEF QueuesStay, Sent, Waking, Loud, News

(* A step that announces nothing new keeps awaited tasks quiet. *)
LEMMA NewsStays ==
    ASSUME IndInv, News' \subseteq News, done \subseteq done', awaited' = awaited
    PROVE  KnownInv' /\ AwaitInv'
  BY DEF IndInv, KnownInv, AwaitInv

(* The waits stay as they are, though a call that does not wait may begin. *)
WaitsSame == UNCHANGED <<waited, waiters, done>> /\ calls' \in {calls, calls + 1} /\ calls' <= MaxCalls

(* Nothing about the waits changes then. *)
LEMMA WaitsStay ==
    ASSUME IndInv, WaitsSame
    PROVE  WaitsOK' /\ WaitInv'
  <1>1. \A t : Registered(t)' = Registered(t)
    BY DEF WaitsSame, Registered
  <1>2. calls' \in 0 .. MaxCalls /\ calls <= calls' /\ calls \in 0 .. MaxCalls /\ MaxCalls \in Nat
    BY DeliveryAssumption DEF IndInv, TypeOK, WaitsOK, WaitsSame
  <1>3. \A t \in Tasks, n \in Calls : waiters'[t][n] # "none" => n <= calls'
    <2> SUFFICES ASSUME NEW t \in Tasks, NEW n \in Calls, waiters'[t][n] # "none"
                 PROVE  n <= calls'
      OBVIOUS
    <2>1. n <= calls /\ n \in Nat
      BY <1>2 DEF IndInv, TypeOK, WaitsOK, WaitsSame, Calls
    <2> QED
      BY <1>2, <2>1
  <1>4. WaitsOK'
    BY <1>1, <1>2, <1>3 DEF IndInv, TypeOK, WaitsOK, WaitsSame
  <1>5. WaitInv'
    BY <1>1 DEF IndInv, WaitInv, WaitsSame
  <1> QED
    BY <1>4, <1>5

(* The turn begins by listing the bash tasks nobody has reported. *)
LEMMA DrainBashStep == IndInv /\ DrainBash => IndInv'
  <1> SUFFICES ASSUME IndInv, DrainBash PROVE IndInv'
    OBVIOUS
  <1> DEFINE new == (Bash \cap done) \ reported
  <1>1. /\ turn' \in TurnType /\ turn'.pc = "listed" /\ turn'.hand = new
        /\ turn'.suppress = turn.suppress /\ turn'.got = turn.got /\ turn'.used = turn.used
        /\ turn'.wait = turn.wait
    BY DEF IndInv, Values, TypeOK, DrainBash, TurnType, TurnPcs, Tasks
  <1>2. /\ turn.pc = "start" /\ reported' = reported \cup new
        /\ UNCHANGED <<autoWake, tasks, bridge, unread, delivered, cmds, queue, notifs,
                       suppressed, history, bounds>>
    BY DEF DrainBash
  <1>3. Sent' = Sent /\ Waking' = Waking /\ Loud' = Loud /\ Ids(queue)' = Ids(queue)
        /\ News' = News
    BY <1>2, CarriersStay DEF QueuesStay
  <1>31. WaitsOK' /\ WaitInv'
    BY <1>2, WaitsStay DEF WaitsSame, tasks, bounds, IndInv, TypeOK, WaitsOK
  <1>32. KnownInv' /\ AwaitInv'
    BY <1>2, <1>3, NewsStays DEF tasks, history
  <1> USE <1>1, <1>2, <1>3, <1>31, <1>32 DEF IndInv
  <1>4. TypeOK'
    BY DEF TypeOK, tasks, history, Idle, TurnPcs, Tasks
  <1>5. Values'
    BY DEF Values
  <1>6. LocalsInv' /\ HeadInv'
    BY DEF LocalsInv, HeadInv, Past, tasks
  <1>7. FirmInv' /\ FoundInv'
    BY DEF FirmInv, FoundInv, Firm, Held, LocalsInv, tasks, history
  <1> QED
    BY <1>4, <1>5, <1>6, <1>7

(* A call that has its result collects reminders. *)
LEMMA CollectFields ==
    ASSUME NEW S \in SUBSET Tasks, delivered \in SUBSET Tasks, CollectFrom(S)
    PROVE  /\ turn' \in TurnType
           /\ turn'.pc = "marking" /\ turn'.hand = {} /\ turn'.suppress = S \cup delivered
           /\ turn'.got = {} /\ turn'.used = S /\ turn'.wait = {}
           /\ delivered' = {}
  BY DEF CollectFrom, Turn, TurnType, TurnPcs

(* The bash reminder enters the conversation. *)
LEMMA AskCoordinatorStep ==
    ASSUME IndInv, AskCoordinator
    PROVE  IndInv'
  <1>1. /\ turn' \in TurnType
        /\ turn'.pc = "asked"
        /\ turn'.hand = {}
        /\ turn'.suppress = delivered
        /\ turn'.got = turn.got
        /\ turn'.used = turn.used
        /\ turn'.wait = turn.wait
    BY DEF IndInv, Values, TypeOK, AskCoordinator, TurnType, TurnPcs, Tasks
  <1>2. /\ turn.pc = "listed" /\ told' = told \cup turn.hand
        /\ UNCHANGED <<autoWake, tasks, bridge, unread, sets, cmds, queue, notifs, suppressed,
                       preempted, aborted, awaited, bounds>>
    BY DEF AskCoordinator
  <1>3. Sent' = Sent /\ Waking' = Waking /\ Loud' = Loud /\ Ids(queue)' = Ids(queue)
        /\ News' = News
    BY <1>2, CarriersStay DEF QueuesStay
  <1>31. WaitsOK' /\ WaitInv'
    BY <1>2, WaitsStay DEF WaitsSame, tasks, bounds, IndInv, TypeOK, WaitsOK
  <1>32. KnownInv' /\ AwaitInv'
    BY <1>2, <1>3, NewsStays DEF tasks, history
  <1> USE <1>1, <1>2, <1>3, <1>31, <1>32 DEF IndInv, tasks, sets, history, session
  <1>4. TypeOK'
    BY DEF TypeOK, Idle, TurnPcs, Tasks, Values, TurnType
  <1>5. Values'
    BY DEF Values
  <1>6. LocalsInv' /\ HeadInv'
    BY DEF LocalsInv, HeadInv, Past
  <1>7. FirmInv' /\ FoundInv'
    BY DEF FirmInv, FoundInv, Firm, Held, LocalsInv
  <1> QED
    BY <1>4, <1>5, <1>6, <1>7

(* The coordinator's buffer is emptied into the turn. *)
LEMMA CompletionsStep ==
    ASSUME IndInv, Completions
    PROVE  IndInv'
  <1>1. /\ turn' \in TurnType
        /\ turn'.pc = (IF turn.pc = "asked" THEN "answered" ELSE "applying")
        /\ turn'.hand = turn.hand
        /\ turn'.suppress = turn.suppress
        /\ turn'.got = unread \ turn.suppress
        /\ turn'.used = turn.used
        /\ turn'.wait = turn.wait
    BY DEF IndInv, Values, TypeOK, Completions, TurnType, TurnPcs, Tasks
  <1>2. /\ turn.pc \in {"asked", "asking"} /\ unread' = {}
        /\ UNCHANGED <<autoWake, tasks, bridge, sets, cmds, queue, notifs, suppressed, history, bounds>>
    BY DEF Completions
  <1>3. Sent' = Sent /\ Waking' = Waking /\ Loud' = Loud /\ Ids(queue)' = Ids(queue)
        /\ News' = News
    BY <1>2, CarriersStay DEF QueuesStay
  <1>31. WaitsOK' /\ WaitInv'
    BY <1>2, WaitsStay DEF WaitsSame, tasks, bounds, IndInv, TypeOK, WaitsOK
  <1>32. KnownInv' /\ AwaitInv'
    BY <1>2, <1>3, NewsStays DEF tasks, history
  <1> USE <1>1, <1>2, <1>3, <1>31, <1>32 DEF IndInv, tasks, sets, history, session
  <1>4. TypeOK'
    BY DEF TypeOK, Idle, TurnPcs, Tasks, Values, TurnType
  <1>5. Values'
    BY DEF Values
  <1>6. LocalsInv' /\ HeadInv'
    BY DEF LocalsInv, HeadInv, Past
  <1>7. FirmInv' /\ FoundInv'
    BY DEF FirmInv, FoundInv, Firm, Held, LocalsInv
  <1> QED
    BY <1>4, <1>5, <1>6, <1>7

(* The turn's own prompt enters the conversation. *)
LEMMA PushPromptStep ==
    ASSUME IndInv, PushPrompt
    PROVE  IndInv'
  <1>1. /\ turn' \in TurnType
        /\ turn'.pc = "loop"
        /\ turn'.hand = {}
        /\ turn'.suppress = {}
        /\ turn'.got = {}
        /\ turn'.used = {}
        /\ turn'.wait = {}
    BY TurnFields DEF IndInv, Values, TypeOK, PushPrompt, TurnType, TurnPcs, Tasks
  <1>2. /\ turn.pc = "answered" /\ told' = told \cup turn.got \cup Head(queue).ids
        /\ UNCHANGED <<autoWake, tasks, bridge, unread, sets, cmds, queue, notifs, suppressed,
                       preempted, aborted, awaited, bounds>>
    BY DEF PushPrompt
  <1>3. Sent' = Sent /\ Waking' = Waking /\ Loud' = Loud /\ Ids(queue)' = Ids(queue)
        /\ News' = News
    BY <1>2, CarriersStay DEF QueuesStay
  <1>31. WaitsOK' /\ WaitInv'
    BY <1>2, WaitsStay DEF WaitsSame, tasks, bounds, IndInv, TypeOK, WaitsOK
  <1>32. KnownInv' /\ AwaitInv'
    BY <1>2, <1>3, NewsStays DEF tasks, history
  <1> USE <1>1, <1>2, <1>3, <1>31, <1>32 DEF IndInv, tasks, sets, history, session
  <1>4. TypeOK'
    BY IdsFacts DEF TypeOK, Idle, TurnPcs, Tasks, Values, TurnType
  <1>5. Values'
    BY DEF Values
  <1>6. LocalsInv' /\ HeadInv'
    BY DEF LocalsInv, HeadInv, Past
  <1>7. FirmInv' /\ FoundInv'
    BY DEF FirmInv, FoundInv, Firm, Held, LocalsInv
  <1> QED
    BY <1>4, <1>5, <1>6, <1>7

(* A call asks for tasks. *)
LEMMA ToolCallStep ==
    ASSUME NEW S \in SUBSET Tasks, IndInv, ToolCall(S)
    PROVE  IndInv'
  <1>1. /\ turn' \in TurnType
        /\ turn'.pc = "marking"
        /\ turn'.hand = {}
        /\ turn'.suppress = (S \cap done) \cup delivered
        /\ turn'.got = {}
        /\ turn'.used = S \cap done
        /\ turn'.wait = {}
    BY CollectFields DEF IndInv, Values, TypeOK, ToolCall, TurnType
  <1>2. /\ turn.pc = "loop" /\ delivered' = {}
        /\ UNCHANGED <<autoWake, tasks, bridge, unread, reported, cmds, queue, notifs, suppressed,
                       history>>
        /\ calls < MaxCalls /\ calls' = calls + 1
    BY DEF ToolCall, CollectFrom
  <1>3. Sent' = Sent /\ Waking' = Waking /\ Loud' = Loud /\ Ids(queue)' = Ids(queue)
        /\ News' = News
    BY <1>2, CarriersStay DEF QueuesStay
  <1>31. WaitsOK' /\ WaitInv'
    BY <1>2, WaitsStay, DeliveryAssumption DEF WaitsSame, tasks, IndInv, TypeOK, WaitsOK
  <1>32. KnownInv' /\ AwaitInv'
    BY <1>2, <1>3, NewsStays DEF tasks, history
  <1> USE <1>1, <1>2, <1>3, <1>31, <1>32 DEF IndInv, tasks, sets, history, session
  <1>4. TypeOK'
    BY DEF TypeOK, Idle, TurnPcs, Tasks, Values, TurnType
  <1>5. Values'
    BY DEF Values
  <1>6. LocalsInv' /\ HeadInv'
    BY DEF LocalsInv, HeadInv, Past
  <1>7. FirmInv' /\ FoundInv'
    BY DEF FirmInv, FoundInv, Firm, Held, LocalsInv
  <1> QED
    BY <1>4, <1>5, <1>6, <1>7

(* A call looks its tasks up and spawns helpers for those that run. *)
LEMMA BeginWaitStep ==
    ASSUME NEW S \in SUBSET Tasks, IndInv, BeginWait(S)
    PROVE  IndInv'
  <1>1. /\ turn' \in TurnType
        /\ turn'.pc = "wait"
        /\ turn'.hand = turn.hand
        /\ turn'.suppress = turn.suppress
        /\ turn'.got = turn.got
        /\ turn'.used = turn.used
        /\ turn'.wait = S
    BY DEF IndInv, Values, TypeOK, BeginWait, TurnType, TurnPcs, Tasks
  <1>2. /\ turn.pc = "loop" /\ calls < MaxCalls /\ calls' = calls + 1
        /\ waiters' = [t \in Tasks |-> IF t \in S \ done
                                       THEN [waiters[t] EXCEPT ![calls'] = "spawned"]
                                       ELSE waiters[t]]
        /\ UNCHANGED <<autoWake, done, killed, waited, bridge, unread, sets, cmds, queue, notifs,
                       suppressed, history>>
    BY DEF BeginWait
  <1>3. /\ Sent' = Sent /\ Waking' = Waking /\ Loud' = Loud /\ Ids(queue)' = Ids(queue)
        /\ News' = News
    BY <1>2, CarriersStay DEF QueuesStay
  <1>31. WaitsOK' /\ WaitInv'
    <2>1. /\ waiters \in [Tasks -> [Calls -> WaitStates]] /\ calls \in 0 .. MaxCalls
          /\ MaxCalls \in Nat /\ waited \subseteq Tasks \ done
      BY DeliveryAssumption DEF IndInv, TypeOK, WaitsOK
    <2>2. calls' \in Calls /\ calls' \in 0 .. MaxCalls /\ calls < calls'
      BY <1>2, <2>1 DEF Calls
    <2> DEFINE k == calls'
    <2> HIDE DEF k
    <2>3. waiters' \in [Tasks -> [Calls -> WaitStates]]
      BY <1>2, <2>1 DEF WaitStates
    <2>4. \A t \in Tasks, n \in Calls :
             waiters'[t][n] = IF t \in S \ done /\ n = calls' THEN "spawned" ELSE waiters[t][n]
      BY <1>2, <2>1
    <2>5. \A t \in Tasks : Registered(t)' \subseteq Registered(t)
      BY <2>4 DEF Registered
    <2>6. \A t \in Tasks, n \in Calls : waiters'[t][n] # "none" => n <= calls'
      <3> SUFFICES ASSUME NEW t \in Tasks, NEW n \in Calls, waiters'[t][n] # "none", n # calls'
                   PROVE  n <= calls'
        BY <2>2
      <3>1. n <= calls /\ n \in Nat
        BY <2>1, <2>4 DEF IndInv, TypeOK, WaitsOK, Calls
      <3> QED
        BY <3>1, <2>1, <2>2
    <2>7. WaitsOK'
      BY <1>2, <2>1, <2>2, <2>3, <2>5, <2>6 DEF IndInv, TypeOK, WaitsOK
    <2>8. WaitInv'
      BY <1>2, <2>5 DEF IndInv, WaitInv, Tasks
    <2> QED
      BY <2>7, <2>8
  <1>32. KnownInv' /\ AwaitInv'
    BY <1>2, <1>3, NewsStays DEF history
  <1> USE <1>1, <1>2, <1>3, <1>31, <1>32 DEF IndInv, tasks, sets, history, session
  <1>4. TypeOK'
    BY DEF TypeOK, Idle, TurnPcs, Tasks, Values, TurnType
  <1>5. Values'
    BY DEF Values
  <1>6. LocalsInv' /\ HeadInv'
    BY DEF LocalsInv, HeadInv, Past
  <1>7. FirmInv' /\ FoundInv'
    BY DEF FirmInv, FoundInv, Firm, Held, LocalsInv
  <1> QED
    BY <1>4, <1>5, <1>6, <1>7

(* A wait returns. *)
LEMMA EndWaitStep ==
    ASSUME IndInv, EndWait
    PROVE  IndInv'
  <1>1. /\ turn' \in TurnType
        /\ turn'.pc = "marking"
        /\ turn'.hand = {}
        /\ turn'.suppress = (turn.wait \cap done) \cup delivered
        /\ turn'.got = {}
        /\ turn'.used = turn.wait \cap done
        /\ turn'.wait = {}
    BY CollectFields DEF IndInv, Values, TypeOK, EndWait, TurnType
  <1>2. /\ turn.pc = "wait" /\ delivered' = {}
        /\ UNCHANGED <<autoWake, tasks, bridge, unread, reported, cmds, queue,
                       notifs, suppressed, history, bounds>>
    BY DEF EndWait, CollectFrom
  <1>3. Sent' = Sent /\ Waking' = Waking /\ Loud' = Loud /\ Ids(queue)' = Ids(queue)
        /\ News' = News
    BY <1>2, CarriersStay DEF QueuesStay
  <1>31. WaitsOK' /\ WaitInv'
    BY <1>2, WaitsStay DEF WaitsSame, tasks, bounds, IndInv, TypeOK, WaitsOK
  <1>32. KnownInv' /\ AwaitInv'
    BY <1>2, <1>3, NewsStays DEF tasks, history
  <1> USE <1>1, <1>2, <1>3, <1>31, <1>32 DEF IndInv, tasks, sets, history, session
  <1>4. TypeOK'
    BY DEF TypeOK, Idle, TurnPcs, Tasks, Values, TurnType
  <1>5. Values'
    BY DEF Values
  <1>6. LocalsInv' /\ HeadInv'
    BY DEF LocalsInv, HeadInv, Past
  <1>7. FirmInv' /\ FoundInv'
    BY DEF FirmInv, FoundInv, Firm, Held, LocalsInv
  <1> QED
    BY <1>4, <1>5, <1>6, <1>7

(* The reminder pass marks what it will not repeat. *)
LEMMA ReminderMarksStep ==
    ASSUME IndInv, ReminderMarks
    PROVE  IndInv'
  <1> DEFINE new == (Bash \cap done) \ (reported \cup turn.suppress)
  <1>1. /\ turn' \in TurnType
        /\ turn'.pc = "asking"
        /\ turn'.hand = new
        /\ turn'.suppress = turn.suppress
        /\ turn'.got = turn.got
        /\ turn'.used = turn.used
        /\ turn'.wait = turn.wait
    BY DEF IndInv, Values, TypeOK, ReminderMarks, TurnType, TurnPcs, Tasks
  <1>2. /\ turn.pc = "marking" /\ reported' = reported \cup turn.suppress \cup new
        /\ UNCHANGED <<autoWake, tasks, bridge, unread, delivered, cmds, queue, notifs,
                       suppressed, history, bounds>>
    BY DEF ReminderMarks
  <1>3. Sent' = Sent /\ Waking' = Waking /\ Loud' = Loud /\ Ids(queue)' = Ids(queue)
        /\ News' = News
    BY <1>2, CarriersStay DEF QueuesStay
  <1>31. WaitsOK' /\ WaitInv'
    BY <1>2, WaitsStay DEF WaitsSame, tasks, bounds, IndInv, TypeOK, WaitsOK
  <1>32. KnownInv' /\ AwaitInv'
    BY <1>2, <1>3, NewsStays DEF tasks, history
  <1> USE <1>1, <1>2, <1>3, <1>31, <1>32 DEF IndInv, tasks, sets, history, session
  <1>4. TypeOK'
    BY DEF TypeOK, Idle, TurnPcs, Tasks, Values, TurnType
  <1>5. Values'
    BY DEF Values
  <1>6. LocalsInv' /\ HeadInv'
    BY DEF LocalsInv, HeadInv, Past
  <1>7. FirmInv' /\ FoundInv'
    BY DEF FirmInv, FoundInv, Firm, Held, LocalsInv
  <1> QED
    BY <1>4, <1>5, <1>6, <1>7

(* The reminder pass takes from the coordinator's answer what nobody has reported. *)
LEMMA ReminderAppliesStep ==
    ASSUME IndInv, ReminderApplies
    PROVE  IndInv'
  <1>1. /\ turn' \in TurnType
        /\ turn'.pc = "done"
        /\ turn'.hand = turn.hand \cup (turn.got \ reported)
        /\ turn'.suppress = turn.suppress
        /\ turn'.got = {}
        /\ turn'.used = turn.used
        /\ turn'.wait = turn.wait
    BY DEF IndInv, Values, TypeOK, ReminderApplies, TurnType, TurnPcs, Tasks
  <1>2. /\ turn.pc = "applying" /\ reported' = reported \cup turn.got
        /\ UNCHANGED <<autoWake, tasks, bridge, unread, delivered, cmds, queue, notifs,
                       suppressed, history, bounds>>
    BY DEF ReminderApplies
  <1>3. Sent' = Sent /\ Waking' = Waking /\ Loud' = Loud /\ Ids(queue)' = Ids(queue)
        /\ News' = News
    BY <1>2, CarriersStay DEF QueuesStay
  <1>31. WaitsOK' /\ WaitInv'
    BY <1>2, WaitsStay DEF WaitsSame, tasks, bounds, IndInv, TypeOK, WaitsOK
  <1>32. KnownInv' /\ AwaitInv'
    BY <1>2, <1>3, NewsStays DEF tasks, history
  <1> USE <1>1, <1>2, <1>3, <1>31, <1>32 DEF IndInv, tasks, sets, history, session
  <1>4. TypeOK'
    BY DEF TypeOK, Idle, TurnPcs, Tasks, Values, TurnType
  <1>5. Values'
    BY DEF Values
  <1>6. LocalsInv' /\ HeadInv'
    BY DEF LocalsInv, HeadInv, Past
  <1>7. FirmInv' /\ FoundInv'
    BY DEF FirmInv, FoundInv, Firm, Held, LocalsInv
  <1> QED
    BY <1>4, <1>5, <1>6, <1>7

(* A step of a wait changes nothing but the wait and the flag. *)
WaitMoves ==
    UNCHANGED <<autoWake, done, killed, bridge, unread, sets, cmds, session, history, bounds>>

(* Such a step preserves whatever is not about waits. *)
LEMMA WaitMovesStep ==
    ASSUME IndInv, WaitMoves, WaitsOK', WaitInv'
    PROVE  IndInv'
  <1> USE DEF WaitMoves, sets, session, history, bounds
  <1>1. /\ Sent' = Sent /\ Waking' = Waking /\ Loud' = Loud /\ Ids(queue)' = Ids(queue)
        /\ News' = News
    BY CarriersStay DEF QueuesStay
  <1>2. KnownInv' /\ AwaitInv'
    BY <1>1, NewsStays
  <1>3. TypeOK' /\ Values'
    BY DEF IndInv, TypeOK, Values, Idle
  <1>4. LocalsInv' /\ HeadInv'
    BY DEF IndInv, LocalsInv, HeadInv, Past
  <1>5. FirmInv' /\ FoundInv'
    BY <1>1 DEF IndInv, FirmInv, FoundInv, Firm, Held
  <1> QED
    BY <1>2, <1>3, <1>4, <1>5 DEF IndInv

(* One wait of a task changes, and it is registered only if the task runs. *)
OneWait(t, n, v) ==
    /\ v \in WaitStates
    /\ n \in Calls /\ waiters[t][n] # "none"
    /\ v \in {"open", "dropped"} => t \notin done
    /\ waiters' = [waiters EXCEPT ![t][n] = v]
    /\ waited' \subseteq waited \cup ({t} \ done)
    /\ t \in Bash \ done /\ Registered(t)' # {} => t \in waited'
    /\ waited \ {t} \subseteq waited'

(* What such a change leaves of the invariant on waits. *)
LEMMA OneWaitStep ==
    ASSUME IndInv, WaitMoves, NEW t \in Tasks, NEW n, NEW v, OneWait(t, n, v)
    PROVE  IndInv'
  <1>1. /\ waiters \in [Tasks -> [Calls -> WaitStates]] /\ waited \subseteq Tasks \ done
        /\ n \in Calls /\ v \in WaitStates
    BY DEF IndInv, TypeOK, WaitsOK, OneWait
  <1>2. waiters' \in [Tasks -> [Calls -> WaitStates]]
    BY <1>1 DEF OneWait
  <1>3. \A u \in Tasks, m \in Calls :
           waiters'[u][m] = IF u = t /\ m = n THEN v ELSE waiters[u][m]
    BY <1>1 DEF OneWait
  <1>4. UNCHANGED <<done, calls>>
    BY DEF WaitMoves, bounds
  <1>5. \A u \in Tasks \ {t} : Registered(u)' = Registered(u)
    BY <1>3 DEF Registered
  <1>6. t \in done => Registered(t)' \subseteq Registered(t)
    BY <1>3 DEF Registered, OneWait
  <1>7. \A u \in Tasks, m \in Calls : waiters'[u][m] # "none" => m <= calls'
    BY <1>1, <1>3, <1>4 DEF IndInv, TypeOK, WaitsOK, OneWait
  <1>8. \A u \in done' : Registered(u)' = {}
    BY <1>4, <1>5, <1>6 DEF IndInv, TypeOK, WaitsOK
  <1>9. WaitsOK'
    BY <1>1, <1>2, <1>4, <1>7, <1>8 DEF IndInv, TypeOK, WaitsOK, OneWait
  <1>10. WaitInv'
    <2> SUFFICES ASSUME NEW u \in Bash \ done, Registered(u)' # {} PROVE u \in waited'
      BY <1>4 DEF WaitInv
    <2>1. CASE u = t
      BY <2>1 DEF OneWait
    <2>2. CASE u # t
      <3>1. u \in waited
        BY <2>2, <1>5 DEF IndInv, WaitInv, Tasks
      <3> QED
        BY <2>2, <3>1 DEF OneWait
    <2> QED
      BY <2>1, <2>2
  <1> QED
    BY <1>9, <1>10, WaitMovesStep

(* A helper's request is registered, or answered at once. *)
LEMMA RegisterWaitStep ==
    ASSUME NEW t \in Tasks, NEW n \in Calls, IndInv, RegisterWait(t, n)
    PROVE  IndInv'
  <1> DEFINE v == IF t \in done THEN "none" ELSE "open"
  <1>1. OneWait(t, n, v)
    BY DEF RegisterWait, OneWait, WaitStates
  <1> HIDE DEF v
  <1> QED
    BY <1>1, OneWaitStep DEF RegisterWait, WaitMoves

(* A helper is torn down. *)
LEMMA HelperAbortedStep ==
    ASSUME NEW t \in Tasks, NEW n \in Calls, IndInv, HelperAborted(t, n)
    PROVE  IndInv'
  <1> DEFINE v == IF waiters[t][n] = "open" THEN "dropped" ELSE "none"
  <1>1. /\ waiters[t][n] \in {"spawned", "open"} /\ waiters' = [waiters EXCEPT ![t][n] = v]
        /\ waited' = waited /\ done' = done
    BY DEF HelperAborted
  <1>2. waiters \in [Tasks -> [Calls -> WaitStates]]
    BY DEF IndInv, TypeOK, WaitsOK
  <1>3. \A m \in Calls : waiters'[t][m] = IF m = n THEN v ELSE waiters[t][m]
    BY <1>1, <1>2
  <1>4. Registered(t)' \subseteq Registered(t)
    BY <1>1, <1>3 DEF Registered
  <1>5. v \in {"open", "dropped"} => t \notin done
    <2>1. ASSUME v \in {"open", "dropped"} PROVE n \in Registered(t)
      BY <2>1 DEF Registered
    <2> QED
      BY <2>1 DEF IndInv, TypeOK, WaitsOK
  <1>6. t \in Bash \ done /\ Registered(t)' # {} => t \in waited'
    BY <1>1, <1>4 DEF IndInv, WaitInv
  <1>7. v \in WaitStates
    BY DEF WaitStates
  <1>8. OneWait(t, n, v)
    BY <1>1, <1>5, <1>6, <1>7 DEF OneWait
  <1> HIDE DEF v
  <1> QED
    BY <1>8, OneWaitStep DEF HelperAborted, WaitMoves

(* A wait passes its deadline. *)
LEMMA WaitExpiresStep ==
    ASSUME NEW t \in Tasks, NEW n \in Calls, IndInv, WaitExpires(t, n)
    PROVE  IndInv'
  <1>1. /\ n \in Registered(t) /\ waiters' = [waiters EXCEPT ![t][n] = "none"]
        /\ waited' = IF ClearsAtExpiry(t, n) THEN waited \ {t} ELSE waited
    BY DEF WaitExpires
  <1>2. waiters \in [Tasks -> [Calls -> WaitStates]]
    BY DEF IndInv, TypeOK, WaitsOK
  <1>3. \A m \in Calls : waiters'[t][m] = IF m = n THEN "none" ELSE waiters[t][m]
    BY <1>1, <1>2
  <1>4. Registered(t)' = Registered(t) \ {n}
    BY <1>3 DEF Registered
  <1>5. t \in Bash \ done /\ Registered(t)' # {} => t \in waited'
    BY <1>1, <1>4, DeliveryAssumption DEF IndInv, WaitInv, ClearsAtExpiry
  <1>6. OneWait(t, n, "none")
    BY <1>1, <1>5 DEF OneWait, WaitStates, Registered
  <1> QED
    BY <1>6, OneWaitStep DEF WaitExpires, WaitMoves

(* The poll loop of a query finds its receiver gone. *)
LEMMA WaiterGoneStep ==
    ASSUME NEW t \in Tasks, NEW n \in Calls, IndInv, SubagentWaiterGone(t, n)
    PROVE  IndInv'
  <1>1. t \notin Bash
    BY DeliveryAssumption DEF SubagentWaiterGone
  <1>2. OneWait(t, n, "none")
    BY <1>1 DEF SubagentWaiterGone, OneWait, WaitStates
  <1> QED
    BY <1>2, OneWaitStep DEF SubagentWaiterGone, WaitMoves

-----------------------------------------------------------------------------
(* Steps that move news from one carrier to another.                       *)

(* A completion joins the bridge. *)
LEMMA BridgeAppend ==
    ASSUME bridge \in Seq(Bridged), NEW x \in Bridged, bridge' = Append(bridge, x)
    PROVE  /\ bridge' \in Seq(Bridged)
           /\ Loud' = Loud \cup (IF x.quiet THEN {} ELSE {x.task})
  <1>1. Elems(bridge)' = Elems(bridge) \cup {x}
    BY AppendElems
  <1> QED
    BY <1>1 DEF Loud

(* The bridge takes the oldest completion. *)
LEMMA BridgeTail ==
    ASSUME bridge \in Seq(Bridged), bridge # << >>, bridge' = Tail(bridge)
    PROVE  /\ bridge' \in Seq(Bridged) /\ Head(bridge) \in Bridged
           /\ Loud = Loud' \cup (IF Head(bridge).quiet THEN {} ELSE {Head(bridge).task})
  <1>1. /\ Head(bridge) \in Bridged /\ bridge' \in Seq(Bridged)
        /\ Elems(bridge) = {Head(bridge)} \cup Elems(bridge)'
    BY HeadTailElems
  <1> QED
    BY <1>1 DEF Loud

(* A message joins the session's mailbox. *)
LEMMA CmdsAppend ==
    ASSUME cmds \in Seq(Mailed), NEW x \in Mailed, cmds' = Append(cmds, x)
    PROVE  /\ cmds' \in Seq(Mailed) /\ Sent' = Sent \cup {x.task}
           /\ Waking' = Waking \cup (IF x.kind = "prompt" THEN {x.task} ELSE {})
  <1>1. Elems(cmds)' = Elems(cmds) \cup {x}
    BY AppendElems
  <1> QED
    BY <1>1 DEF Sent, Waking

(* The session takes the oldest message. *)
LEMMA CmdsTail ==
    ASSUME cmds \in Seq(Mailed), cmds # << >>, cmds' = Tail(cmds)
    PROVE  /\ cmds' \in Seq(Mailed) /\ Head(cmds) \in Mailed
           /\ Sent = Sent' \cup {Head(cmds).task}
           /\ Waking = Waking' \cup (IF Head(cmds).kind = "prompt" THEN {Head(cmds).task} ELSE {})
  <1>1. /\ Head(cmds) \in Mailed /\ cmds' \in Seq(Mailed)
        /\ Elems(cmds) = {Head(cmds)} \cup Elems(cmds)'
    BY HeadTailElems
  <1> QED
    BY <1>1 DEF Sent, Waking

(* The end of a task that may be announced, unless a call received it. *)
LEMMA NewsJoins ==
    ASSUME IndInv, NEW t, t \notin done, done' = done \cup {t}, News' \subseteq News \cup {t},
           awaited' \subseteq awaited \cup {t}, t \in awaited' => t \notin News'
    PROVE  KnownInv' /\ AwaitInv'
  BY DEF IndInv, KnownInv, AwaitInv

(* A task ends and its waits are answered, perhaps by the call that ends it. *)
WaitsEnd(t) ==
    /\ t \notin done /\ done' = done \cup {t} /\ waited' = waited \ {t}
    /\ waiters' = Unregistered(t)
    /\ calls' \in {calls, calls + 1} /\ calls' <= MaxCalls

(* No wait for it is registered any more. *)
LEMMA WaitsEndStep ==
    ASSUME IndInv, NEW t \in Tasks, WaitsEnd(t)
    PROVE  WaitsOK' /\ WaitInv'
  <1>1. /\ waiters \in [Tasks -> [Calls -> WaitStates]] /\ calls \in 0 .. MaxCalls
        /\ MaxCalls \in Nat /\ waited \subseteq Tasks \ done
    BY DeliveryAssumption DEF IndInv, TypeOK, WaitsOK
  <1>2. calls' \in 0 .. MaxCalls /\ calls <= calls'
    BY <1>1 DEF WaitsEnd
  <1>3. waiters' \in [Tasks -> [Calls -> WaitStates]]
    BY <1>1 DEF WaitsEnd, Unregistered, WaitStates
  <1>4. \A u \in Tasks, m \in Calls :
           waiters'[u][m] = IF u = t /\ m \in Registered(t) THEN "none" ELSE waiters[u][m]
    BY <1>1 DEF WaitsEnd, Unregistered
  <1>5. \A u \in Tasks \ {t} : Registered(u)' = Registered(u)
    BY <1>4 DEF Registered
  <1>6. Registered(t)' = {}
    BY <1>4 DEF Registered
  <1>7. \A u \in Tasks, m \in Calls : waiters'[u][m] # "none" => m <= calls'
    <2> SUFFICES ASSUME NEW u \in Tasks, NEW m \in Calls, waiters'[u][m] # "none"
                 PROVE  m <= calls'
      OBVIOUS
    <2>1. m <= calls /\ m \in Nat
      BY <1>1, <1>4 DEF IndInv, TypeOK, WaitsOK, Calls
    <2> QED
      BY <1>1, <1>2, <2>1
  <1>8. \A u \in done' : Registered(u)' = {}
    BY <1>5, <1>6 DEF IndInv, TypeOK, WaitsOK, WaitsEnd
  <1>9. WaitsOK'
    BY <1>1, <1>2, <1>3, <1>7, <1>8 DEF WaitsOK, WaitsEnd
  <1>10. WaitInv'
    BY <1>5, <1>6 DEF IndInv, WaitInv, WaitsEnd, Tasks
  <1> QED
    BY <1>9, <1>10

(* A background command ends. *)
LEMMA BashExitsStep ==
    ASSUME NEW t \in Tasks, IndInv, BashExits(t)
    PROVE  IndInv'
  <1> DEFINE q == WaitedAtExit(t) \/ t \in killed
             x == [task |-> t, quiet |-> q]
  <1>1. /\ t \in Bash /\ t \notin done /\ done' = done \cup {t} /\ bridge' = Append(bridge, x)
        /\ awaited' = (IF Live(t) THEN awaited \cup {t} ELSE awaited)
        /\ UNCHANGED <<autoWake, killed, unread, sets, cmds, session, told, preempted, aborted>>
    BY DEF BashExits
  <1>2. WaitsEnd(t)
    BY DEF BashExits, WaitsEnd, bounds, IndInv, TypeOK, WaitsOK
  <1>3. q \in BOOLEAN
    BY DEF WaitedAtExit
  <1>4. x \in Bridged /\ x.task = t /\ x.quiet = q
    BY <1>3 DEF Bridged
  <1>5. Live(t) => q
    <2>1. Live(t) => Open(t) # {}
      BY DEF Live
    <2>2. Open(t) # {} => Registered(t) # {}
      BY DEF Open, Registered
    <2> QED
      BY <1>1, <2>1, <2>2 DEF IndInv, WaitInv, WaitedAtExit
  <1> HIDE DEF x, q
  <1>6. /\ bridge' \in Seq(Bridged) /\ Loud' = Loud \cup (IF q THEN {} ELSE {t})
        /\ Sent' = Sent /\ Waking' = Waking /\ Ids(queue)' = Ids(queue)
    BY <1>1, <1>4, BridgeAppend DEF IndInv, Values, Sent, Waking, session
  <1>7. News' = News \cup (IF q THEN {} ELSE {t})
    BY <1>1, <1>6 DEF News, session
  <1>8. t \notin News
    BY <1>1 DEF IndInv, KnownInv
  <1>9. KnownInv' /\ AwaitInv'
    <2>1. t \in awaited' => t \notin News'
      BY <1>1, <1>5, <1>7, <1>8 DEF IndInv, AwaitInv
    <2> QED
      BY <1>1, <1>7, <2>1, NewsJoins
  <1>10. WaitsOK' /\ WaitInv'
    BY <1>2, WaitsEndStep
  <1> USE <1>1, <1>6, <1>9, <1>10 DEF IndInv, sets, session
  <1>11. TypeOK'
    BY DEF TypeOK, Idle, TurnPcs, Tasks
  <1>12. Values'
    BY DEF Values
  <1>13. LocalsInv' /\ HeadInv'
    BY DEF LocalsInv, HeadInv, Past
  <1>14. FirmInv' /\ FoundInv'
    BY DeliveryAssumption DEF FirmInv, FoundInv, Firm, Held
  <1> QED
    BY <1>11, <1>12, <1>13, <1>14

(* A subagent ends. *)
LEMMA SubagentFinishesStep ==
    ASSUME NEW t \in Tasks, NEW c \in BOOLEAN, IndInv, SubagentFinishes(t, c)
    PROVE  IndInv'
  <1> DEFINE x == [kind |-> "prompt", task |-> t]
             wakes == autoWake /\ t \notin killed' /\ ~DeliveredOrLive(t)
  <1>1. /\ t \in Subagents /\ t \notin done /\ done' = done \cup {t}
        /\ killed' \subseteq killed \cup {t}
        /\ unread' = unread \cup {t}
        /\ delivered' = IF wakes THEN delivered \cup {t} ELSE delivered
        /\ cmds' = IF wakes THEN Append(cmds, x) ELSE cmds
        /\ UNCHANGED <<autoWake, bridge, reported, session, told, preempted, aborted, awaited>>
    BY DEF SubagentFinishes
  <1>2. WaitsEnd(t)
    BY DEF SubagentFinishes, WaitsEnd, bounds, IndInv, TypeOK, WaitsOK
  <1>3. x \in Mailed /\ x.task = t /\ x.kind = "prompt"
    BY DEF Mailed
  <1> HIDE DEF x, wakes
  <1>4. /\ cmds' \in Seq(Mailed) /\ Sent' = IF wakes THEN Sent \cup {t} ELSE Sent
        /\ Waking' = IF wakes THEN Waking \cup {t} ELSE Waking
        /\ Loud' = Loud /\ Ids(queue)' = Ids(queue)
    <2>1. CASE wakes
      BY <1>1, <1>3, <2>1, CmdsAppend DEF IndInv, Values, Loud, session
    <2>2. CASE ~wakes
      BY <1>1, <2>2 DEF IndInv, Values, Loud, Sent, Waking, session
    <2> QED
      BY <2>1, <2>2
  <1>5. KnownInv' /\ AwaitInv'
    <2>1. News' \subseteq News \cup {t}
      BY <1>1, <1>4 DEF News, session
    <2>2. t \notin awaited'
      BY <1>1 DEF IndInv, AwaitInv
    <2> QED
      BY <1>1, <2>1, <2>2, NewsJoins
  <1>6. WaitsOK' /\ WaitInv'
    BY <1>2, WaitsEndStep
  <1> USE <1>1, <1>4, <1>5, <1>6 DEF IndInv, session
  <1>7. TypeOK'
    BY DEF TypeOK, Idle, TurnPcs, Tasks
  <1>8. Values'
    BY DEF Values
  <1>9. LocalsInv' /\ HeadInv'
    BY DEF LocalsInv, HeadInv, Past
  <1>10. FirmInv' /\ FoundInv'
    BY DEF FirmInv, FoundInv, Firm, Held
  <1> QED
    BY <1>7, <1>8, <1>9, <1>10

(* The bridge announces a completion, or keeps quiet. *)
LEMMA TaskCompletedStep ==
    ASSUME IndInv, TaskCompleted
    PROVE  IndInv'
  <1> DEFINE t == Head(bridge).task
             q == Head(bridge).quiet
             x == [kind |-> IF autoWake THEN "prompt" ELSE "inject", task |-> t]
  <1>1. /\ bridge # << >> /\ bridge' = Tail(bridge)
        /\ q => UNCHANGED <<delivered, cmds>>
        /\ ~q => /\ delivered' = IF autoWake THEN delivered \cup {t} ELSE delivered
                 /\ cmds' = Append(cmds, x)
        /\ UNCHANGED <<autoWake, tasks, unread, reported, session, history, bounds>>
    BY DEF TaskCompleted
  <1>2. /\ bridge' \in Seq(Bridged) /\ Head(bridge) \in Bridged
        /\ Loud = Loud' \cup (IF q THEN {} ELSE {t})
    BY <1>1, BridgeTail DEF IndInv, Values
  <1>3. t \in Tasks /\ q \in BOOLEAN
    BY <1>2 DEF Bridged
  <1>4. x \in Mailed /\ x.task = t /\ x.kind = IF autoWake THEN "prompt" ELSE "inject"
    BY <1>3 DEF Mailed
  <1> HIDE DEF x, t, q
  <1>5. /\ cmds' \in Seq(Mailed) /\ Sent' = IF q THEN Sent ELSE Sent \cup {t}
        /\ Waking' = IF ~q /\ autoWake THEN Waking \cup {t} ELSE Waking
        /\ Ids(queue)' = Ids(queue)
    <2>1. CASE ~q
      BY <1>1, <1>4, <2>1, CmdsAppend DEF IndInv, Values, session
    <2>2. CASE q
      BY <1>1, <2>2 DEF IndInv, Values, Sent, Waking, session
    <2> QED
      BY <2>1, <2>2
  <1>6. WaitsOK' /\ WaitInv'
    BY <1>1, WaitsStay DEF WaitsSame, tasks, bounds, IndInv, TypeOK, WaitsOK
  <1>61. KnownInv' /\ AwaitInv'
    <2>1. News' \subseteq News
      BY <1>1, <1>2, <1>5 DEF News, session
    <2> QED
      BY <1>1, <2>1, NewsStays DEF tasks, history
  <1> USE <1>1, <1>2, <1>3, <1>5, <1>6, <1>61 DEF IndInv, tasks, session, history
  <1>7. TypeOK'
    BY DEF TypeOK, Idle, TurnPcs, Tasks, KnownInv, News
  <1>8. Values'
    BY DEF Values
  <1>9. LocalsInv' /\ HeadInv'
    BY DEF LocalsInv, HeadInv, Past
  <1>10. FirmInv' /\ FoundInv'
    BY DEF FirmInv, FoundInv, Firm, Held
  <1> QED
    BY <1>7, <1>8, <1>9, <1>10

(* The model kills a task. *)
LEMMA KillTaskStep ==
    ASSUME NEW t \in Tasks, IndInv, KillTask(t)
    PROVE  IndInv'
  <1> DEFINE x == [task |-> t, quiet |-> TRUE]
  <1>1. /\ turn' \in TurnType
        /\ turn'.pc = "marking"
        /\ turn'.hand = {}
        /\ turn'.suppress = {t} \cup delivered
        /\ turn'.got = {}
        /\ turn'.used = {t}
        /\ turn'.wait = {}
        /\ delivered' = {}
    BY CollectFields DEF IndInv, TypeOK, KillTask
  <1>2. /\ turn.pc = "loop" /\ t \notin done /\ killed' = killed \cup {t}
        /\ calls < MaxCalls /\ calls' = calls + 1
        /\ t \in Bash => /\ done' = done \cup {t} /\ waited' = waited \ {t}
                         /\ waiters' = Unregistered(t) /\ bridge' = Append(bridge, x)
        /\ t \notin Bash => UNCHANGED <<done, waited, waiters, bridge>>
        /\ UNCHANGED <<autoWake, unread, reported, cmds, queue, notifs, suppressed,
                       history>>
    BY DEF KillTask
  <1>3. x \in Bridged /\ x.quiet
    BY DEF Bridged
  <1> HIDE DEF x
  <1>4. /\ bridge' \in Seq(Bridged) /\ Loud' = Loud /\ Sent' = Sent /\ Waking' = Waking
        /\ Ids(queue)' = Ids(queue)
    <2>1. CASE t \in Bash
      BY <1>2, <1>3, <2>1, BridgeAppend DEF IndInv, Values, Sent, Waking
    <2>2. CASE t \notin Bash
      BY <1>2, <2>2 DEF IndInv, Values, Sent, Waking, Loud
    <2> QED
      BY <2>1, <2>2
  <1>5. done \subseteq done' /\ done' \subseteq done \cup {t} /\ Subagents \cap done' = Subagents \cap done
    BY <1>2, DeliveryAssumption
  <1>51. calls' <= MaxCalls
    BY <1>2, DeliveryAssumption DEF IndInv, TypeOK, WaitsOK
  <1>6. WaitsOK' /\ WaitInv'
    <2>1. CASE t \in Bash
      BY <1>2, <1>51, <2>1, WaitsEndStep DEF WaitsEnd
    <2>2. CASE t \notin Bash
      BY <1>2, <1>51, <2>2, WaitsStay DEF WaitsSame
    <2> QED
      BY <2>1, <2>2
  <1>61. KnownInv' /\ AwaitInv'
    <2>1. News' \subseteq News
      BY <1>2, <1>4 DEF News
    <2> QED
      BY <1>2, <1>5, <2>1, NewsStays DEF history
  <1> USE <1>1, <1>4, <1>5, <1>6, <1>61 DEF IndInv, history
  <1>7. TypeOK'
    BY <1>2 DEF TypeOK, Idle, TurnPcs
  <1>8. Values'
    BY <1>2 DEF Values
  <1>9. LocalsInv' /\ HeadInv'
    BY <1>2 DEF LocalsInv, HeadInv, Past
  <1>10. FirmInv' /\ FoundInv'
    BY <1>2 DEF FirmInv, FoundInv, Firm, Held, LocalsInv
  <1> QED
    BY <1>7, <1>8, <1>9, <1>10

-----------------------------------------------------------------------------
(* Steps of the session that change its queue.                             *)

(* A wake is queued and marked reported. *)
LEMMA QueueWakeStep ==
    ASSUME IndInv, QueueWake
    PROVE  IndInv'
  <1> DEFINE t == Head(cmds).task
  <1>1. /\ cmds # << >> /\ Head(cmds).kind = "prompt" /\ cmds' = Tail(cmds)
        /\ reported' = reported \cup {t} /\ queue' = Append(queue, Wake(t))
        /\ turn' = IF Idle THEN Started(queue') ELSE turn
        /\ UNCHANGED <<autoWake, tasks, bridge, unread, delivered, notifs, suppressed, history, bounds>>
    BY DEF QueueWake
  <1>2. /\ cmds' \in Seq(Mailed) /\ Head(cmds) \in Mailed
        /\ Sent = Sent' \cup {t} /\ Waking = Waking' \cup {t} /\ Loud' = Loud
    BY <1>1, CmdsTail DEF IndInv, Values, Loud
  <1>3. t \in Tasks
    BY <1>2 DEF Mailed
  <1> HIDE DEF t
  <1>4. /\ queue' \in Seq(Entries) /\ queue' # << >> /\ Ids(queue)' = Ids(queue) \cup {t}
        /\ queue # << >> => Head(queue') = Head(queue)
    <2> DEFINE w == Wake(t)
    <2>1. w \in Entries /\ w.ids = {t} /\ queue' = Append(queue, w) /\ queue \in Seq(Entries)
      BY <1>1, <1>3, EntryTypes DEF IndInv, TypeOK
    <2> HIDE DEF w
    <2> QED
      BY <2>1, JoinIds, Zenon
  <1>5. /\ Idle => /\ turn' \in TurnType /\ turn'.pc = "start" /\ turn'.hand = {}
                   /\ turn'.suppress = {} /\ turn'.got = {} /\ turn'.used = {}
                   /\ turn'.wait = {}
        /\ ~Idle => turn' = turn
    BY <1>1, <1>4, StartedFields
  <1>6. (queue = << >>) <=> Idle
    BY DEF IndInv, TypeOK
  <1>61. WaitsOK' /\ WaitInv'
    BY <1>1, WaitsStay DEF WaitsSame, tasks, bounds, IndInv, TypeOK, WaitsOK
  <1>62. KnownInv' /\ AwaitInv'
    <2>1. News' \subseteq News
      BY <1>1, <1>2, <1>4 DEF News
    <2> QED
      BY <1>1, <2>1, NewsStays DEF tasks, history
  <1> USE <1>2, <1>3, <1>4, <1>5, <1>6, <1>61, <1>62 DEF IndInv, tasks, history
  <1>7. TypeOK'
    BY <1>1 DEF TypeOK, Idle, TurnPcs
  <1>8. Values'
    BY <1>1 DEF Values
  <1>9. LocalsInv' /\ HeadInv'
    BY <1>1 DEF LocalsInv, HeadInv, Past, Idle
  <1>10. FirmInv' /\ FoundInv'
    BY <1>1 DEF FirmInv, FoundInv, Firm, Held, LocalsInv, Idle
  <1> QED
    BY <1>7, <1>8, <1>9, <1>10

(* What the end of a handler that may drain the notifications leaves. *)
Drains(q, ns, free) ==
    /\ queue' \in Seq(Entries) /\ Ids(q) \subseteq Ids(queue')
    /\ Ids(queue') \subseteq Ids(q) \cup Elems(ns) /\ Elems(notifs') \subseteq Elems(ns)
    /\ notifs' \in Seq(Tasks) /\ Len(notifs') <= MaxPending
    /\ reported' \subseteq Tasks /\ reported' \subseteq reported \cup Ids(queue')
    /\ free => /\ turn' \in TurnType
               /\ turn'.pc = IF queue' = << >> THEN "none" ELSE "start"
               /\ turn'.hand = {} /\ turn'.suppress = {} /\ turn'.got = {}
               /\ turn'.used = {} /\ turn'.wait = {}
    /\ ~free => turn' = turn /\ queue' = q

(* maybe_drain_notifications drops nothing that is queued and marks reported only what it queues. *)
LEMMA MaybeDrainFacts ==
    ASSUME NEW q \in Seq(Entries), NEW ns \in Seq(Tasks), Len(ns) <= MaxPending,
           reported \subseteq Tasks, NEW free, MaybeDrain(q, ns, free)
    PROVE  Drains(q, ns, free)
  <1> DEFINE now == free /\ q = << >> /\ ~suppressed /\ ns # << >>
  <1>1. CASE now
    <2>1. Elems(ns) \subseteq Tasks
      BY ElemsFacts
    <2>2. Drain(Elems(ns)) \in Entries /\ Drain(Elems(ns)).ids = Elems(ns)
      BY <2>1, EntryTypes
    <2>3. /\ queue' = <<Drain(Elems(ns))>> /\ notifs' = << >>
          /\ reported' = reported \cup Elems(ns) /\ turn' = Turn("start")
      BY <1>1 DEF MaybeDrain
    <2>4. /\ queue' \in Seq(Entries) /\ queue' # << >> /\ Ids(queue') = Elems(ns)
          /\ Ids(q) = {}
      BY <1>1, <2>2, <2>3, IdsFacts
    <2>5. notifs' \in Seq(Tasks) /\ Len(notifs') = 0 /\ Elems(notifs') = {}
      BY <2>3, SmallFacts
    <2>6. /\ turn' \in TurnType /\ turn'.pc = "start" /\ turn'.hand = {} /\ turn'.suppress = {}
          /\ turn'.got = {} /\ turn'.used = {} /\ turn'.wait = {}
      BY <2>3, TurnFields DEF TurnPcs
    <2> QED
      BY <1>1, <2>1, <2>3, <2>4, <2>5, <2>6, DeliveryAssumption DEF Drains
  <1>2. CASE ~now
    <2>1. /\ queue' = q /\ notifs' = ns /\ reported' = reported
          /\ turn' = IF free THEN Started(q) ELSE turn
      BY <1>2 DEF MaybeDrain
    <2> QED
      BY <2>1, StartedFields DEF Drains
  <1> QED
    BY <1>1, <1>2

(* The limit on pending notifications holds after each of them. *)
LEMMA NewestFacts ==
    ASSUME NEW ns \in Seq(Tasks)
    PROVE  /\ Newest(ns) \in Seq(Tasks) /\ Len(Newest(ns)) <= MaxPending
           /\ Elems(Newest(ns)) \subseteq Elems(ns)
  <1>1. Len(ns) \in Nat /\ MaxPending \in Nat
    BY DeliveryAssumption
  <1>2. CASE Len(ns) > MaxPending
    <2> DEFINE a == Len(ns) - MaxPending + 1
               m == SubSeq(ns, a, Len(ns))
    <2>1. a \in 1 .. (Len(ns) + 1) /\ Len(ns) - a + 1 = MaxPending /\ Newest(ns) = m
      BY <1>1, <1>2 DEF Newest
    <2> HIDE DEF a
    <2>2. m \in Seq(Tasks)
      BY <1>1, <2>1
    <2>3. Len(m) = MaxPending
      BY <1>1, <2>1
    <2>4. \A i \in 1 .. MaxPending : m[i] = ns[a + i - 1] /\ a + i - 1 \in 1 .. Len(ns)
      BY <1>1, <2>1
    <2> HIDE DEF m
    <2>5. Elems(m) \subseteq Elems(ns)
      <3> SUFFICES ASSUME NEW x \in Elems(m) PROVE x \in Elems(ns)
        OBVIOUS
      <3>1. PICK i \in 1 .. MaxPending : x = m[i]
        BY <2>2, <2>3 DEF Elems
      <3>2. x = ns[a + i - 1] /\ a + i - 1 \in 1 .. Len(ns)
        BY <2>4, <3>1
      <3> QED
        BY <3>2 DEF Elems
    <2> QED
      BY <1>1, <2>1, <2>2, <2>3, <2>5
  <1>3. CASE ~(Len(ns) > MaxPending)
    BY <1>1, <1>3 DEF Newest
  <1> QED
    BY <1>2, <1>3

(* A completion becomes a pending notification. *)
LEMMA InjectNotificationStep ==
    ASSUME IndInv, InjectNotification
    PROVE  IndInv'
  <1> DEFINE t == Head(cmds).task
             ns == Newest(Append(notifs, t))
  <1>1. /\ cmds # << >> /\ Head(cmds).kind = "inject" /\ cmds' = Tail(cmds)
        /\ MaybeDrain(queue, ns, Idle)
        /\ UNCHANGED <<autoWake, tasks, bridge, unread, delivered, suppressed, history, bounds>>
    BY DEF InjectNotification
  <1>2. /\ cmds' \in Seq(Mailed) /\ Head(cmds) \in Mailed
        /\ Sent = Sent' \cup {t} /\ Waking = Waking' /\ Loud' = Loud
    BY <1>1, CmdsTail DEF IndInv, Values, Loud
  <1>3. t \in Tasks
    BY <1>2 DEF Mailed
  <1>4. /\ Append(notifs, t) \in Seq(Tasks)
        /\ Elems(Append(notifs, t)) = Elems(notifs) \cup {t}
    BY <1>3, AppendFacts, AppendElems DEF IndInv, Values
  <1>5. /\ ns \in Seq(Tasks) /\ Len(ns) <= MaxPending
        /\ Elems(ns) \subseteq Elems(notifs) \cup {t}
    BY <1>4, NewestFacts
  <1> HIDE DEF t, ns
  <1>6. Drains(queue, ns, Idle)
    BY <1>1, <1>5, MaybeDrainFacts DEF IndInv, TypeOK
  <1>7. (queue = << >>) <=> Idle
    BY DEF IndInv, TypeOK
  <1>71. WaitsOK' /\ WaitInv'
    BY <1>1, WaitsStay DEF WaitsSame, tasks, bounds, IndInv, TypeOK, WaitsOK
  <1>72. KnownInv' /\ AwaitInv'
    <2>1. News' \subseteq News
      BY <1>2, <1>5, <1>6 DEF News, Drains
    <2> QED
      BY <1>1, <2>1, NewsStays DEF tasks, history
  <1> USE <1>2, <1>6, <1>7, <1>71, <1>72 DEF IndInv, tasks, history, Drains
  <1>8. TypeOK'
    BY <1>1 DEF TypeOK, Idle, TurnPcs
  <1>9. Values'
    BY <1>1 DEF Values
  <1>10. LocalsInv' /\ HeadInv'
    BY <1>1 DEF LocalsInv, HeadInv, Past, Idle
  <1>11. FirmInv' /\ FoundInv'
    BY <1>1 DEF FirmInv, FoundInv, Firm, Held, LocalsInv, Idle
  <1> QED
    BY <1>8, <1>9, <1>10, <1>11

(* A turn ends and its prompt leaves the queue. *)
LEMMA TurnEndsStep ==
    ASSUME IndInv, TurnEnds
    PROVE  IndInv'
  <1>1. /\ turn.pc = "loop" /\ MaybeDrain(Tail(queue), notifs, TRUE)
        /\ UNCHANGED <<autoWake, tasks, bridge, unread, delivered, cmds, suppressed, history, bounds>>
    BY DEF TurnEnds
  <1>2. queue # << >> /\ queue \in Seq(Entries)
    BY <1>1 DEF IndInv, TypeOK, Idle
  <1>3. Tail(queue) \in Seq(Entries) /\ Ids(queue) = Head(queue).ids \cup Ids(Tail(queue))
    BY <1>2, IdsFacts
  <1> DEFINE q == Tail(queue)
  <1> HIDE DEF q
  <1>4. Drains(q, notifs, TRUE)
    BY <1>1, <1>3, MaybeDrainFacts DEF IndInv, TypeOK, Values, q
  <1>5. Sent' = Sent /\ Waking' = Waking /\ Loud' = Loud
    BY <1>1 DEF Sent, Waking, Loud
  <1>6. Ids(queue) \subseteq Head(queue).ids \cup Ids(queue')
    BY <1>3, <1>4 DEF Drains, q
  <1>61. WaitsOK' /\ WaitInv'
    BY <1>1, WaitsStay DEF WaitsSame, tasks, bounds, IndInv, TypeOK, WaitsOK
  <1>62. KnownInv' /\ AwaitInv'
    <2>1. News' \subseteq News
      BY <1>3, <1>4, <1>5 DEF News, Drains, q
    <2> QED
      BY <1>1, <2>1, NewsStays DEF tasks, history
  <1> USE <1>4, <1>5, <1>61, <1>62 DEF IndInv, tasks, history, Drains
  <1>7. TypeOK'
    BY <1>1 DEF TypeOK, Idle, TurnPcs
  <1>8. Values'
    BY <1>1 DEF Values
  <1>9. LocalsInv' /\ HeadInv'
    BY <1>1 DEF LocalsInv, HeadInv, Past
  <1>10. FirmInv' /\ FoundInv'
    BY <1>1, <1>6 DEF FirmInv, FoundInv, Firm, Held, LocalsInv, HeadInv, Past
  <1> QED
    BY <1>7, <1>8, <1>9, <1>10

(* A cancelled turn leaves the queue, and what it held is history. *)
Aborts(q) ==
    /\ turn.pc # "none" /\ q \in Seq(Entries)
    /\ Ids(queue) \subseteq Head(queue).ids \cup Ids(q) \cup preempted'
    /\ Ids(q) \subseteq Ids(queue)
    /\ preempted \subseteq preempted'
    /\ UNCHANGED <<autoWake, tasks, bridge, unread, reported, cmds, notifs, told, awaited, calls>>

(* cancel_running_task loses only what the cancel is charged with. *)
LEMMA AbortStep ==
    ASSUME IndInv, NEW q, NEW dropped, AbortTurn(q, dropped), Aborts(q)
    PROVE  IndInv'
  <1>1. /\ delivered' \subseteq delivered
        /\ aborted' = aborted \cup InHand
        /\ queue' = q /\ turn' = Started(q)
    BY DEF AbortTurn, Unmarked
  <1>2. /\ turn' \in TurnType
        /\ turn'.pc = IF q = << >> THEN "none" ELSE "start"
        /\ turn'.hand = {} /\ turn'.suppress = {} /\ turn'.got = {}
        /\ turn'.used = {} /\ turn'.wait = {}
    BY <1>1, StartedFields
  <1>3. Sent' = Sent /\ Waking' = Waking /\ Loud' = Loud
    BY DEF Sent, Waking, Loud, Aborts
  <1>4. /\ turn.hand \cup turn.got \cup turn.used \subseteq aborted'
        /\ Head(queue).ids \subseteq told \cup aborted'
    BY <1>1 DEF IndInv, TypeOK, HeadInv, Past, InHand, TurnPcs, Aborts
  <1>41. WaitsOK' /\ WaitInv'
    BY WaitsStay DEF WaitsSame, tasks, Aborts, IndInv, TypeOK, WaitsOK
  <1>42. KnownInv' /\ AwaitInv'
    <2>1. News' \subseteq News
      BY <1>1, <1>3 DEF News, Aborts
    <2> QED
      BY <2>1, NewsStays DEF tasks, Aborts
  <1> USE <1>2, <1>3, <1>41, <1>42 DEF IndInv, Aborts, tasks
  <1>5. TypeOK'
    BY <1>1 DEF TypeOK, Idle, TurnPcs
  <1>6. Values'
    BY DEF Values
  <1>7. LocalsInv' /\ HeadInv'
    BY DEF LocalsInv, HeadInv, Past
  <1>8. FirmInv' /\ FoundInv'
    <2>1. aborted \subseteq aborted' /\ queue' = q /\ delivered' \subseteq delivered
      BY <1>1
    <2>2. Firm \subseteq Firm'
      BY <1>4, <2>1 DEF Firm, Held
    <2> QED
      BY <1>4, <2>1, <2>2 DEF FirmInv, FoundInv, Firm
  <1> QED
    BY <1>5, <1>6, <1>7, <1>8

(* The user cancels the running turn. *)
LEMMA CancelStep ==
    ASSUME IndInv, Cancel
    PROVE  IndInv'
  <1> DEFINE q == Tail(queue)
  <1>1. turn.pc # "none" /\ queue # << >> /\ queue \in Seq(Entries)
    BY DEF IndInv, TypeOK, Idle, Cancel
  <1>2. q \in Seq(Entries) /\ Ids(queue) = Head(queue).ids \cup Ids(q)
    BY <1>1, IdsFacts
  <1>3. AbortTurn(q, <<Head(queue)>>)
    BY DEF Cancel
  <1>4. Aborts(q)
    BY <1>1, <1>2 DEF Cancel, Aborts, tasks
  <1> QED
    BY <1>3, <1>4, AbortStep

(* A user prompt's sweep removes from behind the running turn what it does not keep. *)
LEMMA PromptSweeps ==
    ASSUME queue \in Seq(Entries), (queue = << >>) <=> Idle
    PROVE  /\ Kept \in Seq(Entries) /\ Swept \in Seq(Entries)
           /\ ~Idle => /\ Head(queue) \in Entries
                       /\ Ids(queue) \subseteq Head(queue).ids \cup Ids(Kept) \cup Ids(Swept)
           /\ Ids(Kept) \subseteq Ids(queue)
           /\ Idle => Ids(queue) = {}
  <1>1. /\ Behind \in Seq(Entries)
        /\ ~Idle => /\ Head(queue) \in Entries
                    /\ Ids(queue) = Head(queue).ids \cup Ids(Behind)
        /\ Idle => Ids(queue) = {}
    BY IdsFacts DEF Behind
  <1> DEFINE K == {e \in Entries : ~IsSynthetic(e)}
             L == {e \in Entries : IsSynthetic(e)}
  <1>2. Entries \subseteq K \cup L
    OBVIOUS
  <1>3. Kept = (IF Armed THEN Only(Behind, K) ELSE Behind) /\ Swept = (IF Armed THEN Only(Behind, L) ELSE << >>)
    BY DEF Kept, Swept
  <1> HIDE DEF K, L
  <1>4. Kept \in Seq(Entries) /\ Swept \in Seq(Entries)
    BY <1>1, <1>3, SweepIds
  <1>5. Ids(Behind) \subseteq Ids(Kept) \cup Ids(Swept)
    BY <1>1, <1>2, <1>3, SweepSplits
  <1>6. Ids(Kept) \subseteq Ids(Behind)
    <2>1. Ids(Only(Behind, K)) \subseteq Ids(Behind)
      BY <1>1, SweepShrinks
    <2> QED
      BY <1>3, <2>1
  <1>7. Ids(Behind) \subseteq Ids(queue)
    BY <1>1, IdsFacts DEF Behind
  <1> QED
    BY <1>1, <1>4, <1>5, <1>6, <1>7

(* Where a user prompt that cancels nothing is queued. *)
LEMMA PromptJoins ==
    ASSUME queue \in Seq(Entries), (queue = << >>) <=> Idle,
           queue' = Running \o Append(Kept, User)
    PROVE  /\ queue' \in Seq(Entries) /\ queue' # << >>
           /\ Ids(queue) \subseteq Ids(queue') \cup Ids(Swept)
           /\ Ids(queue') \subseteq Ids(queue)
           /\ ~Idle => Head(queue') = Head(queue)
  <1>1. /\ Kept \in Seq(Entries) /\ Ids(Kept) \subseteq Ids(queue)
        /\ ~Idle => /\ Head(queue) \in Entries
                    /\ Ids(queue) \subseteq Head(queue).ids \cup Ids(Kept) \cup Ids(Swept)
        /\ Idle => Ids(queue) = {}
    BY PromptSweeps
  <1> DEFINE b == Append(Kept, User)
  <1>2. b \in Seq(Entries) /\ b # << >> /\ Ids(b) = Ids(Kept)
    <2>1. User \in Entries /\ User.ids = {} /\ Kept \in Seq(Entries)
      BY <1>1, EntryTypes
    <2>2. b \in Seq(Entries) /\ b # << >> /\ Ids(b) = Ids(Kept) \cup User.ids
      BY <2>1, JoinIds, Zenon
    <2> QED
      BY <2>1, <2>2
  <1> HIDE DEF b
  <1>3. queue' = Running \o b
    BY DEF b
  <1>4. CASE Idle
    <2>1. << >> \o b = b
      BY <1>2
    <2> QED
      BY <1>1, <1>2, <1>3, <1>4, <2>1 DEF Running
  <1>5. CASE ~Idle
    <2>1. queue' = <<Head(queue)>> \o b
      BY <1>3, <1>5 DEF Running
    <2>2. Head(queue).ids \subseteq Ids(queue)
      BY <1>5, IdsFacts
    <2> QED
      BY <1>1, <1>2, <1>5, <2>1, <2>2, IdsFacts
  <1> QED
    BY <1>4, <1>5

(* The user sends a prompt, which sweeps wakes and may cancel a wait. *)
LEMMA UserPromptStep ==
    ASSUME IndInv, UserPrompt
    PROVE  IndInv'
  <1>1. queue \in Seq(Entries) /\ ((queue = << >>) <=> Idle)
    BY DEF IndInv, TypeOK
  <1>2. /\ preempted' = preempted \cup Ids(Swept)
        /\ UNCHANGED <<autoWake, tasks, bridge, unread, reported, cmds, notifs, told, awaited,
                       calls>>
    BY DEF UserPrompt
  <1>3. CASE AutoSendNow
    <2> DEFINE q == <<User>> \o Kept
    <2>1. AbortTurn(q, Append(Swept, Head(queue)))
      BY <1>3 DEF UserPrompt
    <2>2. turn.pc # "none" /\ ~Idle
      BY <1>3 DEF AutoSendNow, Idle
    <2>3. /\ Kept \in Seq(Entries) /\ Ids(Kept) \subseteq Ids(queue)
          /\ Ids(queue) \subseteq Head(queue).ids \cup Ids(Kept) \cup Ids(Swept)
      BY <1>1, <2>2, PromptSweeps
    <2>4. q \in Seq(Entries) /\ Ids(q) = Ids(Kept)
      <3>1. User \in Entries /\ User.ids = {} /\ Kept \in Seq(Entries)
        BY <2>3, EntryTypes
      <3>2. q \in Seq(Entries) /\ Ids(q) = User.ids \cup Ids(Kept)
        BY <3>1, JoinIds, Zenon
      <3> QED
        BY <3>1, <3>2
    <2>5. Aborts(q)
      BY <1>2, <2>2, <2>3, <2>4 DEF Aborts
    <2> HIDE DEF q
    <2> QED
      BY <2>1, <2>5, AbortStep
  <1>4. CASE ~AutoSendNow
    <2>1. /\ queue' = Running \o Append(Kept, User)
          /\ turn' = IF Idle THEN Started(queue') ELSE turn
          /\ delivered' \subseteq delivered
          /\ aborted' = aborted
      BY <1>4 DEF UserPrompt, Unmarked
    <2>2. /\ queue' \in Seq(Entries) /\ queue' # << >>
          /\ Ids(queue) \subseteq Ids(queue') \cup Ids(Swept) /\ Ids(queue') \subseteq Ids(queue)
          /\ ~Idle => Head(queue') = Head(queue)
      BY <1>1, <2>1, PromptJoins
    <2>3. /\ Idle => /\ turn' \in TurnType /\ turn'.pc = "start" /\ turn'.hand = {}
                     /\ turn'.suppress = {} /\ turn'.got = {} /\ turn'.used = {}
                     /\ turn'.wait = {}
          /\ ~Idle => turn' = turn
      BY <2>1, <2>2, StartedFields
    <2>4. Sent' = Sent /\ Waking' = Waking /\ Loud' = Loud
      BY <1>2 DEF Sent, Waking, Loud
    <2>5. delivered' \subseteq delivered /\ aborted' = aborted
      BY <2>1
    <2>51. WaitsOK' /\ WaitInv'
      BY <1>2, WaitsStay DEF WaitsSame, tasks, IndInv, TypeOK, WaitsOK
    <2>52. KnownInv' /\ AwaitInv'
      <3>1. News' \subseteq News
        BY <1>2, <2>2, <2>4 DEF News
      <3> QED
        BY <1>2, <3>1, NewsStays DEF tasks
    <2> USE <1>1, <1>2, <2>2, <2>3, <2>4, <2>5, <2>51, <2>52 DEF IndInv, tasks
    <2>6. TypeOK'
      BY DEF TypeOK, Idle, TurnPcs
    <2>7. Values'
      BY DEF Values
    <2>8. LocalsInv' /\ HeadInv'
      BY DEF LocalsInv, HeadInv, Past, Idle
    <2>9. FirmInv' /\ FoundInv'
      BY DEF FirmInv, FoundInv, Firm, Held, LocalsInv, Idle
    <2> QED
      BY <2>6, <2>7, <2>8, <2>9
  <1> QED
    BY <1>3, <1>4

(* A cancel rewinds a turn that has done nothing yet. *)
LEMMA RewindStep ==
    ASSUME IndInv, Rewind
    PROVE  IndInv'
  <1> DEFINE q == Tail(queue)
  <1>1. /\ turn.pc # "none" /\ queue' = q /\ turn' = Started(q)
        /\ told' = (IF turn.pc = "loop" THEN told \ Head(queue).ids ELSE told)
        /\ aborted' = aborted \cup InHand \cup Head(queue).ids
        /\ UNCHANGED <<autoWake, tasks, bridge, unread, sets, cmds, notifs, preempted, awaited,
                       calls>>
    BY DEF Rewind, Idle
  <1>2. queue # << >> /\ queue \in Seq(Entries)
    BY <1>1 DEF IndInv, TypeOK, Idle
  <1>3. q \in Seq(Entries) /\ Ids(queue) = Head(queue).ids \cup Ids(q)
    BY <1>2, IdsFacts
  <1>4. /\ turn' \in TurnType
        /\ turn'.pc = IF q = << >> THEN "none" ELSE "start"
        /\ turn'.hand = {} /\ turn'.suppress = {} /\ turn'.got = {}
        /\ turn'.used = {} /\ turn'.wait = {}
    BY <1>1, StartedFields
  <1>5. Sent' = Sent /\ Waking' = Waking /\ Loud' = Loud
    BY <1>1 DEF Sent, Waking, Loud
  <1> HIDE DEF q
  <1>6. WaitsOK' /\ WaitInv'
    BY <1>1, WaitsStay DEF WaitsSame, tasks, IndInv, TypeOK, WaitsOK
  <1>7. KnownInv' /\ AwaitInv'
    <2>1. News' \subseteq News
      BY <1>1, <1>3, <1>5 DEF News
    <2> QED
      BY <1>1, <2>1, NewsStays DEF tasks
  <1>8. /\ turn.hand \cup turn.got \cup turn.used \subseteq aborted' /\ aborted \subseteq aborted'
        /\ told \cup Ids(queue) \subseteq told' \cup aborted' \cup Ids(queue')
    BY <1>1, <1>3 DEF InHand
  <1>9. told' \subseteq told
    BY <1>1
  <1> USE <1>3, <1>4, <1>5, <1>6, <1>7 DEF IndInv, tasks, sets
  <1>10. TypeOK'
    BY <1>1, <1>9 DEF TypeOK, Idle, TurnPcs
  <1>11. Values'
    BY <1>1 DEF Values
  <1>12. LocalsInv' /\ HeadInv'
    BY DEF LocalsInv, HeadInv, Past
  <1>13. FirmInv' /\ FoundInv'
    <2>1. Firm \subseteq Firm' /\ turn.got \subseteq Firm'
      BY <1>1, <1>8 DEF Firm, Held
    <2>2. UNCHANGED <<done, unread, delivered, reported>>
      BY <1>1
    <2> QED
      BY <2>1, <2>2 DEF FirmInv, FoundInv
  <1> QED
    BY <1>10, <1>11, <1>12, <1>13

(* A result enters the conversation and consumes the wakes it makes superfluous. *)
LEMMA ToolSuccessStep ==
    ASSUME IndInv, ToolSuccess
    PROVE  IndInv'
  <1> DEFINE K == {e \in Entries : ~Consumes(turn.used, e)}
             L == {e \in Entries : Consumes(turn.used, e)}
             b == Only(Tail(queue), K)
  <1>1. /\ turn.pc = "done" /\ queue' = <<Head(queue)>> \o b
        /\ notifs' = Only(notifs, Tasks \ turn.used)
        /\ told' = told \cup turn.hand \cup turn.used
        /\ turn' = [Turn("loop") EXCEPT !.pristine = FALSE]
        /\ UNCHANGED <<autoWake, tasks, bridge, unread, sets, cmds, preempted, aborted,
                       awaited, bounds>>
    BY DEF ToolSuccess
  <1>2. queue # << >> /\ queue \in Seq(Entries)
    BY <1>1 DEF IndInv, TypeOK, Idle
  <1>3. /\ Head(queue) \in Entries /\ Tail(queue) \in Seq(Entries)
        /\ Ids(queue) = Head(queue).ids \cup Ids(Tail(queue))
    BY <1>2, IdsFacts
  <1>4. Ids(Only(Tail(queue), L)) \subseteq turn.used
    <2>1. \A e \in L : e.ids \subseteq turn.used
      BY DEF Consumes
    <2> HIDE DEF L
    <2>2. Ids(Only(Tail(queue), L)) = UNION {e.ids : e \in Elems(Tail(queue)) \cap L}
      BY <1>3, SweepIds
    <2> QED
      BY <2>1, <2>2
  <1>5. Entries \subseteq K \cup L
    OBVIOUS
  <1> HIDE DEF K, L
  <1>6. Ids(Tail(queue)) \subseteq Ids(b) \cup turn.used /\ b \in Seq(Entries)
    BY <1>3, <1>4, <1>5, SweepSplits, SweepIds
  <1>61. Ids(b) \subseteq Ids(Tail(queue))
    BY <1>3, SweepShrinks
  <1> HIDE DEF b
  <1>7. /\ queue' \in Seq(Entries) /\ queue' # << >> /\ Head(queue') = Head(queue)
        /\ Ids(queue') = Head(queue).ids \cup Ids(b)
    BY <1>1, <1>3, <1>6, IdsFacts
  <1>8. /\ turn' \in TurnType
        /\ turn'.pc = "loop" /\ turn'.hand = {} /\ turn'.suppress = {} /\ turn'.got = {}
        /\ turn'.used = {} /\ turn'.wait = {}
    BY <1>1 DEF Turn, TurnType, TurnPcs
  <1>9. Sent' = Sent /\ Waking' = Waking /\ Loud' = Loud
    BY <1>1 DEF Sent, Waking, Loud
  <1>10. /\ notifs' \in Seq(Tasks) /\ Len(notifs') <= MaxPending
         /\ Elems(notifs') \subseteq Elems(notifs)
    <2> DEFINE N == Tasks \ turn.used
    <2> HIDE DEF N
    <2>1. notifs \in Seq(Tasks) /\ Len(notifs) <= MaxPending /\ notifs' = Only(notifs, N)
      BY <1>1 DEF IndInv, TypeOK, Values, N
    <2>2. Only(notifs, N) \in Seq(Tasks) /\ Len(Only(notifs, N)) <= Len(notifs)
      BY <2>1, OnlyFacts, OnlyShorter
    <2>3. Len(notifs) \in Nat /\ Len(Only(notifs, N)) \in Nat /\ MaxPending \in Nat
      BY <2>1, <2>2, DeliveryAssumption
    <2>4. Elems(Only(notifs, N)) = Elems(notifs) \cap N
      BY <2>1, OnlyElems
    <2> QED
      BY <2>1, <2>2, <2>3, <2>4
  <1>11. /\ turn.pc = "done" /\ told' = told \cup turn.hand \cup turn.used
         /\ UNCHANGED <<autoWake, tasks, bridge, unread, sets, cmds, preempted, aborted,
                       awaited, bounds>>
    BY <1>1
  <1>111. WaitsOK' /\ WaitInv'
    BY <1>11, WaitsStay DEF WaitsSame, tasks, bounds, IndInv, TypeOK, WaitsOK
  <1>112. KnownInv' /\ AwaitInv'
    <2>1. News' \subseteq News
      BY <1>3, <1>61, <1>7, <1>9, <1>10 DEF News
    <2> QED
      BY <1>11, <2>1, NewsStays DEF tasks
  <1> USE <1>3, <1>6, <1>7, <1>8, <1>9, <1>10, <1>11, <1>111, <1>112 DEF IndInv, tasks, sets
  <1>12. TypeOK'
    BY DEF TypeOK, Idle, TurnPcs, Values, TurnType
  <1>13. Values'
    BY DEF Values
  <1>14. LocalsInv' /\ HeadInv'
    BY DEF LocalsInv, HeadInv, Past
  <1>15. FirmInv' /\ FoundInv'
    BY DEF FirmInv, FoundInv, Firm, Held, LocalsInv
  <1> QED
    BY <1>12, <1>13, <1>14, <1>15

-----------------------------------------------------------------------------
(* The theorems.                                                           *)

(* Nothing the invariant speaks of changes. *)
LEMMA StutterStep ==
    ASSUME IndInv, UNCHANGED vars
    PROVE  IndInv'
  <1>1. WaitsOK' /\ WaitInv'
    BY WaitsStay DEF vars, tasks, bounds, WaitsSame, IndInv, TypeOK, WaitsOK
  <1> QED
    BY <1>1, WaitMovesStep DEF vars, tasks, WaitMoves

(* Every step of the system preserves the invariant. *)
LEMMA NextStep == IndInv /\ [Next]_vars => IndInv'
  <1> SUFFICES ASSUME IndInv, [Next]_vars PROVE IndInv'
    OBVIOUS
  <1>1. CASE Owners
    BY <1>1, BashExitsStep, SubagentFinishesStep, RegisterWaitStep, HelperAbortedStep,
       WaitExpiresStep, WaiterGoneStep DEF Owners
  <1>2. CASE TaskCompleted
    BY <1>2, TaskCompletedStep
  <1>3. CASE Actor
    BY <1>3, QueueWakeStep, InjectNotificationStep DEF Actor
  <1>4. CASE UserPrompt \/ Cancel \/ Rewind
    BY <1>4, UserPromptStep, CancelStep, RewindStep
  <1>5. CASE TurnSteps
    BY <1>5, DrainBashStep, AskCoordinatorStep, PushPromptStep, EndWaitStep, ReminderMarksStep,
       ReminderAppliesStep, ToolSuccessStep DEF TurnSteps
  <1>6. CASE Completions
    BY <1>6, CompletionsStep
  <1>7. CASE ModelCalls
    BY <1>7, ToolCallStep, BeginWaitStep, KillTaskStep DEF ModelCalls
  <1>8. CASE TurnEnds
    BY <1>8, TurnEndsStep
  <1>9. CASE UNCHANGED vars
    BY <1>9, StutterStep
  <1> QED
    BY <1>1, <1>2, <1>3, <1>4, <1>5, <1>6, <1>7, <1>8, <1>9 DEF Next

(* The invariant holds in every reachable state. *)
LEMMA Invariance == Spec => []IndInv
  BY InitInv, NextStep, PTL DEF Spec

(* Values have their types: a registered wait belongs to a call that was   *)
(* made and to a task that runs, only an idle session has an empty queue,  *)
(* and the notifications keep within their limit.                          *)
THEOREM TypeCorrect == Spec => []TypeOK
  <1>1. IndInv => TypeOK
    BY DEF IndInv
  <1> QED
    BY <1>1, Invariance, PTL

(* No completion disappears between the surfaces: a bash task is still     *)
(* unreported, and so a later reminder finds it, or what made it reported  *)
(* carries it; a subagent leaves the coordinator's buffer only for a turn  *)
(* that will tell it or because a carrier suppressed it.                   *)
THEOREM NoneVanishes == Spec => []NothingVanishes
  <1>1. IndInv => NothingVanishes
    <2> SUFFICES ASSUME IndInv, NEW t \in done
                 PROVE  t \in told \cup OnTheWay \cup Remindable \cup preempted \cup aborted
      BY DEF NothingVanishes
    <2>1. Waking \subseteq OnTheWay /\ Ids(queue) \subseteq OnTheWay
      <3>1. Waking \subseteq {cmds[i].task : i \in DOMAIN cmds}
        BY DEF Waking, Elems
      <3> QED
        BY <3>1 DEF OnTheWay
    <2>2. Held \subseteq OnTheWay /\ turn.got \subseteq OnTheWay
      BY DEF OnTheWay, Held
    <2>3. Firm \subseteq told \cup OnTheWay \cup preempted \cup aborted
      BY <2>1, <2>2 DEF Firm
    <2>4. CASE t \in Bash
      BY <2>3, <2>4 DEF IndInv, FirmInv, Remindable
    <2>5. CASE t \in Subagents
      BY <2>2, <2>3, <2>5 DEF IndInv, FoundInv, Remindable
    <2> QED
      BY <2>4, <2>5 DEF IndInv, TypeOK, Tasks
  <1> QED
    BY <1>1, Invariance, PTL

(* A bash task whose exit a running call received is not announced as      *)
(* well: its block_waited flag was set when the task exited, whatever      *)
(* waits of other calls had registered, expired or been aborted by then.   *)
THEOREM AwaitedStaysQuiet == Spec => []AwaitedIsNotWoken
  <1>1. IndInv => AwaitedIsNotWoken
    <2> SUFFICES ASSUME IndInv PROVE Carried \cup Elems(notifs) \subseteq News
      BY DEF AwaitedIsNotWoken, IndInv, AwaitInv
    <2>1. {cmds[i].task : i \in DOMAIN cmds} \subseteq Sent
      BY DEF Sent, Elems
    <2>2. {bridge[i].task : i \in {j \in DOMAIN bridge : ~bridge[j].quiet}} \subseteq Loud
      BY DEF Loud, Elems
    <2>3. Ids(IF Idle THEN queue ELSE Tail(queue)) \subseteq Ids(queue)
      <3>1. queue \in Seq(Entries) /\ (~Idle => queue # << >>)
        BY DEF IndInv, TypeOK
      <3> QED
        BY <3>1, IdsFacts
    <2> QED
      BY <2>1, <2>2, <2>3 DEF Carried, News
  <1> QED
    BY <1>1, Invariance, PTL

=============================================================================
