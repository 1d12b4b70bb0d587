-------------------------- MODULE SessionActorProofs --------------------------
(***************************************************************************)
(* Invariants of the session actor for any number of prompts, clients,     *)
(* starters and edits.                                                     *)
(***************************************************************************)
EXTENDS SessionActor, PromptQueueProofs

(* A cancel in progress knows what it was asked for. *)
CancelKnown == pc \in {"cancel", "gate", "abort", "tail"} => cx.how \in CancelKinds

(***************************************************************************)
(* Who a set pin names.  Outside a cancel it is the promoted turn.  In a   *)
(* cancel whose lock has been taken it may be the victim's, until another  *)
(* task starts a turn and overwrites it.  The pin that a cancel captured   *)
(* names the promoted turn up to the moment when the lock is taken.        *)
(***************************************************************************)
PinOwned ==
    /\ pc \notin {"gate", "abort", "tail"} /\ pin # None => running = pin
    /\ pin # None /\ running # None => pin = running
    /\ pc = "cancel" /\ cx.pinned # None => running = cx.pinned

(* The inductive invariant. *)
IndInv == TypeOK /\ CancelKnown /\ FrontIsRunning /\ PinOwned

-----------------------------------------------------------------------------
(* Lemmas about the operators the actions are built from. *)

(* Answers stay answers. *)
LEMMA ResolveType ==
    ASSUME NEW ans \in [Ids -> AnswerStates], NEW S, NEW a \in AnswerStates
    PROVE  Resolve(ans, S, a) \in [Ids -> AnswerStates]
  BY DEF Resolve

(* A broadcast is a list of user prompts with their versions. *)
LEMMA RowsType ==
    ASSUME NEW q \in Seq(Ids), NEW run, NEW vs \in [Users -> 0 .. MaxVersion]
    PROVE  Rows(q, run, vs) \in Seq(Users \X (0 .. MaxVersion))
  <1> DEFINE r == Only(q, Users \ {run})
  <1>1. r \in Seq(Ids \cap (Users \ {run}))
    BY OnlyFacts
  <1> HIDE DEF r
  <1>2. r \in Seq(Users)
    BY <1>1
  <1>3. [k \in DOMAIN r |-> <<r[k], vs[r[k]]>>] \in Seq(Users \X (0 .. MaxVersion))
    BY <1>2
  <1> QED  BY <1>3 DEF Rows, r

(***************************************************************************)
(* maybe_start_running_task keeps the types, leaves the running turn at    *)
(* the front if it was there, and leaves the pin on the running turn.      *)
(***************************************************************************)
LEMMA MaybeStartFacts ==
    ASSUME NEW q \in Seq(Ids), NEW run \in Ids \cup {None}, NEW rw \in BOOLEAN,
           NEW pn \in Ids \cup {None}, NEW tk \in [Ids -> TaskStates],
           NEW mi \in Seq(Users \X (0 .. MaxVersion)),
           version' \in [Users -> 0 .. MaxVersion],
           MaybeStart(q, run, rw, pn, tk, mi)
    PROVE  /\ queue' \in Seq(Ids)
           /\ running' \in Ids \cup {None}
           /\ rewindable' \in BOOLEAN
           /\ pin' \in Ids \cup {None}
           /\ task' \in [Ids -> TaskStates]
           /\ mirror' \in Seq(Users \X (0 .. MaxVersion))
           /\ (run # None => q # << >> /\ Head(q) = run)
                => (running' # None => queue' # << >> /\ Head(queue') = running')
           /\ run # None => running' = run /\ pin' = pn
           /\ \/ running' = run /\ pin' = pn
              \/ run = None /\ running' # None /\ pin' = running'
  <1> DEFINE go == run = None /\ q # << >>
  <1>1. q # << >> => Head(q) \in Ids /\ Head(q) # None
    BY IdAssumption
  <1>2. Rows(q, Head(q), version') \in Seq(Users \X (0 .. MaxVersion))
    BY RowsType
  <1>3. /\ queue' = q
        /\ rewindable' = (go \/ rw)
        /\ running' = IF go THEN Head(q) ELSE run
        /\ pin' = IF go THEN Head(q) ELSE pn
        /\ task' = IF go THEN [tk EXCEPT ![Head(q)] = "live"] ELSE tk
        /\ mirror' = IF go THEN Rows(q, Head(q), version') ELSE mi
    BY DEF MaybeStart
  <1>4. task' \in [Ids -> TaskStates]
    BY <1>1, <1>3 DEF TaskStates
  <1>5. mirror' \in Seq(Users \X (0 .. MaxVersion))
    BY <1>2, <1>3
  <1>6. rewindable' \in BOOLEAN
    BY <1>3
  <1>7. queue' \in Seq(Ids) /\ running' \in Ids \cup {None} /\ pin' \in Ids \cup {None}
    BY <1>1, <1>3
  <1>8. (run # None => q # << >> /\ Head(q) = run)
          => (running' # None => queue' # << >> /\ Head(queue') = running')
    BY <1>3
  <1>9. /\ run # None => running' = run /\ pin' = pn
        /\ \/ running' = run /\ pin' = pn
           \/ run = None /\ running' # None /\ pin' = running'
    BY <1>1, <1>3
  <1> QED  BY <1>4, <1>5, <1>6, <1>7, <1>8, <1>9

(* A swept or cleared queue is a queue. *)
LEMMA SweepType ==
    ASSUME queue \in Seq(Ids), NEW Drop
    PROVE  /\ SweepPending(queue, Drop) \in Seq(Ids)
           /\ Preempted \in Seq(Ids)
  BY OnlyFacts DEF SweepPending, Preempted

(* What a client may ask ReorderQueue for is a list of prompts. *)
LEMMA OrdersType == Orders \subseteq Seq(Ids)
  <1>1. Cardinality(Users) \in Nat
    BY IdAssumption, FS_CardinalityType
  <1>2. ASSUME NEW n \in 0 .. Cardinality(Users), NEW o \in [1 .. n -> Users]
        PROVE  o \in Seq(Ids)
    BY <1>1, <1>2 DEF Ids, UserOrigin
  <1> QED  BY <1>2 DEF Orders

(***************************************************************************)
(* The end of Prompt and of InterjectQueuedPrompt keeps the types, keeps   *)
(* the running turn at the front of a queue that has it there, and either  *)
(* begins a cancel that captures the pin or leaves the pin with the        *)
(* running turn.                                                           *)
(***************************************************************************)
LEMMA CancelOrStartFacts ==
    ASSUME TypeOK, version' \in [Users -> 0 .. MaxVersion],
           NEW q \in Seq(Ids), NEW ans \in [Ids -> AnswerStates], NEW cancel \in BOOLEAN,
           CancelOrStart(q, ans, cancel)
    PROVE  /\ queue' \in Seq(Ids)
           /\ running' \in Ids \cup {None}
           /\ rewindable' \in BOOLEAN
           /\ pin' \in Ids \cup {None}
           /\ task' \in [Ids -> TaskStates]
           /\ mirror' \in Seq(Users \X (0 .. MaxVersion))
           /\ interjections' \in Seq(Interjects)
           /\ answer' \in [Ids -> AnswerStates]
           /\ \/ /\ pc' = "cancel"
                 /\ cx' = [NoCancel EXCEPT !.how = "cancelled", !.pinned = pin]
                 /\ running' = running /\ pin' = pin
              \/ pc' = pc /\ cx' = cx
           /\ (running # None => q # << >> /\ Head(q) = running)
                => (running' # None => queue' # << >> /\ Head(queue') = running')
           /\ \/ running' = running /\ pin' = pin
              \/ running = None /\ running' # None /\ pin' = running'
  <1>1. Rows(q, running, version') \in Seq(Users \X (0 .. MaxVersion))
    BY RowsType
  <1>2. CASE /\ BeginCancel("cancelled")
             /\ queue' = q
             /\ mirror' = Rows(q, running, version')
             /\ answer' = Resolve(ans, Elems(interjections), "discarded")
             /\ UNCHANGED <<running, rewindable, pin, task>>
    <2>1. answer' \in [Ids -> AnswerStates]
      BY <1>2, ResolveType DEF AnswerStates
    <2>2. interjections' \in Seq(Interjects)
      BY <1>2 DEF BeginCancel
    <2> QED  BY <1>1, <1>2, <2>1, <2>2 DEF BeginCancel, TypeOK
  <1>3. CASE /\ MaybeStart(q, running, rewindable, pin, task, Rows(q, running, version'))
             /\ answer' = ans
             /\ UNCHANGED <<pc, cx, interjections>>
    <2>1. /\ running \in Ids \cup {None} /\ rewindable \in BOOLEAN /\ pin \in Ids \cup {None}
          /\ task \in [Ids -> TaskStates] /\ interjections \in Seq(Interjects)
      BY DEF TypeOK
    <2>2. /\ queue' \in Seq(Ids)
          /\ running' \in Ids \cup {None}
          /\ rewindable' \in BOOLEAN
          /\ pin' \in Ids \cup {None}
          /\ task' \in [Ids -> TaskStates]
          /\ mirror' \in Seq(Users \X (0 .. MaxVersion))
      BY <1>1, <1>3, <2>1, MaybeStartFacts
    <2>3. /\ (running # None => q # << >> /\ Head(q) = running)
               => (running' # None => queue' # << >> /\ Head(queue') = running')
          /\ \/ running' = running /\ pin' = pin
             \/ running = None /\ running' # None /\ pin' = running'
      BY <1>1, <1>3, <2>1, MaybeStartFacts
    <2> QED  BY <1>3, <2>1, <2>2, <2>3
  <1> QED  BY <1>2, <1>3 DEF CancelOrStart

-----------------------------------------------------------------------------
(* The steps. *)

(* The invariant holds initially. *)
LEMMA InitIndInv == Init => IndInv
  <1> SUFFICES ASSUME Init PROVE IndInv
    OBVIOUS
  <1>1. /\ cx \in [how : CancelKinds \cup {"none"}, pinned : Ids \cup {None},
                    victim : Ids \cup {None}, terminal : Ids \cup {None}, removed : SUBSET Ids]
        /\ pc = "ready"
    BY DEF Init, NoCancel
  <1>2. /\ queue \in Seq(Ids) /\ mirror \in Seq(Users \X (0 .. MaxVersion))
        /\ interjections \in Seq(Interjects) /\ completions \in Seq(Ids)
        /\ stranded \in Seq(Interjects)
    BY DEF Init
  <1>3. /\ version \in [Users -> 0 .. MaxVersion] /\ task \in [Ids -> TaskStates]
        /\ answer \in [Ids -> AnswerStates] /\ ended \in [Ids -> Nat]
    BY IdAssumption DEF Init, TaskStates, AnswerStates
  <1>4. TypeOK
    BY <1>1, <1>2, <1>3 DEF Init, TypeOK, ActorStates
  <1> QED  BY <1>4 DEF Init, IndInv, CancelKnown, FrontIsRunning, PinOwned

(***************************************************************************)
(* Prompt and InterjectQueuedPrompt keep the invariant if they hand over a *)
(* queue with the running turn at its front.                               *)
(***************************************************************************)
LEMMA CancelOrStartStep ==
    ASSUME IndInv, pc = "ready",
           version' \in [Users -> 0 .. MaxVersion], sendNow' \subseteq UserOrigin,
           UNCHANGED <<depth, gate, guards, shown, completions, starters, stranded, ended>>,
           NEW q \in Seq(Ids), NEW ans \in [Ids -> AnswerStates], NEW cancel \in BOOLEAN,
           running # None => q # << >> /\ Head(q) = running,
           CancelOrStart(q, ans, cancel)
    PROVE  IndInv'
  <1>1. TypeOK
    BY DEF IndInv
  <1>2. /\ queue' \in Seq(Ids)
        /\ running' \in Ids \cup {None}
        /\ rewindable' \in BOOLEAN
        /\ pin' \in Ids \cup {None}
        /\ task' \in [Ids -> TaskStates]
        /\ mirror' \in Seq(Users \X (0 .. MaxVersion))
        /\ interjections' \in Seq(Interjects)
        /\ answer' \in [Ids -> AnswerStates]
    BY <1>1, CancelOrStartFacts
  <1>3. \/ /\ pc' = "cancel"
           /\ cx' = [NoCancel EXCEPT !.how = "cancelled", !.pinned = pin]
           /\ running' = running /\ pin' = pin
        \/ pc' = pc /\ cx' = cx
    BY <1>1, CancelOrStartFacts
  <1>4. FrontIsRunning'
    BY <1>1, CancelOrStartFacts DEF FrontIsRunning
  <1>5. \/ running' = running /\ pin' = pin
        \/ running = None /\ running' # None /\ pin' = running'
    BY <1>1, CancelOrStartFacts
  <1>6. /\ cx' \in [how : CancelKinds \cup {"none"}, pinned : Ids \cup {None},
                     victim : Ids \cup {None}, terminal : Ids \cup {None}, removed : SUBSET Ids]
        /\ pc' \in ActorStates
        /\ pc' = "cancel" => cx'.how = "cancelled" /\ cx'.pinned = pin
    BY <1>1, <1>3 DEF TypeOK, NoCancel, CancelKinds, ActorStates
  <1>7. TypeOK'
    BY <1>1, <1>2, <1>6 DEF TypeOK
  <1>8. CancelKnown'
    BY <1>3, <1>6 DEF CancelKnown, CancelKinds
  <1>9. PinOwned'
    BY <1>3, <1>5, <1>6 DEF IndInv, PinOwned
  <1> QED  BY <1>4, <1>7, <1>8, <1>9 DEF IndInv

(* The same as MaybeStartFacts for a start from the current running turn and tasks. *)
LEMMA StartFacts ==
    ASSUME TypeOK, NEW q \in Seq(Ids), NEW rw \in BOOLEAN, NEW pn \in Ids \cup {None},
           NEW mi \in Seq(Users \X (0 .. MaxVersion)), version' = version,
           MaybeStart(q, running, rw, pn, task, mi)
    PROVE  /\ queue' \in Seq(Ids)
           /\ running' \in Ids \cup {None}
           /\ rewindable' \in BOOLEAN
           /\ pin' \in Ids \cup {None}
           /\ task' \in [Ids -> TaskStates]
           /\ mirror' \in Seq(Users \X (0 .. MaxVersion))
           /\ (running # None => q # << >> /\ Head(q) = running)
                => (running' # None => queue' # << >> /\ Head(queue') = running')
           /\ \/ running' = running /\ pin' = pn
              \/ running = None /\ running' # None /\ pin' = running'
  <1>1. /\ running \in Ids \cup {None} /\ task \in [Ids -> TaskStates]
        /\ version' \in [Users -> 0 .. MaxVersion]
    BY DEF TypeOK
  <1>2. /\ queue' \in Seq(Ids)
        /\ running' \in Ids \cup {None}
        /\ rewindable' \in BOOLEAN
        /\ pin' \in Ids \cup {None}
        /\ task' \in [Ids -> TaskStates]
        /\ mirror' \in Seq(Users \X (0 .. MaxVersion))
    BY <1>1, MaybeStartFacts
  <1>3. /\ (running # None => q # << >> /\ Head(q) = running)
             => (running' # None => queue' # << >> /\ Head(queue') = running')
        /\ \/ running' = running /\ pin' = pn
           \/ running = None /\ running' # None /\ pin' = running'
    BY <1>1, MaybeStartFacts
  <1> QED  BY <1>2, <1>3

(***************************************************************************)
(* Prompt: the preempting sweep spares the running front and the insertion *)
(* point is behind it.                                                     *)
(***************************************************************************)
LEMMA PromptStep ==
    ASSUME IndInv, NEW u \in Users, NEW sn \in BOOLEAN, Prompt(u, sn)
    PROVE  IndInv'
  <1> DEFINE q    == Preempted
             now  == sn \/ AutoSendNow(q)
             slot == IF now THEN SendNowSlot(q, running, sendNow) ELSE Len(q)
             ans  == Resolve(Resolve(answer, Elems(queue) \ Elems(q), "dropped"), {u}, "waiting")
  <1>1. TypeOK /\ pc = "ready" /\ queue \in Seq(Ids) /\ u \in Ids
    BY DEF IndInv, TypeOK, Prompt, AtCommand, Ids, UserOrigin
  <1>2. q \in Seq(Ids)
    BY <1>1, SweepType
  <1>3. running # None => q # << >> /\ Head(q) = running
    <2>1. running # None => queue # << >> /\ Head(queue) = running
      BY <1>1 DEF IndInv, FrontIsRunning
    <2>2. running # None => SweepPending(queue, Synthetic) # << >>
                            /\ Head(SweepPending(queue, Synthetic)) = running
      BY <1>1, <2>1, OnlyKeepsHead DEF SweepPending
    <2> QED  BY <2>1, <2>2 DEF Preempted
  <1>4. slot \in 0 .. Len(q) /\ (running # None => slot >= 1)
    BY <1>2, <1>3, SendNowSlotFacts
  <1>5. version' \in [Users -> 0 .. MaxVersion] /\ sendNow' \subseteq UserOrigin
    BY <1>1 DEF Prompt, TypeOK, UserOrigin
  <1>6. CancelOrStart(InsertBehind(q, slot, u), ans, now /\ running # None /\ ~gate)
    BY DEF Prompt
  <1>7. ans \in [Ids -> AnswerStates]
    BY <1>1, ResolveType DEF TypeOK, AnswerStates
  <1>8. UNCHANGED <<depth, gate, guards, shown, completions, starters, stranded, ended>>
    BY DEF Prompt, turnVars
  <1> HIDE DEF q, now, slot, ans
  <1>9. /\ InsertBehind(q, slot, u) \in Seq(Ids)
        /\ running # None => InsertBehind(q, slot, u) # << >>
                             /\ Head(InsertBehind(q, slot, u)) = running
    BY <1>1, <1>2, <1>3, <1>4, InsertBehindFacts
  <1>10. (now /\ running # None /\ ~gate) \in BOOLEAN
    OBVIOUS
  <1> QED  BY <1>1, <1>5, <1>6, <1>7, <1>8, <1>9, <1>10, CancelOrStartStep

(***************************************************************************)
(* A command or a task that only replaces the queue and tries to start its *)
(* front keeps the invariant if the running turn is at the front.          *)
(***************************************************************************)
LEMMA StartStep ==
    ASSUME IndInv, UNCHANGED <<depth, gate, guards, shown, pc, cx, stranded, interjections,
                               completions, ended, sendNow, version>>,
           starters' \subseteq Plans \cup {Mcp},
           answer' \in [Ids -> AnswerStates],
           NEW q \in Seq(Ids), NEW mi \in Seq(Users \X (0 .. MaxVersion)),
           running # None /\ pc # "stopped" => q # << >> /\ Head(q) = running,
           MaybeStart(q, running, rewindable, pin, task, mi)
    PROVE  IndInv'
  <1>1. TypeOK /\ rewindable \in BOOLEAN /\ pin \in Ids \cup {None}
    BY DEF IndInv, TypeOK
  <1>2. /\ queue' \in Seq(Ids)
        /\ running' \in Ids \cup {None}
        /\ rewindable' \in BOOLEAN
        /\ pin' \in Ids \cup {None}
        /\ task' \in [Ids -> TaskStates]
        /\ mirror' \in Seq(Users \X (0 .. MaxVersion))
    BY <1>1, StartFacts
  <1>3. (running # None => q # << >> /\ Head(q) = running)
          => (running' # None => queue' # << >> /\ Head(queue') = running')
    BY <1>1, StartFacts
  <1>4. \/ running' = running /\ pin' = pin
        \/ running = None /\ running' # None /\ pin' = running'
    BY <1>1, StartFacts
  <1>5. TypeOK'
    BY <1>1, <1>2 DEF TypeOK
  <1>6. FrontIsRunning'
    BY <1>3 DEF FrontIsRunning
  <1>7. CancelKnown' /\ PinOwned'
    BY <1>4, <1>5, IdAssumption DEF IndInv, TypeOK, CancelKnown, PinOwned
  <1> QED  BY <1>5, <1>6, <1>7 DEF IndInv

(* WakePrompt, GoalSummaryTurn and InjectNotification append a synthetic prompt and start. *)
LEMMA SyntheticStep ==
    ASSUME IndInv,
           \/ \E w \in Wakes : WakePrompt(w)
           \/ \E g \in Goals : GoalSummaryTurn(g)
           \/ \E d \in Drains : InjectNotification(d)
    PROVE  IndInv'
  <1>1. /\ TypeOK /\ queue \in Seq(Ids) /\ mirror \in Seq(Users \X (0 .. MaxVersion))
        /\ version \in [Users -> 0 .. MaxVersion] /\ answer \in [Ids -> AnswerStates]
        /\ starters \subseteq Plans \cup {Mcp}
    BY DEF IndInv, TypeOK
  <1>2. running # None /\ pc # "stopped" => queue # << >> /\ Head(queue) = running
    BY DEF IndInv, FrontIsRunning
  <1>3. ASSUME NEW i \in Ids
        PROVE  /\ Append(queue, i) \in Seq(Ids)
               /\ running # None /\ pc # "stopped" =>
                    Append(queue, i) # << >> /\ Head(Append(queue, i)) = running
               /\ Resolve(answer, {i}, "waiting") \in [Ids -> AnswerStates]
               /\ Rows(Append(queue, i), running, version) \in Seq(Users \X (0 .. MaxVersion))
    <2>1. Append(queue, i) \in Seq(Ids) /\ Append(queue, i) # << >>
      BY <1>1, AppendFacts
    <2>2. queue # << >> => Head(Append(queue, i)) = Head(queue)
      BY <1>1, AppendFacts
    <2>3. Resolve(answer, {i}, "waiting") \in [Ids -> AnswerStates]
      BY <1>1, ResolveType DEF AnswerStates
    <2>4. Rows(Append(queue, i), running, version) \in Seq(Users \X (0 .. MaxVersion))
      BY <1>1, <2>1, RowsType
    <2> QED  BY <1>2, <2>1, <2>2, <2>3, <2>4
  <1>4. ASSUME NEW w \in Wakes, WakePrompt(w)
        PROVE  IndInv'
    <2>1. w \in Ids
      BY DEF Ids, Synthetic
    <2>2. /\ MaybeStart(Append(queue, w), running, rewindable, pin, task,
                        Rows(Append(queue, w), running, version))
          /\ answer' = Resolve(answer, {w}, "waiting")
          /\ UNCHANGED <<depth, gate, guards, shown, pc, cx, stranded, interjections,
                         completions, ended, sendNow, version, starters>>
      BY <1>4 DEF WakePrompt, rowVars, turnVars, actorVars
    <2> QED  BY <1>1, <1>3, <2>1, <2>2, StartStep
  <1>5. ASSUME NEW g \in Goals, GoalSummaryTurn(g)
        PROVE  IndInv'
    <2>1. g \in Ids
      BY DEF Ids, Synthetic
    <2>2. /\ MaybeStart(Append(queue, g), running, rewindable, pin, task, mirror)
          /\ answer' = Resolve(answer, {g}, "waiting")
          /\ UNCHANGED <<depth, gate, guards, shown, pc, cx, stranded, interjections,
                         completions, ended, sendNow, version, starters>>
      BY <1>5 DEF GoalSummaryTurn, rowVars, turnVars, actorVars
    <2> QED  BY <1>1, <1>3, <2>1, <2>2, StartStep
  <1>6. ASSUME NEW d \in Drains, InjectNotification(d)
        PROVE  IndInv'
    <2>1. d \in Ids /\ <<d>> \in Seq(Ids) /\ running = None
      BY <1>6 DEF Ids, Synthetic, InjectNotification
    <2>2. /\ MaybeStart(<<d>>, running, rewindable, pin, task, mirror)
          /\ answer' = Resolve(answer, {d}, "waiting")
          /\ UNCHANGED <<depth, gate, guards, shown, pc, cx, stranded, interjections,
                         completions, ended, sendNow, version, starters>>
      BY <1>6 DEF InjectNotification, rowVars, turnVars, actorVars
    <2> QED  BY <1>1, <1>3, <2>1, <2>2, StartStep
  <1> QED  BY <1>4, <1>5, <1>6

(***************************************************************************)
(* A step that replaces the queue and starts nothing keeps the invariant   *)
(* if the running turn is still at the front.                              *)
(***************************************************************************)
LEMMA QueueStep ==
    ASSUME IndInv, queue' \in Seq(Ids), mirror' \in Seq(Users \X (0 .. MaxVersion)),
           answer' \in [Ids -> AnswerStates], starters' \subseteq Plans \cup {Mcp},
           sendNow' \subseteq UserOrigin, version' \in [Users -> 0 .. MaxVersion],
           stranded' \in Seq(Interjects),
           running # None /\ pc # "stopped" => queue' # << >> /\ Head(queue') = running,
           UNCHANGED <<running, rewindable, pin, task, depth, gate, guards, shown, pc, cx,
                       interjections, completions, ended>>
    PROVE  IndInv'
  <1>1. TypeOK'
    BY DEF IndInv, TypeOK
  <1>2. CancelKnown' /\ PinOwned' /\ FrontIsRunning'
    BY DEF IndInv, CancelKnown, PinOwned, FrontIsRunning
  <1> QED  BY <1>1, <1>2 DEF IndInv

(* The facts about the current queue that the commands on rows use. *)
LEMMA CurrentQueue ==
    ASSUME IndInv
    PROVE  /\ TypeOK /\ queue \in Seq(Ids) /\ mirror \in Seq(Users \X (0 .. MaxVersion))
           /\ version \in [Users -> 0 .. MaxVersion] /\ answer \in [Ids -> AnswerStates]
           /\ starters \subseteq Plans \cup {Mcp} /\ sendNow \subseteq UserOrigin
           /\ stranded \in Seq(Interjects) /\ interjections \in Seq(Interjects)
           /\ running \in Ids \cup {None}
           /\ running # None /\ pc # "stopped" =>
                 queue # << >> /\ Head(queue) = running /\ running \in Ids
  BY DEF IndInv, TypeOK, FrontIsRunning

(* A sweep of the current queue that does not drop the running turn. *)
LEMMA SweepStep ==
    ASSUME IndInv, NEW Keep, running \in Keep \cup {None}
    PROVE  /\ Only(queue, Keep) \in Seq(Ids)
           /\ running # None /\ pc # "stopped" =>
                 Only(queue, Keep) # << >> /\ Head(Only(queue, Keep)) = running
           /\ Rows(Only(queue, Keep), running, version) \in Seq(Users \X (0 .. MaxVersion))
  <1>1. Only(queue, Keep) \in Seq(Ids)
    BY CurrentQueue, OnlyFacts
  <1>2. running # None /\ pc # "stopped" =>
           Only(queue, Keep) # << >> /\ Head(Only(queue, Keep)) = running
    BY CurrentQueue, OnlyKeepsHead
  <1>3. Rows(Only(queue, Keep), running, version) \in Seq(Users \X (0 .. MaxVersion))
    BY <1>1, CurrentQueue, RowsType
  <1> QED  BY <1>1, <1>2, <1>3

(* Removals, the clearing and the reorder of rows, and edits, leave the running turn at the *)
(* front: none of them may touch its slot.                                                 *)
LEMMA RowStep ==
    ASSUME IndInv,
           \/ \E u \in Users, v \in 0 .. MaxVersion, o \in Clients \cup {None} :
                 RemoveQueuedPrompt(u, v, o)
           \/ \E o \in Orders : ReorderQueue(o)
           \/ \E o \in Clients \cup {None} : ClearQueue(o)
           \/ \E u \in Users : EditQueuedPrompt(u)
    PROVE  IndInv'
  <1>1. ASSUME NEW u \in Users, NEW v, NEW o, RemoveQueuedPrompt(u, v, o)
        PROVE  IndInv'
    <2> DEFINE gone == IF RowMatches(u, v, o) THEN {u} ELSE {}
    <2>1. running \in (Ids \ gone) \cup {None}
      BY CurrentQueue DEF RowMatches
    <2>2. /\ queue' = Only(queue, Ids \ gone)
          /\ answer' = Resolve(answer, gone, "removed")
          /\ mirror' = Rows(queue', running, version)
          /\ UNCHANGED <<running, rewindable, pin, task, depth, gate, guards, shown, pc, cx,
                         interjections, completions, ended, starters, sendNow, version, stranded>>
      BY <1>1 DEF RemoveQueuedPrompt, rowVars, turnVars, actorVars
    <2> HIDE DEF gone
    <2>3. answer' \in [Ids -> AnswerStates]
      BY <2>2, CurrentQueue, ResolveType DEF AnswerStates
    <2>4. /\ queue' \in Seq(Ids) /\ mirror' \in Seq(Users \X (0 .. MaxVersion))
          /\ running # None /\ pc # "stopped" => queue' # << >> /\ Head(queue') = running
      BY <2>1, <2>2, SweepStep
    <2> QED  BY <2>2, <2>3, <2>4, CurrentQueue, QueueStep
  <1>2. ASSUME NEW o \in Orders, ReorderQueue(o)
        PROVE  IndInv'
    <2>1. o \in Seq(Ids)
      BY OrdersType
    <2>2. /\ queue' = Reordered(queue, Users \ {running}, o)
          /\ mirror' = Rows(queue', running, version)
          /\ UNCHANGED <<running, rewindable, pin, task, depth, gate, guards, shown, pc, cx,
                         interjections, completions, ended, starters, sendNow, version, stranded,
                         answer>>
      BY <1>2 DEF ReorderQueue, rowVars, turnVars, actorVars
    <2>3. queue' \in Seq(Ids)
      BY <2>1, <2>2, CurrentQueue, ReorderedFacts
    <2>4. running # None /\ pc # "stopped" => queue' # << >> /\ Head(queue') = running
      <3>1. running # None /\ pc # "stopped" =>
              queue # << >> /\ Head(queue) = running /\ Head(queue) \notin Users \ {running}
        BY CurrentQueue
      <3>2. queue # << >> /\ Head(queue) \notin Users \ {running} =>
              queue' # << >> /\ Head(queue') = Head(queue)
        BY <2>1, <2>2, CurrentQueue, ReorderedFacts
      <3> QED  BY <3>1, <3>2
    <2>5. mirror' \in Seq(Users \X (0 .. MaxVersion))
      BY <2>2, <2>3, CurrentQueue, RowsType
    <2> QED  BY <2>2, <2>3, <2>4, <2>5, CurrentQueue, QueueStep
  <1>3. ASSUME NEW o, ClearQueue(o)
        PROVE  IndInv'
    <2> DEFINE gone == {u \in (Elems(queue) \cap Users) \ {running} : o \in {None, OwnerOf[u]}}
    <2>1. running \in (Ids \ gone) \cup {None}
      BY CurrentQueue
    <2>2. /\ queue' = Only(queue, Ids \ gone)
          /\ answer' = Resolve(answer, gone, "removed")
          /\ mirror' = Rows(queue', running, version)
          /\ UNCHANGED <<running, rewindable, pin, task, depth, gate, guards, shown, pc, cx,
                         interjections, completions, ended, starters, sendNow, version, stranded>>
      BY <1>3 DEF ClearQueue, rowVars, turnVars, actorVars
    <2> HIDE DEF gone
    <2>3. answer' \in [Ids -> AnswerStates]
      BY <2>2, CurrentQueue, ResolveType DEF AnswerStates
    <2>4. /\ queue' \in Seq(Ids) /\ mirror' \in Seq(Users \X (0 .. MaxVersion))
          /\ running # None /\ pc # "stopped" => queue' # << >> /\ Head(queue') = running
      BY <2>1, <2>2, SweepStep
    <2> QED  BY <2>2, <2>3, <2>4, CurrentQueue, QueueStep
  <1>4. ASSUME NEW u \in Users, EditQueuedPrompt(u)
        PROVE  IndInv'
    <2>1. /\ version[u] < MaxVersion
          /\ version' = [version EXCEPT ![u] = @ + 1]
          /\ mirror' = Rows(queue, running, version')
          /\ UNCHANGED <<queue, running, rewindable, pin, task, depth, gate, guards, shown, pc, cx,
                         interjections, completions, ended, starters, sendNow, stranded, answer>>
      BY <1>4 DEF EditQueuedPrompt, turnVars, actorVars
    <2>2. version' \in [Users -> 0 .. MaxVersion]
      BY <2>1, CurrentQueue, IdAssumption
    <2>3. mirror' \in Seq(Users \X (0 .. MaxVersion))
      BY <2>1, <2>2, CurrentQueue, RowsType
    <2> QED  BY <2>1, <2>2, <2>3, CurrentQueue, QueueStep
  <1> QED  BY <1>1, <1>2, <1>3, <1>4

(* InterjectQueuedPrompt moves a queued row, never the running turn's slot, to the send-now slot. *)
LEMMA InterjectRowStep ==
    ASSUME IndInv, NEW u \in Users, NEW v, NEW o, NEW edit \in BOOLEAN,
           InterjectQueuedPrompt(u, v, o, edit)
    PROVE  IndInv'
  <1> DEFINE q    == Only(queue, Ids \ {u})
             slot == SendNowSlot(q, running, sendNow)
  <1>1. pc = "ready" /\ u # running /\ u \in Ids /\ u \in UserOrigin
    BY DEF InterjectQueuedPrompt, AtCommand, RowMatches, Ids, UserOrigin
  <1>2. /\ q \in Seq(Ids)
        /\ running # None => q # << >> /\ Head(q) = running
    BY <1>1, CurrentQueue, SweepStep
  <1>3. slot \in 0 .. Len(q) /\ (running # None => slot >= 1)
    BY <1>2, SendNowSlotFacts
  <1>4. sendNow' \subseteq UserOrigin
    BY <1>1, CurrentQueue DEF InterjectQueuedPrompt
  <1>5. version' \in [Users -> 0 .. MaxVersion]
    BY CurrentQueue, IdAssumption DEF InterjectQueuedPrompt
  <1>6. CancelOrStart(InsertBehind(q, slot, u), answer, running # None /\ ~gate)
    BY DEF InterjectQueuedPrompt
  <1>7. UNCHANGED <<depth, gate, guards, shown, completions, starters, stranded, ended>>
    BY DEF InterjectQueuedPrompt, turnVars
  <1> HIDE DEF q, slot
  <1>8. /\ InsertBehind(q, slot, u) \in Seq(Ids)
        /\ running # None => InsertBehind(q, slot, u) # << >>
                             /\ Head(InsertBehind(q, slot, u)) = running
    BY <1>1, <1>2, <1>3, InsertBehindFacts
  <1>9. (running # None /\ ~gate) \in BOOLEAN
    OBVIOUS
  <1> QED  BY <1>1, <1>4, <1>5, <1>6, <1>7, <1>8, <1>9, CurrentQueue, CancelOrStartStep

(* The same command on a row that does not match starts the front. *)
LEMMA InterjectMissStep ==
    ASSUME IndInv, NEW u, NEW v, NEW o, InterjectQueuedPromptMisses(u, v, o)
    PROVE  IndInv'
  <1>1. Rows(queue, running, version) \in Seq(Users \X (0 .. MaxVersion))
    BY CurrentQueue, RowsType
  <1>2. /\ MaybeStart(queue, running, rewindable, pin, task, Rows(queue, running, version))
        /\ UNCHANGED <<depth, gate, guards, shown, pc, cx, stranded, interjections,
                       completions, ended, sendNow, version, starters, answer>>
    BY DEF InterjectQueuedPromptMisses, rowVars, turnVars, actorVars
  <1> QED  BY <1>1, <1>2, CurrentQueue, StartStep

(* Interject buffers the interjection or takes it for the fallback. *)
LEMMA InterjectStep ==
    ASSUME IndInv, NEW i \in Interjects, Interject(i)
    PROVE  IndInv'
  <1>1. i \in Ids /\ pc = "ready" /\ Append(interjections, i) \in Seq(Interjects)
        /\ <<i>> \in Seq(Interjects)
    BY CurrentQueue DEF Interject, AtCommand, Ids, UserOrigin
  <1>2. Resolve(answer, {i}, "waiting") \in [Ids -> AnswerStates]
    BY CurrentQueue, ResolveType DEF AnswerStates
  <1>3. /\ answer' \in [Ids -> AnswerStates]
        /\ interjections' \in Seq(Interjects)
        /\ stranded' \in Seq(Interjects)
        /\ pc' \in {"ready", "fallback"}
        /\ UNCHANGED <<queue, running, rewindable, pin, task, mirror, sendNow, version, depth, gate,
                       guards, shown, cx, completions, starters, ended>>
    BY <1>1, <1>2, CurrentQueue DEF Interject, stateVars, rowVars, turnVars
  <1>4. TypeOK'
    BY <1>3 DEF IndInv, TypeOK, ActorStates
  <1>5. CancelKnown' /\ FrontIsRunning' /\ PinOwned'
    BY <1>1, <1>3 DEF IndInv, CancelKnown, FrontIsRunning, PinOwned
  <1> QED  BY <1>4, <1>5 DEF IndInv

(* The fallback prompt goes behind the running turn's slot. *)
LEMMA InsertStrandedStep ==
    ASSUME IndInv, InsertStranded
    PROVE  IndInv'
  <1> DEFINE i == stranded[Len(stranded)]
             p == BehindRunning(queue, running)
  <1>1. stranded # << >> /\ Len(stranded) \in 1 .. Len(stranded) /\ i \in Interjects
    BY CurrentQueue DEF InsertStranded
  <1>2. i \in Ids /\ i \in UserOrigin
    BY <1>1 DEF Ids, UserOrigin
  <1>3. p \in 0 .. Len(queue) /\ (queue # << >> /\ Head(queue) = running => p = 1)
    BY CurrentQueue, BehindRunningFacts
  <1>4. /\ queue' = InsertBehind(queue, p, i)
        /\ sendNow' = sendNow \cup {i}
        /\ stranded' = SubSeq(stranded, 1, Len(stranded) - 1)
        /\ UNCHANGED <<running, rewindable, pin, task, mirror, version, depth, gate, guards, shown,
                       pc, cx, interjections, completions, starters, answer, ended>>
    BY DEF InsertStranded, turnVars
  <1>5. stranded' \in Seq(Interjects)
    BY <1>1, <1>4, CurrentQueue
  <1> HIDE DEF i, p
  <1>6. queue' \in Seq(Ids) /\ queue' # << >> /\ (p >= 1 => Head(queue') = Head(queue))
    <2>1. queue \in Seq(Ids)
      BY CurrentQueue
    <2>2. /\ InsertBehind(queue, p, i) \in Seq(Ids)
          /\ InsertBehind(queue, p, i) # << >>
          /\ p >= 1 => Head(InsertBehind(queue, p, i)) = Head(queue)
      BY <1>2, <1>3, <2>1, InsertBehindFacts
    <2> QED  BY <1>4, <2>2
  <1>7. running # None /\ pc # "stopped" => queue' # << >> /\ Head(queue') = running
    BY <1>3, <1>6, CurrentQueue
  <1>8. sendNow' \subseteq UserOrigin
    BY <1>2, <1>4, CurrentQueue
  <1> QED  BY <1>4, <1>5, <1>6, <1>7, <1>8, CurrentQueue, QueueStep

(***************************************************************************)
(* The ends of the Interject and completion handlers and the starters set  *)
(* pc or starters and try to start the front.                              *)
(***************************************************************************)
LEMMA HandlerEndStep ==
    ASSUME IndInv, pc \in {"flush", "fallback"}, pc' = "ready",
           UNCHANGED <<depth, gate, guards, shown, cx, stranded, interjections,
                       completions, ended, sendNow, version, starters>>,
           answer' \in [Ids -> AnswerStates],
           NEW q \in Seq(Ids), running # None => q # << >> /\ Head(q) = running,
           MaybeStart(q, running, rewindable, pin, task, mirror)
    PROVE  IndInv'
  <1>1. TypeOK /\ rewindable \in BOOLEAN /\ pin \in Ids \cup {None}
        /\ mirror \in Seq(Users \X (0 .. MaxVersion))
    BY DEF IndInv, TypeOK
  <1>2. /\ queue' \in Seq(Ids)
        /\ running' \in Ids \cup {None}
        /\ rewindable' \in BOOLEAN
        /\ pin' \in Ids \cup {None}
        /\ task' \in [Ids -> TaskStates]
        /\ mirror' \in Seq(Users \X (0 .. MaxVersion))
    BY <1>1, StartFacts
  <1>3. running' # None => queue' # << >> /\ Head(queue') = running'
    BY <1>1, StartFacts
  <1>4. \/ running' = running /\ pin' = pin
        \/ running = None /\ running' # None /\ pin' = running'
    BY <1>1, StartFacts
  <1>5. TypeOK'
    BY <1>1, <1>2 DEF TypeOK, ActorStates
  <1>6. FrontIsRunning'
    BY <1>3 DEF FrontIsRunning
  <1>7. CancelKnown' /\ PinOwned'
    BY <1>4 DEF IndInv, CancelKnown, PinOwned
  <1> QED  BY <1>5, <1>6, <1>7 DEF IndInv

(* The end of the fallback of an interjection, and the end of a completion. *)
LEMMA DoneStep ==
    ASSUME IndInv, FallbackDone \/ \E d \in Drains \cup {None} : CompletionDone(d)
    PROVE  IndInv'
  <1>1. CASE FallbackDone
    <2>1. /\ pc = "fallback" /\ pc' = "ready"
          /\ MaybeStart(queue, running, rewindable, pin, task, mirror)
          /\ UNCHANGED <<depth, gate, guards, shown, cx, stranded, interjections,
                         completions, ended, sendNow, version, starters, answer>>
      BY <1>1 DEF FallbackDone, rowVars, turnVars
    <2> QED  BY <2>1, CurrentQueue, HandlerEndStep
  <1>2. ASSUME NEW d \in Drains \cup {None}, CompletionDone(d)
        PROVE  IndInv'
    <2> DEFINE q == IF d = None THEN queue ELSE <<d>>
    <2>1. /\ pc = "flush" /\ pc' = "ready"
          /\ d # None => running = None
          /\ MaybeStart(q, running, rewindable, pin, task, mirror)
          /\ answer' = Resolve(answer, {d}, "waiting")
          /\ UNCHANGED <<depth, gate, guards, shown, cx, stranded, interjections,
                         completions, ended, sendNow, version, starters>>
      BY <1>2 DEF CompletionDone, rowVars, turnVars
    <2>2. q \in Seq(Ids)
      <3>1. d # None => <<d>> \in Seq(Ids)
        BY DEF Ids, Synthetic
      <3> QED  BY <3>1, CurrentQueue
    <2>3. running # None => q # << >> /\ Head(q) = running
      BY <2>1, CurrentQueue
    <2>4. answer' \in [Ids -> AnswerStates]
      BY <2>1, CurrentQueue, ResolveType DEF AnswerStates
    <2> HIDE DEF q
    <2> QED  BY <2>1, <2>2, <2>3, <2>4, HandlerEndStep
  <1> QED  BY <1>1, <1>2

(* A task beside the actor that queues a plan-resume prompt at the back, or starts the front. *)
LEMMA StarterStep ==
    ASSUME IndInv, Starters
    PROVE  IndInv'
  <1>1. ASSUME NEW p \in Plans, QueueResumeTurn(p)
        PROVE  IndInv'
    <2>1. p \in Ids
      BY DEF Ids, Synthetic
    <2>2. /\ queue' = Append(queue, p)
          /\ mirror' = Rows(queue', running, version)
          /\ answer' = Resolve(answer, {p}, "waiting")
          /\ starters' = starters \cup {p}
          /\ UNCHANGED <<running, rewindable, pin, task, depth, gate, guards, shown, pc, cx,
                         interjections, completions, ended, sendNow, version, stranded>>
      BY <1>1 DEF QueueResumeTurn, rowVars, turnVars, actorVars
    <2>3. queue' \in Seq(Ids) /\ queue' # << >> /\ (queue # << >> => Head(queue') = Head(queue))
      BY <2>1, <2>2, CurrentQueue
    <2>4. mirror' \in Seq(Users \X (0 .. MaxVersion))
      BY <2>2, <2>3, CurrentQueue, RowsType
    <2>5. answer' \in [Ids -> AnswerStates]
      BY <2>2, CurrentQueue, ResolveType DEF AnswerStates
    <2>6. starters' \subseteq Plans \cup {Mcp}
      BY <2>2, CurrentQueue
    <2> QED  BY <2>2, <2>3, <2>4, <2>5, <2>6, CurrentQueue, QueueStep
  <1>2. ASSUME NEW s \in Plans \cup {Mcp}, StarterStarts(s)
        PROVE  IndInv'
    <2>1. /\ MaybeStart(queue, running, rewindable, pin, task, mirror)
          /\ starters' = starters \ {s}
          /\ UNCHANGED <<depth, gate, guards, shown, pc, cx, stranded, interjections,
                         completions, ended, sendNow, version, answer>>
      BY <1>2 DEF StarterStarts, rowVars, turnVars, actorVars
    <2>2. starters' \subseteq Plans \cup {Mcp}
      BY <2>1, CurrentQueue
    <2> QED  BY <2>1, <2>2, CurrentQueue, StartStep
  <1> QED  BY <1>1, <1>2 DEF Starters

(* Shutdown stops the actor, and Cancel begins a cancel that captures the pin. *)
LEMMA EndStep ==
    ASSUME IndInv, Shutdown \/ \E how \in CancelKinds : Cancel(how)
    PROVE  IndInv'
  <1>1. CASE Shutdown
    <2>1. queue' \in Seq(Ids)
      BY <1>1, CurrentQueue, OnlyFacts DEF Shutdown
    <2>2. answer' \in [Ids -> AnswerStates]
      BY <1>1, CurrentQueue, ResolveType DEF Shutdown, AnswerStates
    <2>3. /\ pc = "ready" /\ pc' = "stopped"
          /\ UNCHANGED <<running, rewindable, pin, task, mirror, sendNow, version, depth, gate,
                         guards, shown, cx, stranded, interjections, completions, starters, ended>>
      BY <1>1 DEF Shutdown, AtCommand, rowVars, turnVars
    <2>4. TypeOK'
      BY <2>1, <2>2, <2>3 DEF IndInv, TypeOK, ActorStates
    <2>5. CancelKnown' /\ FrontIsRunning' /\ PinOwned'
      BY <2>3 DEF IndInv, CancelKnown, FrontIsRunning, PinOwned
    <2> QED  BY <2>4, <2>5 DEF IndInv
  <1>2. ASSUME NEW how \in CancelKinds, Cancel(how)
        PROVE  IndInv'
    <2>1. /\ pc = "ready" /\ pc' = "cancel" /\ interjections' = << >>
          /\ UNCHANGED <<queue, running, rewindable, pin, task, mirror, sendNow, version, depth,
                         gate, guards, shown, stranded, completions, starters, ended>>
      BY <1>2 DEF Cancel, BeginCancel, AtCommand, stateVars, rowVars, turnVars
    <2>2. answer' \in [Ids -> AnswerStates]
      BY <1>2, CurrentQueue, ResolveType DEF Cancel, AnswerStates
    <2>3. /\ cx' \in [how : CancelKinds \cup {"none"}, pinned : Ids \cup {None},
                       victim : Ids \cup {None}, terminal : Ids \cup {None}, removed : SUBSET Ids]
          /\ cx'.how = how /\ cx'.pinned = pin
      BY <1>2 DEF Cancel, BeginCancel, NoCancel, IndInv, TypeOK
    <2>4. interjections' \in Seq(Interjects)
      BY <2>1
    <2>5. TypeOK'
      BY <2>1, <2>2, <2>3, <2>4 DEF IndInv, TypeOK, ActorStates
    <2>6. CancelKnown' /\ FrontIsRunning' /\ PinOwned'
      BY <2>1, <2>3 DEF IndInv, CancelKnown, FrontIsRunning, PinOwned
    <2> QED  BY <2>5, <2>6 DEF IndInv
  <1> QED  BY <1>1, <1>2

(* Under the lock the cancel takes the running task; a pin may outlive it. *)
LEMMA CancelLockedStep ==
    ASSUME IndInv, CancelLocked
    PROVE  IndInv'
  <1> DEFINE pristine == cx.how = "rewound" /\ rewindable
             rewound  == pristine /\ queue # << >>
             victim   == IF pristine THEN None ELSE running
             taken    == IF queue = << >> THEN {}
                         ELSE IF cx.how = "killed" THEN Elems(queue) ELSE {Head(queue)}
  <1>1. /\ pc = "cancel" /\ pc' = "gate" /\ running' = None
        /\ UNCHANGED <<pin, mirror, sendNow, version, depth, gate, guards, shown, stranded,
                       interjections, completions, starters, answer, ended>>
    BY DEF CancelLocked, rowVars, turnVars
  <1>2. queue' \in Seq(Ids)
    BY CurrentQueue DEF CancelLocked
  <1>3. rewindable' \in BOOLEAN
    BY DEF CancelLocked
  <1>4. task' \in [Ids -> TaskStates]
    <2>1. task' = IF pristine THEN AbortTurn(task, running) ELSE task
      BY DEF CancelLocked
    <2>2. task \in [Ids -> TaskStates]
      BY DEF IndInv, TypeOK
    <2> QED  BY <2>1, <2>2 DEF AbortTurn, TaskStates
  <1>5. cx' = [how      |-> IF cx.how = "rewound" /\ ~rewound THEN "cancelled" ELSE cx.how,
               pinned   |-> None,
               victim   |-> victim,
               terminal |-> IF rewound THEN None ELSE IF victim # None THEN victim ELSE cx.pinned,
               removed  |-> taken]
    BY DEF CancelLocked
  <1>6. taken \in SUBSET Ids
    BY CurrentQueue DEF Elems
  <1>7. cx.how \in CancelKinds /\ cx.pinned \in Ids \cup {None} /\ victim \in Ids \cup {None}
    BY <1>1 DEF IndInv, TypeOK, CancelKnown
  <1> HIDE DEF pristine, rewound, victim, taken
  <1>8. /\ cx' \in [how : CancelKinds \cup {"none"}, pinned : Ids \cup {None},
                     victim : Ids \cup {None}, terminal : Ids \cup {None}, removed : SUBSET Ids]
        /\ cx'.how \in CancelKinds
    BY <1>5, <1>6, <1>7 DEF CancelKinds
  <1>9. TypeOK'
    BY <1>1, <1>2, <1>3, <1>4, <1>8 DEF IndInv, TypeOK, ActorStates
  <1>10. CancelKnown' /\ FrontIsRunning' /\ PinOwned'
    BY <1>1, <1>8 DEF CancelKnown, FrontIsRunning, PinOwned
  <1> QED  BY <1>9, <1>10 DEF IndInv

(* The next two stretches of a cancel touch neither the queue nor the pin. *)
LEMMA CancelMiddleStep ==
    ASSUME IndInv, CancelGate \/ CancelAbort
    PROVE  IndInv'
  <1>1. /\ pc \in {"gate", "abort"} /\ pc' \in {"abort", "tail"}
        /\ gate' \in BOOLEAN /\ depth' \in Nat
        /\ UNCHANGED <<queue, running, rewindable, pin, mirror, sendNow, version, guards, shown, cx,
                       stranded, interjections, completions, starters, answer, ended>>
    <2>1. TypeOK /\ gate \in BOOLEAN /\ depth \in Nat
      BY DEF IndInv, TypeOK
    <2>2. CASE CancelGate
      BY <2>1, <2>2 DEF CancelGate, stateVars, rowVars
    <2>3. CASE CancelAbort
      BY <2>1, <2>3 DEF CancelAbort, rowVars
    <2> QED  BY <2>2, <2>3
  <1>2. task' \in [Ids -> TaskStates]
    <2>1. task' = task \/ task' = AbortTurn(task, cx.victim)
      BY DEF CancelGate, CancelAbort, stateVars
    <2>2. task \in [Ids -> TaskStates]
      BY DEF IndInv, TypeOK
    <2> QED  BY <2>1, <2>2 DEF AbortTurn, TaskStates
  <1>3. TypeOK'
    BY <1>1, <1>2 DEF IndInv, TypeOK, ActorStates
  <1>4. CancelKnown' /\ FrontIsRunning' /\ PinOwned'
    BY <1>1 DEF IndInv, CancelKnown, FrontIsRunning, PinOwned
  <1> QED  BY <1>3, <1>4 DEF IndInv

(* The tail clears the pin and starts the front: the pin is None or names the new turn. *)
LEMMA CancelTailStep ==
    ASSUME IndInv, CancelTail
    PROVE  IndInv'
  <1>1. /\ pc = "tail" /\ pc' = "ready" /\ cx' = NoCancel
        /\ MaybeStart(queue, running, rewindable /\ cx.terminal = None, None, task, mirror)
        /\ UNCHANGED <<version, depth, gate, guards, stranded, interjections, completions,
                       starters>>
    BY DEF CancelTail
  <1>2. (rewindable /\ cx.terminal = None) \in BOOLEAN
    OBVIOUS
  <1>3. /\ TypeOK /\ None \in Ids \cup {None}
        /\ running # None => queue # << >> /\ Head(queue) = running
    BY <1>1, CurrentQueue
  <1>4. /\ queue' \in Seq(Ids)
        /\ running' \in Ids \cup {None}
        /\ rewindable' \in BOOLEAN
        /\ pin' \in Ids \cup {None}
        /\ task' \in [Ids -> TaskStates]
        /\ mirror' \in Seq(Users \X (0 .. MaxVersion))
    BY <1>1, <1>2, <1>3, CurrentQueue, StartFacts
  <1>5. running' # None => queue' # << >> /\ Head(queue') = running'
    BY <1>1, <1>2, <1>3, CurrentQueue, StartFacts
  <1>6. \/ running' = running /\ pin' = None
        \/ running = None /\ running' # None /\ pin' = running'
    BY <1>1, <1>2, <1>3, CurrentQueue, StartFacts
  <1>7. cx.how \in AnswerStates
    BY <1>1 DEF IndInv, CancelKnown, CancelKinds, AnswerStates
  <1>8. answer' \in [Ids -> AnswerStates]
    BY <1>7, CurrentQueue, ResolveType DEF CancelTail
  <1>9. ended' \in [Ids -> Nat] /\ sendNow' \subseteq UserOrigin /\ shown' \subseteq Ids
    BY <1>3 DEF TypeOK, CancelTail, EmitTerminal
  <1>10. cx' \in [how : CancelKinds \cup {"none"}, pinned : Ids \cup {None},
                   victim : Ids \cup {None}, terminal : Ids \cup {None}, removed : SUBSET Ids]
    BY <1>1 DEF NoCancel
  <1>11. TypeOK'
    BY <1>1, <1>3, <1>4, <1>8, <1>9, <1>10 DEF TypeOK, ActorStates
  <1>12. CancelKnown' /\ FrontIsRunning' /\ PinOwned'
    BY <1>1, <1>5, <1>6 DEF CancelKnown, FrontIsRunning, PinOwned
  <1> QED  BY <1>11, <1>12 DEF IndInv

(***************************************************************************)
(* A completion pops the front and clears the running task together: if it *)
(* is the front prompt's it is the running turn's, and if it is neither's  *)
(* it is stale and the pin, which names the running turn, is not its.      *)
(***************************************************************************)
LEMMA HandleCompletionStep ==
    ASSUME IndInv, HandleCompletion
    PROVE  IndInv'
  <1> DEFINE c == Head(completions)
  <1>1. TypeOK /\ pc = "ready" /\ completions # << >> /\ completions \in Seq(Ids)
    BY DEF IndInv, TypeOK, HandleCompletion
  <1>2. c \in Ids /\ Tail(completions) \in Seq(Ids)
    BY <1>1
  <1>3. /\ pin' = IF pin = c THEN None ELSE pin
        /\ gate' = (gate /\ pin' # None)
        /\ queue' = IF Owned(c) THEN Tail(queue) ELSE queue
        /\ answer' = Resolve(answer, IF Owned(c) THEN {c} ELSE {}, "done")
        /\ running' = IF EndsRunning(c) THEN None ELSE running
        /\ mirror' = IF Owned(c) /\ c \in Users THEN Rows(queue', running', version) ELSE mirror
        /\ cx' = [NoCancel EXCEPT !.terminal = IF Owned(c) THEN c ELSE None]
        /\ completions' = Tail(completions)
        /\ sendNow' = sendNow \ {c}
        /\ shown' = shown \ {c}
        /\ pc' = "popped"
        /\ UNCHANGED <<rewindable, task, version, depth, guards, stranded, interjections, starters,
                       ended>>
    BY DEF HandleCompletion
  <1> HIDE DEF c
  <1>4. queue' \in Seq(Ids)
    BY <1>3, CurrentQueue DEF Owned
  <1>5. running' \in Ids \cup {None} /\ pin' \in Ids \cup {None}
    BY <1>3 DEF IndInv, TypeOK
  <1>6. mirror' \in Seq(Users \X (0 .. MaxVersion))
    BY <1>3, <1>4, CurrentQueue, RowsType
  <1>7. answer' \in [Ids -> AnswerStates]
    BY <1>3, CurrentQueue, ResolveType DEF AnswerStates
  <1>8. gate' \in BOOLEAN
    BY <1>3
  <1>9. cx' \in [how : CancelKinds \cup {"none"}, pinned : Ids \cup {None},
                  victim : Ids \cup {None}, terminal : Ids \cup {None}, removed : SUBSET Ids]
    BY <1>2, <1>3 DEF NoCancel
  <1>10. TypeOK'
    BY <1>1, <1>2, <1>3, <1>4, <1>5, <1>6, <1>7, <1>8, <1>9 DEF TypeOK, ActorStates
  <1>11. FrontIsRunning'
    BY <1>1, <1>3, CurrentQueue DEF FrontIsRunning, EndsRunning
  <1>12. PinOwned'
    <2>1. ASSUME pin' # None
          PROVE  running' = pin'
      <3>1. pin # None /\ pin' = pin /\ running = pin /\ c # pin
        BY <1>1, <1>3, <2>1 DEF IndInv, PinOwned
      <3>2. ~EndsRunning(c)
        BY <1>1, <3>1, CurrentQueue DEF EndsRunning, Owned
      <3> QED  BY <1>3, <3>1, <3>2
    <2> QED  BY <1>3, <2>1 DEF PinOwned
  <1>13. CancelKnown'
    BY <1>3 DEF CancelKnown
  <1> QED  BY <1>10, <1>11, <1>12, <1>13 DEF IndInv

(* The turn end appends at most a goal continuation and takes the stranded interjections. *)
LEMMA HandleTurnEndStep ==
    ASSUME IndInv, NEW g \in Goals \cup {None}, HandleTurnEnd(g)
    PROVE  IndInv'
  <1>1. /\ pc = "popped" /\ pc' = "flush" /\ cx' = NoCancel /\ stranded' = interjections
        /\ interjections' = << >>
        /\ queue' = IF g = None THEN queue ELSE Append(queue, g)
        /\ UNCHANGED <<running, pin, task, mirror, sendNow, version, depth, gate, guards, shown,
                       completions, starters>>
    BY DEF HandleTurnEnd, rowVars, turnVars
  <1>2. g # None => g \in Ids
    BY DEF Ids, Synthetic
  <1>3. /\ queue' \in Seq(Ids)
        /\ queue # << >> => queue' # << >> /\ Head(queue') = Head(queue)
    <2>1. queue \in Seq(Ids)
      BY CurrentQueue
    <2>2. CASE g = None
      BY <1>1, <2>1, <2>2
    <2>3. CASE g # None
      <3>1. g \in Ids
        BY <1>2, <2>3
      <3>2. /\ Append(queue, g) \in Seq(Ids) /\ Append(queue, g) # << >>
            /\ queue # << >> => Head(Append(queue, g)) = Head(queue)
        BY <2>1, <3>1, AppendFacts
      <3> QED  BY <1>1, <2>3, <3>2
    <2> QED  BY <2>2, <2>3
  <1>4. answer' \in [Ids -> AnswerStates]
    BY CurrentQueue, ResolveType DEF HandleTurnEnd, AnswerStates
  <1>5. rewindable' \in BOOLEAN
    BY DEF HandleTurnEnd
  <1>6. ended' \in [Ids -> Nat]
    BY DEF HandleTurnEnd, EmitTerminal, IndInv, TypeOK
  <1>7. /\ cx' \in [how : CancelKinds \cup {"none"}, pinned : Ids \cup {None},
                     victim : Ids \cup {None}, terminal : Ids \cup {None}, removed : SUBSET Ids]
        /\ interjections' \in Seq(Interjects) /\ stranded' \in Seq(Interjects)
    BY <1>1, CurrentQueue DEF NoCancel
  <1>8. TypeOK'
    BY <1>1, <1>3, <1>4, <1>5, <1>6, <1>7 DEF IndInv, TypeOK, ActorStates
  <1>9. CancelKnown' /\ FrontIsRunning' /\ PinOwned'
    BY <1>1, <1>3 DEF IndInv, CancelKnown, FrontIsRunning, PinOwned
  <1> QED  BY <1>8, <1>9 DEF IndInv

(***************************************************************************)
(* The steps of a turn.  Of the pin it may only clear its own, and of the  *)
(* queue only a prompt other than the running one.                         *)
(***************************************************************************)
LEMMA TurnStep ==
    ASSUME IndInv, NEW t \in Ids, pc # "stopped", Turn(t)
    PROVE  IndInv'
  <1>1. ASSUME NEW w \in Wakes, TurnConsumesCompletion(t, w)
        PROVE  IndInv'
    <2>1. /\ queue' = Only(queue, (Ids \ {w}) \cup {running})
          /\ answer' = Resolve(answer, Elems(queue) \ Elems(queue'), "dropped")
          /\ UNCHANGED <<running, rewindable, pin, task, mirror, depth, gate, guards, shown, pc, cx,
                         interjections, completions, ended, starters, sendNow, version, stranded>>
      BY <1>1 DEF TurnConsumesCompletion, SweepPending, rowVars, turnVars, actorVars
    <2>2. running \in ((Ids \ {w}) \cup {running}) \cup {None}
      OBVIOUS
    <2>3. /\ queue' \in Seq(Ids)
          /\ running # None /\ pc # "stopped" => queue' # << >> /\ Head(queue') = running
      BY <2>1, <2>2, SweepStep
    <2>4. answer' \in [Ids -> AnswerStates]
      BY <2>1, CurrentQueue, ResolveType DEF AnswerStates
    <2> QED  BY <2>1, <2>3, <2>4, CurrentQueue, QueueStep
  <1>2. CASE TurnEmits(t)
    <2>1. /\ shown' \subseteq Ids /\ rewindable' \in BOOLEAN
          /\ UNCHANGED <<queue, running, pin, task, mirror, sendNow, version, depth, gate, guards,
                         pc, cx, stranded, interjections, completions, starters, answer, ended>>
      BY <1>2 DEF TurnEmits, rowVars, actorVars, IndInv, TypeOK
    <2> QED  BY <2>1 DEF IndInv, TypeOK, CancelKnown, FrontIsRunning, PinOwned
  <1>3. ASSUME NEW b \in BOOLEAN, TurnBeginsRound(t, b)
        PROVE  IndInv'
    <2>1. /\ gate' \in BOOLEAN
          /\ UNCHANGED <<queue, running, rewindable, pin, task, mirror, sendNow, version, depth,
                         guards, shown, pc, cx, stranded, interjections, completions, starters,
                         answer, ended>>
      BY <1>3 DEF TurnBeginsRound, stateVars, rowVars, actorVars
    <2> QED  BY <2>1 DEF IndInv, TypeOK, CancelKnown, FrontIsRunning, PinOwned
  <1>4. CASE TurnDrainsInterjections(t)
    <2>1. answer' \in [Ids -> AnswerStates]
      BY <1>4, CurrentQueue, ResolveType DEF TurnDrainsInterjections, AnswerStates
    <2>2. /\ interjections' \in Seq(Interjects)
          /\ UNCHANGED <<queue, running, rewindable, pin, task, mirror, sendNow, version, depth,
                         gate, guards, shown, pc, cx, stranded, completions, starters, ended>>
      BY <1>4 DEF TurnDrainsInterjections, stateVars, rowVars, turnVars, actorVars
    <2> QED  BY <2>1, <2>2 DEF IndInv, TypeOK, CancelKnown, FrontIsRunning, PinOwned
  <1>5. ASSUME NEW k \in Calls, WaitingCall(t, k)
        PROVE  IndInv'
    <2>1. depth \in Nat /\ guards \subseteq Waiters \X Calls \X CallStates
      BY DEF IndInv, TypeOK
    <2>2. depth' \in Nat /\ guards' \subseteq Waiters \X Calls \X CallStates
      <3>1. CASE TurnSendsCall(t, k)
        BY <2>1, <3>1 DEF TurnSendsCall, CallStates
      <3>2. CASE CallEntersWait(t, k)
        <4>1. t \in Waiters
          BY <2>1, <3>2 DEF CallEntersWait
        <4> QED  BY <2>1, <3>2, <4>1 DEF CallEntersWait, CallStates
      <3>3. CASE CallIsDropped(t, k) \/ WaitGuardDrops(t, k)
        BY <2>1, <3>3 DEF CallIsDropped, WaitGuardDrops
      <3> QED  BY <1>5, <3>1, <3>2, <3>3 DEF WaitingCall
    <2>3. UNCHANGED <<queue, running, rewindable, pin, task, mirror, sendNow, version, gate,
                      shown, pc, cx, stranded, interjections, completions, starters, answer,
                      ended>>
      BY <1>5 DEF WaitingCall, TurnSendsCall, CallEntersWait, CallIsDropped, WaitGuardDrops,
                  stateVars, rowVars, actorVars
    <2> QED  BY <2>2, <2>3 DEF IndInv, TypeOK, CancelKnown, FrontIsRunning, PinOwned
  <1>6. CASE TurnScopeEnds(t) \/ TurnSendsCompletion(t)
    <2>1. task \in [Ids -> TaskStates] /\ completions \in Seq(Ids) /\ pin \in Ids \cup {None}
      BY DEF IndInv, TypeOK
    <2>2. task' \in [Ids -> TaskStates] /\ completions' \in Seq(Ids) /\ pin' \in {pin, None}
      BY <1>6, <2>1 DEF TurnScopeEnds, TurnSendsCompletion, TaskStates
    <2>3. UNCHANGED <<queue, running, rewindable, mirror, sendNow, version, depth, gate, guards,
                      shown, pc, cx, stranded, interjections, starters, answer, ended>>
      BY <1>6 DEF TurnScopeEnds, TurnSendsCompletion, rowVars, turnVars, actorVars
    <2> QED  BY <2>1, <2>2, <2>3 DEF IndInv, TypeOK, CancelKnown, FrontIsRunning, PinOwned
  <1> QED  BY <1>1, <1>2, <1>3, <1>4, <1>5, <1>6 DEF Turn

-----------------------------------------------------------------------------
(* The theorems. *)

(* The invariant is inductive. *)
LEMMA NextStep == IndInv /\ [Next]_vars => IndInv'
  <1> SUFFICES ASSUME IndInv, [Next]_vars
               PROVE  IndInv'
    OBVIOUS
  <1>1. CASE Commands
    BY <1>1, PromptStep, SyntheticStep, InterjectStep, RowStep, InterjectRowStep,
       InterjectMissStep, EndStep DEF Commands
  <1>2. CASE ActorContinues
    BY <1>2, InsertStrandedStep, DoneStep, CancelLockedStep, CancelMiddleStep, CancelTailStep,
       HandleCompletionStep, HandleTurnEndStep DEF ActorContinues
  <1>3. CASE Starters
    BY <1>3, StarterStep
  <1>4. CASE \E t \in Ids : pc # "stopped" /\ Turn(t)
    BY <1>4, TurnStep
  <1>5. CASE UNCHANGED vars
    BY <1>5 DEF vars, stateVars, rowVars, turnVars, actorVars, IndInv, TypeOK, CancelKnown,
                FrontIsRunning, PinOwned
  <1> QED  BY <1>1, <1>2, <1>3, <1>4, <1>5 DEF Next, Stopped

(* The inductive invariant holds in every state of every behaviour. *)
LEMMA Invariance == Spec => []IndInv
  BY InitIndInv, NextStep, PTL DEF Spec

(* Every variable of the actor keeps its type: in particular the wait depth never wraps, *)
(* although a guard may drop after a cancel has zeroed it.                               *)
THEOREM TypeCorrect == Spec => []TypeOK
  BY Invariance, PTL DEF IndInv

(***************************************************************************)
(* The running turn is at the front of the queue in every state of a       *)
(* running actor, for every number of prompts of each kind: cancel and     *)
(* handle_completion take the prompt they mean.                            *)
(***************************************************************************)
THEOREM RunningIsFront == Spec => []FrontIsRunning
  BY Invariance, PTL DEF IndInv

(***************************************************************************)
(* The debug_assert of cancel_running_task never fires: a pin captured     *)
(* without the lock names the task found under it.                         *)
(***************************************************************************)
THEOREM PinsAgree == Spec => []PinAgrees
  <1>1. IndInv => PinAgrees
    BY DEF IndInv, PinOwned, PinAgrees
  <1> QED  BY <1>1, Invariance, PTL

=============================================================================
