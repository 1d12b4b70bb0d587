------------------------- MODULE SessionSafetyProofs -------------------------
(***************************************************************************)
(* What becomes of a prompt and of its turn, for any number of prompts,    *)
(* clients, starters and edits: no prompt is lost or doubled, no turn is   *)
(* orphaned, each ended turn has one terminal, a rewound turn has shown    *)
(* nothing, the wait depth never outlives its guards, the slot is never    *)
(* held by a turn that nothing will end, and the clients' copy of the rows *)
(* is the queue whenever the actor is at rest.                             *)
(*                                                                         *)
(* The properties need each other.  That a promotion starts a turn for the *)
(* first time, which all of them rest on, follows from where its prompt    *)
(* is; where it is, from which prompts the locals of a cancel hold.        *)
(***************************************************************************)
EXTENDS SessionActorProofs, QueueLoopsProofs

(* The locals of a handler are set only between the steps that use them. *)
LocalsInv ==
    /\ pc \notin {"cancel", "gate", "abort", "tail"} => cx.how = "none"
    /\ pc \notin {"gate", "abort", "tail"} => cx.removed = {} /\ cx.victim = None
    /\ pc \notin {"gate", "abort", "tail", "popped"} => cx.terminal = None
    /\ cx.victim # None => cx.victim = cx.terminal
    /\ Elems(stranded) # {} => pc \in {"flush", "fallback"}
    /\ pc \in {"cancel", "gate", "abort", "tail", "flush"} => Elems(interjections) = {}

(* NoPromptLost, part by part. *)
PlacesInv ==
    /\ Distinct(queue) /\ Distinct(interjections) /\ Distinct(stranded)
    /\ pc # "stopped" => \A i \in Ids : answer[i] = "waiting" <=>
         i \in Elems(queue) \cup Elems(interjections) \cup Elems(stranded) \cup cx.removed
    /\ Elems(queue) \cap (cx.removed \cup Elems(interjections) \cup Elems(stranded)) = {}
    /\ Elems(interjections) \cap Elems(stranded) = {}

(* A prompt that has a turn is no longer waiting anywhere, unless it is the running one; what *)
(* a turn has left behind (a completion, output) names a turn that has been.                  *)
TurnsInv ==
    /\ \A i \in Ids : task[i] # "none" =>
         /\ answer[i] # "fresh"
         /\ i = running \/ i \notin Elems(queue) \cup Elems(interjections) \cup Elems(stranded)
    /\ running # None => task[running] \in {"live", "ending", "sent"}
    /\ \A c \in Elems(completions) : task[c] = "sent"
    /\ \A i \in shown : task[i] # "none"
    /\ NoOrphanTurn

(* The prompts a rewinding cancel is about to give back. *)
Rewinding == IF cx.how = "rewound" /\ pc # "cancel" THEN cx.removed ELSE {}

(* A turn has its terminal as soon as it neither runs nor is being ended or rewound. *)
TerminalsInv ==
    /\ \A i \in Ids :
         /\ ended[i] \in {0, 1}
         /\ ended[i] = 1 <=> /\ task[i] # "none" /\ answer[i] # "rewound"
                             /\ i # running /\ i # cx.terminal /\ i \notin Rewinding
    /\ cx.terminal # None => /\ task[cx.terminal] # "none" /\ answer[cx.terminal] # "rewound"
                             /\ cx.terminal # running /\ cx.how # "rewound"

(* A rewind window that is open without a running turn is closed by the terminal of the turn  *)
(* that ends.                                                                                 *)
WindowInv ==
    /\ RewindIsPristine
    /\ rewindable /\ running = None =>
         pc \in {"gate", "abort", "tail", "popped"} /\ cx.terminal # None

(* The depth is a lower bound of the guards that are held, of which there are finitely many; *)
(* a call has its guard only once it is no longer on its way.                                *)
DepthInv ==
    /\ IsFiniteSet(guards)
    /\ \A t \in Waiters, k \in Calls :
          ~(<<t, k, "sent">> \in guards /\ <<t, k, "held">> \in guards)
    /\ depth <= Cardinality({g \in guards : g[3] = "held"})

(* An interjection waits for the running turn or the flush; an idle actor, also one that has  *)
(* begun a cancel, leaves only what another task is about to start.                           *)
IdleInv ==
    /\ Elems(interjections) # {} /\ pc # "popped" => running # None
    /\ pc \in {"ready", "cancel"} /\ running = None => Elems(queue) \subseteq starters

SafeInv ==
    LocalsInv /\ PlacesInv /\ TurnsInv /\ TerminalsInv /\ WindowInv /\ DepthInv /\ IdleInv

-----------------------------------------------------------------------------
(* Steps as they look to the turn scheduler. *)

(* The paths of the turn scheduler: prompt i may go from phase a to phase b. *)
MayGo(i, a, b) ==
    \/ a = b
    \/ a = "fresh" /\ b \in {"waiting", "running"}
    \/ a = "waiting" /\ b \in {"running", "killing"}
    \/ a = "running" /\ b \in {"done", "cancelling", "rewinding", "killing"}
    \/ a = "cancelling" /\ b = "cancelled"
    \/ a = "rewinding" /\ b = "rewound"
    \/ a = "killing" /\ b = "killed"
    \/ i \in UserOrigin /\ a = "waiting" /\ b \in {"removed", "merged", "discarded"}
    \/ i \in Synthetic /\ a \in {"waiting", "running"} /\ b = "dropped"
    \/ i \in Synthetic /\ a = "waiting" /\ b = "cancelling"

(* Every prompt moves along a path, and the slot is not handed from one prompt to another. *)
Scheduled ==
    /\ \A i \in Ids : MayGo(i, Phase(i), Phase(i)')
    /\ running' = running \/ running = None \/ running' = None

(* What is shown of each step. *)
Keeps == SafeInv' /\ Scheduled

-----------------------------------------------------------------------------
(* Steps as they look to SafeInv. *)

(* The prompts in new are queued and those in gone taken off, with answer why. *)
Moved(new, gone, why) ==
    /\ new \subseteq Ids /\ \A i \in new : answer[i] = "fresh"
    /\ gone \subseteq Elems(queue) \ {running} /\ why \in {"dropped", "removed"}
    /\ gone \subseteq IF why = "dropped" THEN Synthetic ELSE UserOrigin
    /\ Distinct(queue') /\ Elems(queue') = (Elems(queue) \ gone) \cup new
    /\ answer' = [i \in Ids |-> IF i \in new THEN "waiting"
                                ELSE IF i \in gone THEN why ELSE answer[i]]

(* The same, when the interjections are discarded as well. *)
MovedAndDiscarded(new, gone) ==
    /\ new \subseteq Ids /\ \A i \in new : answer[i] = "fresh"
    /\ gone \subseteq (Elems(queue) \cap Synthetic) \ {running}
    /\ Distinct(queue') /\ Elems(queue') = (Elems(queue) \ gone) \cup new
    /\ running # None \/ Elems(queue') = Elems(queue)
    /\ answer' = [i \in Ids |-> IF i \in Elems(interjections) THEN "discarded"
                                ELSE IF i \in new THEN "waiting"
                                ELSE IF i \in gone THEN "dropped" ELSE answer[i]]

(* maybe_start_running_task has found a turn running or nothing queued, or has started one. *)
Promoted(rw) ==
    \/ /\ running # None \/ Elems(queue') = {}
       /\ running' = running /\ task' = task /\ rewindable' = rw
    \/ /\ running = None /\ running' \in Elems(queue')
       /\ rewindable' = TRUE /\ task' = [task EXCEPT ![running'] = "live"]

(* The facts about types that the steps use, with the elements of the queues in the place of  *)
(* the queues.                                                                                *)
LEMMA SetTypes ==
    ASSUME IndInv
    PROVE  /\ Elems(queue) \subseteq Ids /\ Elems(interjections) \subseteq Ids
           /\ Elems(stranded) \subseteq Ids /\ Elems(completions) \subseteq Ids
           /\ running \in Ids \cup {None} /\ None \notin Ids
           /\ task \in [Ids -> TaskStates] /\ answer \in [Ids -> AnswerStates]
           /\ ended \in [Ids -> Nat] /\ shown \subseteq Ids
           /\ depth \in Nat /\ rewindable \in BOOLEAN /\ cx.removed \subseteq Ids
           /\ cx.terminal \in Ids \cup {None} /\ cx.victim \in Ids \cup {None}
           /\ running # None /\ pc # "stopped" => running \in Elems(queue)
  <1>1. /\ queue \in Seq(Ids) /\ interjections \in Seq(Interjects)
        /\ stranded \in Seq(Interjects) /\ completions \in Seq(Ids) /\ Interjects \subseteq Ids
    BY DEF IndInv, TypeOK, Ids, UserOrigin
  <1>2. /\ Elems(queue) \subseteq Ids /\ Elems(interjections) \subseteq Interjects
        /\ Elems(stranded) \subseteq Interjects /\ Elems(completions) \subseteq Ids
        /\ queue # << >> => Head(queue) \in Elems(queue)
    BY <1>1, ElemsFacts
  <1>3. running # None /\ pc # "stopped" => running \in Elems(queue)
    BY <1>2 DEF IndInv, FrontIsRunning
  <1> QED  BY <1>1, <1>2, <1>3, IdAssumption DEF IndInv, TypeOK

(* The buffered interjections are the user's. *)
LEMMA BufferType ==
    ASSUME IndInv
    PROVE  Elems(interjections) \subseteq UserOrigin
  <1>1. interjections \in Seq(Interjects)
    BY CurrentQueue
  <1>2. Elems(interjections) \subseteq Interjects
    BY <1>1, ElemsFacts
  <1> QED  BY <1>2 DEF UserOrigin

(* A prompt that a step leaves where it was does not change its phase. *)
LEMMA SamePhase ==
    ASSUME IndInv, SafeInv, NEW i \in Ids,
           answer'[i] = answer[i], i = running' <=> i = running, cx' = cx
    PROVE  MayGo(i, Phase(i), Phase(i)')
  <1>1. i \in cx.removed => cx.how \in CancelKinds
    BY DEF SafeInv, LocalsInv, IndInv, CancelKnown
  <1>2. Phase(i)' = Phase(i)
    BY <1>1 DEF Phase, CancelKinds
  <1> QED  BY <1>2 DEF MayGo

(***************************************************************************)
(* A step that queues fresh prompts, may drop or remove others, and starts *)
(* the front if no turn runs; the handler of a fallback prompt or of a     *)
(* completion ends with it.                                                *)
(***************************************************************************)
LEMMA StartSafe ==
    ASSUME IndInv, SafeInv, pc # "stopped", NEW new, NEW gone, NEW why,
           Moved(new, gone, why), Promoted(rewindable),
           UNCHANGED <<depth, guards, shown, cx, interjections, stranded, completions, ended>>,
           pc' = pc \/ (pc \in {"fallback", "flush"} /\ pc' = "ready" /\ Elems(stranded) = {})
    PROVE  Keeps
  <1> USE SetTypes DEF SafeInv
  <1>1. LocalsInv'
    BY DEF LocalsInv
  <1>2. PlacesInv'
    BY DEF PlacesInv, Moved
  <1>3. TurnsInv'
    BY DEF LocalsInv, PlacesInv, TurnsInv, Moved, Promoted, NoOrphanTurn, Live, TaskStates
  <1>4. TerminalsInv'
    BY DEF LocalsInv, PlacesInv, TurnsInv, TerminalsInv, Moved, Promoted, Rewinding
  <1>5. WindowInv'
    BY DEF LocalsInv, PlacesInv, TurnsInv, WindowInv, Moved, Promoted, RewindIsPristine
  <1>6. DepthInv'
    BY DEF DepthInv, Promoted
  <1>7. IdleInv'
    BY DEF LocalsInv, IdleInv, Moved, Promoted
  <1>8. Scheduled
    <2>1. ASSUME NEW i \in Ids
          PROVE  MayGo(i, Phase(i), Phase(i)')
      <3>1. CASE i \in new
        <4>1. answer[i] = "fresh" /\ answer'[i] = "waiting" /\ i \notin cx.removed
          BY <3>1 DEF Moved, PlacesInv
        <4> QED  BY <4>1 DEF MayGo, Phase
      <3>2. CASE i \in gone /\ i \notin new
        <4>1. /\ answer[i] = "waiting" /\ answer'[i] = why /\ i # running /\ i \notin cx.removed
              /\ i \in IF why = "dropped" THEN Synthetic ELSE UserOrigin
              /\ why \in {"dropped", "removed"}
          BY <3>2 DEF Moved, PlacesInv
        <4> QED  BY <4>1 DEF MayGo, Phase
      <3>3. CASE i \notin new /\ i \notin gone /\ i = running' /\ i # running
        <4>1. i \in Elems(queue')
          BY <3>3, IdAssumption DEF Promoted
        <4>2. i \in Elems(queue) /\ answer'[i] = answer[i]
          BY <3>3, <4>1 DEF Moved
        <4>3. answer[i] = "waiting" /\ i \notin cx.removed
          BY <4>2 DEF PlacesInv
        <4> QED  BY <3>3, <4>2, <4>3 DEF MayGo, Phase
      <3>4. CASE i \notin new /\ i \notin gone /\ (i = running' <=> i = running)
        <4>1. answer'[i] = answer[i]
          BY <3>4 DEF Moved
        <4> QED  BY <3>4, <4>1, SamePhase
      <3>5. i = running => i = running'
        BY IdAssumption DEF Promoted
      <3> QED  BY <3>1, <3>2, <3>3, <3>4, <3>5
    <2> QED  BY <2>1 DEF Scheduled, Promoted
  <1> QED  BY <1>1, <1>2, <1>3, <1>4, <1>5, <1>6, <1>7, <1>8 DEF Keeps

(* A step that queues fresh prompts, which their own task will start, or takes some off. *)
LEMMA QueueSafe ==
    ASSUME IndInv, SafeInv, pc # "stopped", NEW new, NEW gone, NEW why,
           Moved(new, gone, why), new \subseteq starters', starters \subseteq starters',
           UNCHANGED <<running, rewindable, task, depth, guards, shown, pc, cx, interjections,
                       stranded, completions, ended>>
    PROVE  Keeps
  <1> USE SetTypes DEF SafeInv
  <1>1. LocalsInv'
    BY DEF LocalsInv
  <1>2. PlacesInv'
    BY DEF PlacesInv, Moved
  <1>3. TurnsInv'
    BY DEF TurnsInv, Moved, NoOrphanTurn, Live
  <1>4. TerminalsInv'
    BY DEF TurnsInv, TerminalsInv, Moved, Rewinding
  <1>5. WindowInv' /\ DepthInv'
    BY DEF WindowInv, RewindIsPristine, DepthInv
  <1>6. IdleInv'
    BY DEF IdleInv, Moved
  <1>7. Scheduled
    <2>1. ASSUME NEW i \in Ids
          PROVE  MayGo(i, Phase(i), Phase(i)')
      <3>1. CASE i \in new
        <4>1. answer[i] = "fresh" /\ answer'[i] = "waiting" /\ i \notin cx.removed
          BY <3>1 DEF Moved, PlacesInv
        <4> QED  BY <4>1 DEF MayGo, Phase
      <3>2. CASE i \in gone /\ i \notin new
        <4>1. /\ answer[i] = "waiting" /\ answer'[i] = why /\ i # running /\ i \notin cx.removed
              /\ i \in IF why = "dropped" THEN Synthetic ELSE UserOrigin
              /\ why \in {"dropped", "removed"}
          BY <3>2 DEF Moved, PlacesInv
        <4> QED  BY <4>1 DEF MayGo, Phase
      <3>3. CASE i \notin new /\ i \notin gone
        <4>1. answer'[i] = answer[i]
          BY <3>3 DEF Moved
        <4> QED  BY <4>1, SamePhase
      <3> QED  BY <3>1, <3>2, <3>3
    <2> QED  BY <2>1 DEF Scheduled
  <1> QED  BY <1>1, <1>2, <1>3, <1>4, <1>5, <1>6, <1>7 DEF Keeps

(* A cancel begins, on behalf of a prompt that is queued in front of the others or for its    *)
(* own sake: the interjections of the turn are discarded.                                     *)
LEMMA BeginCancelSafe ==
    ASSUME IndInv, SafeInv, pc = "ready", NEW new, NEW gone, NEW how \in CancelKinds,
           MovedAndDiscarded(new, gone), BeginCancel(how),
           UNCHANGED <<running, rewindable, task, depth, guards, shown, stranded, completions,
                       starters, ended>>
    PROVE  Keeps
  <1> USE SetTypes DEF SafeInv, MovedAndDiscarded
  <1>0. /\ pc' = "cancel" /\ cx'.how = how /\ cx'.removed = {} /\ cx'.victim = None
        /\ cx'.terminal = None /\ Elems(interjections') = {} /\ Distinct(interjections')
        /\ cx.how = "none" /\ cx.removed = {} /\ cx.terminal = None /\ Elems(stranded) = {}
    BY SmallFacts DEF BeginCancel, NoCancel, LocalsInv
  <1>1. LocalsInv'
    BY <1>0 DEF LocalsInv, CancelKinds
  <1>2. PlacesInv'
    BY <1>0 DEF PlacesInv
  <1>3. TurnsInv'
    BY <1>0 DEF TurnsInv, NoOrphanTurn, Live
  <1>4. TerminalsInv'
    BY <1>0 DEF PlacesInv, TurnsInv, TerminalsInv, Rewinding
  <1>5. WindowInv' /\ DepthInv'
    BY <1>0 DEF WindowInv, RewindIsPristine, DepthInv
  <1>6. IdleInv'
    BY <1>0 DEF IdleInv
  <1>7. Scheduled
    BY <1>0, BufferType DEF Scheduled, MayGo, Phase, PlacesInv
  <1> QED  BY <1>1, <1>2, <1>3, <1>4, <1>5, <1>6, <1>7 DEF Keeps

-----------------------------------------------------------------------------
(* The commands. *)

(* maybe_start_running_task as SafeInv sees it. *)
LEMMA MaybeStartPromotes ==
    ASSUME NEW q \in Seq(Ids), NEW rw \in BOOLEAN, NEW pn, NEW mi,
           MaybeStart(q, running, rw, pn, task, mi)
    PROVE  queue' = q /\ Promoted(rw)
  <1>1. (q = << >> <=> Elems(q) = {}) /\ (q # << >> => Head(q) \in Elems(q))
    BY ElemsFacts
  <1> QED  BY <1>1 DEF MaybeStart, Promoted

(* A prompt that no command has named before is in no queue. *)
LEMMA FreshNowhere ==
    ASSUME SafeInv, pc # "stopped", NEW i \in Ids, answer[i] = "fresh"
    PROVE  /\ i \notin Elems(queue) /\ i \notin Elems(interjections)
           /\ i \notin Elems(stranded) /\ i \notin cx.removed
  BY DEF SafeInv, PlacesInv

(* Prompt: a preemption drops only synthetic prompts that do not run. *)
LEMMA PromptSafe ==
    ASSUME IndInv, SafeInv, NEW u \in Users, NEW sn \in BOOLEAN, Prompt(u, sn)
    PROVE  Keeps
  <1> DEFINE q    == Preempted
             now  == sn \/ AutoSendNow(q)
             slot == IF now THEN SendNowSlot(q, running, sendNow) ELSE Len(q)
             gone == Elems(queue) \ Elems(q)
             ans  == Resolve(Resolve(answer, gone, "dropped"), {u}, "waiting")
             goes == now /\ running # None /\ ~gate
             qu   == InsertBehind(q, slot, u)
  <1>1. /\ pc = "ready" /\ queue \in Seq(Ids) /\ u \in Ids /\ answer[u] = "fresh"
        /\ Distinct(queue) /\ u \notin Elems(queue)
    BY FreshNowhere DEF IndInv, TypeOK, Prompt, AtCommand, Ids, UserOrigin, SafeInv, PlacesInv
  <1>2. /\ q \in Seq(Ids) /\ Distinct(q) /\ Elems(q) \subseteq Elems(queue) /\ running \notin gone
        /\ gone \subseteq Synthetic
    <2> DEFINE w == SweepPending(queue, Synthetic)
    <2>1. w \in Seq(Ids) /\ Elems(w) = Elems(queue) \cap ((Ids \ Synthetic) \cup {running})
      BY <1>1, OnlyFacts, OnlyElems DEF SweepPending
    <2>2. Distinct(w)
      BY <1>1, OnlyKeepsDistinct DEF SweepPending, Distinct
    <2> QED  BY <1>1, <2>1, <2>2, SetTypes DEF Preempted
  <1>3. slot \in 0 .. Len(q)
    BY <1>2, SendNowSlotFacts
  <1>4. CancelOrStart(qu, ans, goes)
    BY DEF Prompt
  <1>5. UNCHANGED <<depth, guards, shown, completions, starters, stranded, ended>>
    BY DEF Prompt, turnVars
  <1> HIDE DEF q, now, slot
  <1>6. qu \in Seq(Ids) /\ Elems(qu) = Elems(q) \cup {u} /\ Distinct(qu)
    BY <1>1, <1>2, <1>3, InsertBehindFacts, InsertBehindElems
  <1>7. ans = [i \in Ids |-> IF i \in {u} THEN "waiting"
                             ELSE IF i \in gone THEN "dropped" ELSE answer[i]]
    BY DEF Resolve
  <1>8. Elems(qu) = (Elems(queue) \ gone) \cup {u} /\ gone \subseteq Elems(queue) \ {running}
    BY <1>2, <1>6
  <1> HIDE DEF ans, qu, gone
  <1>9. CASE /\ goes
             /\ BeginCancel("cancelled")
             /\ queue' = qu
             /\ answer' = Resolve(ans, Elems(interjections), "discarded")
             /\ UNCHANGED <<running, rewindable, pin, task>>
    <2>1. answer' = [i \in Ids |-> IF i \in Elems(interjections) THEN "discarded"
                                   ELSE IF i \in {u} THEN "waiting"
                                   ELSE IF i \in gone THEN "dropped" ELSE answer[i]]
      BY <1>7, <1>9 DEF Resolve
    <2>2. "cancelled" \in CancelKinds /\ running # None
      BY <1>9 DEF CancelKinds
    <2>3. MovedAndDiscarded({u}, gone)
      BY <1>1, <1>2, <1>6, <1>8, <1>9, <2>1, <2>2 DEF MovedAndDiscarded
    <2> QED  BY <1>1, <1>5, <1>9, <2>2, <2>3, BeginCancelSafe
  <1>10. CASE /\ MaybeStart(qu, running, rewindable, pin, task, Rows(qu, running, version'))
              /\ answer' = ans
              /\ UNCHANGED <<pc, cx, interjections>>
    <2>1. queue' = qu /\ Promoted(rewindable)
      BY <1>6, <1>10, SetTypes, MaybeStartPromotes
    <2>2. Moved({u}, gone, "dropped")
      BY <1>1, <1>2, <1>6, <1>7, <1>8, <1>10, <2>1 DEF Moved
    <2> QED  BY <1>1, <1>5, <1>10, <2>1, <2>2, StartSafe
  <1> QED  BY <1>4, <1>9, <1>10 DEF CancelOrStart

(* A synthetic prompt is queued at the back and started if no turn runs. *)
LEMMA SyntheticSafe ==
    ASSUME IndInv, SafeInv,
           \/ \E w \in Wakes : WakePrompt(w)
           \/ \E g \in Goals : GoalSummaryTurn(g)
           \/ \E d \in Drains : InjectNotification(d)
    PROVE  Keeps
  <1>1. PICK i \in Ids :
          /\ pc = "ready" /\ answer[i] = "fresh"
          /\ \E mi : \/ MaybeStart(Append(queue, i), running, rewindable, pin, task, mi)
                     \/ queue = << >> /\ MaybeStart(<<i>>, running, rewindable, pin, task, mi)
          /\ answer' = Resolve(answer, {i}, "waiting")
          /\ UNCHANGED <<depth, guards, shown, pc, cx, stranded, interjections, completions, ended>>
    BY DEF WakePrompt, GoalSummaryTurn, InjectNotification, AtCommand, turnVars, actorVars, Ids,
           Synthetic
  <1>2. queue \in Seq(Ids) /\ Distinct(queue) /\ i \notin Elems(queue) /\ rewindable \in BOOLEAN
    BY <1>1, FreshNowhere, CurrentQueue, SetTypes DEF SafeInv, PlacesInv
  <1>3. /\ Append(queue, i) \in Seq(Ids) /\ Elems(Append(queue, i)) = Elems(queue) \cup {i}
        /\ Distinct(Append(queue, i))
    BY <1>2, AppendFacts, AppendElems
  <1>4. queue = << >> => Append(queue, i) = <<i>>
    OBVIOUS
  <1>5. queue' = Append(queue, i) /\ Promoted(rewindable)
    BY <1>1, <1>2, <1>3, <1>4, MaybeStartPromotes
  <1>6. Moved({i}, {}, "dropped")
    BY <1>1, <1>3, <1>5 DEF Moved, Resolve
  <1> QED  BY <1>1, <1>5, <1>6, StartSafe

(* Interject: the prompt waits in the buffer of the running turn or for the fallback. *)
LEMMA InterjectSafe ==
    ASSUME IndInv, SafeInv, NEW i \in Interjects, Interject(i)
    PROVE  Keeps
  <1> USE SetTypes DEF SafeInv
  <1>1. /\ pc = "ready" /\ i \in Ids /\ answer[i] = "fresh" /\ Elems(stranded) = {}
        /\ i \notin Elems(queue) /\ i \notin Elems(interjections)
        /\ answer' = [j \in Ids |-> IF j = i THEN "waiting" ELSE answer[j]]
        /\ UNCHANGED <<queue, running, rewindable, task, depth, guards, shown, cx, completions,
                       starters, ended>>
    BY FreshNowhere DEF Interject, AtCommand, Resolve, Ids, UserOrigin, LocalsInv, stateVars,
                        turnVars
  <1>2. /\ Distinct(interjections') /\ Distinct(stranded')
        /\ \/ /\ pin # None /\ pc' = "ready" /\ Elems(stranded') = {}
              /\ Elems(interjections') = Elems(interjections) \cup {i}
           \/ /\ pc' = "fallback" /\ Elems(stranded') = {i}
              /\ Elems(interjections') = Elems(interjections)
    <2>1. interjections \in Seq(Interjects) /\ Distinct(interjections) /\ Distinct(stranded)
      BY CurrentQueue DEF PlacesInv
    <2>2. /\ Elems(Append(interjections, i)) = Elems(interjections) \cup {i}
          /\ Distinct(Append(interjections, i))
      BY <1>1, <2>1, AppendElems
    <2>3. Elems(<<i>>) = {i} /\ Distinct(<<i>>)
      BY SmallFacts
    <2> QED  BY <1>1, <2>1, <2>2, <2>3 DEF Interject, TurnRunning
  <1>3. LocalsInv'
    BY <1>1, <1>2 DEF LocalsInv
  <1>4. PlacesInv'
    BY <1>1, <1>2 DEF PlacesInv, LocalsInv
  <1>5. TurnsInv'
    BY <1>1, <1>2 DEF TurnsInv, NoOrphanTurn, Live
  <1>6. TerminalsInv'
    BY <1>1, <1>2 DEF TurnsInv, TerminalsInv, Rewinding, LocalsInv
  <1>7. WindowInv' /\ DepthInv'
    BY <1>1, <1>2 DEF WindowInv, RewindIsPristine, DepthInv, LocalsInv
  <1>8. IdleInv'
    BY <1>1, <1>2 DEF IdleInv, IndInv, PinOwned
  <1>9. Scheduled
    BY <1>1 DEF Scheduled, MayGo, Phase, PlacesInv, LocalsInv
  <1> QED  BY <1>3, <1>4, <1>5, <1>6, <1>7, <1>8, <1>9 DEF Keeps

(* The last stranded interjection moves into the queue. *)
LEMMA InsertStrandedSafe ==
    ASSUME IndInv, SafeInv, InsertStranded
    PROVE  Keeps
  <1> USE SetTypes DEF SafeInv
  <1> DEFINE i == stranded[Len(stranded)]
  <1>1. /\ pc \in {"flush", "fallback"} /\ stranded # << >>
        /\ queue' = InsertBehind(queue, BehindRunning(queue, running), i)
        /\ stranded' = SubSeq(stranded, 1, Len(stranded) - 1)
        /\ UNCHANGED <<running, rewindable, task, depth, guards, shown, pc, cx, interjections,
                       completions, starters, answer, ended>>
    BY DEF InsertStranded, turnVars
  <1>2. /\ queue \in Seq(Ids) /\ stranded \in Seq(Interjects) /\ Distinct(stranded)
        /\ Distinct(queue)
    BY CurrentQueue DEF PlacesInv
  <1>3. /\ i \in Elems(stranded) /\ Elems(stranded') = Elems(stranded) \ {i}
        /\ Distinct(stranded')
    BY <1>1, <1>2, FrontElems
  <1> HIDE DEF i
  <1>4. i \in Ids /\ i \notin Elems(queue)
    BY <1>3 DEF PlacesInv
  <1>5. BehindRunning(queue, running) \in 0 .. Len(queue)
    BY <1>2, BehindRunningFacts
  <1>6. Elems(queue') = Elems(queue) \cup {i} /\ Distinct(queue')
    BY <1>1, <1>2, <1>4, <1>5, InsertBehindElems
  <1>7. LocalsInv'
    BY <1>1, <1>3 DEF LocalsInv
  <1>8. PlacesInv'
    BY <1>1, <1>3, <1>4, <1>6 DEF PlacesInv, LocalsInv
  <1>9. TurnsInv'
    BY <1>1, <1>3, <1>6 DEF TurnsInv, NoOrphanTurn, Live
  <1>10. TerminalsInv' /\ WindowInv' /\ DepthInv' /\ IdleInv'
    BY <1>1 DEF TerminalsInv, Rewinding, WindowInv, RewindIsPristine, DepthInv, IdleInv
  <1>11. Scheduled
    BY <1>1 DEF Scheduled, MayGo, Phase
  <1> QED  BY <1>7, <1>8, <1>9, <1>10, <1>11 DEF Keeps

(* The commands on rows, edits included, take rows off or leave the set of them as it is. *)
LEMMA RowSafe ==
    ASSUME IndInv, SafeInv,
           \/ \E u \in Users, v \in 0 .. MaxVersion, o \in Clients \cup {None} :
                 RemoveQueuedPrompt(u, v, o)
           \/ \E o \in Orders : ReorderQueue(o)
           \/ \E o \in Clients \cup {None} : ClearQueue(o)
           \/ \E u \in Users : EditQueuedPrompt(u)
    PROVE  Keeps
  <1>1. /\ queue \in Seq(Ids) /\ Distinct(queue) /\ answer \in [Ids -> AnswerStates]
        /\ Elems(queue) \subseteq Ids
    BY CurrentQueue, SetTypes DEF SafeInv, PlacesInv
  <1>2. /\ pc = "ready"
        /\ UNCHANGED <<running, rewindable, task, depth, guards, shown, pc, cx, interjections,
                       stranded, completions, starters, ended>>
    BY DEF RemoveQueuedPrompt, ReorderQueue, ClearQueue, EditQueuedPrompt, AtCommand, turnVars,
           actorVars
  <1>3. ASSUME NEW gone \in SUBSET ((Elems(queue) \cap Users) \ {running}),
               queue' = Only(queue, Ids \ gone), answer' = Resolve(answer, gone, "removed")
        PROVE  Keeps
    <2>1. Elems(queue') = Elems(queue) \cap (Ids \ gone) /\ Distinct(queue')
      <3>1. Elems(Only(queue, Ids \ gone)) = Elems(queue) \cap (Ids \ gone)
        BY <1>1, OnlyElems
      <3>2. Distinct(Only(queue, Ids \ gone))
        BY <1>1, OnlyKeepsDistinct DEF Distinct
      <3> QED  BY <1>3, <3>1, <3>2
    <2>2. Moved({}, gone, "removed")
      BY <1>1, <1>3, <2>1 DEF Moved, Resolve, UserOrigin
    <2> QED  BY <1>2, <2>2, QueueSafe
  <1>4. ASSUME Elems(queue') = Elems(queue), Distinct(queue'), answer' = answer
        PROVE  Keeps
    <2>1. Moved({}, {}, "removed")
      BY <1>1, <1>4 DEF Moved
    <2> QED  BY <1>2, <2>1, QueueSafe
  <1>5. ASSUME NEW u \in Users, NEW v, NEW o, RemoveQueuedPrompt(u, v, o)
        PROVE  Keeps
    <2> DEFINE gone == IF RowMatches(u, v, o) THEN {u} ELSE {}
    <2>1. gone \subseteq (Elems(queue) \cap Users) \ {running}
      BY DEF RowMatches
    <2>2. queue' = Only(queue, Ids \ gone) /\ answer' = Resolve(answer, gone, "removed")
      BY <1>5 DEF RemoveQueuedPrompt
    <2> HIDE DEF gone
    <2> QED  BY <1>3, <2>1, <2>2
  <1>6. ASSUME NEW o, ClearQueue(o)
        PROVE  Keeps
    <2> DEFINE gone == {u \in (Elems(queue) \cap Users) \ {running} : o \in {None, OwnerOf[u]}}
    <2>1. gone \subseteq (Elems(queue) \cap Users) \ {running}
      OBVIOUS
    <2>2. queue' = Only(queue, Ids \ gone) /\ answer' = Resolve(answer, gone, "removed")
      BY <1>6 DEF ClearQueue
    <2> HIDE DEF gone
    <2> QED  BY <1>3, <2>1, <2>2
  <1>7. ASSUME NEW o \in Orders, ReorderQueue(o)
        PROVE  Keeps
    <2>1. o \in Seq(Ids) /\ Distinct(o)
      BY OrdersType DEF Orders, Distinct
    <2>2. queue' = Reordered(queue, Users \ {running}, o) /\ answer' = answer
      BY <1>7 DEF ReorderQueue
    <2>3. Elems(queue') = Elems(queue) /\ Distinct(queue')
      BY <1>1, <2>1, <2>2, ReorderedElems
    <2> QED  BY <1>4, <2>2, <2>3
  <1>8. ASSUME NEW u \in Users, EditQueuedPrompt(u)
        PROVE  Keeps
    BY <1>1, <1>4, <1>8 DEF EditQueuedPrompt
  <1> QED  BY <1>5, <1>6, <1>7, <1>8

(* InterjectQueuedPrompt takes a row off and puts it back at the send-now slot. *)
LEMMA InterjectRowSafe ==
    ASSUME IndInv, SafeInv, NEW u \in Users, NEW v, NEW o, NEW edit \in BOOLEAN,
           InterjectQueuedPrompt(u, v, o, edit)
    PROVE  Keeps
  <1> DEFINE q    == Only(queue, Ids \ {u})
             slot == SendNowSlot(q, running, sendNow)
             goes == running # None /\ ~gate
             qu   == InsertBehind(q, slot, u)
  <1>1. /\ pc = "ready" /\ u \in Elems(queue) /\ u \in Ids /\ queue \in Seq(Ids)
        /\ Distinct(queue) /\ answer \in [Ids -> AnswerStates] /\ Elems(queue) \subseteq Ids
    BY CurrentQueue, SetTypes
       DEF InterjectQueuedPrompt, AtCommand, RowMatches, Ids, UserOrigin, SafeInv, PlacesInv
  <1>2. q \in Seq(Ids) /\ Elems(q) = Elems(queue) \cap (Ids \ {u})
    BY <1>1, OnlyFacts, OnlyElems
  <1>3. Distinct(q)
    BY <1>1, OnlyKeepsDistinct DEF Distinct
  <1>4. slot \in 0 .. Len(q)
    BY <1>2, SendNowSlotFacts
  <1>5. CancelOrStart(qu, answer, goes)
    BY DEF InterjectQueuedPrompt
  <1>6. UNCHANGED <<depth, guards, shown, completions, starters, stranded, ended>>
    BY DEF InterjectQueuedPrompt, turnVars
  <1> HIDE DEF q, slot
  <1>7. qu \in Seq(Ids) /\ Elems(qu) = Elems(q) \cup {u} /\ Distinct(qu)
    BY <1>1, <1>2, <1>3, <1>4, InsertBehindFacts, InsertBehindElems
  <1>8. Elems(qu) = Elems(queue)
    BY <1>1, <1>2, <1>7
  <1> HIDE DEF qu
  <1>9. CASE /\ goes
             /\ BeginCancel("cancelled")
             /\ queue' = qu
             /\ answer' = Resolve(answer, Elems(interjections), "discarded")
             /\ UNCHANGED <<running, rewindable, pin, task>>
    <2>1. MovedAndDiscarded({}, {})
      BY <1>7, <1>8, <1>9 DEF MovedAndDiscarded, Resolve
    <2>2. "cancelled" \in CancelKinds
      BY DEF CancelKinds
    <2> QED  BY <1>1, <1>6, <1>9, <2>1, <2>2, BeginCancelSafe
  <1>10. CASE /\ MaybeStart(qu, running, rewindable, pin, task, Rows(qu, running, version'))
              /\ answer' = answer
              /\ UNCHANGED <<pc, cx, interjections>>
    <2>1. queue' = qu /\ Promoted(rewindable)
      BY <1>7, <1>10, SetTypes, MaybeStartPromotes
    <2>2. Moved({}, {}, "dropped")
      BY <1>1, <1>7, <1>8, <1>10, <2>1 DEF Moved
    <2> QED  BY <1>1, <1>6, <1>10, <2>1, <2>2, StartSafe
  <1> QED  BY <1>5, <1>9, <1>10 DEF CancelOrStart

(* A start of the front of the queue as it is. *)
LEMMA PlainStartSafe ==
    ASSUME IndInv, SafeInv, pc # "stopped", NEW mi,
           MaybeStart(queue, running, rewindable, pin, task, mi),
           UNCHANGED <<depth, guards, shown, cx, interjections, stranded, completions, ended,
                       answer>>,
           pc' = pc \/ (pc \in {"fallback", "flush"} /\ pc' = "ready" /\ Elems(stranded) = {})
    PROVE  Keeps
  <1>1. queue' = queue /\ Promoted(rewindable)
    BY CurrentQueue, SetTypes, MaybeStartPromotes
  <1>2. Moved({}, {}, "dropped")
    BY <1>1, CurrentQueue DEF Moved, SafeInv, PlacesInv
  <1> QED  BY <1>1, <1>2, StartSafe

(* The steps that end with a start: a row that is not found, the end of an interjection's     *)
(* fallback, the end of a completion, a starter.                                              *)
LEMMA LaterStartSafe ==
    ASSUME IndInv, SafeInv,
           \/ \E u \in Users, v \in 0 .. MaxVersion, o \in Clients \cup {None} :
                 InterjectQueuedPromptMisses(u, v, o)
           \/ FallbackDone
           \/ \E d \in Drains \cup {None} : CompletionDone(d)
           \/ \E s \in Plans \cup {Mcp} : StarterStarts(s)
    PROVE  Keeps
  <1>1. ASSUME NEW u, NEW v, NEW o, InterjectQueuedPromptMisses(u, v, o)
        PROVE  Keeps
    BY <1>1, PlainStartSafe DEF InterjectQueuedPromptMisses, AtCommand, turnVars, actorVars
  <1>2. CASE FallbackDone
    BY <1>2, SmallFacts, PlainStartSafe DEF FallbackDone, turnVars
  <1>3. ASSUME NEW d \in Drains, CompletionDone(d)
        PROVE  Keeps
    <2>1. /\ d \in Ids /\ d # None /\ pc = "flush" /\ pc' = "ready" /\ answer[d] = "fresh"
          /\ queue = << >> /\ Elems(stranded) = {} /\ <<d>> \in Seq(Ids) /\ rewindable \in BOOLEAN
          /\ MaybeStart(<<d>>, running, rewindable, pin, task, mirror)
          /\ answer' = Resolve(answer, {d}, "waiting")
          /\ UNCHANGED <<depth, guards, shown, cx, stranded, interjections, completions, ended>>
      BY <1>3, SmallFacts, IdAssumption, SetTypes DEF CompletionDone, Ids, Synthetic, turnVars
    <2>2. queue' = <<d>> /\ Promoted(rewindable)
      BY <2>1, MaybeStartPromotes
    <2>3. Moved({d}, {}, "dropped")
      BY <2>1, <2>2, SmallFacts DEF Moved, Resolve
    <2> QED  BY <2>1, <2>2, <2>3, StartSafe
  <1>4. CASE CompletionDone(None)
    <2>1. /\ pc = "flush" /\ pc' = "ready" /\ Elems(stranded) = {}
          /\ MaybeStart(queue, running, rewindable, pin, task, mirror)
          /\ answer' = Resolve(answer, {None}, "waiting")
          /\ UNCHANGED <<depth, guards, shown, cx, stranded, interjections, completions, ended>>
      BY <1>4, SmallFacts DEF CompletionDone, turnVars
    <2>2. answer' = answer
      BY <2>1, IdAssumption, CurrentQueue DEF Resolve
    <2> QED  BY <2>1, <2>2, PlainStartSafe
  <1>5. ASSUME NEW s, StarterStarts(s)
        PROVE  Keeps
    BY <1>5, PlainStartSafe DEF StarterStarts, turnVars, actorVars
  <1> QED  BY <1>1, <1>2, <1>3, <1>4, <1>5

(* A plan-resume prompt is queued with its starter. *)
LEMMA QueueResumeSafe ==
    ASSUME IndInv, SafeInv, NEW r \in Plans, QueueResumeTurn(r)
    PROVE  Keeps
  <1>1. /\ r \in Ids /\ pc # "stopped" /\ answer[r] = "fresh" /\ queue' = Append(queue, r)
        /\ answer' = Resolve(answer, {r}, "waiting") /\ starters' = starters \cup {r}
        /\ UNCHANGED <<running, rewindable, task, depth, guards, shown, pc, cx, interjections,
                       stranded, completions, ended>>
    BY DEF QueueResumeTurn, Ids, Synthetic, turnVars, actorVars
  <1>2. queue \in Seq(Ids) /\ Distinct(queue) /\ r \notin Elems(queue)
    BY <1>1, FreshNowhere, CurrentQueue DEF SafeInv, PlacesInv
  <1>3. Elems(queue') = Elems(queue) \cup {r} /\ Distinct(queue')
    BY <1>1, <1>2, AppendElems
  <1>4. Moved({r}, {}, "dropped")
    BY <1>1, <1>3 DEF Moved, Resolve
  <1> QED  BY <1>1, <1>4, QueueSafe

(* Shutdown: the actor stops, and only what a stopped actor keeps is claimed of it. *)
LEMMA ShutdownSafe ==
    ASSUME IndInv, SafeInv, Shutdown
    PROVE  Keeps
  <1> USE SetTypes DEF SafeInv
  <1>1. /\ pc = "ready" /\ pc' = "stopped"
        /\ queue' = Only(queue, UserOrigin)
        /\ answer' = [i \in Ids |-> IF i \in Elems(queue) \cap Synthetic THEN "dropped"
                                    ELSE answer[i]]
        /\ UNCHANGED <<running, rewindable, task, depth, guards, shown, cx, stranded,
                       interjections, completions, starters, ended>>
    BY DEF Shutdown, AtCommand, Resolve, turnVars
  <1>2. Elems(queue') \subseteq Elems(queue) /\ Distinct(queue')
    <2>1. queue \in Seq(Ids) /\ Distinct(queue)
      BY CurrentQueue DEF PlacesInv
    <2>2. Elems(Only(queue, UserOrigin)) = Elems(queue) \cap UserOrigin
      BY <2>1, OnlyElems
    <2>3. Distinct(Only(queue, UserOrigin))
      BY <2>1, OnlyKeepsDistinct DEF Distinct
    <2> QED  BY <1>1, <2>2, <2>3
  <1>3. LocalsInv'
    BY <1>1 DEF LocalsInv
  <1>4. PlacesInv'
    BY <1>1, <1>2 DEF PlacesInv
  <1>5. TurnsInv'
    BY <1>1, <1>2 DEF TurnsInv, NoOrphanTurn, Live
  <1>6. TerminalsInv'
    BY <1>1 DEF PlacesInv, TerminalsInv, Rewinding, LocalsInv
  <1>7. WindowInv' /\ DepthInv' /\ IdleInv'
    BY <1>1 DEF WindowInv, RewindIsPristine, DepthInv, IdleInv, LocalsInv
  <1>8. Scheduled
    BY <1>1 DEF Scheduled, MayGo, Phase, PlacesInv, LocalsInv
  <1> QED  BY <1>3, <1>4, <1>5, <1>6, <1>7, <1>8 DEF Keeps

(* SessionCommand::Cancel. *)
LEMMA CancelSafe ==
    ASSUME IndInv, SafeInv, NEW how \in CancelKinds, Cancel(how)
    PROVE  Keeps
  <1>1. /\ pc = "ready" /\ BeginCancel(how)
        /\ answer' = Resolve(answer, Elems(interjections), "discarded")
        /\ UNCHANGED <<queue, running, rewindable, task, depth, guards, shown, stranded,
                       completions, starters, ended>>
    BY DEF Cancel, AtCommand, stateVars, turnVars
  <1>2. MovedAndDiscarded({}, {})
    BY <1>1 DEF MovedAndDiscarded, Resolve, SafeInv, PlacesInv
  <1> QED  BY <1>1, <1>2, BeginCancelSafe

-----------------------------------------------------------------------------
(* The rest of a cancel. *)

(***************************************************************************)
(* What the lock of a cancel finds: a pristine turn that it aborts at      *)
(* once, its prompt alone to be rewound; or a turn, if any, that becomes   *)
(* the victim and owes a terminal, whatever pin was captured before.       *)
(***************************************************************************)
LEMMA CancelLockedFacts ==
    ASSUME IndInv, SafeInv, CancelLocked
    PROVE  /\ pc = "cancel" /\ pc' = "gate" /\ running' = None
           /\ cx'.removed \subseteq Elems(queue) /\ running \in cx'.removed \cup {None}
           /\ Elems(queue') = Elems(queue) \ cx'.removed /\ Distinct(queue')
           /\ \/ /\ running # None /\ cx'.removed = {running} /\ cx'.how = "rewound"
                 /\ cx'.victim = None /\ cx'.terminal = None
                 /\ rewindable = TRUE /\ rewindable' = FALSE /\ task' = AbortTurn(task, running)
              \/ /\ \/ cx'.how = "killed"
                    \/ cx'.how = "cancelled" /\ (running # None => cx'.removed = {running})
                 /\ cx'.victim = running /\ cx'.terminal = running
                 /\ rewindable' = rewindable /\ task' = task
           /\ UNCHANGED <<depth, guards, shown, stranded, interjections, completions, starters,
                          answer, ended>>
  <1> DEFINE pristine == cx.how = "rewound" /\ rewindable
             rewound  == pristine /\ queue # << >>
             victim   == IF pristine THEN None ELSE running
             taken    == IF queue = << >> THEN {}
                         ELSE IF cx.how = "killed" THEN Elems(queue) ELSE {Head(queue)}
  <1>1. /\ pc = "cancel" /\ pc' = "gate" /\ running' = None
        /\ queue' = IF queue = << >> \/ cx.how = "killed" THEN << >> ELSE Tail(queue)
        /\ rewindable' = (rewindable /\ ~pristine)
        /\ task' = IF pristine THEN AbortTurn(task, running) ELSE task
        /\ cx' = [how      |-> IF cx.how = "rewound" /\ ~rewound THEN "cancelled" ELSE cx.how,
                  pinned   |-> None,
                  victim   |-> victim,
                  terminal |-> IF rewound THEN None
                               ELSE IF victim # None THEN victim ELSE cx.pinned,
                  removed  |-> taken]
        /\ UNCHANGED <<depth, guards, shown, stranded, interjections, completions, starters,
                       answer, ended>>
    BY DEF CancelLocked, turnVars
  <1>2. /\ queue \in Seq(Ids) /\ Distinct(queue) /\ rewindable \in BOOLEAN
        /\ running # None => queue # << >> /\ Head(queue) = running
        /\ rewindable => running # None
        /\ cx.pinned # None => running = cx.pinned
        /\ cx.how \in CancelKinds
    BY <1>1, CurrentQueue, SetTypes
       DEF SafeInv, PlacesInv, WindowInv, IndInv, PinOwned, CancelKnown
  <1>3. /\ queue = << >> <=> Elems(queue) = {}
        /\ queue # << >> => Head(queue) \in Elems(queue)
    BY <1>2, ElemsFacts
  <1>4. queue # << >> => /\ Elems(Tail(queue)) = Elems(queue) \ {Head(queue)}
                         /\ Distinct(Tail(queue))
    BY <1>2, TailElems
  <1>5. Elems(<< >>) = {} /\ Distinct(<< >>)
    BY SmallFacts
  <1> HIDE DEF taken
  <1>6. /\ taken \subseteq Elems(queue) /\ running \in taken \cup {None}
        /\ running # None /\ cx.how # "killed" => taken = {running}
    BY <1>2, <1>3 DEF taken
  <1>7. Elems(queue') = Elems(queue) \ taken /\ Distinct(queue')
    BY <1>1, <1>3, <1>4, <1>5 DEF taken
  <1>8. cx'.removed = taken
    BY <1>1
  <1>9. CASE pristine
    <2>1. /\ running # None /\ queue # << >> /\ rewindable = TRUE /\ cx.how = "rewound"
      BY <1>2, <1>9
    <2>2. /\ cx'.how = "rewound" /\ cx'.victim = None /\ cx'.terminal = None
          /\ rewindable' = FALSE /\ task' = AbortTurn(task, running)
      BY <1>1, <1>9, <2>1
    <2>3. taken = {running}
      BY <1>6, <2>1
    <2> QED  BY <1>1, <1>6, <1>7, <1>8, <2>1, <2>2, <2>3
  <1>10. CASE ~pristine
    <2>1. /\ cx'.victim = running /\ cx'.terminal = running
          /\ rewindable' = rewindable /\ task' = task
      BY <1>1, <1>2, <1>10
    <2>2. cx'.how = IF cx.how = "rewound" THEN "cancelled" ELSE cx.how
      BY <1>1, <1>10
    <2>3. \/ cx'.how = "killed" /\ cx.how = "killed"
          \/ cx'.how = "cancelled" /\ cx.how # "killed"
      BY <1>2, <2>2 DEF CancelKinds
    <2> QED  BY <1>1, <1>6, <1>7, <1>8, <2>1, <2>3
  <1> QED  BY <1>9, <1>10

(* Under the lock the turn leaves the slot and its prompt the queue. *)
LEMMA CancelLockedSafe ==
    ASSUME IndInv, SafeInv, CancelLocked
    PROVE  Keeps
  <1> USE SetTypes DEF SafeInv
  <1> DEFINE Rewinds == /\ running # None /\ cx'.removed = {running} /\ cx'.how = "rewound"
                        /\ cx'.victim = None /\ cx'.terminal = None
                        /\ rewindable = TRUE /\ rewindable' = FALSE
                        /\ task' = AbortTurn(task, running)
             Ends    == /\ cx'.how # "rewound"
                        /\ cx'.victim = running /\ cx'.terminal = running
                        /\ rewindable' = rewindable /\ task' = task
  <1>0. /\ pc = "cancel" /\ pc' = "gate" /\ running' = None
        /\ cx'.removed \subseteq Elems(queue) /\ running \in cx'.removed \cup {None}
        /\ Elems(queue') = Elems(queue) \ cx'.removed /\ Distinct(queue')
        /\ cx'.how # "none" /\ (Rewinds \/ Ends)
        /\ UNCHANGED <<depth, guards, shown, stranded, interjections, completions, starters,
                       answer, ended>>
    BY CancelLockedFacts
  <1>1. LocalsInv'
    BY <1>0 DEF LocalsInv
  <1>2. PlacesInv'
    BY <1>0 DEF PlacesInv, LocalsInv
  <1>3. TurnsInv'
    <2>1. CASE Rewinds
      BY <1>0, <2>1 DEF TurnsInv, PlacesInv, LocalsInv, NoOrphanTurn, Live, AbortTurn, TaskStates
    <2>2. CASE Ends
      BY <1>0, <2>2 DEF TurnsInv, PlacesInv, LocalsInv, NoOrphanTurn, Live
    <2> QED  BY <1>0, <2>1, <2>2
  <1>4. TerminalsInv'
    <2>1. CASE Rewinds
      BY <1>0, <2>1 DEF TurnsInv, TerminalsInv, PlacesInv, LocalsInv, Rewinding, AbortTurn,
                        TaskStates
    <2>2. CASE Ends
      BY <1>0, <2>2 DEF TurnsInv, TerminalsInv, PlacesInv, LocalsInv, Rewinding
    <2> QED  BY <1>0, <2>1, <2>2
  <1>5. WindowInv'
    <2>1. CASE Rewinds
      BY <1>0, <2>1 DEF WindowInv, RewindIsPristine
    <2>2. CASE Ends
      BY <1>0, <2>2 DEF WindowInv, RewindIsPristine
    <2> QED  BY <1>0, <2>1, <2>2
  <1>6. DepthInv' /\ IdleInv'
    BY <1>0 DEF DepthInv, IdleInv, LocalsInv
  <1>7. Scheduled
    <2>1. /\ cx.removed = {} /\ \A i \in cx'.removed : answer[i] = "waiting"
      BY <1>0 DEF LocalsInv, PlacesInv
    <2>2. ASSUME running = None, NEW i \in cx'.removed
          PROVE  i \in Synthetic
      BY <1>0, <2>2, CurrentQueue, IdAssumption DEF IdleInv, Synthetic
    <2>3. \/ cx'.how = "killed"
          \/ cx'.how = "rewound" /\ cx'.removed = {running}
          \/ cx'.how = "cancelled" /\ (running # None => cx'.removed = {running})
      BY CancelLockedFacts
    <2> QED  BY <1>0, <2>1, <2>2, <2>3 DEF Scheduled, MayGo, Phase
  <1> QED  BY <1>1, <1>2, <1>3, <1>4, <1>5, <1>6, <1>7 DEF Keeps

(* The abort ends the victim, and with it every turn but the running one. *)
LEMMA CancelMiddleSafe ==
    ASSUME IndInv, SafeInv, CancelGate \/ CancelAbort
    PROVE  Keeps
  <1> USE SetTypes DEF SafeInv
  <1>1. /\ \/ pc = "gate" /\ pc' = "abort" /\ task' = task /\ depth' = depth
           \/ pc = "abort" /\ pc' = "tail" /\ task' = AbortTurn(task, cx.victim) /\ depth' = 0
        /\ UNCHANGED <<queue, running, rewindable, guards, shown, cx, stranded, interjections,
                       completions, starters, answer, ended>>
    BY DEF CancelGate, CancelAbort, stateVars
  <1>2. LocalsInv'
    BY <1>1 DEF LocalsInv
  <1>3. PlacesInv'
    BY <1>1 DEF PlacesInv
  <1>4. TurnsInv'
    <2>1. CASE pc = "gate" /\ task' = task
      BY <1>1, <2>1 DEF TurnsInv, NoOrphanTurn, Live
    <2>2. CASE pc = "abort" /\ task' = AbortTurn(task, cx.victim)
      <3>1. running = cx.victim => running = None
        BY DEF LocalsInv, TerminalsInv
      <3> QED  BY <1>1, <2>2, <3>1 DEF TurnsInv, NoOrphanTurn, Live, AbortTurn, TaskStates
    <2> QED  BY <1>1, <2>1, <2>2
  <1>5. TerminalsInv'
    BY <1>1 DEF TerminalsInv, Rewinding, AbortTurn, TaskStates
  <1>6. WindowInv' /\ IdleInv'
    BY <1>1 DEF WindowInv, RewindIsPristine, IdleInv, LocalsInv
  <1>7. DepthInv'
    <2>1. IsFiniteSet({g \in guards : g[3] = "held"})
      BY FS_Subset DEF DepthInv
    <2>2. Cardinality({g \in guards : g[3] = "held"}) \in Nat
      BY <2>1, FS_CardinalityType
    <2> QED  BY <1>1, <2>2 DEF DepthInv
  <1>8. Scheduled
    BY <1>1 DEF Scheduled, MayGo, Phase
  <1> QED  BY <1>2, <1>3, <1>4, <1>5, <1>6, <1>7, <1>8 DEF Keeps

(* The tail answers what was taken off the queue, sends the terminal and starts the front. *)
LEMMA CancelTailSafe ==
    ASSUME IndInv, SafeInv, CancelTail
    PROVE  Keeps
  <1> USE SetTypes DEF SafeInv
  <1>1. /\ pc = "tail" /\ pc' = "ready" /\ shown' = shown \cap {running}
        /\ MaybeStart(queue, running, rewindable /\ cx.terminal = None, None, task, mirror)
        /\ ended' = [i \in Ids |-> IF i = cx.terminal THEN ended[i] + 1 ELSE ended[i]]
        /\ answer' = [i \in Ids |-> IF i \in cx.removed THEN cx.how ELSE answer[i]]
        /\ cx' = NoCancel
        /\ UNCHANGED <<depth, guards, stranded, interjections, completions, starters>>
    BY DEF CancelTail, EmitTerminal, Resolve
  <1>2. /\ cx'.how = "none" /\ cx'.removed = {} /\ cx'.victim = None /\ cx'.terminal = None
    BY <1>1 DEF NoCancel
  <1>3. queue' = queue /\ Promoted(rewindable /\ cx.terminal = None)
    BY <1>1, CurrentQueue, MaybeStartPromotes
  <1>4. cx.how \in CancelKinds
    BY <1>1 DEF IndInv, CancelKnown
  <1>5. LocalsInv'
    BY <1>1, <1>2 DEF LocalsInv
  <1>6. PlacesInv'
    BY <1>1, <1>2, <1>3, <1>4 DEF PlacesInv, LocalsInv, CancelKinds
  <1>7. TurnsInv'
    BY <1>1, <1>2, <1>3, <1>4
       DEF TurnsInv, PlacesInv, LocalsInv, Promoted, NoOrphanTurn, Live, TaskStates, CancelKinds
  <1>8. TerminalsInv'
    <2>1. ASSUME NEW i \in Ids
          PROVE  /\ ended'[i] \in {0, 1}
                 /\ ended'[i] = 1 <=> /\ task'[i] # "none" /\ answer'[i] # "rewound"
                                      /\ i # running'
      BY <1>1, <1>2, <1>3, <1>4
         DEF TerminalsInv, TurnsInv, PlacesInv, Promoted, Rewinding, CancelKinds, TaskStates
    <2> QED  BY <1>2, <2>1 DEF TerminalsInv, Rewinding
  <1>9. WindowInv'
    BY <1>1, <1>2, <1>3 DEF WindowInv, RewindIsPristine, Promoted, TurnsInv
  <1>10. DepthInv' /\ IdleInv'
    BY <1>1, <1>3 DEF DepthInv, IdleInv, LocalsInv, Promoted
  <1>11. Scheduled
    BY <1>1, <1>2, <1>3, <1>4 DEF Scheduled, MayGo, Phase, PlacesInv, Promoted, CancelKinds
  <1> QED  BY <1>5, <1>6, <1>7, <1>8, <1>9, <1>10, <1>11 DEF Keeps

-----------------------------------------------------------------------------
(* The completion of a turn. *)

(***************************************************************************)
(* A completion in the channel is of the running turn, which is at the     *)
(* front, or it is stale and takes nothing: no prompt that still waits has *)
(* a turn.                                                                 *)
(***************************************************************************)
LEMMA HandleCompletionSafe ==
    ASSUME IndInv, SafeInv, HandleCompletion
    PROVE  Keeps
  <1> USE SetTypes DEF SafeInv
  <1> DEFINE c    == Head(completions)
             Ends == /\ running = c /\ running' = None /\ cx'.terminal = c
                     /\ Elems(queue') = Elems(queue) \ {c} /\ Distinct(queue')
                     /\ answer' = [i \in Ids |-> IF i = c THEN "done" ELSE answer[i]]
             Stale == /\ running # c /\ running' = running /\ cx'.terminal = None
                      /\ queue' = queue /\ answer' = answer
  <1>1. /\ pc = "ready" /\ pc' = "popped" /\ completions # << >>
        /\ queue' = IF Owned(c) THEN Tail(queue) ELSE queue
        /\ answer' = Resolve(answer, IF Owned(c) THEN {c} ELSE {}, "done")
        /\ running' = IF EndsRunning(c) THEN None ELSE running
        /\ cx' = [NoCancel EXCEPT !.terminal = IF Owned(c) THEN c ELSE None]
        /\ completions' = Tail(completions) /\ shown' = shown \ {c}
        /\ UNCHANGED <<rewindable, task, depth, guards, stranded, interjections, starters, ended>>
    BY DEF HandleCompletion
  <1>2. completions \in Seq(Ids)
    BY DEF IndInv, TypeOK
  <1>3. c \in Elems(completions) /\ Elems(completions') \subseteq Elems(completions)
    BY <1>1, <1>2 DEF Elems
  <1> HIDE DEF c
  <1>4. c \in Ids /\ task[c] = "sent"
    BY <1>3 DEF TurnsInv
  <1>5. queue # << >> => Head(queue) \in Elems(queue)
    BY CurrentQueue, ElemsFacts
  <1>6. Owned(c) <=> running = c
    BY <1>1, <1>4, <1>5, CurrentQueue DEF Owned, TurnsInv
  <1>7. /\ cx'.how = "none" /\ cx'.removed = {} /\ cx'.victim = None
        /\ cx'.terminal = IF running = c THEN c ELSE None
    BY <1>1, <1>6 DEF NoCancel
  <1>8. Ends \/ Stale
    <2>1. CASE running = c
      <3>1. queue # << >> /\ Head(queue) = c /\ queue \in Seq(Ids) /\ Distinct(queue)
        BY <1>6, <2>1, CurrentQueue DEF Owned, PlacesInv
      <3>2. Elems(queue') = Elems(queue) \ {c} /\ Distinct(queue')
        BY <1>1, <1>6, <2>1, <3>1, TailElems
      <3> QED  BY <1>1, <1>6, <1>7, <2>1, <3>2 DEF Resolve, EndsRunning
    <2>2. CASE running # c
      BY <1>1, <1>6, <1>7, <2>2 DEF Resolve, EndsRunning
    <2> QED  BY <2>1, <2>2
  <1>9. cx.how = "none" /\ cx.removed = {} /\ cx.terminal = None /\ Elems(stranded) = {}
    BY <1>1 DEF LocalsInv
  <1>10. LocalsInv'
    BY <1>1, <1>7, <1>9 DEF LocalsInv
  <1>11. PlacesInv'
    BY <1>1, <1>4, <1>7, <1>8, <1>9 DEF PlacesInv
  <1>12. TurnsInv'
    <2>1. CASE Ends
      <3>1. \A i \in Ids : task'[i] # "none" =>
              /\ answer'[i] # "fresh"
              /\ i \notin Elems(queue') \cup Elems(interjections') \cup Elems(stranded')
        <4>1. c \in Elems(queue)
          BY <1>1, <1>4, <2>1
        <4>2. c \notin Elems(interjections) /\ c \notin Elems(stranded)
          BY <4>1 DEF PlacesInv
        <4>3. /\ answer' = [i \in Ids |-> IF i = c THEN "done" ELSE answer[i]]
              /\ Elems(queue') = Elems(queue) \ {c}
              /\ UNCHANGED <<task, interjections, stranded>>
          BY <1>1, <2>1
        <4> QED  BY <2>1, <4>2, <4>3 DEF TurnsInv
      <3>2. Live' = {}
        BY <1>1, <1>4, <2>1 DEF TurnsInv, NoOrphanTurn, Live
      <3> QED  BY <1>1, <1>3, <2>1, <3>1, <3>2 DEF TurnsInv, NoOrphanTurn
    <2>2. CASE Stale
      BY <1>1, <1>3, <1>4, <1>7, <2>2 DEF TurnsInv, NoOrphanTurn, Live
    <2> QED  BY <1>8, <2>1, <2>2
  <1>13. TerminalsInv'
    <2>1. CASE Ends
      BY <1>1, <1>4, <1>7, <1>9, <2>1 DEF TerminalsInv, Rewinding
    <2>2. CASE Stale
      BY <1>1, <1>4, <1>7, <1>9, <2>2 DEF TerminalsInv, Rewinding
    <2> QED  BY <1>8, <2>1, <2>2
  <1>14. WindowInv'
    BY <1>1, <1>4, <1>7, <1>8, <1>9 DEF WindowInv, RewindIsPristine
  <1>15. DepthInv'
    BY <1>1, <1>4, <1>8 DEF DepthInv, TurnsInv
  <1>16. IdleInv'
    BY <1>1 DEF IdleInv
  <1>17. Scheduled
    BY <1>1, <1>4, <1>7, <1>8, <1>9 DEF Scheduled, MayGo, Phase, PlacesInv
  <1> QED  BY <1>10, <1>11, <1>12, <1>13, <1>14, <1>15, <1>16, <1>17 DEF Keeps

(* The terminal is sent and the interjections that missed the turn are stranded. *)
LEMMA HandleTurnEndSafe ==
    ASSUME IndInv, SafeInv, NEW g \in Goals \cup {None}, HandleTurnEnd(g)
    PROVE  Keeps
  <1> USE SetTypes DEF SafeInv
  <1> DEFINE new == IF g = None THEN {} ELSE {g}
  <1>1. /\ pc = "popped" /\ pc' = "flush"
        /\ ended' = [i \in Ids |-> IF i = cx.terminal THEN ended[i] + 1 ELSE ended[i]]
        /\ rewindable' = (rewindable /\ cx.terminal = None)
        /\ queue' = IF g = None THEN queue ELSE Append(queue, g)
        /\ stranded' = interjections /\ interjections' = << >> /\ cx' = NoCancel
        /\ UNCHANGED <<running, task, depth, guards, shown, completions, starters>>
    BY DEF HandleTurnEnd, EmitTerminal, turnVars
  <1>2. /\ cx'.how = "none" /\ cx'.removed = {} /\ cx'.victim = None /\ cx'.terminal = None
        /\ Elems(stranded) = {} /\ cx.removed = {} /\ cx.how = "none" /\ cx.victim = None
        /\ Elems(interjections') = {} /\ Distinct(interjections')
    BY <1>1, SmallFacts DEF NoCancel, LocalsInv
  <1>3. /\ new \subseteq Ids /\ \A i \in new : answer[i] = "fresh"
        /\ answer' = [i \in Ids |-> IF i \in new THEN "waiting" ELSE answer[i]]
    BY IdAssumption DEF HandleTurnEnd, Resolve, Ids, Synthetic
  <1>4. Elems(queue') = Elems(queue) \cup new /\ Distinct(queue')
    <2>1. queue \in Seq(Ids) /\ Distinct(queue)
      BY CurrentQueue DEF PlacesInv
    <2>2. CASE g = None
      BY <1>1, <2>1, <2>2
    <2>3. CASE g # None
      <3>1. g \in Ids /\ g \notin Elems(queue)
        BY <1>1, <1>3, <2>3, FreshNowhere
      <3> QED  BY <1>1, <2>1, <2>3, <3>1, AppendElems
    <2> QED  BY <2>2, <2>3
  <1> HIDE DEF new
  <1>5. LocalsInv'
    BY <1>1, <1>2 DEF LocalsInv
  <1>6. PlacesInv'
    BY <1>1, <1>2, <1>3, <1>4 DEF PlacesInv
  <1>7. TurnsInv'
    BY <1>1, <1>2, <1>3, <1>4 DEF TurnsInv, PlacesInv, NoOrphanTurn, Live
  <1>8. TerminalsInv'
    BY <1>1, <1>2, <1>3 DEF TerminalsInv, TurnsInv, Rewinding
  <1>9. WindowInv' /\ DepthInv'
    BY <1>1, <1>2 DEF WindowInv, RewindIsPristine, DepthInv
  <1>10. IdleInv'
    BY <1>1, <1>2 DEF IdleInv
  <1>11. Scheduled
    BY <1>1, <1>2, <1>3 DEF Scheduled, MayGo, Phase, PlacesInv
  <1> QED  BY <1>5, <1>6, <1>7, <1>8, <1>9, <1>10, <1>11 DEF Keeps

-----------------------------------------------------------------------------
(* The turns. *)

(* Which turns can take a step. *)
LEMMA LiveTurns ==
    ASSUME IndInv, SafeInv, NEW t \in Ids, task[t] \in {"live", "ending"}
    PROVE  /\ t = running \/ (pc \in {"gate", "abort"} /\ t = cx.victim /\ t = cx.terminal)
           /\ cx.how = "rewound" /\ pc # "cancel" /\ pc # "stopped" => t \notin cx.removed
  <1>1. t = running \/ (pc \in {"gate", "abort"} /\ t = cx.victim)
    BY DEF SafeInv, TurnsInv, NoOrphanTurn, Live
  <1>2. t # None
    BY IdAssumption
  <1> QED  BY <1>1, <1>2, SetTypes DEF SafeInv, LocalsInv, PlacesInv, TerminalsInv

(* A turn that shows something, or drains the interjections. *)
LEMMA TurnShowsSafe ==
    ASSUME IndInv, SafeInv, pc # "stopped", NEW t \in Ids,
           \/ TurnEmits(t)
           \/ \E b \in BOOLEAN : TurnBeginsRound(t, b)
           \/ TurnDrainsInterjections(t)
    PROVE  Keeps
  <1> USE SetTypes DEF SafeInv
  <1>1. CASE TurnEmits(t)
    <2>1. /\ task[t] \in {"live", "ending"} /\ shown' = shown \cup {t} /\ rewindable' = FALSE
          /\ UNCHANGED <<queue, running, task, depth, guards, pc, cx, stranded, interjections,
                         completions, starters, answer, ended>>
      BY <1>1 DEF TurnEmits, Live, actorVars
    <2>2. cx.how = "rewound" /\ pc # "cancel" => t \notin cx.removed
      BY <2>1, LiveTurns
    <2>3. LocalsInv' /\ PlacesInv' /\ DepthInv' /\ IdleInv'
      BY <2>1 DEF LocalsInv, PlacesInv, DepthInv, IdleInv
    <2>4. TurnsInv' /\ TerminalsInv'
      BY <2>1 DEF TurnsInv, NoOrphanTurn, Live, TerminalsInv, Rewinding
    <2>5. WindowInv'
      BY <2>1, <2>2 DEF WindowInv, RewindIsPristine
    <2>6. Scheduled
      BY <2>1 DEF Scheduled, MayGo, Phase
    <2> QED  BY <2>3, <2>4, <2>5, <2>6 DEF Keeps
  <1>2. ASSUME NEW b, TurnBeginsRound(t, b)
        PROVE  Keeps
    <2>1. UNCHANGED <<queue, running, rewindable, task, depth, guards, shown, pc, cx, stranded,
                      interjections, completions, starters, answer, ended>>
      BY <1>2 DEF TurnBeginsRound, stateVars, actorVars
    <2>2. LocalsInv' /\ PlacesInv' /\ DepthInv' /\ IdleInv'
      BY <2>1 DEF LocalsInv, PlacesInv, DepthInv, IdleInv
    <2>3. TurnsInv' /\ TerminalsInv' /\ WindowInv'
      BY <2>1 DEF TurnsInv, NoOrphanTurn, Live, TerminalsInv, Rewinding, WindowInv,
                  RewindIsPristine
    <2>4. Scheduled
      BY <2>1 DEF Scheduled, MayGo, Phase
    <2> QED  BY <2>2, <2>3, <2>4 DEF Keeps
  <1>3. CASE TurnDrainsInterjections(t)
    <2>1. /\ task[t] = "live" /\ interjections' = << >>
          /\ answer' = [i \in Ids |-> IF i \in Elems(interjections) THEN "merged"
                                      ELSE answer[i]]
          /\ UNCHANGED <<queue, running, rewindable, task, depth, guards, shown, pc, cx, stranded,
                         completions, starters, ended>>
      BY <1>3 DEF TurnDrainsInterjections, Resolve, stateVars, turnVars, actorVars
    <2>2. Elems(interjections') = {} /\ Distinct(interjections')
      BY <2>1, SmallFacts
    <2>3. LocalsInv'
      BY <2>1, <2>2 DEF LocalsInv
    <2>4. PlacesInv'
      BY <2>1, <2>2 DEF PlacesInv, LocalsInv
    <2>5. TurnsInv'
      BY <2>1, <2>2 DEF TurnsInv, NoOrphanTurn, Live
    <2>6. TerminalsInv'
      BY <2>1, <2>2 DEF TerminalsInv, PlacesInv, Rewinding
    <2>7. WindowInv' /\ DepthInv' /\ IdleInv'
      BY <2>1, <2>2 DEF WindowInv, RewindIsPristine, DepthInv, IdleInv
    <2>8. Scheduled
      <3>1. ASSUME NEW i \in Ids
            PROVE  MayGo(i, Phase(i), Phase(i)')
        <4>1. CASE i \in Elems(interjections)
          <5>1. /\ answer[i] = "waiting" /\ answer'[i] = "merged" /\ i \in UserOrigin
                /\ i # running /\ i \notin cx.removed
            BY <2>1, <4>1, BufferType DEF PlacesInv, LocalsInv
          <5> QED  BY <5>1 DEF MayGo, Phase
        <4>2. CASE i \notin Elems(interjections)
          BY <2>1, <4>2, SamePhase
        <4> QED  BY <4>1, <4>2
      <3> QED  BY <2>1, <3>1 DEF Scheduled
    <2> QED  BY <2>3, <2>4, <2>5, <2>6, <2>7, <2>8 DEF Keeps
  <1> QED  BY <1>1, <1>2, <1>3

(* A waiting call adds at most one to the depth, when its guard is added to those held. *)
LEMMA CallKeepsDepth ==
    ASSUME IndInv, DepthInv, NEW t, NEW k, WaitingCall(t, k)
    PROVE  DepthInv'
  <1> DEFINE held(S) == {g \in S : g[3] = "held"}
             sent    == <<t, k, "sent">>
             enters  == <<t, k, "held">>
  <1>1. /\ depth \in Nat /\ IsFiniteSet(guards) /\ depth <= Cardinality(held(guards))
        /\ guards \subseteq Waiters \X Calls \X CallStates
    BY DEF IndInv, TypeOK, DepthInv
  <1>2. /\ IsFiniteSet(held(guards)) /\ Cardinality(held(guards)) \in Nat
        /\ sent[3] = "sent" /\ enters[3] = "held"
    BY <1>1, FS_Subset, FS_CardinalityType
  <1>3. CASE TurnSendsCall(t, k)
    <2>1. guards' = guards \cup {sent} /\ depth' = depth /\ enters \notin guards
      BY <1>3 DEF TurnSendsCall, CallStates
    <2>2. IsFiniteSet(guards')
      BY <1>1, <2>1, FS_AddElement
    <2>3. held(guards') = held(guards)
      BY <1>2, <2>1
    <2>4. \A u \in Waiters, j \in Calls :
             ~(<<u, j, "sent">> \in guards' /\ <<u, j, "held">> \in guards')
      BY <2>1 DEF DepthInv
    <2> QED  BY <1>1, <2>1, <2>2, <2>3, <2>4 DEF DepthInv
  <1>4. CASE CallEntersWait(t, k)
    <2>1. /\ sent \in guards /\ guards' = (guards \ {sent}) \cup {enters}
          /\ depth' = depth + 1
      BY <1>4 DEF CallEntersWait
    <2>2. t \in Waiters /\ k \in Calls
      BY <1>1, <2>1
    <2>3. IsFiniteSet(guards \ {sent})
      BY <1>1, FS_RemoveElement
    <2>4. IsFiniteSet(guards')
      BY <2>1, <2>3, FS_AddElement
    <2>5. held(guards') = held(guards) \cup {enters}
      BY <1>2, <2>1
    <2>6. enters \notin held(guards)
      BY <2>1, <2>2 DEF DepthInv
    <2>7. Cardinality(held(guards')) = Cardinality(held(guards)) + 1
      BY <1>2, <2>5, <2>6, FS_AddElement
    <2>8. \A u \in Waiters, j \in Calls :
             ~(<<u, j, "sent">> \in guards' /\ <<u, j, "held">> \in guards')
      BY <2>1 DEF DepthInv
    <2> QED  BY <1>1, <1>2, <2>1, <2>4, <2>7, <2>8 DEF DepthInv
  <1>5. CASE CallIsDropped(t, k)
    <2>1. guards' = guards \ {sent} /\ depth' = depth
      BY <1>5 DEF CallIsDropped
    <2>2. IsFiniteSet(guards')
      BY <1>1, <2>1, FS_RemoveElement
    <2>3. held(guards') = held(guards)
      BY <1>2, <2>1
    <2>4. \A u \in Waiters, j \in Calls :
             ~(<<u, j, "sent">> \in guards' /\ <<u, j, "held">> \in guards')
      BY <2>1 DEF DepthInv
    <2> QED  BY <1>1, <2>1, <2>2, <2>3, <2>4 DEF DepthInv
  <1>6. CASE WaitGuardDrops(t, k)
    <2>1. /\ enters \in guards /\ guards' = guards \ {enters}
          /\ depth' = IF depth = 0 THEN 0 ELSE depth - 1
      BY <1>6 DEF WaitGuardDrops
    <2>2. IsFiniteSet(guards')
      BY <1>1, <2>1, FS_RemoveElement
    <2>3. enters \in held(guards) /\ held(guards') = held(guards) \ {enters}
      BY <1>2, <2>1
    <2>4. Cardinality(held(guards')) = Cardinality(held(guards)) - 1
      BY <1>2, <2>3, FS_RemoveElement
    <2>5. Cardinality(held(guards')) \in Nat
      BY <1>2, <2>3, FS_RemoveElement, FS_CardinalityType
    <2>6. \A u \in Waiters, j \in Calls :
             ~(<<u, j, "sent">> \in guards' /\ <<u, j, "held">> \in guards')
      BY <2>1 DEF DepthInv
    <2> QED  BY <1>1, <1>2, <2>1, <2>2, <2>4, <2>5, <2>6 DEF DepthInv
  <1> QED  BY <1>3, <1>4, <1>5, <1>6 DEF WaitingCall

(* A waiting call that is sent, enters its wait or leaves it. *)
LEMMA TurnWaitsSafe ==
    ASSUME IndInv, SafeInv, pc # "stopped", NEW t \in Ids, NEW k \in Calls, WaitingCall(t, k)
    PROVE  Keeps
  <1> USE SetTypes DEF SafeInv
  <1>1. UNCHANGED <<queue, running, rewindable, task, shown, pc, cx, stranded, interjections,
                    completions, starters, answer, ended>>
    BY DEF WaitingCall, TurnSendsCall, CallEntersWait, CallIsDropped, WaitGuardDrops, stateVars,
           actorVars
  <1>2. LocalsInv' /\ PlacesInv' /\ IdleInv'
    BY <1>1 DEF LocalsInv, PlacesInv, IdleInv
  <1>3. TurnsInv' /\ TerminalsInv' /\ WindowInv'
    BY <1>1 DEF TurnsInv, NoOrphanTurn, Live, TerminalsInv, Rewinding, WindowInv,
                RewindIsPristine
  <1>4. DepthInv'
    BY CallKeepsDepth
  <1>5. Scheduled
    BY <1>1 DEF Scheduled, MayGo, Phase
  <1> QED  BY <1>2, <1>3, <1>4, <1>5 DEF Keeps

(* A turn that takes a queued wake prompt off the queue, its own slot spared. *)
LEMMA TurnConsumesSafe ==
    ASSUME IndInv, SafeInv, pc # "stopped", NEW t \in Ids, NEW w \in Wakes,
           TurnConsumesCompletion(t, w)
    PROVE  Keeps
  <1> DEFINE gone == Elems(queue) \ Elems(queue')
  <1>1. /\ queue' = Only(queue, (Ids \ {w}) \cup {running})
        /\ answer' = [i \in Ids |-> IF i \in gone THEN "dropped" ELSE answer[i]]
        /\ UNCHANGED <<running, rewindable, task, depth, guards, shown, pc, cx, interjections,
                       stranded, completions, starters, ended>>
    BY DEF TurnConsumesCompletion, SweepPending, Resolve, turnVars, actorVars
  <1>2. queue \in Seq(Ids) /\ Distinct(queue)
    BY CurrentQueue DEF SafeInv, PlacesInv
  <1>3. Elems(queue') = Elems(queue) \cap ((Ids \ {w}) \cup {running})
    BY <1>1, <1>2, OnlyElems
  <1>4. Distinct(queue')
    BY <1>1, <1>2, OnlyKeepsDistinct DEF Distinct
  <1>5. Moved({}, gone, "dropped")
    BY <1>1, <1>3, <1>4, SetTypes DEF Moved, Synthetic
  <1> QED  BY <1>1, <1>5, QueueSafe

(* A turn that ends by itself, with or without calls in their waits. *)
LEMMA TurnEndsSafe ==
    ASSUME IndInv, SafeInv, pc # "stopped", NEW t \in Ids,
           TurnScopeEnds(t) \/ TurnSendsCompletion(t)
    PROVE  Keeps
  <1> USE SetTypes DEF SafeInv
  <1>1. /\ task[t] \in {"live", "ending"}
        /\ \/ task' = [task EXCEPT ![t] = "ending"] /\ Elems(completions') = Elems(completions)
           \/ /\ task' = [task EXCEPT ![t] = "sent"]
              /\ Elems(completions') = Elems(completions) \cup {t}
        /\ UNCHANGED <<queue, running, rewindable, depth, guards, shown, pc, cx, stranded,
                       interjections, starters, answer, ended>>
    <2>1. Elems(Append(completions, t)) = Elems(completions) \cup {t}
      BY AppendElems DEF IndInv, TypeOK
    <2> QED  BY <2>1 DEF TurnScopeEnds, TurnSendsCompletion, Live, turnVars, actorVars
  <1>2. LocalsInv' /\ PlacesInv' /\ IdleInv' /\ DepthInv'
    BY <1>1 DEF LocalsInv, PlacesInv, IdleInv, DepthInv
  <1>3. TurnsInv'
    BY <1>1 DEF TurnsInv, NoOrphanTurn, Live, TaskStates
  <1>4. TerminalsInv'
    BY <1>1 DEF TerminalsInv, Rewinding, TaskStates
  <1>5. WindowInv'
    BY <1>1 DEF WindowInv, RewindIsPristine
  <1>6. Scheduled
    BY <1>1 DEF Scheduled, MayGo, Phase
  <1> QED  BY <1>2, <1>3, <1>4, <1>5, <1>6 DEF Keeps

-----------------------------------------------------------------------------

(* A new session has no prompt and no turn. *)
LEMMA InitSafe == Init => SafeInv
  <1> SUFFICES ASSUME Init
               PROVE  SafeInv
    OBVIOUS
  <1>1. /\ Elems(queue) = {} /\ Elems(interjections) = {} /\ Elems(stranded) = {}
        /\ Elems(completions) = {}
        /\ Distinct(queue) /\ Distinct(interjections) /\ Distinct(stranded)
    BY SmallFacts DEF Init
  <1>2. /\ cx.how = "none" /\ cx.removed = {} /\ cx.victim = None /\ cx.terminal = None
    BY DEF Init, NoCancel
  <1>3. LocalsInv /\ PlacesInv /\ IdleInv /\ WindowInv
    BY <1>1, <1>2 DEF Init, LocalsInv, PlacesInv, IdleInv, WindowInv, RewindIsPristine
  <1>4. DepthInv
    <2>1. guards = {} /\ depth = 0 /\ {g \in guards : g[3] = "held"} = {}
      BY DEF Init
    <2> QED  BY <2>1, FS_EmptySet DEF DepthInv
  <1>5. TurnsInv /\ TerminalsInv
    BY <1>1, <1>2 DEF Init, TurnsInv, NoOrphanTurn, Live, TerminalsInv, Rewinding
  <1> QED  BY <1>3, <1>4, <1>5 DEF SafeInv

(* Every step of the session keeps the two invariants. *)
LEMMA SafeStep == IndInv /\ SafeInv /\ [Next]_vars => Keeps
  <1> SUFFICES ASSUME IndInv, SafeInv, [Next]_vars
               PROVE  Keeps
    OBVIOUS
  <1>1. CASE Commands
    BY <1>1, PromptSafe, SyntheticSafe, InterjectSafe, RowSafe, InterjectRowSafe,
       LaterStartSafe, CancelSafe, ShutdownSafe DEF Commands
  <1>2. CASE ActorContinues
    BY <1>2, InsertStrandedSafe, LaterStartSafe, CancelLockedSafe, CancelMiddleSafe,
       CancelTailSafe, HandleCompletionSafe, HandleTurnEndSafe DEF ActorContinues
  <1>3. CASE Starters
    BY <1>3, QueueResumeSafe, LaterStartSafe DEF Starters
  <1>4. CASE \E t \in Ids : pc # "stopped" /\ Turn(t)
    BY <1>4, TurnShowsSafe, TurnWaitsSafe, TurnConsumesSafe, TurnEndsSafe DEF Turn
  <1>5. CASE UNCHANGED vars
    <2>1. UNCHANGED <<queue, running, rewindable, task, depth, guards, shown, pc, cx, stranded,
                      interjections, completions, starters, answer, ended>>
      BY <1>5 DEF vars, stateVars, turnVars, actorVars
    <2>2. SafeInv'
      BY <2>1 DEF SafeInv, LocalsInv, PlacesInv, TurnsInv, NoOrphanTurn, Live, TerminalsInv,
                  Rewinding, WindowInv, RewindIsPristine, DepthInv, IdleInv
    <2>3. Scheduled
      BY <2>1 DEF Scheduled, MayGo, Phase
    <2> QED  BY <2>2, <2>3 DEF Keeps
  <1> QED  BY <1>1, <1>2, <1>3, <1>4, <1>5 DEF Next, Stopped

(* Both invariants hold in every state of every behaviour. *)
LEMMA SafeInvariance == Spec => [](IndInv /\ SafeInv)
  <1>1. IndInv /\ SafeInv /\ [Next]_vars => SafeInv'
    BY SafeStep DEF Keeps
  <1> QED  BY <1>1, InitIndInv, NextStep, InitSafe, PTL DEF Spec

(***************************************************************************)
(* No prompt is lost or doubled, for any number of prompts of each kind:   *)
(* what was accepted and not answered is held once, in the queue, in the   *)
(* interjection buffer, in the flush or in the cancel that took it.        *)
(***************************************************************************)
THEOREM PromptsKept == Spec => []NoPromptLost
  <1>1. IndInv /\ SafeInv => NoPromptLost
    <2> SUFFICES ASSUME IndInv, SafeInv
                 PROVE  NoPromptLost
      OBVIOUS
    <2>1. pc # "stopped" => {i \in Ids : answer[i] = "waiting"} = Held
      BY SetTypes DEF SafeInv, PlacesInv, Held
    <2>2. \A s \in {queue, interjections, stranded} :
             \A j, k \in DOMAIN s : s[j] = s[k] => j = k
      BY DEF SafeInv, PlacesInv, Distinct
    <2> QED  BY <2>1, <2>2 DEF SafeInv, PlacesInv, NoPromptLost
  <1> QED  BY <1>1, SafeInvariance, PTL

(* The runtime never polls a turn that the session has lost sight of, although a cancel gives *)
(* up the state lock before it aborts the turn that it took.                                  *)
THEOREM NoOrphans == Spec => []NoOrphanTurn
  <1>1. SafeInv => NoOrphanTurn
    BY DEF SafeInv, TurnsInv
  <1> QED  BY <1>1, SafeInvariance, PTL

(* Every turn that ended has one terminal on the replay rail, whoever ended it, and a turn    *)
(* that was rewound or never ran has none.                                                    *)
THEOREM TerminalsOnce == Spec => []OneTerminalPerTurn
  <1>1. IndInv /\ SafeInv => OneTerminalPerTurn
    <2> SUFFICES ASSUME IndInv, SafeInv, NEW i \in Ids
                 PROVE  /\ ended[i] <= 1
                        /\ ended[i] = 1 => task[i] # "none" /\ answer[i] # "rewound"
                        /\ pc = "ready" /\ task[i] # "none" /\ i # running /\ answer[i] # "rewound"
                             => ended[i] = 1
      BY DEF OneTerminalPerTurn
    <2> QED  BY SetTypes, IdAssumption DEF SafeInv, TerminalsInv, LocalsInv, Rewinding
  <1> QED  BY <1>1, SafeInvariance, PTL

(* A cancel rewinds only a turn that has sent nothing. *)
THEOREM RewindsPristine == Spec => []RewindIsPristine
  <1>1. SafeInv => RewindIsPristine
    BY DEF SafeInv, WindowInv
  <1> QED  BY <1>1, SafeInvariance, PTL

(* The wait depth never outnumbers the guards held, for any number of turns and of calls in   *)
(* parallel: it is 0 again when the last guard has dropped, whenever the turns ended.         *)
THEOREM DepthNeverLeaks == Spec => []DepthIsHeld
  <1>1. SafeInv => DepthIsHeld
    BY DEF SafeInv, DepthInv, DepthIsHeld
  <1> QED  BY <1>1, SafeInvariance, PTL

(* An actor at rest without a turn leaves nothing queued or buffered that nobody will start. *)
THEOREM NothingLeftIdle == Spec => []NothingStranded
  <1>1. IndInv /\ SafeInv => NothingStranded
    <2> SUFFICES ASSUME IndInv, SafeInv, pc = "ready", running = None
                 PROVE  interjections = << >> /\ Elems(queue) \subseteq starters
      BY DEF NothingStranded
    <2>1. interjections = << >> <=> Elems(interjections) = {}
      BY CurrentQueue, ElemsFacts
    <2> QED  BY <2>1 DEF SafeInv, IdleInv
  <1> QED  BY <1>1, SafeInvariance, PTL

-----------------------------------------------------------------------------
(* The session implements the turn scheduler. *)

(* The paths, as the turn scheduler lists them. *)
LEMMA PathsAgree ==
    ASSUME NEW i \in Ids, NEW a, NEW b, MayGo(i, a, b), a # b
    PROVE  <<a, b>> \in (IF i \in UserOrigin THEN Scheduler!UserPath ELSE Scheduler!SyntheticPath)
  BY IdAssumption DEF MayGo, Ids, Scheduler!UserPath, Scheduler!SyntheticPath, Scheduler!Path

(* Only the running prompt can be in the phase that holds the slot. *)
LEMMA SlotIsRunning ==
    IndInv /\ SafeInv => \A i \in Ids : Phase(i) = "running" => i = running
  <1> SUFFICES ASSUME IndInv, SafeInv, NEW i \in Ids, Phase(i) = "running", i # running
               PROVE  FALSE
    OBVIOUS
  <1>1. answer[i] \in AnswerStates
    BY CurrentQueue
  <1>2. i \in cx.removed => cx.how \in CancelKinds
    BY DEF SafeInv, LocalsInv, IndInv, CancelKnown
  <1> QED  BY <1>1, <1>2 DEF Phase, AnswerStates, CancelKinds

(* Every step of the session is a step of the scheduler. *)
LEMMA ScheduleStep ==
    ASSUME IndInv, SafeInv, Scheduled,
           \A i \in Ids : Phase(i) = "running" => i = running,
           \A i \in Ids : Phase(i)' = "running" => i = running'
    PROVE  Scheduler!Next
  <1> DEFINE f == [i \in Ids |-> Phase(i)]
  <1>1. Scheduler!Prompts = Ids
    BY DEF Scheduler!Prompts, Ids
  <1>2. DOMAIN f' = Ids
    OBVIOUS
  <1>3. ASSUME NEW i \in Ids, f'[i] # f[i]
        PROVE  <<f[i], f'[i]>> \in
                 (IF i \in UserOrigin THEN Scheduler!UserPath ELSE Scheduler!SyntheticPath)
    <2>1. f[i] = Phase(i) /\ f'[i] = Phase(i)'
      OBVIOUS
    <2> QED  BY <1>3, <2>1, PathsAgree DEF Scheduled
  <1>4. Scheduler!Slot(f) \subseteq {running} /\ Scheduler!Slot(f') \subseteq {running'}
    BY <1>1 DEF Scheduler!Slot
  <1> HIDE DEF f
  <1>5. Scheduler!Slot(f') \ Scheduler!Slot(f) # {} =>
          Scheduler!Slot(f) = {} /\ running' \in Ids /\ Scheduler!Slot(f') = {running'}
    <2> SUFFICES ASSUME NEW i \in Scheduler!Slot(f') \ Scheduler!Slot(f)
                 PROVE  /\ Scheduler!Slot(f) = {} /\ running' \in Ids
                        /\ Scheduler!Slot(f') = {running'}
      OBVIOUS
    <2>1. i \in Ids /\ i = running'
      BY <1>1, <1>4 DEF Scheduler!Slot
    <2>2. i # None
      BY <2>1, IdAssumption
    <2>3. running \in {i, None} /\ None \notin Scheduler!Slot(f)
      BY <1>1, <2>1, <2>2, IdAssumption DEF Scheduled, Scheduler!Slot
    <2> QED  BY <1>4, <2>1, <2>2, <2>3
  <1>6. /\ DOMAIN f' = Scheduler!Prompts
        /\ \A i \in Scheduler!Prompts : f'[i] # f[i] => <<f[i], f'[i]>> \in
             (IF i \in UserOrigin THEN Scheduler!UserPath ELSE Scheduler!SyntheticPath)
        /\ Scheduler!Slot(f') \ Scheduler!Slot(f) # {} =>
             Scheduler!Slot(f) = {} /\ \E i \in Scheduler!Prompts : Scheduler!Slot(f') = {i}
    BY <1>1, <1>2, <1>3, <1>5
  <1> QED  BY <1>6 DEF f, Scheduler!Next

(* A session that starts is a scheduler that starts. *)
LEMMA ScheduleInit == Init => Scheduler!Init
  <1> SUFFICES ASSUME Init
               PROVE  [i \in Ids |-> Phase(i)] = [i \in Scheduler!Prompts |-> "fresh"]
    BY DEF Scheduler!Init
  <1> QED  BY DEF Init, Phase, Scheduler!Prompts, Ids

(***************************************************************************)
(* The session implements the turn scheduler, for any number of prompts:   *)
(* no race of cancels, late completions, sweeps and starts by other tasks  *)
(* runs a prompt twice, gives the slot to two, or answers a prompt twice   *)
(* or with what did not happen to it.                                      *)
(***************************************************************************)
THEOREM SessionSchedules == Spec => Schedules
  <1>1. IndInv /\ SafeInv /\ [Next]_vars => Scheduled
    BY SafeStep DEF Keeps
  <1> DEFINE One == \A i \in Ids : Phase(i) = "running" => i = running
  <1>2. IndInv /\ SafeInv => One
    BY SlotIsRunning
  <1>3. IndInv /\ SafeInv /\ One /\ One' /\ Scheduled => Scheduler!Next
    BY ScheduleStep
  <1>4. Spec => [](IndInv /\ SafeInv)
    BY SafeInvariance
  <1> QED  BY <1>1, <1>2, <1>3, <1>4, ScheduleInit, PTL DEF Spec, Schedules, Scheduler!Spec

-----------------------------------------------------------------------------
(* The promoted turn is driven. *)

(* A step that touches neither the slot nor a turn nor the channel. *)
LEMMA DrivenKept ==
    ASSUME RunningIsDriven, UNCHANGED <<running, task, completions>>
    PROVE  RunningIsDriven'
  BY DEF RunningIsDriven, Live

(* maybe_start_running_task spawns the turn that it puts into the slot. *)
LEMMA DrivenStart ==
    ASSUME IndInv, IndInv', RunningIsDriven, completions' = completions,
           NEW q, NEW rw, NEW pn, NEW mi, MaybeStart(q, running, rw, pn, task, mi)
    PROVE  RunningIsDriven'
  <1>1. task \in [Ids -> TaskStates] /\ running' \in Ids \cup {None}
    BY DEF IndInv, TypeOK
  <1>2. CASE running = None /\ q # << >>
    <2>1. running' = Head(q) /\ task' = [task EXCEPT ![Head(q)] = "live"]
      BY <1>2 DEF MaybeStart
    <2> QED  BY <1>1, <2>1 DEF RunningIsDriven, Live
  <1>3. CASE ~(running = None /\ q # << >>)
    <2>1. running' = running /\ task' = task
      BY <1>3 DEF MaybeStart
    <2> QED  BY <2>1, DrivenKept
  <1> QED  BY <1>2, <1>3

(* A command starts the front, begins a cancel or leaves the turns alone. *)
LEMMA DrivenCommands ==
    ASSUME IndInv, IndInv', RunningIsDriven, Commands
    PROVE  RunningIsDriven'
  <1>1. ASSUME NEW u, NEW sn, Prompt(u, sn)
        PROVE  RunningIsDriven'
    BY <1>1, DrivenKept, DrivenStart DEF Prompt, CancelOrStart
  <1>2. ASSUME NEW w, WakePrompt(w) \/ GoalSummaryTurn(w) \/ InjectNotification(w)
        PROVE  RunningIsDriven'
    BY <1>2, DrivenStart DEF WakePrompt, GoalSummaryTurn, InjectNotification
  <1>3. ASSUME NEW i, Interject(i)
        PROVE  RunningIsDriven'
    BY <1>3, DrivenKept DEF Interject, stateVars
  <1>4. ASSUME NEW u, NEW v, NEW o,
               RemoveQueuedPrompt(u, v, o) \/ ReorderQueue(o) \/ ClearQueue(o)
                 \/ EditQueuedPrompt(u) \/ Cancel(o) \/ Shutdown
        PROVE  RunningIsDriven'
    BY <1>4, DrivenKept DEF RemoveQueuedPrompt, ReorderQueue, ClearQueue, EditQueuedPrompt,
                            Cancel, Shutdown, stateVars
  <1>5. ASSUME NEW u, NEW v, NEW o, NEW e, InterjectQueuedPrompt(u, v, o, e)
        PROVE  RunningIsDriven'
    BY <1>5, DrivenKept, DrivenStart DEF InterjectQueuedPrompt, CancelOrStart
  <1>6. ASSUME NEW u, NEW v, NEW o, InterjectQueuedPromptMisses(u, v, o)
        PROVE  RunningIsDriven'
    BY <1>6, DrivenStart DEF InterjectQueuedPromptMisses
  <1> QED  BY <1>1, <1>2, <1>3, <1>4, <1>5, <1>6 DEF Commands

(***************************************************************************)
(* The rest of a handler.  A cancel empties the slot before it aborts, so  *)
(* that the turn it aborts is not the one that another task has promoted   *)
(* by then; a completion leaves the channel with the turn that it names.   *)
(***************************************************************************)
LEMMA DrivenActor ==
    ASSUME IndInv, SafeInv, IndInv', RunningIsDriven, ActorContinues
    PROVE  RunningIsDriven'
  <1>1. CASE InsertStranded \/ CancelGate \/ \E g \in Goals \cup {None} : HandleTurnEnd(g)
    BY <1>1, DrivenKept DEF InsertStranded, CancelGate, HandleTurnEnd, stateVars
  <1>2. CASE FallbackDone \/ \E d \in Drains \cup {None} : CompletionDone(d)
    BY <1>2, DrivenStart DEF FallbackDone, CompletionDone
  <1>3. CASE CancelLocked
    BY <1>3 DEF CancelLocked, RunningIsDriven
  <1>4. CASE CancelAbort
    <2>1. running' = running /\ completions' = completions /\ task' = AbortTurn(task, cx.victim)
      BY <1>4 DEF CancelAbort
    <2>2. running # None => cx.victim # running
      BY DEF SafeInv, LocalsInv, TerminalsInv
    <2> QED  BY <2>1, <2>2, SetTypes DEF RunningIsDriven, Live, AbortTurn
  <1>5. CASE CancelTail
    BY <1>5, DrivenStart DEF CancelTail
  <1>6. CASE HandleCompletion
    <2> DEFINE c == Head(completions)
    <2>1. /\ completions # << >> /\ completions' = Tail(completions) /\ task' = task
          /\ running' = IF EndsRunning(c) THEN None ELSE running
      BY <1>6 DEF HandleCompletion
    <2>2. Elems(completions) \subseteq Elems(completions') \cup {c}
      <3> SUFFICES ASSUME NEW j \in DOMAIN completions, j # 1
                   PROVE  completions[j] \in Elems(completions')
        <4>1. c = completions[1]
          BY <2>1, <1>6
        <4> QED  BY <4>1 DEF Elems
      <3>1. completions \in Seq(Ids)
        BY DEF IndInv, TypeOK
      <3>2. j - 1 \in DOMAIN completions' /\ completions'[j - 1] = completions[j]
        BY <2>1, <3>1
      <3> QED  BY <3>2 DEF Elems
    <2> HIDE DEF c
    <2> QED  BY <2>1, <2>2 DEF EndsRunning, RunningIsDriven, Live
  <1> QED  BY <1>1, <1>2, <1>3, <1>4, <1>5, <1>6 DEF ActorContinues

(* A turn stops being polled when it puts its completion into the channel. *)
LEMMA DrivenTurn ==
    ASSUME IndInv, RunningIsDriven, NEW t \in Ids, Turn(t)
    PROVE  RunningIsDriven'
  <1>1. CASE \/ TurnEmits(t) \/ (\E b \in BOOLEAN : TurnBeginsRound(t, b))
             \/ TurnDrainsInterjections(t) \/ (\E k \in Calls : WaitingCall(t, k))
             \/ \E w \in Wakes : TurnConsumesCompletion(t, w)
    BY <1>1, DrivenKept DEF TurnEmits, TurnBeginsRound, TurnDrainsInterjections, WaitingCall,
                            TurnSendsCall, CallEntersWait, CallIsDropped, WaitGuardDrops,
                            TurnConsumesCompletion, stateVars
  <1>2. CASE TurnScopeEnds(t)
    BY <1>2, SetTypes DEF TurnScopeEnds, RunningIsDriven, Live
  <1>3. CASE TurnSendsCompletion(t)
    <2>1. /\ running' = running /\ task' = [task EXCEPT ![t] = "sent"]
          /\ completions' = Append(completions, t) /\ completions \in Seq(Ids)
      BY <1>3 DEF TurnSendsCompletion, IndInv, TypeOK
    <2>2. Elems(completions') = Elems(completions) \cup {t}
      BY <2>1 DEF Elems
    <2> QED  BY <2>1, <2>2, SetTypes DEF RunningIsDriven, Live
  <1> QED  BY <1>1, <1>2, <1>3 DEF Turn

(***************************************************************************)
(* The slot never leaks, for any number of prompts, clients and starters:  *)
(* whatever turn holds it is still polled or has its completion on the way *)
(* to the actor, so that no race of cancels, starters and late completions *)
(* leaves the queue behind a turn that nothing will ever end.              *)
(***************************************************************************)
THEOREM RunningDriven == Spec => []RunningIsDriven
  <1>1. Init => RunningIsDriven
    BY DEF Init, RunningIsDriven
  <1>2. IndInv /\ SafeInv /\ IndInv' /\ RunningIsDriven /\ [Next]_vars => RunningIsDriven'
    <2> SUFFICES ASSUME IndInv, SafeInv, IndInv', RunningIsDriven, [Next]_vars
                 PROVE  RunningIsDriven'
      OBVIOUS
    <2>1. CASE Starters
      BY <2>1, DrivenKept, DrivenStart DEF Starters, QueueResumeTurn, StarterStarts
    <2>2. CASE UNCHANGED vars
      BY <2>2, DrivenKept DEF vars, stateVars
    <2> QED  BY <2>1, <2>2, DrivenCommands, DrivenActor, DrivenTurn DEF Next, Stopped
  <1> QED  BY <1>1, <1>2, SafeInvariance, PTL DEF Spec

-----------------------------------------------------------------------------
(***************************************************************************)
(* The clients' copy of the queue.                                         *)
(*                                                                         *)
(* Many handlers change the queue and broadcast nothing: a cancel takes    *)
(* the front, a completion pops it, a fallback prompt is inserted, a goal  *)
(* continuation is appended, a consumed wake prompt is swept.  They may,   *)
(* because what they add or take is not a row that the last broadcast      *)
(* showed.  So the copy is exact after every step and not only at rest,    *)
(* unless a hard teardown, which broadcasts nothing, empties the queue.    *)
(***************************************************************************)

(* No prompt has been taken by a hard teardown. *)
Spared == \A i \in Ids : Phase(i) \notin {"killing", "killed"}

(* The last broadcast shows the rows of the queue. *)
Exact == mirror = Rows(queue, running, version)

MirrorInv == pc # "stopped" /\ Spared => Exact

(* The same rows are broadcast the same. *)
LEMMA RowsSame ==
    ASSUME NEW q, NEW r, NEW run, NEW slot, NEW vs, Only(q, Users \ {run}) = Only(r, Users \ {slot})
    PROVE  Rows(q, run, vs) = Rows(r, slot, vs)
  BY DEF Rows

(* No row is synthetic, an interjection or nothing. *)
LEMMA NoRow ==
    ASSUME NEW i \in Synthetic \cup Interjects \cup {None, Mcp}
    PROVE  i \notin Users
  BY IdAssumption DEF Ids, UserOrigin

(* A start leaves an exact copy, if it starts a turn or was handed one. *)
LEMMA StartExact ==
    ASSUME NEW q, NEW run, NEW rw, NEW pn, NEW tk, NEW mi, MaybeStart(q, run, rw, pn, tk, mi),
           (run = None /\ q # << >>) \/ mi = Rows(q, run, version')
    PROVE  Exact'
  BY DEF MaybeStart, Exact

(* A step that touches neither the queue nor the rows. *)
LEMMA UntouchedExact ==
    ASSUME Exact, UNCHANGED <<queue, running, version, mirror>>
    PROVE  Exact'
  BY DEF Exact

(* A hard teardown is not undone. *)
LEMMA SparedBefore ==
    ASSUME Scheduled, Spared'
    PROVE  Spared
  BY DEF Scheduled, Spared, MayGo

-----------------------------------------------------------------------------
(* The steps. *)

(* Commands that broadcast what they have done. *)
LEMMA BroadcastExact ==
    ASSUME \/ \E u \in Users, sn \in BOOLEAN : Prompt(u, sn)
           \/ \E w \in Wakes : WakePrompt(w)
           \/ \E u \in Users, v \in 0 .. MaxVersion, o \in Clients \cup {None} :
                 RemoveQueuedPrompt(u, v, o) \/ InterjectQueuedPromptMisses(u, v, o)
           \/ \E u \in Users, v \in 0 .. MaxVersion, o \in Clients \cup {None}, e \in BOOLEAN :
                 InterjectQueuedPrompt(u, v, o, e)
           \/ \E o \in Orders : ReorderQueue(o)
           \/ \E o \in Clients \cup {None} : ClearQueue(o)
           \/ \E u \in Users : EditQueuedPrompt(u)
           \/ \E p \in Plans : QueueResumeTurn(p)
    PROVE  Exact'
  <1>1. ASSUME NEW q, NEW ans, NEW cancel, CancelOrStart(q, ans, cancel)
        PROVE  Exact'
    BY <1>1, StartExact DEF CancelOrStart, Exact
  <1>2. ASSUME NEW u, NEW sn, Prompt(u, sn)
        PROVE  Exact'
    BY <1>1, <1>2 DEF Prompt
  <1>3. ASSUME NEW u, NEW v, NEW o, NEW e, InterjectQueuedPrompt(u, v, o, e)
        PROVE  Exact'
    BY <1>1, <1>3 DEF InterjectQueuedPrompt
  <1>4. ASSUME NEW w, WakePrompt(w)
        PROVE  Exact'
    BY <1>4, StartExact DEF WakePrompt
  <1>5. ASSUME NEW u, NEW v, NEW o, InterjectQueuedPromptMisses(u, v, o)
        PROVE  Exact'
    BY <1>5, StartExact DEF InterjectQueuedPromptMisses, rowVars
  <1>6. ASSUME NEW u, NEW v, NEW o, RemoveQueuedPrompt(u, v, o)
        PROVE  Exact'
    BY <1>6 DEF RemoveQueuedPrompt, rowVars, Exact
  <1>7. ASSUME NEW o, ReorderQueue(o) \/ ClearQueue(o)
        PROVE  Exact'
    BY <1>7 DEF ReorderQueue, ClearQueue, rowVars, Exact
  <1>8. ASSUME NEW u, EditQueuedPrompt(u)
        PROVE  Exact'
    BY <1>8 DEF EditQueuedPrompt, Exact
  <1>9. ASSUME NEW p, QueueResumeTurn(p)
        PROVE  Exact'
    BY <1>9 DEF QueueResumeTurn, rowVars, Exact
  <1> QED  BY <1>2, <1>3, <1>4, <1>5, <1>6, <1>7, <1>8, <1>9

(* A synthetic prompt may be appended without a broadcast. *)
LEMMA AppendExact ==
    ASSUME IndInv, NEW i \in Synthetic
    PROVE  Rows(Append(queue, i), running, version) = Rows(queue, running, version)
  <1>1. queue \in Seq(Ids) /\ i \in Ids /\ i \notin Users \ {running}
    BY CurrentQueue, NoRow DEF Ids
  <1>2. Only(Append(queue, i), Users \ {running}) = Only(queue, Users \ {running})
    BY <1>1, OnlySkips
  <1> QED  BY <1>2, RowsSame

(* Steps that start a turn, or queue a synthetic prompt, and broadcast only what they start. *)
LEMMA SilentStartExact ==
    ASSUME IndInv, Exact,
           \/ \E g \in Goals : GoalSummaryTurn(g)
           \/ \E d \in Drains : InjectNotification(d)
           \/ FallbackDone \/ CancelTail
           \/ \E g \in Goals \cup {None} : HandleTurnEnd(g)
           \/ \E d \in Drains \cup {None} : CompletionDone(d)
           \/ \E s \in Plans \cup {Mcp} : StarterStarts(s)
    PROVE  Exact'
  <1> USE DEF rowVars
  <1>1. ASSUME NEW g \in Goals, GoalSummaryTurn(g)
        PROVE  Exact'
    <2>1. mirror = Rows(Append(queue, g), running, version') /\ version' = version
      BY <1>1, AppendExact DEF GoalSummaryTurn, Exact, Synthetic
    <2> QED  BY <1>1, <2>1, StartExact DEF GoalSummaryTurn
  <1>2. ASSUME NEW d \in Drains, InjectNotification(d)
        PROVE  Exact'
    <2>1. running = None /\ <<d>> # << >>
      BY <1>2 DEF InjectNotification
    <2> QED  BY <1>2, <2>1, StartExact DEF InjectNotification
  <1>3. ASSUME FallbackDone
        PROVE  Exact'
    BY <1>3, StartExact DEF FallbackDone, Exact
  <1>4. ASSUME CancelTail
        PROVE  Exact'
    BY <1>4, StartExact DEF CancelTail, Exact
  <1>5. ASSUME NEW g \in Goals \cup {None}, HandleTurnEnd(g)
        PROVE  Exact'
    <2>1. UNCHANGED <<running, version, mirror>>
          /\ queue' = IF g = None THEN queue ELSE Append(queue, g)
      BY <1>5 DEF HandleTurnEnd
    <2>2. g # None => Rows(Append(queue, g), running, version) = Rows(queue, running, version)
      BY AppendExact DEF Synthetic
    <2> QED  BY <2>1, <2>2 DEF Exact
  <1>6. ASSUME NEW d \in Drains \cup {None}, CompletionDone(d)
        PROVE  Exact'
    <2>1. CASE d = None
      BY <1>6, <2>1, StartExact DEF CompletionDone, Exact
    <2>2. CASE d # None
      <3>1. running = None /\ <<d>> # << >>
        BY <1>6, <2>2 DEF CompletionDone
      <3>2. MaybeStart(<<d>>, running, rewindable, pin, task, mirror)
        BY <1>6, <2>2 DEF CompletionDone
      <3> QED  BY <3>1, <3>2, StartExact
    <2> QED  BY <2>1, <2>2
  <1>7. ASSUME NEW s, StarterStarts(s)
        PROVE  Exact'
    BY <1>7, StartExact DEF StarterStarts, Exact
  <1> QED  BY <1>1, <1>2, <1>3, <1>4, <1>5, <1>6, <1>7

(* A fallback prompt, being an interjection, is no row. *)
LEMMA InsertExact ==
    ASSUME IndInv, Exact, InsertStranded
    PROVE  Exact'
  <1> DEFINE i == stranded[Len(stranded)]
             b == BehindRunning(queue, running)
  <1>1. stranded \in Seq(Interjects) /\ stranded # << >> /\ queue \in Seq(Ids)
    BY CurrentQueue DEF InsertStranded
  <1>2. i \in Interjects
    BY <1>1
  <1>3. b \in 0 .. Len(queue)
    BY <1>1, BehindRunningFacts
  <1>4. queue' = InsertBehind(queue, b, i) /\ UNCHANGED <<running, version, mirror>>
    BY DEF InsertStranded
  <1> HIDE DEF i, b
  <1>5. i \in Ids /\ i \notin Users \ {running}
    BY <1>2, NoRow DEF Ids, UserOrigin
  <1>6. Only(queue', Users \ {running}) = Only(queue, Users \ {running})
    BY <1>1, <1>3, <1>4, <1>5, OnlyInsert
  <1> QED  BY <1>4, <1>6, RowsSame DEF Exact

(* When the front leaves a queue and the slot, the rows are the same if it was the running    *)
(* prompt, which is not shown as a row, or is no row.                                         *)
LEMMA FrontExact ==
    ASSUME NEW q \in Seq(Ids), Distinct(q), q # << >>, NEW run, NEW vs,
           run = Head(q) \/ (run = None /\ Head(q) \notin Users)
    PROVE  Rows(Tail(q), None, vs) = Rows(q, run, vs)
  <1> DEFINE A == Users \ {Head(q)}
             t == Tail(q)
  <1>1. t \in Seq(Ids) /\ Elems(t) = Elems(q) \ {Head(q)} /\ None \notin Users
    BY TailElems, NoRow
  <1>2. Only(t, A) = Only(q, A)
    BY OnlyTail
  <1>3. Only(t, Users \ {None}) = Only(t, A)
    <2>1. Elems(t) \cap (Users \ {None}) = Elems(t) \cap A
      BY <1>1
    <2> HIDE DEF A, t
    <2> QED  BY <1>1, <2>1, OnlyAgrees
  <1>4. Only(q, Users \ {run}) = Only(q, A)
    <2>1. Users \ {run} = A
      BY <1>1
    <2> QED  BY <2>1
  <1> HIDE DEF t
  <1>5. Rows(t, None, vs) = Rows(q, run, vs)
    BY <1>2, <1>3, <1>4, RowsSame
  <1> QED  BY <1>5 DEF t

(* Under the lock a cancel takes the running prompt, which is not shown as a row, or, if no    *)
(* turn runs, a front that is about to be started by another task, which is no row.           *)
LEMMA CancelExact ==
    ASSUME IndInv, SafeInv, Exact, CancelLocked, Spared'
    PROVE  Exact'
  <1>1. /\ pc = "cancel" /\ running' = None /\ UNCHANGED <<version, mirror, answer>>
        /\ queue' = IF queue = << >> \/ cx.how = "killed" THEN << >> ELSE Tail(queue)
        /\ cx'.how = "killed" <=> cx.how = "killed"
        /\ cx.how = "killed" /\ queue # << >> => cx'.removed = Elems(queue)
    BY DEF CancelLocked, rowVars
  <1>2. /\ queue \in Seq(Ids) /\ Distinct(queue) /\ None \notin Ids
        /\ running # None => queue # << >> /\ Head(queue) = running
        /\ running = None => Elems(queue) \subseteq Plans \cup {Mcp}
        /\ \A i \in Elems(queue) : i \in Ids /\ answer[i] = "waiting"
    BY <1>1, CurrentQueue, SetTypes DEF SafeInv, PlacesInv, IdleInv
  <1>3. queue # << >> => Head(queue) \in Elems(queue)
    BY <1>2, ElemsFacts
  <1>4. CASE queue = << >>
    <2>1. Elems(queue) = {}
      BY <1>4, SmallFacts
    <2>2. Only(queue, Users \ {None}) = Only(queue, Users \ {running})
      BY <1>2, <2>1, OnlyAgrees
    <2> QED  BY <1>1, <1>4, <2>2, RowsSame DEF Exact
  <1>5. CASE queue # << >> /\ cx.how = "killed"
    <2>1. PICK i \in Ids : i = Head(queue)
      BY <1>2, <1>3, <1>5
    <2>2. Phase(i)' = "killing"
      BY <1>1, <1>2, <1>3, <1>5, <2>1 DEF Phase
    <2> QED  BY <2>2 DEF Spared
  <1>6. CASE queue # << >> /\ cx.how # "killed"
    <2>1. running = Head(queue) \/ (running = None /\ Head(queue) \notin Users)
      BY <1>2, <1>3, <1>6, NoRow DEF Synthetic
    <2>2. Rows(Tail(queue), None, version) = Rows(queue, running, version)
      BY <1>2, <1>6, <2>1, FrontExact
    <2> QED  BY <1>1, <1>6, <2>2 DEF Exact
  <1> QED  BY <1>4, <1>5, <1>6

(* A completion pops the front without a broadcast only if it is no row. *)
LEMMA CompletionExact ==
    ASSUME IndInv, SafeInv, Exact, HandleCompletion
    PROVE  Exact'
  <1> DEFINE c == Head(completions)
  <1>1. /\ pc = "ready" /\ UNCHANGED version
        /\ queue' = IF Owned(c) THEN Tail(queue) ELSE queue
        /\ running' = IF EndsRunning(c) THEN None ELSE running
        /\ mirror' = IF Owned(c) /\ c \in Users THEN Rows(queue', running', version) ELSE mirror
    BY DEF HandleCompletion
  <1>2. c \in Ids /\ None \notin Ids
    <2>1. completions \in Seq(Ids) /\ completions # << >>
      BY DEF HandleCompletion, IndInv, TypeOK
    <2> QED  BY <2>1, IdAssumption
  <1> HIDE DEF c
  <1>3. /\ queue \in Seq(Ids) /\ Distinct(queue)
        /\ running # None => queue # << >> /\ Head(queue) = running
    BY <1>1, CurrentQueue DEF SafeInv, PlacesInv
  <1>4. CASE Owned(c) /\ c \in Users
    BY <1>1, <1>4 DEF Exact
  <1>5. CASE Owned(c) /\ c \notin Users
    <2>1. /\ queue # << >> /\ Head(queue) = c /\ running \in {c, None}
          /\ queue' = Tail(queue) /\ running' = None /\ mirror' = mirror
      BY <1>1, <1>3, <1>5 DEF Owned, EndsRunning
    <2>2. Rows(Tail(queue), None, version) = Rows(queue, running, version)
      BY <1>3, <1>5, <2>1, FrontExact
    <2> QED  BY <1>1, <2>1, <2>2 DEF Exact
  <1>6. CASE ~Owned(c)
    <2>1. running # c
      BY <1>2, <1>3, <1>6 DEF Owned
    <2> QED  BY <1>1, <1>6, <2>1, UntouchedExact DEF EndsRunning
  <1> QED  BY <1>4, <1>5, <1>6

(* A wake prompt that is swept is no row. *)
LEMMA ConsumesExact ==
    ASSUME IndInv, Exact, NEW t, NEW w \in Wakes, TurnConsumesCompletion(t, w)
    PROVE  Exact'
  <1> DEFINE A == (Ids \ {w}) \cup {running}
             B == Users \ {running}
  <1>1. queue \in Seq(Ids) /\ queue' = Only(queue, A) /\ UNCHANGED <<running, version, mirror>>
    BY CurrentQueue DEF TurnConsumesCompletion, SweepPending, rowVars
  <1>2. Elems(queue) \cap B \subseteq A
    BY NoRow DEF Ids, UserOrigin, Synthetic
  <1> HIDE DEF A
  <1>3. Only(Only(queue, A), B) = Only(queue, B)
    BY <1>1, <1>2, OnlyTwice
  <1>4. Only(queue', Users \ {running}) = Only(queue, Users \ {running})
    BY <1>1, <1>3
  <1> QED  BY <1>1, <1>4, RowsSame DEF Exact

(* Steps that touch neither the queue nor the rows. *)
LEMMA RestExact ==
    ASSUME Exact,
           \/ \E i \in Interjects : Interject(i)
           \/ \E how \in CancelKinds : Cancel(how)
           \/ CancelGate \/ CancelAbort
           \/ \E t \in Ids :
                 \/ TurnEmits(t)
                 \/ \E b \in BOOLEAN : TurnBeginsRound(t, b)
                 \/ TurnDrainsInterjections(t) \/ (\E k \in Calls : WaitingCall(t, k))
                 \/ TurnScopeEnds(t) \/ TurnSendsCompletion(t)
           \/ UNCHANGED vars
    PROVE  Exact'
  <1>1. UNCHANGED <<queue, running, version, mirror>>
    BY DEF Interject, Cancel, CancelGate, CancelAbort, TurnEmits, TurnBeginsRound,
           TurnDrainsInterjections, WaitingCall, TurnSendsCall, CallEntersWait, CallIsDropped,
           WaitGuardDrops, TurnScopeEnds, TurnSendsCompletion, vars, stateVars, rowVars
  <1> QED  BY <1>1, UntouchedExact

(* An actor that has stopped stays stopped. *)
LEMMA StopsForGood == [Next]_vars /\ pc = "stopped" => pc' = "stopped"
  BY DEF Next, Commands, ActorContinues, Starters, Stopped, vars, actorVars, AtCommand, Prompt,
         WakePrompt, GoalSummaryTurn, InjectNotification, Interject, RemoveQueuedPrompt,
         InterjectQueuedPrompt, InterjectQueuedPromptMisses, ReorderQueue, ClearQueue,
         EditQueuedPrompt, Cancel, Shutdown, InsertStranded, FallbackDone, CancelLocked,
         CancelGate, CancelAbort, CancelTail, HandleCompletion, HandleTurnEnd, CompletionDone,
         QueueResumeTurn, StarterStarts

(* Every step keeps the copy exact, but for a hard teardown and a shutdown. *)
LEMMA MirrorStep == IndInv /\ SafeInv /\ MirrorInv /\ [Next]_vars => MirrorInv'
  <1> SUFFICES ASSUME IndInv, SafeInv, MirrorInv, [Next]_vars, pc' # "stopped", Spared'
               PROVE  Exact'
    BY DEF MirrorInv
  <1>1. pc # "stopped"
    BY StopsForGood
  <1>2. Spared
    BY SafeStep, SparedBefore DEF Keeps
  <1>3. Exact
    BY <1>1, <1>2 DEF MirrorInv
  <1>4. CASE Commands
    <2>1. ~Shutdown
      BY DEF Shutdown
    <2> QED  BY <1>3, <1>4, <2>1, BroadcastExact, SilentStartExact, RestExact DEF Commands
  <1>5. CASE ActorContinues
    BY <1>3, <1>5, InsertExact, CancelExact, CompletionExact, SilentStartExact, RestExact
       DEF ActorContinues
  <1>6. CASE Starters
    BY <1>3, <1>6, BroadcastExact, SilentStartExact DEF Starters
  <1>7. CASE \E t \in Ids : pc # "stopped" /\ Turn(t)
    BY <1>3, <1>7, ConsumesExact, RestExact DEF Turn
  <1>8. CASE UNCHANGED vars
    BY <1>3, <1>8, RestExact
  <1> QED  BY <1>4, <1>5, <1>6, <1>7, <1>8 DEF Next, Stopped

(* Nothing is queued and nothing shown at first. *)
LEMMA InitMirror == Init => MirrorInv
  <1> SUFFICES ASSUME Init
               PROVE  Exact
    BY DEF MirrorInv
  <1>1. queue = << >> /\ mirror = << >> /\ queue \in Seq(Ids) /\ Elems(queue) = {}
    BY SmallFacts DEF Init
  <1> DEFINE r == Only(queue, Users \ {running})
  <1>2. r \in Seq(Ids) /\ Elems(r) = {}
    BY <1>1, OnlyFacts, OnlyElems
  <1> HIDE DEF r
  <1>3. r = << >>
    BY <1>2, ElemsFacts
  <1>4. Rows(queue, running, version) = [k \in DOMAIN r |-> <<r[k], version[r[k]]>>]
    BY DEF Rows, r
  <1>5. Rows(queue, running, version) = << >>
    BY <1>3, <1>4
  <1> QED  BY <1>1, <1>5 DEF Exact

(***************************************************************************)
(* The clients' copy of the queue converges, whichever handlers queued,    *)
(* swept, reordered, edited, started or cancelled prompts, for any number  *)
(* of prompts, clients and edits: whenever the actor is at rest the last   *)
(* broadcast is the queue's rows in their order with their versions,       *)
(* unless a hard teardown took a prompt.                                   *)
(***************************************************************************)
THEOREM RowsConverge == Spec => []RowsMirrored
  <1>1. IndInv /\ SafeInv /\ MirrorInv => RowsMirrored
    <2> SUFFICES ASSUME IndInv, SafeInv, MirrorInv, pc = "ready",
                        \A i \in Ids : answer[i] # "killed"
                 PROVE  Exact
      BY DEF RowsMirrored, Exact
    <2>1. cx.removed = {}
      BY DEF SafeInv, LocalsInv
    <2>2. Spared
      <3> SUFFICES ASSUME NEW i \in Ids
                   PROVE  Phase(i) \notin {"killing", "killed"}
        BY DEF Spared
      <3>1. answer[i] \in AnswerStates /\ answer[i] # "killed"
        BY CurrentQueue
      <3> QED  BY <2>1, <3>1 DEF Phase, AnswerStates
    <2> QED  BY <2>2 DEF MirrorInv
  <1> QED  BY <1>1, InitMirror, MirrorStep, SafeInvariance, PTL DEF Spec

-----------------------------------------------------------------------------
(* The closed forms of the queue operators, on the queues that the session reaches. *)

(* A list that a client may send to ReorderQueue names prompts, each at most once. *)
LEMMA OrderFacts ==
    ASSUME NEW o \in Orders
    PROVE  o \in Seq(Ids) /\ Distinct(o)
  <1>1. PICK n \in 0 .. Cardinality(Users) : o \in [1 .. n -> Users]
    BY DEF Orders
  <1>2. n \in Nat /\ Users \subseteq Ids
    BY <1>1 DEF Ids, UserOrigin
  <1> QED  BY <1>1, <1>2 DEF Orders, Distinct

(* The sweep of the model is the loop of sweep_pending_inputs in every state of the session. *)
THEOREM SweepsKeepOrder == Spec => []SweepKeepsOrder
  <1>1. IndInv => SweepKeepsOrder
    BY CurrentQueue, SweepIsLoop DEF SweepKeepsOrder
  <1> QED  BY <1>1, SafeInvariance, PTL

(* A send-now prompt lands where the loop of queue_input stops, in every state of the session. *)
THEOREM SendNowSlotsAreLoops == Spec => []SendNowSlotIsLoop
  <1>1. IndInv => SendNowSlotIsLoop
    BY CurrentQueue, SlotIsLoop DEF SendNowSlotIsLoop
  <1> QED  BY <1>1, SafeInvariance, PTL

(* The reorder of the model is the partition and stable sort of handle_reorder_queue, in every *)
(* state of the session and for every list without repetitions.                               *)
THEOREM ReordersAreStableSorts == Spec => []ReorderIsStableSort
  <1>1. ASSUME IndInv, SafeInv, NEW o \in Orders
        PROVE  Reordered(queue, Users \ {running}, o)
                 = PartedAndSorted(queue, Users \ {running}, o)
    <2>1. queue \in Seq(Ids) /\ Distinct(queue)
      BY <1>1, CurrentQueue DEF SafeInv, PlacesInv
    <2>2. o \in Seq(Ids) /\ Distinct(o)
      BY OrderFacts
    <2> QED  BY <2>1, <2>2, ReorderIsLoop
  <1>2. IndInv /\ SafeInv => ReorderIsStableSort
    BY <1>1 DEF ReorderIsStableSort
  <1> QED  BY <1>2, SafeInvariance, PTL

=============================================================================
