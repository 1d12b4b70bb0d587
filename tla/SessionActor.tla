----------------------------- MODULE SessionActor -----------------------------
(***************************************************************************)
(* The session actor of xai-grok-shell: one prompt queue, at most one      *)
(* promoted turn, a mailbox of commands, and the tasks that run beside the *)
(* actor on the same LocalSet.                                             *)
(*                                                                         *)
(* The actor (run_session) handles one completion or command at a time,    *)
(* completions first (a biased select!).  A handler gives up the thread at *)
(* each await, and there other tasks run: the turn it spawned, the turn it *)
(* is cancelling, the MCP-initialisation task and the plan-approval task,  *)
(* the last two of which also call maybe_start_running_task.  So one step  *)
(* below is one stretch of a handler between awaits that matter: its end   *)
(* is a value of pc, and pc = "ready" means the actor is in select!.       *)
(***************************************************************************)
EXTENDS QueueLoops, Integers

CONSTANTS
    Users,       \* prompts typed by a client: the rows of the shared queue
    Interjects,  \* interjections; one that misses its turn becomes a prompt
    Wakes,       \* auto-wake prompts: their origin carries a completion id
    Goals,       \* goal-summary and nudge prompts
    Plans,       \* plan-resume prompts
    Drains,      \* notification-drain prompts
    Clients,     \* the clients attached to the session
    OwnerOf,     \* the client that sent each user prompt
    Mcp,         \* the task that initialises the MCP tools
    None,
    MaxVersion,  \* bound: edits of one queued row
    Waiters,     \* bound: the turns that may block in a wait
    Calls,       \* bound: the waiting tool calls of one turn at a time
    GoalTurns    \* bound: the turns that may find the goal loop active

Synthetic  == Wakes \cup Goals \cup Plans \cup Drains
UserOrigin == Users \cup Interjects
Ids        == UserOrigin \cup Synthetic

ASSUME IdAssumption ==
    /\ Users \cap Interjects = {}
    /\ UserOrigin \cap Synthetic = {}
    /\ Wakes \cap (Goals \cup Plans \cup Drains) = {}
    /\ Goals \cap (Plans \cup Drains) = {}
    /\ Plans \cap Drains = {}
    /\ None \notin Ids
    /\ Mcp \notin Ids
    /\ None \notin Clients
    /\ OwnerOf \in [Users -> Clients]
    /\ IsFiniteSet(Users)
    /\ MaxVersion \in Nat

VARIABLES
    queue,         \* State.pending_inputs, front first
    running,       \* State.running_task: the promoted prompt
    rewindable,    \* State.rewindable
    pin,           \* current_prompt_id, a mutex of its own
    sendNow,       \* the prompts whose InputItem.send_now is set
    version,       \* QueueEntryMeta.version of each user prompt
    mirror,        \* the rows of the last x.ai/queue/changed broadcast
    interjections, \* pending_interjections
    depth,         \* blocking_wait_depth
    gate,          \* goal_loop_active_gate
    task,          \* each prompt's turn task
    guards,        \* the waiting calls of each turn, "sent" or with their guard "held"
    shown,         \* the turns under way that have sent an outbound event
    completions,   \* the completion channel
    starters,      \* other tasks about to call maybe_start_running_task
    pc,            \* where the actor is
    cx,            \* the locals of the cancel or completion being handled
    stranded,      \* the locals of the interjection flush
    answer,        \* what each prompt's respond_to was resolved with
    ended          \* how many TurnCompleted terminals each prompt has had

stateVars == <<queue, running, rewindable, pin, task, mirror>>
rowVars   == <<sendNow, version>>
turnVars  == <<depth, gate, guards, shown>>
actorVars == <<pc, cx, stranded>>
vars == <<stateVars, rowVars, turnVars, actorVars, interjections, completions, starters,
          answer, ended>>

(* The locals of cancel_running_task and of handle_completion. *)
NoCancel ==
    [how |-> "none", pinned |-> None, victim |-> None, terminal |-> None, removed |-> {}]

(* What Cancel is asked for, named for the answer it gives: an interactive cancel, *)
(* one that rewinds a pristine turn, and the hard teardown of a subagent.          *)
CancelKinds == {"cancelled", "rewound", "killed"}

TaskStates   == {"none", "live", "ending", "sent", "aborted"}
AnswerStates == {"fresh", "waiting", "done", "cancelled", "killed", "rewound", "removed",
                 "merged", "discarded", "dropped"}
CallStates   == {"sent", "held"}
ActorStates  == {"ready", "cancel", "gate", "abort", "tail", "popped", "flush", "fallback",
                 "stopped"}

(* Lists of user prompts, each named at most once: what a client may ask ReorderQueue for. *)
Orders ==
    {o \in UNION {[1 .. n -> Users] : n \in 0 .. Cardinality(Users)} :
        \A i, j \in DOMAIN o : o[i] = o[j] => i = j}

(* The turn tasks the runtime may still poll. *)
Live == {t \in Ids : task[t] \in {"live", "ending"}}

(* The actor is in select! and, the select being biased, takes a command. *)
AtCommand == pc = "ready" /\ completions = << >>

(* The answers after the prompts in S are resolved with a. *)
Resolve(ans, S, a) == [i \in Ids |-> IF i \in S THEN a ELSE ans[i]]

(* build_queue_wire: the queued user prompts but for the running one, each with its version. *)
Rows(q, run, vs) ==
    LET r == Only(q, Users \ {run})
    IN  [k \in DOMAIN r |-> <<r[k], vs[r[k]]>>]

(* Fault: a sweep that does not spare the running turn's own slot. *)
SweepUnguarded(q, Drop) == Only(q, Ids \ Drop)

(* State::sweep_pending_inputs: q without the prompts in Drop, the running one always kept. *)
SweepPending(q, Drop) == Only(q, (Ids \ Drop) \cup {running})

(* Fault: a promotion that keeps a pin it finds. *)
MaybeStartKeepsPin(q, run, rw, pn, tk, mi) ==
    LET go == run = None /\ q # << >>
    IN  /\ queue' = q
        /\ running' = IF go THEN Head(q) ELSE run
        /\ rewindable' = (go \/ rw)
        /\ pin' = IF go /\ pn = None THEN Head(q) ELSE pn
        /\ task' = IF go THEN [tk EXCEPT ![Head(q)] = "live"] ELSE tk
        /\ mirror' = IF go THEN Rows(q, Head(q), version') ELSE mi

(***************************************************************************)
(* maybe_start_running_task from a queue q, running prompt run, pin pn,    *)
(* rewind flag rw, task states tk and last broadcast mi: with no running   *)
(* turn and a front prompt, pin the front, open its rewind window, spawn   *)
(* its turn without taking it off the queue, and broadcast.                *)
(***************************************************************************)
MaybeStart(q, run, rw, pn, tk, mi) ==
    LET go == run = None /\ q # << >>
    IN  /\ queue' = q
        /\ running' = IF go THEN Head(q) ELSE run
        /\ rewindable' = (go \/ rw)
        /\ pin' = IF go THEN Head(q) ELSE pn
        /\ task' = IF go THEN [tk EXCEPT ![Head(q)] = "live"] ELSE tk
        /\ mirror' = IF go THEN Rows(q, Head(q), version') ELSE mi

Init ==
    /\ queue = << >>
    /\ running = None
    /\ rewindable = FALSE
    /\ pin = None
    /\ sendNow = {}
    /\ version = [u \in Users |-> 0]
    /\ mirror = << >>
    /\ interjections = << >>
    /\ depth = 0
    /\ gate = FALSE
    /\ task = [i \in Ids |-> "none"]
    /\ guards = {}
    /\ shown = {}
    /\ completions = << >>
    /\ starters = {Mcp}
    /\ pc = "ready"
    /\ cx = NoCancel
    /\ stranded = << >>
    /\ answer = [i \in Ids |-> "fresh"]
    /\ ended = [i \in Ids |-> 0]

-----------------------------------------------------------------------------
(* Commands that add a prompt. *)

(* Fault: a cancel that leaves the interjections of the cancelled turn in the buffer. *)
BeginCancelKeepsBuffer(how) ==
    /\ pc' = "cancel"
    /\ cx' = [NoCancel EXCEPT !.how = how, !.pinned = pin]
    /\ UNCHANGED interjections

(* The start of a cancel: the buffered interjections are cleared and the pin is captured. *)
BeginCancel(how) ==
    /\ pc' = "cancel"
    /\ cx' = [NoCancel EXCEPT !.how = how, !.pinned = pin]
    /\ interjections' = << >>

(***************************************************************************)
(* What the Prompt and InterjectQueuedPrompt handlers do once the queue is *)
(* q and broadcast: cancel the running turn for the send-now prompt, or    *)
(* try to start the front.                                                 *)
(***************************************************************************)
CancelOrStart(q, ans, cancel) ==
    \/ /\ cancel
       /\ BeginCancel("cancelled")
       /\ queue' = q
       /\ mirror' = Rows(q, running, version')
       /\ answer' = Resolve(ans, Elems(interjections), "discarded")
       /\ UNCHANGED <<running, rewindable, pin, task>>
    \/ /\ ~cancel
       /\ MaybeStart(q, running, rewindable, pin, task, Rows(q, running, version'))
       /\ answer' = ans
       /\ UNCHANGED <<pc, cx, interjections>>

(* A queued auto-wake prompt other than the running turn lets a user prompt preempt. *)
PreemptArmed == \E w \in Elems(queue) \cap Wakes : w # running

(* queue_input for a user prompt: the queue that its preemption leaves. *)
Preempted == IF PreemptArmed THEN SweepPending(queue, Synthetic) ELSE queue

(* A user prompt other than the running turn waits in q. *)
HeldUserQueue(q) == \E i \in Elems(q) \cap UserOrigin : i # running

(* A prompt that arrives while the turn blocks in a wait and nothing is held is sent now. *)
AutoSendNow(q) == running # None /\ depth > 0 /\ ~HeldUserQueue(q)

(***************************************************************************)
(* SessionCommand::Prompt from a client.  It preempts queued synthetic     *)
(* prompts, lands at the send-now slot or at the back, and a send-now      *)
(* prompt cancels the running turn unless the goal loop is active.         *)
(***************************************************************************)
Prompt(u, sn) ==
    /\ AtCommand
    /\ answer[u] = "fresh"
    /\ UNCHANGED version
    /\ LET q   == Preempted
           now == sn \/ AutoSendNow(q)
           slot == IF now THEN SendNowSlot(q, running, sendNow) ELSE Len(q)
           ans == Resolve(answer, Elems(queue) \ Elems(q), "dropped")
       IN  /\ sendNow' = IF now THEN sendNow \cup {u} ELSE sendNow
           /\ CancelOrStart(InsertBehind(q, slot, u), Resolve(ans, {u}, "waiting"),
                            now /\ running # None /\ ~gate)
    /\ UNCHANGED <<turnVars, completions, starters, stranded, ended>>

(* SessionCommand::Prompt with a synthetic id: queued at the back, never sent now. *)
WakePrompt(w) ==
    /\ AtCommand
    /\ answer[w] = "fresh"
    /\ UNCHANGED rowVars
    /\ LET q == Append(queue, w)
       IN  MaybeStart(q, running, rewindable, pin, task, Rows(q, running, version'))
    /\ answer' = Resolve(answer, {w}, "waiting")
    /\ UNCHANGED <<turnVars, actorVars, interjections, completions, starters, ended>>

(* SessionCommand::GoalSummaryTurn: the same, without the broadcast. *)
GoalSummaryTurn(g) ==
    /\ AtCommand
    /\ answer[g] = "fresh"
    /\ UNCHANGED rowVars
    /\ MaybeStart(Append(queue, g), running, rewindable, pin, task, mirror)
    /\ answer' = Resolve(answer, {g}, "waiting")
    /\ UNCHANGED <<turnVars, actorVars, interjections, completions, starters, ended>>

(* InjectNotification on an idle session: the batch is queued as one prompt and started. *)
InjectNotification(d) ==
    /\ AtCommand
    /\ answer[d] = "fresh"
    /\ UNCHANGED rowVars
    /\ running = None /\ queue = << >>
    /\ MaybeStart(<<d>>, running, rewindable, pin, task, mirror)
    /\ answer' = Resolve(answer, {d}, "waiting")
    /\ UNCHANGED <<turnVars, actorVars, interjections, completions, starters, ended>>

(* Fault: an interjection taken for a running turn's when no turn runs. *)
TurnAlwaysRunning == TRUE

(* The check of the Interject handler, made without the state lock. *)
TurnRunning == pin # None

(***************************************************************************)
(* SessionCommand::Interject: buffered for the pinned turn, or, with no    *)
(* pin, made into a prompt.  The pin is read without the state lock, so    *)
(* the insertion (InsertStranded) is a step of its own.                    *)
(***************************************************************************)
Interject(i) ==
    /\ AtCommand
    /\ answer[i] = "fresh"
    /\ answer' = Resolve(answer, {i}, "waiting")
    /\ \/ /\ TurnRunning
          /\ interjections' = Append(interjections, i)
          /\ UNCHANGED <<pc, stranded>>
       \/ /\ ~TurnRunning
          /\ pc' = "fallback"
          /\ stranded' = <<i>>
          /\ UNCHANGED interjections
    /\ UNCHANGED <<stateVars, rowVars, turnVars, cx, completions, starters, ended>>

(***************************************************************************)
(* queue_interjection_fallback_prompt: the last stranded interjection goes *)
(* in front of the queue, or right behind the running front.               *)
(***************************************************************************)
InsertStranded ==
    /\ pc \in {"flush", "fallback"}
    /\ stranded # << >>
    /\ LET i == stranded[Len(stranded)]
       IN  /\ queue' = InsertBehind(queue, BehindRunning(queue, running), i)
           /\ sendNow' = sendNow \cup {i}
    /\ stranded' = SubSeq(stranded, 1, Len(stranded) - 1)
    /\ UNCHANGED <<running, rewindable, pin, task, mirror, version, turnVars, pc, cx,
                   interjections, completions, starters, answer, ended>>

(* Fault: a fallback prompt that is queued and not started. *)
FallbackDoneWaits ==
    /\ pc = "fallback"
    /\ stranded = << >>
    /\ pc' = "ready"
    /\ UNCHANGED <<stateVars, rowVars, turnVars, cx, stranded, interjections, completions,
                   starters, answer, ended>>

(* The rest of the Interject handler once the fallback prompt is queued. *)
FallbackDone ==
    /\ pc = "fallback"
    /\ stranded = << >>
    /\ UNCHANGED rowVars
    /\ MaybeStart(queue, running, rewindable, pin, task, mirror)
    /\ pc' = "ready"
    /\ UNCHANGED <<turnVars, cx, stranded, interjections, completions, starters,
                   answer, ended>>

-----------------------------------------------------------------------------
(* Commands on the rows of the shared queue. *)

(* The row u, at version v, that a client o (None: any client) may edit or remove. *)
RowMatches(u, v, o) ==
    /\ u \in Elems(queue) \ {running}
    /\ version[u] = v
    /\ o \in {None, OwnerOf[u]}

(* handle_remove_queued_prompt: a stale or foreign removal only broadcasts. *)
RemoveQueuedPrompt(u, v, o) ==
    /\ AtCommand
    /\ LET gone == IF RowMatches(u, v, o) THEN {u} ELSE {}
       IN  /\ queue' = Only(queue, Ids \ gone)
           /\ answer' = Resolve(answer, gone, "removed")
    /\ mirror' = Rows(queue', running, version)
    /\ UNCHANGED <<running, rewindable, pin, task, rowVars, turnVars, actorVars, interjections,
                   completions, starters, ended>>

(***************************************************************************)
(* handle_interject_queued_prompt: the row, edited or not, is marked       *)
(* send-now and moved to the send-now slot; a running turn is cancelled    *)
(* for it unless the goal loop is active.                                  *)
(***************************************************************************)
InterjectQueuedPrompt(u, v, o, edit) ==
    /\ AtCommand
    /\ RowMatches(u, v, o)
    /\ edit => version[u] < MaxVersion
    /\ version' = IF edit THEN [version EXCEPT ![u] = @ + 1] ELSE version
    /\ sendNow' = sendNow \cup {u}
    /\ LET q == Only(queue, Ids \ {u})
       IN  CancelOrStart(InsertBehind(q, SendNowSlot(q, running, sendNow), u), answer,
                         running # None /\ ~gate)
    /\ UNCHANGED <<turnVars, completions, starters, stranded, ended>>

(* The same command for a row that does not match: it broadcasts and tries to start. *)
InterjectQueuedPromptMisses(u, v, o) ==
    /\ AtCommand
    /\ ~RowMatches(u, v, o)
    /\ UNCHANGED rowVars
    /\ MaybeStart(queue, running, rewindable, pin, task, Rows(queue, running, version))
    /\ UNCHANGED <<turnVars, actorVars, interjections, completions, starters, answer, ended>>

(* handle_reorder_queue: rows in the client's order, behind everything that is not a row. *)
ReorderQueue(o) ==
    /\ AtCommand
    /\ queue' = Reordered(queue, Users \ {running}, o)
    /\ mirror' = Rows(queue', running, version)
    /\ UNCHANGED <<running, rewindable, pin, task, rowVars, turnVars, actorVars, interjections,
                   completions, starters, answer, ended>>

(* handle_clear_queue: every row, or every row of one client, is removed. *)
ClearQueue(o) ==
    /\ AtCommand
    /\ LET gone == {u \in (Elems(queue) \cap Users) \ {running} : o \in {None, OwnerOf[u]}}
       IN  /\ queue' = Only(queue, Ids \ gone)
           /\ answer' = Resolve(answer, gone, "removed")
    /\ mirror' = Rows(queue', running, version)
    /\ UNCHANGED <<running, rewindable, pin, task, rowVars, turnVars, actorVars, interjections,
                   completions, starters, ended>>

(* Fault: an edit that is not broadcast. *)
EditQueuedPromptSilently(u) ==
    /\ AtCommand
    /\ u \in Elems(queue) \ {running}
    /\ version[u] < MaxVersion
    /\ version' = [version EXCEPT ![u] = @ + 1]
    /\ UNCHANGED <<stateVars, sendNow, turnVars, actorVars, interjections, completions, starters,
                   answer, ended>>

(* handle_edit_queued_prompt: the last write wins; a missing or running id changes nothing. *)
EditQueuedPrompt(u) ==
    /\ AtCommand
    /\ u \in Elems(queue) \ {running}
    /\ version[u] < MaxVersion
    /\ version' = [version EXCEPT ![u] = @ + 1]
    /\ mirror' = Rows(queue, running, version')
    /\ UNCHANGED <<queue, running, rewindable, pin, task, sendNow, turnVars, actorVars,
                   interjections, completions, starters, answer, ended>>

(***************************************************************************)
(* Shutdown drops the queued synthetic prompts, the running one included,  *)
(* and ends the actor.                                                     *)
(***************************************************************************)
Shutdown ==
    /\ AtCommand
    /\ queue' = Only(queue, UserOrigin)
    /\ answer' = Resolve(answer, Elems(queue) \cap Synthetic, "dropped")
    /\ pc' = "stopped"
    /\ UNCHANGED <<running, rewindable, pin, task, mirror, rowVars, turnVars, cx, stranded,
                   interjections, completions, starters, ended>>

-----------------------------------------------------------------------------
(* cancel_running_task, in the five stretches that its awaits cut it into. *)

(* SessionCommand::Cancel. *)
Cancel(how) ==
    /\ AtCommand
    /\ BeginCancel(how)
    /\ answer' = Resolve(answer, Elems(interjections), "discarded")
    /\ UNCHANGED <<stateVars, rowVars, turnVars, stranded, completions, starters, ended>>

(* Fault: an abort that misses a turn whose scope guard has dropped. *)
AbortOnlyLive(tk, t) == [i \in Ids |-> IF i = t /\ tk[i] = "live" THEN "aborted" ELSE tk[i]]

(* AgentTask::abort: a turn that has finished is left as it is. *)
AbortTurn(tk, t) ==
    [i \in Ids |-> IF i = t /\ tk[i] \in {"live", "ending"} THEN "aborted" ELSE tk[i]]

(***************************************************************************)
(* Under the state lock: take the running task, and take off the queue its *)
(* front (or, in a hard teardown, everything).  A pristine turn that is to *)
(* be rewound is aborted here, and its prompt given back.                  *)
(***************************************************************************)
CancelLocked ==
    /\ pc = "cancel"
    /\ LET pristine == cx.how = "rewound" /\ rewindable
           rewound  == pristine /\ queue # << >>
           victim   == IF pristine THEN None ELSE running
           taken    == IF queue = << >> THEN {}
                       ELSE IF cx.how = "killed" THEN Elems(queue) ELSE {Head(queue)}
       IN  /\ queue' = IF queue = << >> \/ cx.how = "killed" THEN << >> ELSE Tail(queue)
           /\ rewindable' = (rewindable /\ ~pristine)
           /\ task' = IF pristine THEN AbortTurn(task, running) ELSE task
           /\ cx' = [how      |-> IF cx.how = "rewound" /\ ~rewound THEN "cancelled" ELSE cx.how,
                     pinned   |-> None,
                     victim   |-> victim,
                     terminal |-> IF rewound THEN None
                                  ELSE IF victim # None THEN victim ELSE cx.pinned,
                     removed  |-> taken]
    /\ running' = None
    /\ pc' = "gate"
    /\ UNCHANGED <<pin, mirror, rowVars, turnVars, stranded, interjections, completions, starters,
                   answer, ended>>

(* The goal-loop flag is cleared; the turn being cancelled is still alive. *)
CancelGate ==
    /\ pc = "gate"
    /\ gate' = FALSE
    /\ pc' = "abort"
    /\ UNCHANGED <<stateVars, rowVars, depth, guards, shown, cx, stranded, interjections,
                   completions, starters, answer, ended>>

(* Fault: a cancel that aborts, with the turn it took, the turn that is pinned by now. *)
CancelAbortsPinned ==
    /\ pc = "abort"
    /\ task' = AbortTurn(AbortTurn(task, cx.victim), pin)
    /\ depth' = 0
    /\ pc' = "tail"
    /\ UNCHANGED <<queue, running, rewindable, pin, mirror, rowVars, gate, guards, shown, cx,
                   stranded, interjections, completions, starters, answer, ended>>

(* The turn is aborted and the wait depth it may have left behind is zeroed. *)
CancelAbort ==
    /\ pc = "abort"
    /\ task' = AbortTurn(task, cx.victim)
    /\ depth' = 0
    /\ pc' = "tail"
    /\ UNCHANGED <<queue, running, rewindable, pin, mirror, rowVars, gate, guards, shown, cx,
                   stranded, interjections, completions, starters, answer, ended>>

(* Sending a TurnCompleted terminal, which, like any outbound event, closes the rewind window. *)
EmitTerminal(t) ==
    ended' = [i \in Ids |-> IF i = t THEN ended[i] + 1 ELSE ended[i]]

(***************************************************************************)
(* The pin is cleared, whoever it names by now; the terminal is sent; the  *)
(* prompts taken off the queue are answered; and the handler goes on to    *)
(* start the new front.                                                    *)
(***************************************************************************)
CancelTail ==
    /\ pc = "tail"
    /\ EmitTerminal(cx.terminal)
    /\ answer' = Resolve(answer, cx.removed, cx.how)
    /\ sendNow' = sendNow \ cx.removed
    /\ shown' = shown \cap {running}
    /\ UNCHANGED version
    /\ MaybeStart(queue, running, rewindable /\ cx.terminal = None, None, task, mirror)
    /\ pc' = "ready"
    /\ cx' = NoCancel
    /\ UNCHANGED <<depth, gate, guards, stranded, interjections, completions, starters>>

-----------------------------------------------------------------------------
(* The completion of a turn. *)

(* Fault: a completion taken for the front prompt's whichever prompt it names. *)
OwnsAny(c) == queue # << >>

(* owned_completion: the completion names the front prompt. *)
Owned(c) == queue # << >> /\ Head(queue) = c

(* Fault: a completion that clears the running task whichever turn it names. *)
EndsAny(c) == TRUE

(* The completion is the running turn's, or the front prompt's. *)
EndsRunning(c) == running = c \/ Owned(c)

(***************************************************************************)
(* handle_completion up to the release of the state lock.  Only the front  *)
(* prompt's own completion answers it; a completion that arrives after a   *)
(* cancel took its prompt is stale and must leave the promoted turn alone. *)
(***************************************************************************)
HandleCompletion ==
    /\ pc = "ready"
    /\ completions # << >>
    /\ LET c == Head(completions)
       IN  /\ pin' = IF pin = c THEN None ELSE pin
           /\ gate' = (gate /\ pin' # None)
           /\ queue' = IF Owned(c) THEN Tail(queue) ELSE queue
           /\ answer' = Resolve(answer, IF Owned(c) THEN {c} ELSE {}, "done")
           /\ running' = IF EndsRunning(c) THEN None ELSE running
           /\ mirror' = IF Owned(c) /\ c \in Users THEN Rows(queue', running', version)
                        ELSE mirror
           /\ cx' = [NoCancel EXCEPT !.terminal = IF Owned(c) THEN c ELSE None]
    /\ completions' = Tail(completions)
    /\ sendNow' = sendNow \ {Head(completions)}
    /\ shown' = shown \ {Head(completions)}
    /\ pc' = "popped"
    /\ UNCHANGED <<rewindable, task, version, depth, guards, stranded, interjections, starters,
                   ended>>

(***************************************************************************)
(* The terminal is sent, handle_turn_end may queue a goal continuation (g, *)
(* unless one is queued), and the interjections that missed the turn are   *)
(* taken for the flush.                                                    *)
(***************************************************************************)
HandleTurnEnd(g) ==
    /\ pc = "popped"
    /\ g # None => answer[g] = "fresh" /\ Elems(queue) \cap Goals = {}
    /\ EmitTerminal(cx.terminal)
    /\ rewindable' = (rewindable /\ cx.terminal = None)
    /\ queue' = IF g = None THEN queue ELSE Append(queue, g)
    /\ answer' = Resolve(answer, {g}, "waiting")
    /\ stranded' = interjections
    /\ interjections' = << >>
    /\ pc' = "flush"
    /\ cx' = NoCancel
    /\ UNCHANGED <<running, pin, task, mirror, rowVars, turnVars, completions, starters>>

(* The flush over, the front is started; an idle session may drain its notifications (d). *)
CompletionDone(d) ==
    /\ pc = "flush"
    /\ stranded = << >>
    /\ d # None => answer[d] = "fresh" /\ running = None /\ queue = << >>
    /\ UNCHANGED rowVars
    /\ MaybeStart(IF d = None THEN queue ELSE <<d>>, running, rewindable, pin, task, mirror)
    /\ answer' = Resolve(answer, {d}, "waiting")
    /\ pc' = "ready"
    /\ UNCHANGED <<turnVars, cx, stranded, interjections, completions, starters, ended>>

-----------------------------------------------------------------------------
(* Tasks beside the actor that queue or start prompts, at any await of a handler. *)

(* start_resume_turn after a plan approval: the prompt is queued ... *)
QueueResumeTurn(p) ==
    /\ pc # "stopped"
    /\ answer[p] = "fresh"
    /\ queue' = Append(queue, p)
    /\ mirror' = Rows(queue', running, version)
    /\ answer' = Resolve(answer, {p}, "waiting")
    /\ starters' = starters \cup {p}
    /\ UNCHANGED <<running, rewindable, pin, task, rowVars, turnVars, actorVars, interjections,
                   completions, ended>>

(* ... and, as at the end of the MCP initialisation, the front is started. *)
StarterStarts(s) ==
    /\ pc # "stopped"
    /\ s \in starters
    /\ starters' = starters \ {s}
    /\ UNCHANGED rowVars
    /\ MaybeStart(queue, running, rewindable, pin, task, mirror)
    /\ UNCHANGED <<turnVars, actorVars, interjections, completions, answer, ended>>

-----------------------------------------------------------------------------
(* The turn task of prompt t, while the runtime still polls it. *)

(* Fault: an outbound event that leaves the rewind window open. *)
TurnEmitsUnnoticed(t) ==
    /\ t \in Live
    /\ shown' = shown \cup {t}
    /\ UNCHANGED <<stateVars, rowVars, depth, gate, guards, actorVars, interjections, completions,
                   starters, answer, ended>>

(* An outbound event of the turn: the rewind window is closed before it is sent. *)
TurnEmits(t) ==
    /\ t \in Live
    /\ t \notin shown \/ rewindable
    /\ shown' = shown \cup {t}
    /\ rewindable' = FALSE
    /\ UNCHANGED <<queue, running, pin, task, mirror, rowVars, depth, gate, guards, actorVars,
                   interjections, completions, starters, answer, ended>>

(* A round of the turn's loop begins: the flag says whether the goal loop is active. *)
TurnBeginsRound(t, active) ==
    /\ task[t] = "live"
    /\ active => t \in GoalTurns
    /\ gate' = active
    /\ UNCHANGED <<stateVars, rowVars, depth, guards, shown, actorVars, interjections, completions,
                   starters, answer, ended>>

(***************************************************************************)
(* drain_pending_interjections at a safe point of the turn.  The entries   *)
(* are the turn's from here on: it injects them one by one, across awaits, *)
(* and an abort in between takes the rest with it.                         *)
(***************************************************************************)
TurnDrainsInterjections(t) ==
    /\ task[t] = "live"
    /\ interjections # << >>
    /\ interjections' = << >>
    /\ answer' = Resolve(answer, Elems(interjections), "merged")
    /\ UNCHANGED <<stateVars, rowVars, turnVars, actorVars, completions, starters, ended>>

(***************************************************************************)
(* The turn hands a waiting tool call to its drainer, or a foreground      *)
(* subagent to the coordinator: tasks of their own, which the abort of the *)
(* turn reaches later or not at all.                                       *)
(***************************************************************************)
TurnSendsCall(t, k) ==
    /\ task[t] = "live" /\ t \in Waiters
    /\ \A at \in CallStates : <<t, k, at>> \notin guards
    /\ guards' = guards \cup {<<t, k, "sent">>}
    /\ UNCHANGED <<stateVars, rowVars, depth, gate, shown, actorVars, interjections, completions,
                   starters, answer, ended>>

(* BlockingWaitGuard::enter, when that task first runs the call: whatever has become of the turn. *)
CallEntersWait(t, k) ==
    /\ <<t, k, "sent">> \in guards
    /\ guards' = (guards \ {<<t, k, "sent">>}) \cup {<<t, k, "held">>}
    /\ depth' = depth + 1
    /\ UNCHANGED <<stateVars, rowVars, gate, shown, actorVars, interjections, completions,
                   starters, answer, ended>>

(* The call is dropped before it ran: the drainer of a turn that has gone is aborted. *)
CallIsDropped(t, k) ==
    /\ <<t, k, "sent">> \in guards /\ task[t] # "live"
    /\ guards' = guards \ {<<t, k, "sent">>}
    /\ UNCHANGED <<stateVars, rowVars, depth, gate, shown, actorVars, interjections, completions,
                   starters, answer, ended>>

(* Fault: a decrement that does not saturate. *)
WaitGuardDropsWraps(t, k) ==
    /\ <<t, k, "held">> \in guards
    /\ guards' = guards \ {<<t, k, "held">>}
    /\ depth' = depth - 1
    /\ UNCHANGED <<stateVars, rowVars, gate, shown, actorVars, interjections, completions,
                   starters, answer, ended>>

(* Fault: a decrement at the end of the wait, which the abort of the turn skips. *)
WaitGuardDropsIfLive(t, k) ==
    /\ <<t, k, "held">> \in guards
    /\ guards' = guards \ {<<t, k, "held">>}
    /\ depth' = IF depth = 0 \/ task[t] = "aborted" THEN depth ELSE depth - 1
    /\ UNCHANGED <<stateVars, rowVars, gate, shown, actorVars, interjections, completions,
                   starters, answer, ended>>

(***************************************************************************)
(* The drop of the guard, at the end of the wait or when the future that   *)
(* holds it is dropped, in time or after its turn.  The count saturates.   *)
(***************************************************************************)
WaitGuardDrops(t, k) ==
    /\ <<t, k, "held">> \in guards
    /\ guards' = guards \ {<<t, k, "held">>}
    /\ depth' = IF depth = 0 THEN 0 ELSE depth - 1
    /\ UNCHANGED <<stateVars, rowVars, gate, shown, actorVars, interjections, completions,
                   starters, answer, ended>>

(* What may happen to a waiting call. *)
WaitingCall(t, k) ==
    TurnSendsCall(t, k) \/ CallEntersWait(t, k) \/ CallIsDropped(t, k) \/ WaitGuardDrops(t, k)

(* A tool result of the turn consumed the completion that prompt w, queued or the turn's own, *)
(* announces.                                                                                *)
TurnConsumesCompletion(t, w) ==
    /\ task[t] = "live"
    /\ w \in Elems(queue)
    /\ queue' = SweepPending(queue, {w})
    /\ answer' = Resolve(answer, Elems(queue) \ Elems(queue'), "dropped")
    /\ UNCHANGED <<running, rewindable, pin, task, mirror, rowVars, turnVars, actorVars,
                   interjections, completions, starters, ended>>

(* The turn's scope guard drops: the pin is cleared if it still names the turn. *)
TurnScopeEnds(t) ==
    /\ task[t] = "live"
    /\ task' = [task EXCEPT ![t] = "ending"]
    /\ pin' = IF pin = t THEN None ELSE pin
    /\ UNCHANGED <<queue, running, rewindable, mirror, rowVars, turnVars, actorVars,
                   interjections, completions, starters, answer, ended>>

(***************************************************************************)
(* run_task sends the result.  A turn that failed before its loop never    *)
(* had a scope guard, and one that fails on a tool's result leaves other   *)
(* calls in their waits.                                                   *)
(***************************************************************************)
TurnSendsCompletion(t) ==
    /\ t \in Live
    /\ task' = [task EXCEPT ![t] = "sent"]
    /\ completions' = Append(completions, t)
    /\ UNCHANGED <<queue, running, rewindable, pin, mirror, rowVars, turnVars, actorVars,
                   interjections, starters, answer, ended>>

(* A stopped actor does nothing more. *)
Stopped == pc = "stopped" /\ UNCHANGED vars

Commands ==
    \/ \E u \in Users, sn \in BOOLEAN : Prompt(u, sn)
    \/ \E w \in Wakes : WakePrompt(w)
    \/ \E g \in Goals : GoalSummaryTurn(g)
    \/ \E d \in Drains : InjectNotification(d)
    \/ \E i \in Interjects : Interject(i)
    \/ \E u \in Users, v \in 0 .. MaxVersion, o \in Clients \cup {None} :
          RemoveQueuedPrompt(u, v, o)
    \/ \E u \in Users, v \in 0 .. MaxVersion, o \in Clients \cup {None}, e \in BOOLEAN :
          InterjectQueuedPrompt(u, v, o, e)
    \/ \E u \in Users, v \in 0 .. MaxVersion, o \in Clients \cup {None} :
          InterjectQueuedPromptMisses(u, v, o)
    \/ \E o \in Orders : ReorderQueue(o)
    \/ \E o \in Clients \cup {None} : ClearQueue(o)
    \/ \E u \in Users : EditQueuedPrompt(u)
    \/ \E how \in CancelKinds : Cancel(how)
    \/ Shutdown

(* The rest of a handler once it has begun, and the handling of completions. *)
ActorContinues ==
    \/ InsertStranded
    \/ FallbackDone
    \/ CancelLocked
    \/ CancelGate
    \/ CancelAbort
    \/ CancelTail
    \/ HandleCompletion
    \/ \E g \in Goals \cup {None} : HandleTurnEnd(g)
    \/ \E d \in Drains \cup {None} : CompletionDone(d)

Starters ==
    \/ \E p \in Plans : QueueResumeTurn(p)
    \/ \E s \in Plans \cup {Mcp} : StarterStarts(s)

Turn(t) ==
    \/ TurnEmits(t)
    \/ \E b \in BOOLEAN : TurnBeginsRound(t, b)
    \/ TurnDrainsInterjections(t)
    \/ \E k \in Calls : WaitingCall(t, k)
    \/ \E w \in Wakes : TurnConsumesCompletion(t, w)
    \/ TurnScopeEnds(t)
    \/ TurnSendsCompletion(t)

Next ==
    \/ Commands
    \/ ActorContinues
    \/ Starters
    \/ \E t \in Ids : pc # "stopped" /\ Turn(t)
    \/ Stopped

(***************************************************************************)
(* The runtime polls the actor, the starters, the turns and their waiting  *)
(* calls until they are done, and a wait ends.  A turn ends, too, once its *)
(* waits have: its loop does not go back into a wait for ever.  No client  *)
(* has to send a command.                                                  *)
(***************************************************************************)
Fairness ==
    /\ WF_vars(ActorContinues)
    /\ \A s \in Plans \cup {Mcp} : WF_vars(StarterStarts(s))
    /\ \A t \in Ids : \A k \in Calls :
          WF_vars(pc # "stopped" /\ (CallEntersWait(t, k) \/ WaitGuardDrops(t, k)))
    /\ \A t \in Ids :
          SF_vars(/\ pc # "stopped" /\ (\A g \in guards : g[1] # t)
                  /\ TurnSendsCompletion(t))

Spec == Init /\ [][Next]_vars

FairSpec == Spec /\ Fairness

-----------------------------------------------------------------------------
(* Properties. *)

(* The state of the actor, the queue and the turns has its type. *)
TypeOK ==
    /\ queue \in Seq(Ids)
    /\ running \in Ids \cup {None}
    /\ rewindable \in BOOLEAN
    /\ pin \in Ids \cup {None}
    /\ sendNow \subseteq UserOrigin
    /\ version \in [Users -> 0 .. MaxVersion]
    /\ mirror \in Seq(Users \X (0 .. MaxVersion))
    /\ interjections \in Seq(Interjects)
    /\ depth \in Nat
    /\ gate \in BOOLEAN
    /\ task \in [Ids -> TaskStates]
    /\ guards \subseteq Waiters \X Calls \X CallStates
    /\ shown \subseteq Ids
    /\ completions \in Seq(Ids)
    /\ starters \subseteq Plans \cup {Mcp}
    /\ pc \in ActorStates
    /\ cx \in [how : CancelKinds \cup {"none"}, pinned : Ids \cup {None},
                victim : Ids \cup {None}, terminal : Ids \cup {None}, removed : SUBSET Ids]
    /\ stranded \in Seq(Interjects)
    /\ answer \in [Ids -> AnswerStates]
    /\ ended \in [Ids -> Nat]

(***************************************************************************)
(* The in-flight turn is at the front of the queue, whatever was inserted, *)
(* swept, reordered or cleared while it ran: the rule that cancel (which   *)
(* takes index 0) and handle_completion (which pops the front) rely on.    *)
(***************************************************************************)
FrontIsRunning ==
    pc # "stopped" /\ running # None => queue # << >> /\ Head(queue) = running

(***************************************************************************)
(* The debug_assert of cancel_running_task: the pin captured before the    *)
(* lock was taken, if any, names the task found under the lock, although   *)
(* other tasks may have started or ended a turn in between; and so does    *)
(* the pin itself at any moment when both are set.                         *)
(***************************************************************************)
PinAgrees ==
    /\ pin # None /\ running # None => pin = running
    /\ pc = "cancel" /\ cx.pinned # None /\ running # None => cx.pinned = running

(* Where a prompt that is not yet answered can be. *)
Held ==
    Elems(queue) \cup Elems(interjections) \cup Elems(stranded) \cup cx.removed

(***************************************************************************)
(* No prompt is lost or doubled: one that was accepted and not answered is *)
(* held in exactly one place, once, and nothing answered is still held.    *)
(***************************************************************************)
NoPromptLost ==
    /\ pc # "stopped" => {i \in Ids : answer[i] = "waiting"} = Held
    /\ \A s \in {queue, interjections, stranded} :
          \A j, k \in DOMAIN s : s[j] = s[k] => j = k
    /\ Elems(queue) \cap (cx.removed \cup Elems(interjections) \cup Elems(stranded)) = {}
    /\ Elems(interjections) \cap Elems(stranded) = {}

(* What has become of a prompt: its answer, or where it is until it has one. *)
Phase(i) ==
    IF answer[i] # "waiting" THEN answer[i]
    ELSE IF i = running THEN "running"
    ELSE IF i \notin cx.removed THEN "waiting"
    ELSE CASE cx.how = "cancelled" -> "cancelling"
           [] cx.how = "rewound" -> "rewinding"
           [] cx.how = "killed" -> "killing"

Scheduler == INSTANCE TurnScheduler WITH Users <- UserOrigin, phase <- [i \in Ids |-> Phase(i)]

(***************************************************************************)
(* The session implements the turn scheduler, through every race of        *)
(* cancels, completions that come late, sweeps and starts by other tasks:  *)
(* no prompt runs twice or beside another one that holds the slot, goes    *)
(* back to waiting, or is answered twice or with what did not happen.      *)
(***************************************************************************)
Schedules == Scheduler!Spec

(***************************************************************************)
(* No orphan turn: the runtime polls no turn but the promoted one and, in  *)
(* the two stretches before a cancel aborts it, the cancelled one.         *)
(***************************************************************************)
NoOrphanTurn ==
    Live \subseteq {running} \cup (IF pc \in {"gate", "abort"} THEN {cx.victim} ELSE {})

(***************************************************************************)
(* The promoted turn is driven: the runtime still polls it, or its         *)
(* completion is in the channel.  A slot held by a turn that an abort hit  *)
(* or whose completion was taken for another turn's would stay taken for   *)
(* ever, with every later prompt queued behind it.                         *)
(***************************************************************************)
RunningIsDriven ==
    running # None => running \in Live \cup Elems(completions)

(***************************************************************************)
(* A turn that ended has exactly one TurnCompleted terminal on the replay  *)
(* rail, whether its completion, a cancel, or both in a race finished it;  *)
(* a rewound turn, and one that never ran, have none.                      *)
(***************************************************************************)
OneTerminalPerTurn ==
    \A i \in Ids :
        /\ ended[i] <= 1
        /\ ended[i] = 1 => task[i] # "none" /\ answer[i] # "rewound"
        /\ pc = "ready" /\ task[i] # "none" /\ i # running /\ answer[i] # "rewound"
             => ended[i] = 1

(***************************************************************************)
(* An actor at rest with no turn has no interjection buffered and nothing  *)
(* queued but plan-resume prompts whose own task is about to start them.   *)
(***************************************************************************)
NothingStranded ==
    pc = "ready" /\ running = None => interjections = << >> /\ Elems(queue) \subseteq starters

(***************************************************************************)
(* The wait depth never outnumbers the guards that are held, so that with  *)
(* the last of them it returns to 0 ("a cancelled turn can't leak the      *)
(* count"): guards may enter after the cancel that zeroed it, and drop     *)
(* after their turn has gone or another one is in a wait of its own.       *)
(***************************************************************************)
DepthIsHeld == depth <= Cardinality({g \in guards : g[3] = "held"})

(***************************************************************************)
(* While a turn runs, the depth that queue_input reads is not the work of  *)
(* aborted turns alone, or a prompt that arrives would cancel the turn for *)
(* a wait that is not its own: what the store of 0 in cancel_running_task  *)
(* is for.  A guard that enters after the store breaks it.                 *)
(***************************************************************************)
DepthIsCurrent ==
    pc = "ready" /\ running # None /\ depth > 0
        => \E g \in guards : g[3] = "held" /\ task[g[1]] # "aborted"

(***************************************************************************)
(* A cancel rewinds only a turn that has sent nothing, whichever turn was  *)
(* promoted, was ending or was being cancelled when it asked.              *)
(***************************************************************************)
RewindIsPristine ==
    /\ rewindable /\ running # None => running \notin shown
    /\ cx.how = "rewound" /\ pc # "cancel" => cx.removed \cap shown = {}

(***************************************************************************)
(* The clients' copy of the queue converges: at rest the last broadcast    *)
(* shows the queued rows in their order with their versions, unless a hard *)
(* teardown, after which the session shuts down, emptied the queue.        *)
(***************************************************************************)
RowsMirrored ==
    pc = "ready" /\ (\A i \in Ids : answer[i] # "killed")
        => mirror = Rows(queue, running, version)

(* A sweep (State::sweep_pending_inputs) of the queue, as it is in any state, keeps exactly the *)
(* wanted prompts, in their order: the closed form is the loop of the code.                    *)
SweepKeepsOrder == \A Keep \in SUBSET Ids : Only(queue, Keep) = Swept(queue, Keep)

(***************************************************************************)
(* A send-now prompt lands where the loop of queue_input stops: never in   *)
(* front of the running turn, behind the send-now prompts that follow it   *)
(* directly, in front of every other.                                      *)
(***************************************************************************)
SendNowSlotIsLoop ==
    \A sn \in SUBSET Ids :
        SendNowSlot(queue, running, sn) = SteppedOver(queue, BehindRunning(queue, running), sn)

(***************************************************************************)
(* The reorder of handle_reorder_queue is the partition and stable sort of *)
(* the code, whatever list without repetitions the client sends.           *)
(***************************************************************************)
ReorderIsStableSort ==
    \A o \in Orders :
        Reordered(queue, Users \ {running}, o) = PartedAndSorted(queue, Users \ {running}, o)

(* Every accepted prompt is answered in the end, unless the session is shut down first. *)
EventuallyAnswered ==
    \A i \in Ids : answer[i] = "waiting" ~> answer[i] # "waiting" \/ pc = "stopped"

=============================================================================
