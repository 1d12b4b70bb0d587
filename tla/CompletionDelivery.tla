------------------------ MODULE CompletionDelivery ------------------------
(***************************************************************************)
(* How the model of a session learns that a background task it started has *)
(* ended.  Bash tasks belong to the terminal actor, subagents to the       *)
(* coordinator; both may end while the session's turn runs, waits for them *)
(* or is being cancelled.  Four surfaces can tell the model:               *)
(*   - an auto-wake prompt that the bridge or the coordinator queues;      *)
(*   - a batch of pending notifications, when auto-wake is off;            *)
(*   - the reminder that every tool call collects, and the one drained at  *)
(*     the start of a turn;                                                *)
(*   - the result of a tool call that asked for the task.                  *)
(* AutoWakeDeliveredIds, ReportedTaskCompletions, the coordinator's buffer *)
(* and block_waited keep them from telling it twice, and must not keep all *)
(* of them silent.                                                         *)
(*                                                                         *)
(* The session has no goal and its tasks are not monitors.  Scheduling of  *)
(* the prompt queue is the subject of SessionActor; here a turn starts as  *)
(* soon as the queue has a front.                                          *)
(***************************************************************************)
EXTENDS PromptQueue

CONSTANTS
    Bash,           \* background commands, owned by the terminal actor
    Subagents,      \* background subagents, owned by the coordinator
    AutoWakes,      \* the settings of auto_wake_enabled to consider
    MaxPending,     \* MAX_PENDING_NOTIFICATIONS
    MaxPrompts,     \* bound: prompts the user sends
    MaxCancels,     \* bound: cancels the user sends
    MaxCalls        \* bound: tool calls and waits

Tasks == Bash \cup Subagents
Calls == 1 .. MaxCalls

ASSUME DeliveryAssumption ==
    /\ Bash \cap Subagents = {}
    /\ AutoWakes \subseteq BOOLEAN
    /\ MaxPending \in Nat \ {0}
    /\ MaxPrompts \in Nat /\ MaxCancels \in Nat /\ MaxCalls \in Nat

VARIABLES
    autoWake,       \* auto_wake_enabled of this session
    done,           \* tasks that have ended
    killed,         \* explicitly_killed, or cancelled, tasks
    waited,         \* running tasks whose block_waited flag is set
    waiters,        \* the blocking wait of a call for a task: see WaitStates
    bridge,         \* TaskCompleted notifications on their way to the bridge
    unread,         \* pending_completions of the coordinator
    delivered,      \* AutoWakeDeliveredIds
    reported,       \* ReportedTaskCompletions
    cmds,           \* the session's mailbox: prompts and notifications
    queue,          \* pending_inputs; the front is the running turn's
    notifs,         \* pending_notifications
    suppressed,     \* notifications_suppressed
    turn,           \* the running turn
    told,           \* what the model's conversation says has ended
    preempted,      \* history: wakes a user prompt swept from the queue
    aborted,        \* history: completions in the hands of a cancelled turn
    swallowed,      \* history: ends that only a wait nobody looks at received
    awaited,        \* history: bash tasks whose exit a running call received
    prompts, cancels, calls

session == <<queue, notifs, suppressed, turn>>
sets == <<delivered, reported>>
tasks == <<done, killed, waited, waiters>>
history == <<told, preempted, aborted, swallowed, awaited>>
bounds == <<prompts, cancels, calls>>
vars == <<autoWake, tasks, bridge, unread, sets, cmds, session, history, bounds>>

User == [origin |-> "user", ids |-> {}]
Wake(t) == [origin |-> "wake", ids |-> {t}]
Drain(S) == [origin |-> "drain", ids |-> S]
Entries == [origin : {"user", "wake", "drain"}, ids : SUBSET Tasks]

IsWake(e) == e.origin = "wake"
IsSynthetic(e) == e.origin # "user"
Ids(q) == UNION {e.ids : e \in Elems(q)}

(* The helper task that waits on behalf of a call: it has been spawned and *)
(* not yet registered, is registered and can receive, or is registered     *)
(* although its receiver is gone.  Aborting the call does not change it at *)
(* once: helpers are torn down by the runtime, some time later.            *)
WaitStates == {"none", "spawned", "open", "dropped"}

(* A turn is idle, starting (it drains what ended between turns), in its   *)
(* loop, or in a tool call.  hand holds ids marked reported and not yet in *)
(* the conversation, suppress the ids a reminder pass will not repeat, got *)
(* the coordinator's answer, wait the tasks a blocking call asks for, used *)
(* what the tool's own result tells.                                       *)
TurnPcs == {"none", "start", "listed", "asked", "answered", "loop", "wait", "marking",
            "asking", "applying", "done"}

Turn(pc) == [pc |-> pc, hand |-> {}, suppress |-> {}, got |-> {}, used |-> {}, wait |-> {},
             pristine |-> TRUE]

NoTurn == Turn("none")

Idle == turn.pc = "none"

(* Fault: the next prompt is not promoted. *)
StartsNothing(q) == NoTurn

(* maybe_start_running_task: the front of a queue that is not empty runs.  *)
Started(q) == IF q = << >> THEN NoTurn ELSE Turn("start")

Init ==
    /\ autoWake \in AutoWakes
    /\ done = {} /\ killed = {} /\ waited = {}
    /\ waiters = [t \in Tasks |-> [n \in Calls |-> "none"]]
    /\ bridge = << >> /\ unread = {} /\ delivered = {} /\ reported = {}
    /\ cmds = << >> /\ queue = << >> /\ notifs = << >>
    /\ suppressed = FALSE
    /\ turn = NoTurn
    /\ told = {} /\ preempted = {} /\ aborted = {} /\ swallowed = {} /\ awaited = {}
    /\ prompts = 0 /\ cancels = 0 /\ calls = 0

-----------------------------------------------------------------------------
(* The terminal actor and the coordinator.                                 *)

(* The calls with a registered wait for t, and those whose wait can still  *)
(* receive.  Only the running call of the turn looks at what it receives;  *)
(* any other wait that keeps the end of t silent swallows it.              *)
Registered(t) == {n \in Calls : waiters[t][n] \in {"open", "dropped"}}
Open(t) == {n \in Calls : waiters[t][n] = "open"}
Live(t) == turn.pc = "wait" /\ calls \in Open(t)
Swallows(t) == t \in waited /\ Open(t) # {} /\ ~Live(t)

(* No wait for t is registered any more. *)
Unregistered(t) ==
    [waiters EXCEPT ![t] = [n \in Calls |-> IF n \in Registered(t) THEN "none" ELSE @[n]]]

(* A helper's request arrives.  A wait for a running task is registered    *)
(* and the task marked block_waited; one for a task that has ended in the  *)
(* meantime, evicted or not, is answered at once, and nothing reads the    *)
(* flag of an ended task.  A subagent's query does the same.               *)
RegisterWait(t, n) ==
    /\ waiters[t][n] = "spawned"
    /\ waiters' = [waiters EXCEPT ![t][n] = IF t \in done THEN "none" ELSE "open"]
    /\ waited' = IF t \in done THEN waited ELSE waited \cup {t}
    /\ UNCHANGED <<autoWake, done, killed, bridge, unread, sets, cmds, session, history, bounds>>

(* AbortWaitsOnDrop, or the end of the tool's future, takes effect after   *)
(* the call is over: a helper that is not registered never will be, and a  *)
(* registered one loses its receiver.                                      *)
HelperAborted(t, n) ==
    /\ waiters[t][n] \in {"spawned", "open"}
    /\ ~(turn.pc = "wait" /\ n = calls)
    /\ waiters' = [waiters EXCEPT ![t][n] = IF @ = "open" THEN "dropped" ELSE "none"]
    /\ UNCHANGED <<autoWake, done, killed, waited, bridge, unread, sets, cmds, session, history,
                   bounds>>

(* Fault: the flag survives although nobody received the snapshot.         *)
WaitedAtExitKeeps(t) == t \in waited

(* poll_all_processes, step 1: every waiter is sent the snapshot; the flag *)
(* is cleared when none of them was there to receive it.                   *)
WaitedAtExit(t) == t \in waited /\ (Registered(t) # {} => Open(t) # {})

(* One poll: the waiters are answered, then TaskCompleted is sent with the *)
(* flag as it then stands.                                                 *)
BashExits(t) ==
    /\ t \in Bash \ done
    /\ done' = done \cup {t}
    /\ waited' = waited \ {t}
    /\ waiters' = Unregistered(t)
    /\ bridge' = Append(bridge, [task |-> t, quiet |-> WaitedAtExit(t) \/ t \in killed])
    /\ awaited' = IF Live(t) THEN awaited \cup {t} ELSE awaited
    /\ swallowed' = IF Swallows(t) THEN swallowed \cup {t} ELSE swallowed
    /\ UNCHANGED <<autoWake, killed, unread, sets, cmds, session, told, preempted, aborted,
                   bounds>>

(* Fault: the terminal clears the flag while another wait is registered.   *)
ClearsAtExpiryAlways(t, n) == TRUE

(* The terminal clears the flag when the last waiter has gone, the         *)
(* coordinator at every expiry.                                            *)
ClearsAtExpiry(t, n) == t \in Subagents \/ Registered(t) = {n}

(* A wait of a running task passes its deadline.                           *)
WaitExpires(t, n) ==
    /\ n \in Registered(t)
    /\ waiters' = [waiters EXCEPT ![t][n] = "none"]
    /\ waited' = IF ClearsAtExpiry(t, n) THEN waited \ {t} ELSE waited
    /\ UNCHANGED <<autoWake, done, killed, bridge, unread, sets, cmds, session, history, bounds>>

(* The poll loop of a query whose receiver has gone.                       *)
SubagentWaiterGone(t, n) ==
    /\ t \in Subagents
    /\ waiters[t][n] = "dropped"
    /\ waiters' = [waiters EXCEPT ![t][n] = "none"]
    /\ waited' = waited \ {t}
    /\ UNCHANGED <<autoWake, done, killed, bridge, unread, sets, cmds, session, history, bounds>>

(* block_wait_delivered_or_live: the flag counts only while a registered   *)
(* waiter can still receive.                                               *)
DeliveredOrLive(t) ==
    t \in waited /\ (Registered(t) = {} \/ Open(t) # {})

(* The end of handle_subagent_request: decide on the wake and forget the   *)
(* waiters, move the subagent to completed, buffer its summary, then mark  *)
(* and queue the wake.  The poll loops answer their calls, some with a     *)
(* status that is already stale; a call looks its tasks up again anyway.   *)
SubagentFinishes(t, cancelled) ==
    /\ t \in Subagents \ done
    /\ done' = done \cup {t}
    /\ killed' = IF cancelled THEN killed \cup {t} ELSE killed
    /\ waited' = waited \ {t}
    /\ waiters' = Unregistered(t)
    /\ unread' = unread \cup {t}
    /\ LET wakes == autoWake /\ t \notin killed' /\ ~DeliveredOrLive(t)
       IN  /\ delivered' = IF wakes THEN delivered \cup {t} ELSE delivered
           /\ cmds' = IF wakes THEN Append(cmds, [kind |-> "prompt", task |-> t]) ELSE cmds
    /\ swallowed' = IF Swallows(t) THEN swallowed \cup {t} ELSE swallowed
    /\ UNCHANGED <<autoWake, bridge, reported, session, told, preempted, aborted, awaited,
                   bounds>>

-----------------------------------------------------------------------------
(* The notification bridge: TaskCompleted.  A task that was waited for or  *)
(* killed is not announced; otherwise the wake is marked and queued, or,   *)
(* without auto-wake, the completion becomes a pending notification.       *)
TaskCompleted ==
    /\ bridge # << >>
    /\ bridge' = Tail(bridge)
    /\ LET t == Head(bridge).task
           kind == IF autoWake THEN "prompt" ELSE "inject"
       IN  IF Head(bridge).quiet
           THEN UNCHANGED <<delivered, cmds>>
           ELSE /\ delivered' = IF autoWake THEN delivered \cup {t} ELSE delivered
                /\ cmds' = Append(cmds, [kind |-> kind, task |-> t])
    /\ UNCHANGED <<autoWake, tasks, unread, reported, session, history, bounds>>

-----------------------------------------------------------------------------
(* The session actor.                                                      *)

(* queue_input of a synthetic prompt marks its id reported, then queues it.*)
QueueWake ==
    /\ cmds # << >> /\ Head(cmds).kind = "prompt"
    /\ cmds' = Tail(cmds)
    /\ LET t == Head(cmds).task
       IN  /\ reported' = reported \cup {t}
           /\ queue' = Append(queue, Wake(t))
    /\ turn' = IF Idle THEN Started(queue') ELSE turn
    /\ UNCHANGED <<autoWake, tasks, bridge, unread, delivered, notifs, suppressed, history,
                   bounds>>

(* maybe_drain_notifications, given the queue, the notifications and       *)
(* whether no turn runs: an idle session batches all of them into one turn *)
(* and marks them reported.                                                *)
MaybeDrain(q, ns, free) ==
    IF free /\ q = << >> /\ ~suppressed /\ ns # << >>
    THEN /\ queue' = <<Drain(Elems(ns))>>
         /\ notifs' = << >>
         /\ reported' = reported \cup Elems(ns)
         /\ turn' = Turn("start")
    ELSE /\ queue' = q
         /\ notifs' = ns
         /\ reported' = reported
         /\ turn' = IF free THEN Started(q) ELSE turn

(* The oldest notifications beyond the limit are dropped.                  *)
Newest(ns) == IF Len(ns) > MaxPending THEN SubSeq(ns, Len(ns) - MaxPending + 1, Len(ns)) ELSE ns

InjectNotification ==
    /\ cmds # << >> /\ Head(cmds).kind = "inject"
    /\ cmds' = Tail(cmds)
    /\ MaybeDrain(queue, Newest(Append(notifs, Head(cmds).task)), Idle)
    /\ UNCHANGED <<autoWake, tasks, bridge, unread, delivered, suppressed, history, bounds>>

(* What carries a completion to the session, or waits behind its turn.     *)
Carried ==
    {bridge[i].task : i \in {j \in DOMAIN bridge : ~bridge[j].quiet}}
        \cup {cmds[i].task : i \in DOMAIN cmds}
        \cup Ids(IF Idle THEN queue ELSE Tail(queue))

(* What leaves with a turn that is aborted: everything it holds and has    *)
(* not yet put into the conversation, the tasks of its wait that have      *)
(* ended without being announced in another way included.                  *)
InHand ==
    turn.hand \cup turn.got \cup turn.used \cup ((turn.wait \cap done) \ Carried)
        \cup (IF turn.pc \in {"start", "listed", "asked", "answered"} THEN Head(queue).ids ELSE {})

Unmarked(q) == delivered \ Ids(Only(q, {e \in Entries : IsWake(e)}))

(* cancel_running_task on the running turn: q remains of the queue, and    *)
(* the wakes among the dropped inputs are un-marked.  The waits of the     *)
(* turn are still registered.                                              *)
AbortTurn(q, dropped) ==
    /\ delivered' = Unmarked(dropped)
    /\ aborted' = aborted \cup InHand
    /\ queue' = q
    /\ turn' = Started(q)

(* queue_input of a user prompt.  Queued wakes arm a sweep of everything   *)
(* synthetic behind the running turn, whose ids are un-marked.  When the   *)
(* turn is blocked in a wait and no user prompt is held, the prompt goes   *)
(* first and the turn is cancelled for it.                                 *)
Behind == IF Idle THEN queue ELSE Tail(queue)
Running == IF Idle THEN << >> ELSE <<Head(queue)>>
Armed == \E i \in DOMAIN Behind : IsWake(Behind[i])
Kept == IF Armed THEN Only(Behind, {e \in Entries : ~IsSynthetic(e)}) ELSE Behind
Swept == IF Armed THEN Only(Behind, {e \in Entries : IsSynthetic(e)}) ELSE << >>

AutoSendNow == turn.pc = "wait" /\ \A i \in DOMAIN Behind : IsSynthetic(Behind[i])

UserPrompt ==
    /\ prompts < MaxPrompts
    /\ prompts' = prompts + 1
    /\ suppressed' = FALSE
    /\ preempted' = preempted \cup Ids(Swept)
    /\ IF AutoSendNow
       THEN AbortTurn(<<User>> \o Kept, Append(Swept, Head(queue)))
       ELSE /\ queue' = Running \o Append(Kept, User)
            /\ turn' = IF Idle THEN Started(queue') ELSE turn
            /\ delivered' = Unmarked(Swept)
            /\ aborted' = aborted
    /\ UNCHANGED <<autoWake, tasks, bridge, unread, reported, cmds, notifs, told, swallowed,
                   awaited, cancels, calls>>

(* Cancel: only the running turn is dropped, and notifications stay quiet  *)
(* until the user's next prompt.                                           *)
Cancel ==
    /\ cancels < MaxCancels
    /\ ~Idle
    /\ cancels' = cancels + 1
    /\ suppressed' = TRUE
    /\ AbortTurn(Tail(queue), <<Head(queue)>>)
    /\ UNCHANGED <<autoWake, tasks, bridge, unread, reported, cmds, notifs, told, preempted,
                   swallowed, awaited, prompts, calls>>

(* Cancel with rewind_if_pristine, possible from the promotion until the   *)
(* first event: the conversation is cut at the turn's own prompt, and      *)
(* nothing is un-marked.                                                   *)
Rewind ==
    /\ cancels < MaxCancels
    /\ ~Idle /\ turn.pristine
    /\ cancels' = cancels + 1
    /\ suppressed' = FALSE
    /\ told' = IF turn.pc = "loop" THEN told \ Head(queue).ids ELSE told
    /\ aborted' = aborted \cup InHand \cup Head(queue).ids
    /\ queue' = Tail(queue)
    /\ turn' = Started(Tail(queue))
    /\ UNCHANGED <<autoWake, tasks, bridge, unread, sets, cmds, notifs, preempted, swallowed,
                   awaited, prompts, calls>>

-----------------------------------------------------------------------------
(* The start of a turn: drain_between_turn_completions.                    *)

(* drain_between_turn_bash_completions lists and marks in one step.        *)
DrainBash ==
    /\ turn.pc = "start"
    /\ LET new == (Bash \cap done) \ reported
       IN  /\ reported' = reported \cup new
           /\ turn' = [turn EXCEPT !.pc = "listed", !.hand = new]
    /\ UNCHANGED <<autoWake, tasks, bridge, unread, delivered, cmds, queue, notifs, suppressed,
                   history, bounds>>

(* The bash reminder is pushed; the ids a wake has already delivered are   *)
(* copied into the request to the coordinator.                             *)
AskCoordinator ==
    /\ turn.pc = "listed"
    /\ told' = told \cup turn.hand
    /\ turn' = [turn EXCEPT !.pc = "asked", !.hand = {}, !.suppress = delivered]
    /\ UNCHANGED <<autoWake, tasks, bridge, unread, sets, cmds, queue, notifs, suppressed,
                   preempted, aborted, swallowed, awaited, bounds>>

(* SubagentEvent::Completions empties the coordinator's buffer and returns *)
(* what is not to be suppressed.                                           *)
Completions ==
    /\ turn.pc \in {"asked", "asking"}
    /\ unread' = {}
    /\ turn' = [turn EXCEPT !.pc = IF @ = "asked" THEN "answered" ELSE "applying",
                            !.got = unread \ turn.suppress]
    /\ UNCHANGED <<autoWake, tasks, bridge, sets, cmds, queue, notifs, suppressed, history,
                   bounds>>

(* The subagent reminder and the turn's own prompt enter the conversation. *)
PushPrompt ==
    /\ turn.pc = "answered"
    /\ told' = told \cup turn.got \cup Head(queue).ids
    /\ turn' = Turn("loop")
    /\ UNCHANGED <<autoWake, tasks, bridge, unread, sets, cmds, queue, notifs, suppressed,
                   preempted, aborted, swallowed, awaited, bounds>>

-----------------------------------------------------------------------------
(* A tool call of the turn.                                                *)

(* collect_reminders drains AutoWakeDeliveredIds; from here the pass will  *)
(* not repeat those, nor what the tool's own result tells.                 *)
CollectFrom(S) ==
    /\ delivered' = {}
    /\ turn' = [Turn("marking") EXCEPT !.suppress = S \cup delivered, !.used = S,
                                       !.pristine = FALSE]

(* A call that asks for the output of tasks, and learns which have ended.  *)
ToolCall(S) ==
    /\ calls < MaxCalls
    /\ turn.pc = "loop"
    /\ calls' = calls + 1
    /\ CollectFrom(S \cap done)
    /\ UNCHANGED <<autoWake, tasks, bridge, unread, reported, cmds, queue, notifs, suppressed,
                   history, prompts, cancels>>

(* A call of kill_task: its result names the task.  A bash task ends with  *)
(* the call, and its waiters are answered; a subagent is only cancelled.   *)
KillTask(t) ==
    /\ calls < MaxCalls
    /\ turn.pc = "loop"
    /\ t \notin done
    /\ calls' = calls + 1
    /\ killed' = killed \cup {t}
    /\ IF t \in Bash
       THEN /\ done' = done \cup {t}
            /\ waited' = waited \ {t}
            /\ waiters' = Unregistered(t)
            /\ bridge' = Append(bridge, [task |-> t, quiet |-> TRUE])
       ELSE UNCHANGED <<done, waited, waiters, bridge>>
    /\ CollectFrom({t})
    /\ UNCHANGED <<autoWake, unread, reported, cmds, queue, notifs, suppressed, history,
                   prompts, cancels>>

(* A blocking call looks its tasks up and spawns a helper for each that    *)
(* still runs.                                                             *)
BeginWait(S) ==
    /\ calls < MaxCalls
    /\ turn.pc = "loop"
    /\ S \ done # {}
    /\ calls' = calls + 1
    /\ waiters' = [t \in Tasks |-> IF t \in S \ done THEN [waiters[t] EXCEPT ![calls'] = "spawned"]
                                    ELSE waiters[t]]
    /\ turn' = [turn EXCEPT !.pc = "wait", !.wait = S, !.pristine = FALSE]
    /\ UNCHANGED <<autoWake, done, killed, waited, bridge, unread, sets, cmds, queue, notifs,
                   suppressed, history, prompts, cancels>>

(* The call returns on its first answer (wait_any), on the last (wait_all) *)
(* or at its own deadline, whenever that is: its helpers are told to stop, *)
(* and every task is looked up again.                                      *)
EndWait ==
    /\ turn.pc = "wait"
    /\ CollectFrom(turn.wait \cap done)
    /\ UNCHANGED <<autoWake, tasks, bridge, unread, reported, cmds, queue, notifs, suppressed,
                   history, bounds>>

(* The reminder pass marks what it suppresses and reports the bash tasks   *)
(* that are then still new.                                                *)
ReminderMarks ==
    /\ turn.pc = "marking"
    /\ LET new == (Bash \cap done) \ (reported \cup turn.suppress)
       IN  /\ reported' = reported \cup turn.suppress \cup new
           /\ turn' = [turn EXCEPT !.pc = "asking", !.hand = new]
    /\ UNCHANGED <<autoWake, tasks, bridge, unread, delivered, cmds, queue, notifs, suppressed,
                   history, bounds>>

(* Of the coordinator's answer, what nobody has reported meanwhile.        *)
ReminderApplies ==
    /\ turn.pc = "applying"
    /\ reported' = reported \cup turn.got
    /\ turn' = [turn EXCEPT !.pc = "done", !.hand = @ \cup (turn.got \ reported), !.got = {}]
    /\ UNCHANGED <<autoWake, tasks, bridge, unread, delivered, cmds, queue, notifs, suppressed,
                   history, bounds>>

(* Fault: every queued wake is dropped, also those of other tasks.         *)
ConsumesAny(S, e) == IsWake(e)

(* A queued wake is dropped when all it tells is in the tool's own result. *)
Consumes(S, e) == IsWake(e) /\ e.ids \subseteq S

(* handle_bridge_tool_success: wakes and notifications of the tasks the    *)
(* result tells of are dropped, never the running turn's own slot; result  *)
(* and reminders enter the conversation.                                   *)
ToolSuccess ==
    /\ turn.pc = "done"
    /\ queue' = <<Head(queue)>> \o Only(Tail(queue), {e \in Entries : ~Consumes(turn.used, e)})
    /\ notifs' = Only(notifs, Tasks \ turn.used)
    /\ told' = told \cup turn.hand \cup turn.used
    /\ turn' = [Turn("loop") EXCEPT !.pristine = FALSE]
    /\ UNCHANGED <<autoWake, tasks, bridge, unread, sets, cmds, suppressed, preempted, aborted,
                   swallowed, awaited, bounds>>

(* The turn ends: its front is popped, the next prompt starts, and an idle *)
(* session drains its notifications.                                       *)
TurnEnds ==
    /\ turn.pc = "loop"
    /\ MaybeDrain(Tail(queue), notifs, TRUE)
    /\ UNCHANGED <<autoWake, tasks, bridge, unread, delivered, cmds, suppressed, history, bounds>>

-----------------------------------------------------------------------------
Owners ==
    \E t \in Tasks :
        \/ BashExits(t)
        \/ \E c \in BOOLEAN : SubagentFinishes(t, c)
        \/ \E n \in Calls :
             \/ RegisterWait(t, n) \/ HelperAborted(t, n)
             \/ WaitExpires(t, n)
             \/ SubagentWaiterGone(t, n)

Actor == QueueWake \/ InjectNotification

TurnSteps ==
    \/ DrainBash \/ AskCoordinator \/ PushPrompt
    \/ EndWait \/ ReminderMarks \/ ReminderApplies \/ ToolSuccess

ModelCalls ==
    \/ \E S \in SUBSET Tasks : ToolCall(S) \/ BeginWait(S)
    \/ \E t \in Tasks : KillTask(t)

Next ==
    \/ Owners
    \/ TaskCompleted
    \/ Actor
    \/ UserPrompt \/ Cancel \/ Rewind
    \/ TurnSteps \/ Completions \/ ModelCalls \/ TurnEnds

Spec == Init /\ [][Next]_vars

(* Tasks may run for ever and the user may stay away.  Actors, the bridge, *)
(* helpers, the poll loops and a turn that has work take their next step;  *)
(* a wait has a deadline; and the model, which makes finitely many calls,  *)
(* ends its turn.                                                          *)
Fairness ==
    /\ WF_vars(TaskCompleted) /\ WF_vars(Actor)
    /\ WF_vars(TurnSteps) /\ WF_vars(Completions)
    /\ WF_vars(TurnEnds)
    /\ \A t \in Tasks, n \in Calls :
         /\ WF_vars(RegisterWait(t, n)) /\ WF_vars(HelperAborted(t, n))
         /\ WF_vars(SubagentWaiterGone(t, n)) /\ WF_vars(WaitExpires(t, n))

FairSpec == Spec /\ Fairness

-----------------------------------------------------------------------------
(* A wait belongs to a call that was made, and is registered only for a    *)
(* task that runs, as is the block_waited flag that matters.               *)
WaitsOK ==
    /\ waited \subseteq Tasks \ done
    /\ waiters \in [Tasks -> [Calls -> WaitStates]]
    /\ calls \in 0 .. MaxCalls
    /\ \A t \in Tasks, n \in Calls : waiters[t][n] # "none" => n <= calls
    /\ \A t \in done : Registered(t) = {}

(* Values have their types; waits belong to calls; only a session without  *)
(* a turn has an empty queue; the pending notifications keep within their  *)
(* limit.                                                                  *)
TypeOK ==
    /\ done \subseteq Tasks /\ killed \subseteq Tasks
    /\ WaitsOK
    /\ unread \subseteq Subagents \cap done
    /\ delivered \subseteq done /\ reported \subseteq Tasks
    /\ told \subseteq Tasks
    /\ queue \in Seq(Entries)
    /\ turn.pc \in TurnPcs
    /\ Len(notifs) <= MaxPending
    /\ (queue = << >>) = Idle

(* What still carries a completion towards the conversation.               *)
OnTheWay ==
    {bridge[i].task : i \in {j \in DOMAIN bridge : ~bridge[j].quiet}}
        \cup {cmds[i].task : i \in DOMAIN cmds}
        \cup Ids(queue)
        \cup turn.hand \cup turn.got \cup turn.used \cup turn.wait

(* What a later reminder pass would still find and report.                 *)
Remindable == ((Bash \cap done) \ reported) \cup unread

(* Between the surfaces no completion disappears: when a task has ended,   *)
(* the model has been told, or something carries the news to it, or a      *)
(* later reminder will find it -- unless the user's own prompt or cancel   *)
(* threw it away.  Marking an id reported (queue_input, the reminder pass, *)
(* both drains), emptying the coordinator's buffer and sweeping consumed   *)
(* wakes may each happen between any two steps of the others.              *)
NothingVanishes == done \subseteq told \cup OnTheWay \cup Remindable \cup preempted \cup aborted

(* A bash task whose exit a registered wait of the running call received   *)
(* is never announced as well: block_waited is what the bridge looks at,   *)
(* and neither another wait's expiry nor a cancelled wait may have cleared *)
(* it.  (A task that exits before its wait is registered may be answered   *)
(* and announced both.)                                                    *)
AwaitedIsNotWoken == awaited \cap (Carried \cup Elems(notifs)) = {}

(* The model is told of every natural end without anybody having to        *)
(* prompt it, when a wake or a notification can do so: a wait that was     *)
(* cancelled, or expired, or lost to another one must not keep the wake    *)
(* silent.  The exceptions: the user's prompt or cancel threw it away; it  *)
(* fell into the moment between the end of a call and the abort of its     *)
(* helpers, which still received it.  A subagent wakes only with auto-wake *)
(* on; without it a cancel leaves notifications waiting for the next       *)
(* prompt, suppressed or, after a rewind, merely not drained; and their    *)
(* limit drops the oldest.                                                 *)
Announced(t) ==
    \/ t \in told \cup preempted \cup aborted \cup killed \cup swallowed
    \/ ~autoWake /\ (cancels > 0 \/ Cardinality(Bash) > MaxPending)

EventuallyTold ==
    \A t \in Tasks : (t \in done /\ (autoWake \/ t \in Bash)) ~> Announced(t)

(* A wake that gives way to a user prompt is un-marked so that a reminder  *)
(* can report it on its next pass.                                         *)
PreemptedIsRemindable == preempted \subseteq told \cup OnTheWay \cup Remindable \cup aborted
=============================================================================
