# A verification of grodex

TLA+ models of the concurrent core of grodex (a fork of Grok Build), the TLC
instances that check them, and TLAPS proofs of their main invariants.

* [1 The system](#1-the-system)
* [2 Plan](#2-plan)
* [3 The session actor](#3-the-session-actor)
* [4 The circuit breaker](#4-the-circuit-breaker)
* [5 The upload queue](#5-the-upload-queue)
* [6 Completion delivery](#6-completion-delivery)
* [7 The leader election](#7-the-leader-election)
* [8 Runs and proofs](#8-runs-and-proofs)
* [9 Where the code and its comments disagree](#9-where-the-code-and-its-comments-disagree)
* [10 What is not modelled](#10-what-is-not-modelled)

`PROJECT.json` holds the same facts in tabular form: the components, the runs,
which source lines each definition translates (`map`), the faults each property
was seen to catch (`mutants`), the hazards and the theorems.

## 1 The system

grodex is an agent core with three faces: a terminal client, a desktop window
(web UI behind a small bridge process) and an API (ACP over stdio). One
conversation is one session, and one session is one *session actor*. A leader
process may own the sessions of a machine and serve several clients over a
socket. Everything below is in `src/crates` unless it says otherwise.

| Component | State it keeps | Operations | Interacts with | What is hard about it |
|---|---|---|---|---|
| **Session actor** (`codegen/xai-grok-shell/src/session`) | the prompt queue, the promoted turn, the pin of the current prompt, the rewind flag, the interjection buffer, the wait depth, the goal gate | prompt, send-now, interject, edit/remove/reorder/clear rows, cancel (plain, rewinding, hard), completion, notification drains, auto-wake and goal prompts, shutdown | the turn tasks it spawns, two other tasks that also start turns, every attached client | every `await` in a handler lets other tasks run; completions, cancels and starts race; the queue's front *is* the running turn |
| **Prompt-queue wire types** (`codegen/xai-prompt-queue`) and the **interjection buffer** (`common/xai-interjection-core`) | rows with versions and owners; buffered texts | broadcast, drain, format | session actor, clients | clients act on stale rows |
| **Circuit breaker** (`common/xai-circuit-breaker`) | state, its lock-free mirror, two dates, a probe count, a sliding window | `check`, `record`, `error_rate` | the storage client and every thread that calls it | five atomics with no common lock; abandoned probes |
| **Turn loop, tools** (`session/acp_session_impl/turn.rs`, `tool_calls.rs`; `codegen/xai-grok-tools`) | the turn's locals, pending tool calls | sample, call tools, compact, wait | sampler, chat state, actor's shared flags | aborted at any `await` |
| **Completion suppression** (`reminders/task_completion.rs`, `tools/notification_bridge.rs`) | pending notifications, delivered and reported sets, the monitor buffer | buffer, wake, drain, suppress | session actor, background tasks | a completion reported twice or never |
| **Subagent coordinator** (`agent/subagent`) | pending, active, completed subagents; backgrounded set | spawn, wait, cancel, collect | parent turn, child session actors | outstanding children of a cancelled turn |
| **Chat-state actor** (`codegen/xai-chat-state`) | conversation, token counts, persistence cursor | push, replace, truncate, compact, query | turn, persistence | pairing of tool calls with results after truncation |
| **Sampler** (`codegen/xai-grok-sampler`) | attempt count, backoff | stream, classify, retry | model API, auth | which errors are retried, and how often |
| **Leader** (`xai-grok-shell/src/leader`, `agent/app.rs`) | lock file with a pid, socket, client registry, request-id map, session ownership | elect, connect or spawn, route, take over | client processes | a lock on an unlinked inode, paths unlinked under another process, a duplicate that must give up |
| **Computer-hub SDK** (`common/xai-computer-hub-sdk`) | connection pool, reference counts, pending calls, admission permits | connect, call, reconnect, cancel, sweep | tool servers | replies after reconnect, permits on cancel |
| **Upload queue, storage client** (`codegen/xai-file-utils`) | spilled items with sidecars, in-flight set, stats, disk budget | enqueue, upload with retries, park on 401, drain, recover | storage service, breaker | a crash between item and sidecar; parked items |
| **Workspace, hunk tracker** (`codegen/xai-grok-workspace`, `xai-hunk-tracker`) | snapshots, attributed hunks | record, rewind, diff | tools, file system | edits made outside |
| **Hooks, MCP, memory, plugins** | registered servers and hooks | start, call, stop | external processes | start-up order |
| **Worktrees, file watching, journals, configuration, auth, update, crash handling** | files | read, write | file system | little protocol of their own |
| **Terminal client** (`codegen/xai-grok-pager`) | its copy of the queue, the view | render, send commands | session actor | convergence of the copy |
| **Bridge, web, desktop** (`src/apps`) | one agent process per session | start, prompt, cancel, hydrate | the agent over stdio | restart while a prompt is in flight |

What makes the modelled components correct is in sections 3 to 7;
the hazards behind each property are listed at
their source lines in `PROJECT.json`.

## 2 Plan

The order puts the behaviour that everything else hangs on first.

1. **PromptQueue, SessionActor** (done): the queue operators and the actor with
   the tasks that run beside it. Checked, and every safety property of it proved;
   the operators are proved to be the loops of the code (**QueueLoops**).
2. **CircuitBreaker** (done): the breaker at the grain of its atomics. Checked,
   and its type invariant, the window count and the uniqueness of a takeover proved.
3. **TurnScheduler** (done): what the session promises of a prompt, and
   SessionActor proved to implement it.
4. **UploadQueue, DurableUpload** (done): spill, sidecar, crash and recovery,
   parking on 401, drain; and the durable upload it implements. Checked, and
   every safety property and the refinement proved.
5. **CompletionDelivery** (done): the composition of session actor, terminal
   actor, notification bridge, subagent coordinator and turn in which a
   completion is told to the model. Checked, and its safety properties proved.
6. **LeaderElection** (done): lock, socket, spawn, takeover, with crashes.
   Checked, and its safety properties proved.
7. **SubagentCoordinator**: spawn, resume, the children of a cancelled,
   backgrounded or ended turn. CompletionDelivery has the announcement only.
8. **LeaderRouting**: the client registry, request ids and session ownership.
9. **SamplerRetry**, **HubConnection**, **ChatState**, **BridgeAgent**, the goal
   tracker and monitors.

What is left to prove of the modules there are is liveness, which is out of the
prover's reach. Its safety halves are proved: the turn slot is never held by a
turn that nothing will end (`RunningIsDriven`), a permit that is taken is in use
(`SlotsAreUsed`), a caller that waits is owed its answer (`WaiterIsOwed`).

## 3 The session actor

### Modules

* `PromptQueue` — pure operators on the queue: `Only` (the sweep), `InsertBehind`,
  `BehindRunning`, `SendNowSlot` (the insertion loop of `queue_input`), `Reordered`.
* `SessionActor` — the state machine.
* `TurnScheduler` — the abstract specification: a prompt is taken in once, gets
  the one turn slot at most once, and is answered once, by an answer that tells
  what became of it.
* `QueueLoops` — the loops of the code that `PromptQueue` gives in closed form, one
  element at a time: the sweep, the search for the send-now slot, the partition
  and the stable sort of a reorder (`sort_by_key` as an insertion sort).
* `MCSessionActor` — the instance for TLC. SessionActor extends `QueueLoops`, so
  that its runs also compare the operators with the loops on the queues they reach.
* `PromptQueueProofs`, `QueueLoopsProofs`, `SessionActorProofs`,
  `SessionSafetyProofs` — section 8.

### State

One variable per piece of shared state of `State` and `SessionActor` in
`acp_session.rs` (`queue`, `running`, `rewindable`, `pin`, `sendNow`, `version`,
`interjections`, `depth`, `gate`), what the clients were last told (`mirror`),
the tasks of the runtime (`task`, `guards`, `shown`, `completions`, `starters`),
the actor's own position (`pc`, `cx`, `stranded`), and two ghosts that only the
properties read: `answer`, what a prompt's `respond_to` was resolved with, and
`ended`, how many `TurnCompleted` terminals it has had.

A prompt is an identifier; what kind it is (typed, interjected, auto-wake, goal,
plan-resume, drain) is its membership in a constant set, as `PromptOrigin`
derives it from the id in the code. Its text is abstracted away.

### Grain

The session runs on a single-threaded `LocalSet`, so code between two `await`s
is atomic, and code across one is not. A step is a stretch of a handler between
awaits that matter: those at which another task can change state the handler
uses later. Consecutive awaits where nothing that is modelled can interfere are
merged. `pc` names the stretch that follows:

| `pc` | The actor is |
|---|---|
| `ready` | in `select!`; completions first, the select is biased |
| `cancel` | in `cancel_running_task`, the pin captured, the state lock not yet taken |
| `gate`, `abort` | past the lock; before the goal flag is cleared; before the task is aborted |
| `tail` | after the abort: answers, terminal, pin, next start |
| `popped` | in `handle_completion`, its turn popped |
| `flush`, `fallback` | turning stranded interjections into prompts |
| `stopped` | shut down |

### Actions and code

| Action | Code |
|---|---|
| `Prompt`, `WakePrompt`, `GoalSummaryTurn`, `InjectNotification` | `queue_input` and the arms of `run_session` that call it, with user preemption of synthetic prompts, the send-now slot and the automatic send-now of a waiting turn |
| `Interject`, `InsertStranded`, `FallbackDone` | the `Interject` arm and `queue_interjection_fallback_prompt` |
| `RemoveQueuedPrompt`, `EditQueuedPrompt`, `ReorderQueue`, `ClearQueue`, `InterjectQueuedPrompt`, `InterjectQueuedPromptMisses` | the row handlers of `prompt_queue.rs`, version and owner checks included |
| `Cancel`, `CancelLocked`, `CancelGate`, `CancelAbort`, `CancelTail` | `cancel_running_task`, one action per stretch |
| `HandleCompletion`, `HandleTurnEnd`, `CompletionDone` | `handle_completion` and the completion arm |
| `QueueResumeTurn`, `StarterStarts` | the plan-approval and MCP tasks, which call `maybe_start_running_task` beside the actor |
| `TurnEmits`, `TurnBeginsRound`, `TurnDrainsInterjections`, `TurnSendsCall`, `CallEntersWait`, `CallIsDropped`, `WaitGuardDrops`, `TurnConsumesCompletion`, `TurnScopeEnds`, `TurnSendsCompletion` | what a turn task does to state the actor shares with it |
| `Shutdown`, `Stopped` | the end of the loop |

`MaybeStart` is `maybe_start_running_task`; every action that calls it includes
it, and the broadcast it ends with.

### Abstractions

* The conversation and every side effect on it are left out, as are hooks,
  telemetry and persistence of updates.
* Which notifications a drain carries is left out here (section 6); that a drain prompt is queued
  is a choice of the environment. So is whether a turn's end continues a goal.
* A turn's inside is the set of things it can do to shared state, in any order
  the code allows; tool calls themselves are left out.
* A call that blocks in a wait does so in a task of its own: the drainer that
  polls the turn's tool futures, or the coordinator's task for a foreground
  subagent. The turn sends the call; its guard is entered when that task first
  runs it, also when the turn has been aborted or has ended meanwhile (an early
  return of the turn leaves its calls behind), and is dropped at the end of the
  wait or when the future is dropped, which is later still. A call that the
  aborted drainer never ran has no guard.
* `TurnDrainsInterjections` takes the buffer in one step; the entries are injected
  one by one across awaits, and count as merged from the step that takes them, as
  an abort in between takes the rest with it.

### Properties

| Property | What it says |
|---|---|
| `TypeOK` | types; in particular the wait depth never underflows although guards drop after it was zeroed |
| `FrontIsRunning` | the promoted turn is at the front of the queue |
| `PinAgrees` | the pin, and the pin a cancel captured before the lock, name the running task: the `debug_assert` of `cancel_running_task` |
| `NoPromptLost` | an accepted, unanswered prompt is in exactly one place, once |
| `Schedules` | the actor implements `TurnScheduler`: no prompt gets a second turn, no two turns hold the slot, a promoted prompt never waits again, a user prompt is never dropped silently or cancelled before it ran |
| `NoOrphanTurn` | nothing runs but the promoted turn and, before its abort, the cancelled one |
| `RunningIsDriven` | the promoted turn still runs or its completion is on its way: no dead turn holds the slot |
| `OneTerminalPerTurn` | one `TurnCompleted` per turn, none for a rewound one |
| `NothingStranded` | an idle session has no interjection buffered and no prompt nobody will start |
| `DepthIsHeld` | the wait depth never outnumbers the guards held, so it returns to 0 with the last of them, although guards enter and drop after a cancel has stored 0 |
| `DepthIsCurrent` | the depth a prompt finds is not the work of aborted turns alone: what the store of 0 is for; violated, section 9 |
| `RewindIsPristine` | only a turn that has shown nothing is rewound |
| `RowsMirrored` | at rest the clients' last broadcast is the queue |
| `EventuallyAnswered` | every accepted prompt is answered, or the session shut down |
| `SweepKeepsOrder`, `SendNowSlotIsLoop`, `ReorderIsStableSort` | on the queues reached, the closed forms of the queue operators are what the loops of the code compute |

`Schedules` is a refinement: the phase of a prompt is its answer once it has
one; before that it is running when it is the promoted turn, being cancelled,
rewound or killed when a cancel has taken it and not yet answered it, and
waiting otherwise (queued, buffered, or stranded between two turns).

### Fairness

`EventuallyAnswered` is checked under `FairSpec`: weak fairness of the actor
(the runtime polls a woken task), of each starter task and of each waiting call
(it is polled, and its wait has a timeout or an end), and strong fairness of a
turn sending its completion once none of its calls waits (a turn may go into a
wait again, but not for ever: the loop is bounded by the sampler's and the
tools' own limits). No fairness is assumed of
any client: prompts, cancels and edits may never come.

### Bounds

Each identifier is used once. `MaxVersion` bounds the edits of a row (one edit
already makes a stale version), `Waiters` and `GoalTurns` name the turns that
may wait or loop, `Calls` how many calls of a turn wait at the same time (one;
two in `SessionStaleWait`). The races
involve at most three parties (a victim, a successor, a bystander in the queue),
so two user prompts and one prompt of another kind reach them; the row handlers
get three rows and two clients, which is the least at which a reorder names some
rows and not others and a version can be stale for one client only.

## 4 The circuit breaker

### Modules

`CircuitBreaker`, its instance `MCCircuitBreaker`, `CircuitBreakerProofs`.

### State and grain

The atomics of `CircuitBreakerInner` (`state`, `fast` for `is_open_fast`,
`opened`, `claimed`, `probes`), the window (`entries`, `failures`) and for each
caller its position, the clock reading and the loaded date it holds. A step is
one access to an atomic, one critical section of the window's mutex, or one
reading of the clock. Where the code reads the clock and stores the result in
one expression (`trip`) or compares with it at once (`check_open`), the two are
one step. The interleaving is sequentially consistent: weaker orders of the
`Relaxed` mirror are left out.

Dates are kept as ages, which saturate at `Horizon`. `Horizon` exceeds every
difference the code compares, and a caller holds a reading for at most
`MaxStall` ticks, so a saturated age is never mistaken for another in the
`compare_exchange`: a date that was changed since it was loaded is at most
`2 * MaxStall` old. The probe count keeps its width: `fetch_sub` after a
concurrent reset wraps.

### Actions and code

`Check`, `LoadOpened`, `CompareElapsed`, `CasHalfOpen`, `MirrorHalfOpen`,
`Reevaluate` are `check` and `check_open`; `ReadClock`, `AddProbe`, `StoreClaim`,
`SubProbe`, `LoadClaim`, `TakeOver` are `try_half_open_probe`; `Record`, `Sample`
are `record`; `TripState` … `TripFast` and `CloseState` … `CloseFast` are the
stores of `trip` and `close` in order; `ReadErrorRate` is `error_rate`, which
evicts. `Abandon` is a call that is never recorded: its future is dropped, or it
ends in a status the storage client records as neither outcome. `Push` and
`Evict` are the window's, kept as operators.

### Properties

| Property | What it says |
|---|---|
| `TypeOK` | types, and the window's limit |
| `WindowCounts` | the incremental failure count is the number of failing entries, although samples arrive out of order |
| `OneTakeover` | a claim younger than the lease is never taken over: one replacement per expired probe |
| `KeepsProbing` | as long as callers ask, one is admitted again and again |

`KeepsProbing` assumes that callers keep calling (it says nothing of a breaker
nobody asks), that a started call goes on, that a request ends one way or the
other (it has a timeout) and that time passes; `Tick` gets strong fairness
because the bound `MaxStall` disables it now and then, which real time is not.

That an open breaker cools down for `open_duration` is no property here: `trip`
publishes `Open` before it dates it, so an overlapping caller may compare the
clock with the date of an earlier trip; nothing in the repository promises
otherwise.

### Bounds

Two callers, both inside. One tick is a whole `open_duration`, so a cool-down and
a lease expire within two ticks. The window of `BreakerRaces` holds two entries
and closes with its tick. A caller that has read the clock before the tick may
push after one that read it later: an expired entry then stands behind a young
one, which shields it from the eviction, and the limit takes the young one first.
The fault of `WindowCounts` is an eviction that recounts all expired entries,
also those it leaves. `WordMax` is the least at which a
count that wrapped below zero differs from any count two callers can reach.

## 5 The upload queue

### Modules

`UploadQueue`, its instance `MCUploadQueue`, and `DurableUpload`, what the queue
promises of an artifact: open, accepted, stored or dropped. The proofs are in
`UploadQueueProofs` (section 8).

### State and grain

On disk: the temp file of an artifact (absent, torn or whole), its sidecar and
whether both are older than `max_age`; in the object store, what has arrived. In
the process: where each enqueue call is and what its caller was told, the
bounded channel, the items (`job`) with their attempts, the concurrency permits,
the worker's position, the three gauges of `UploadQueueStats`, the in-flight
set, and the detached reconcile with its snapshot of the directory. An artifact
can be in the queue twice, as its caller sent it and as recovery found it.
`abandoned` is a history variable: what a policy has given up.

The queue runs on a multi-threaded runtime: a step is one operation on the disk,
one access to a shared counter or set, or one await. What a task does to its own
item between two of them is one step.

### Actions and code

| Action | Code |
|---|---|
| `Begin`, `WriteTemp`, `WriteFails`, `CheckBudget`, `WriteSidecar`, `Count`, `Send`, `SendFails`, `InlineUpload` | `enqueue`, `enqueue_bytes_blocking` and `enqueue_blocking` over `enqueue_core` |
| `LoopTop`, `CooldownEnds`, `Recv`, `Dispatch`, `SeeShutdown`, `Drained`, `DropHandles`, `ChannelEnds`, `Join` | `upload_worker`, and the drop of the last handle, which ends the channel and the shutdown signal: either branch of the select may see it |
| `Start`, `Attempt`, `Uploaded`, `Terminal`, `Retryable`, `AuthRetry`, `Park`, `Wake`, `ParkEnds`, `CredentialGone`, `Reacquire` | the task of an item: retries, one refresh of the credentials, parking without a permit |
| `RemoveTemp`, `RemoveSidecar`, `SettleInflight`, `SettlePending` | `remove_item_files`, `settle_pending` |
| `Drain`, `DrainTimesOut` | `drain` and its deadline, which aborts the tasks |
| `RecoverScan`, `RecoverCheck`, `Reenqueue`, `RecoverDone`, `Purge` | `run_startup_recovery`, `purge_spilled_items`, and the once-per-process claim of the reconcile |
| `Crash`, `Restart` | the end of the process or of the machine; `cleanup_orphaned_uploads` |

The fault model: a crash at any step loses everything but the disk; a power cut
may also tear any temp file, since only the sidecar is synced, and take any
sidecar, since the directory of its rename is not. What a power cut takes counts
as given up in that step. Files that were removed do not come back. The network, the
credentials and the clock answer as they please. All artifacts have one size,
one unit of the budget. The worker exits when its `JoinSet` is empty, which
knows the tasks it has spawned and not what is in the channel or in the worker's
hand: that these are empty by then is a property (`DrainLeavesNothing`), not a
guard of `Join`.

### Properties

| Property | What it says |
|---|---|
| `TypeOK` | types; permits and channel within their limits although parked items give permits back |
| `KeepsPromise` | the queue implements `DurableUpload`: an accepted artifact stays on disk, whole and with its sidecar, until it is stored or a policy drops it, and no waiter is told of an upload that was none |
| `CloudIsWhole` | no torn file reaches the store |
| `IdleMeansSettled` | `pending = 0` (what `wait_idle` waits for) means that no item is unsettled |
| `GaugesHold` | `inflight <= pending`, and `pending_bytes` covers what the unsettled items will subtract |
| `MarksAreHeld` | a destination marked in flight has a call or an item behind it |
| `SlotsAreUsed` | the permits taken are those of tasks that run: nothing is on the wire without one, and no item keeps one while it is parked or after it has ended |
| `WaiterIsOwed` | a caller of `enqueue_blocking` that waits is owed the answer by an unsettled item of its own or an inline upload |
| `DrainLeavesNothing` | when the worker has exited, and `drain` answers that nothing remains, no item is unsettled |
| `DrainCompletes` | `drain` returns although its deadline never passes |
| `WaiterReleased` | the caller of `enqueue_blocking` does not wait for ever |

### Fairness and bounds

Every task and the worker go on and the network answers: weak fairness. A tokio
semaphore serves its waiters in order, so acquiring a permit gets strong
fairness, as does seeing the shutdown signal in a select that other arms keep
winning. Nothing is assumed of the clock, the credentials, the callers or the
deadline of `drain`; the liveness holds with credentials rejected for ever.

One artifact suffices for `UploadCrash`, because every safety property speaks of
one artifact and its two possible items, and these meet at one permit and a
channel of one; two crashes allow a recovery that is itself cut short. Artifacts
that compete are in `UploadLive`: two callers, one permit, one place in the
channel, one unit of budget.

## 6 Completion delivery

### Module and state

`CompletionDelivery` composes five actors around the question how the model
learns that a background task has ended: the terminal actor (bash tasks), the
coordinator (subagents), the notification bridge, the session actor and the
running turn. Variables: what has ended or was killed, `block_waited`, the
helper tasks that wait for a call (spawned, registered with a receiver, or
registered although the receiver has gone), the two queues between the actors, the coordinator's buffer (`unread`),
`AutoWakeDeliveredIds`, `ReportedTaskCompletions`, the session's mailbox, queue,
notifications and suppression flag, and the turn. `told` is what the
conversation says. `preempted`, `aborted`, `swallowed` and `awaited` are history:
what the user's own prompt or cancel threw away, the ends that only a helper
received whose call was over, and the bash exits that a running call received. Sweeps of the prompt queue and of the notifications
are `Only` of `PromptQueue`, as in SessionActor. The proofs are in
`CompletionDeliveryProofs` (section 8).

A step is one message handled by an actor, or one stretch of a turn between two
awaits; the reminder pass, for one, is three (it empties the delivered set and
marks, asks the coordinator, applies the answer).

### Actions and code

| Action | Code |
|---|---|
| `BashExits`, `WaitExpires`, `KillTask`, `RegisterWait` | `poll_all_processes`, `handle_kill`, `handle_wait_for_completion` of the terminal actor; a wait that registers after its task has exited or been evicted is answered at once |
| `BeginWait`, `HelperAborted` | the look-up of a blocking call and the helpers it spawns; their drop, some time after the call has ended or been aborted |
| `SubagentFinishes`, `SubagentWaiterGone`, `Completions` | the end of `handle_subagent_request`, the coordinator's query loop, its answer to the reminder |
| `TaskCompleted` | the bridge |
| `QueueWake`, `InjectNotification`, `UserPrompt`, `Cancel`, `Rewind`, `TurnEnds` | the session actor, `MaybeDrain` included |
| `DrainBash`, `AskCoordinator`, `PushPrompt` | `drain_between_turn_completions` at the start of a turn |
| `ToolCall`, `EndWait`, `ReminderMarks`, `ReminderApplies`, `ToolSuccess` | a tool call, the reminders it collects and what its result consumes |

A wait is several steps of several tasks. The call looks up its tasks, then
spawns a helper for each that still runs; the helper registers later, when the
task may have ended and its `TaskCompleted` be on its way; the call ends with the
first answer, the last one or its own deadline, looks the tasks up again and
tells what has ended by then; and the helpers go when the runtime drops them, so
that the end of a task may still be received on behalf of a call that is over.
An abort of the turn does not touch them.

Left out: monitors and their buffer, goals (which drop completions on purpose),
and the order of the prompt queue beyond its front, the subject of SessionActor.
The coordinator's look at a subagent and its answer to an expired wait are one
step; the status it may answer with is not used, as the call looks up again.

### Properties

| Property | What it says |
|---|---|
| `TypeOK` | types; a registered wait belongs to a call that was made and to a task that runs; a turn runs whenever the queue is not empty; the notification limit |
| `NothingVanishes` | an ended task is told, on its way, or still to be found by a reminder, unless the user threw it away |
| `AwaitedIsNotWoken` | the exit of a bash task that the registered wait of a running call received does not also wake the model, whatever other waits expired, were aborted or linger; a wait that registers after the exit gets the result beside the wake, and is no part of it |
| `EventuallyTold` | the model is told of every natural end without being prompted, if a wake or a notification can do it; a task that still ran when the wait for it was cancelled is no exception, only one whose end nobody but a lingering helper received (`swallowed`) |
| `PreemptedIsRemindable` | what a comment says of preempted wakes; violated, section 9 |

### Fairness and bounds

Actors, bridge, poll loops, helpers and a turn with work to do take their next
step; a wait has a deadline; the model makes finitely many calls and ends its
turn. Tasks may run for ever and the user may stay away. One bash task and one
subagent, one user prompt, one cancel and two calls (a wait and another call
after it, or two waits whose helpers overlap) bring every pair of surfaces
together: the turns before and after that prompt are those the wakes and the
notifications start, so it can preempt a wake, send itself now into a wait, or
be the turn that is cancelled. A notification limit of one makes the limit bite.

## 7 The leader election

### Module and state

`LeaderElection`: the inode at the lock's path and the pid in it, the leader
whose socket is at the socket's path, each process's descriptor, who holds the
flock of his inode, where each process is, whom a client is connected to and
each leader's server task. A flock belongs to an inode: a process that opened
the file before it was unlinked may still lock it, so opening and locking are
separate steps, as are the two unlinks and the close of `Drop for LeaderLock`.
The proofs are in `LeaderElectionProofs` (section 8).

### Actions and code

| Action | Code |
|---|---|
| `Discover`, `ClientOpens`, `ClientLocks`, `LookForSibling`, `SpawnLeader`, `SpawnFails`, `ListenerReady`, `ListenerTimeout`, `Connect`, `WaitConnects`, `WaitExpires` | `connect_or_spawn` |
| `Connects`, `Adopt`, `Refused`, `DropStale` | `connect_to_leader`: a connection that is accepted, then the registration that blocks until `LeaderReady` or the server's end |
| `Disconnect` | the client's reconnect |
| `Vacate` | `request_leader_vacate`, for a leader older than the client |
| `Evict`, `Evicted` | `evict_leader`: the vacate request, the wait for the exit, the kill |
| `LeaderOpens`, `LeaderChecks`, `CleanSocket`, `BindSocket`, `SocketSeen`, `SocketNotSeen`, `PollLocks`, `PollExpires`, `Exits`, `Shutdown`, `RunEnds` | `run_leader` and `try_acquire_timeout` |
| `ServerStops` | the last statement of `run_leader_server` |
| `DropUnlinksLock`, `DropUnlinksSocket`, `DropCloses` | `Drop for LeaderLock` |
| `Crash` | a process is killed: its descriptors close, its files stay |

### Properties

| Property | What it says |
|---|---|
| `TypeOK` | types; one holder per inode |
| `PidIsHolder` | the live pid in the file at the lock's path is the holder's |
| `Settles` | after whatever happened all clients are connected again and no duplicate leader lingers, unless a leader has lost its socket for good |
| `NoSocketMeansSpawner` | what a comment of `run_leader` concludes from a held lock and no socket; violated, section 9 |

`PidIsHolder` also says that a client which holds the lock of the file at
`lock_path` reads no live pid. A client that has locked a file since unlinked
reads the pid of the new one: it goes to the sibling's leader, adopts it or,
when that is outdated, evicts it.

A leader sends `LeaderReady` only when it has the lock, and the spawner releases
the lock before it connects: `Settles` is what fails when the two are swapped
(each then waits for the other). It exempts what `LeaderStuck` exhibits
(`Stuck`), and behaviours in which the bound on leader processes keeps a client
from starting one more (`Spent`) while something accounts for the leaders used
up (`Explained`: a fault, a leader that had the lock, one that still waits for
it): that all of them gave up for nothing is not exempt.

### Fairness and bounds

Every live process goes on and polls, and a client keeps reconnecting; nothing
is assumed of crashes, exits, failed starts or the end of a server. The timeouts
of those who wait for a socket (5 and 10 s) are taken to be long enough for a
process that is starting to bind one, the leader's lock timeout (30 s) to be
longer than a client holds the lock, and the wait for `LeaderReady` (300 s) to
outlast the leader's own lock timeout, so that it never expires first. Two clients and two leader processes, the first of them
outdated, and one event (a crash, a kill, an exit or a failed start) anywhere.
Reuse of pids, the authentication phase before `LeaderReady`, the drain before a
relaunch and Windows pipes are left out.

## 8 Runs and proofs

### Runs

| Run | Checks | Shows |
|---|---|---|
| `SessionTurns` | `TypeOK`, `FrontIsRunning`, `PinAgrees`, `NoOrphanTurn`, `OneTerminalPerTurn`, `RewindIsPristine`, `DepthIsHeld`, `RunningIsDriven`, `Schedules` | two user prompts, a plan-resume prompt, both starters, every cancel, calls that wait, guards that enter and drop late; refinement (4.0M states) |
| `SessionSynthetic` | `Schedules` | wake, goal and drain prompts with user preemption; refinement (1.6M) |
| `SessionRows` | `RowsMirrored`, `NoPromptLost`, `SweepKeepsOrder`, `SendNowSlotIsLoop`, `ReorderIsStableSort` | three rows, two clients, stale versions; on every queue reached, the queue operators against the loops of the code (0.8M) |
| `SessionLive` | `NothingStranded`, `NoPromptLost`, `EventuallyAnswered` | a prompt, an interjection and a wake prompt; liveness (0.2M) |
| `BreakerRaces` | `TypeOK`, `WindowCounts`, `OneTakeover`, `KeepsProbing` | two callers anywhere in the code, samples out of order; liveness (1.5M) |
| `UploadCrash` | `TypeOK`, `CloudIsWhole`, `IdleMeansSettled`, `GaugesHold`, `MarksAreHeld`, `WaiterIsOwed`, `DrainLeavesNothing`, `KeepsPromise` | each kind of call, two crashes or power cuts, recovery, purge, drain, dropped handles; refinement (2.1M) |
| `UploadLive` | `SlotsAreUsed`, `DrainCompletes`, `WaiterReleased` | two callers at one permit, credentials rejected for ever; liveness |
| `Completions` | `TypeOK`, `NothingVanishes`, `AwaitedIsNotWoken`, `EventuallyTold` | a bash task and a subagent, a prompt, a cancel, rewinds, waits and their helpers, kills, auto-wake on and off; liveness (0.3M) |
| `LeaderHandoff` | `TypeOK`, `PidIsHolder`, `Settles` | two clients replace an outdated leader, one fault anywhere; liveness (0.3M) |
| `SessionStaleWait`, `CompletionPreempt`, `LeaderStuck` | one property each, violated | section 9 |

A run is `tlc -config <Run>.cfg <module>` with the module `PROJECT.json` names.
Deadlock is checked in the runs of the session and the breaker. In the others the system may rest: a drained queue with its calls
returned, a session whose user sends no more, clients that are all connected.
Each property of a passing run was seen to fail under a plausible bug in the
code it speaks of; the faulty forms are the definitions that precede the right
ones under a comment that begins "Fault:". Symmetry is used where the properties
are safety properties and the owners of the permuted prompts are alike; never
with liveness.

### Proofs

Checked by TLAPS with its SMT, Zenon and LS4 backends: `tlapm <module>.tla`.

**PromptQueueProofs** establishes what the queue operators return for queues of
any length: that a sweep leaves exactly the kept elements in their order
(`SweepIsSubsequence`), keeps distinctness and keeps the head if the head is
kept; where a send-now prompt lands, which is where the loop of `queue_input`
stops (`SendNowSlotStops`); that a reorder keeps its front; which elements a
concatenation, an append, a pop, an insertion and a reorder have, and that they
keep them distinct; and when two sweeps leave the same queue (`OnlySame`: the
positions they keep correspond in order), so that a sweep does not see the
insertion, the loss or an earlier sweep of what it does not keep (`OnlyInsert`,
`OnlyTail`, `OnlyTwice`).
`Only` picks the k-th smallest kept position; that there is one is the pigeonhole
argument of `NthFacts`.

**QueueLoopsProofs** proves that the closed forms the other proofs reason about
are what the loops of the code compute, on every queue:

* `SweepIsLoop`: `Only` is the `for` loop of `sweep_pending_inputs`, with or
  without repetitions in the queue
* `SlotIsLoop`: `SendNowSlot` is where the `while` loop of `queue_input` stops
* `ReorderIsLoop`: `Reordered` is the partition and stable sort of
  `handle_reorder_queue`, for any distinct queue and any distinct list of ids, so
  a reorder puts the named rows in the client's order and keeps the order of the
  others

The loops are recursive functions on an initial segment of the numbers, and the
library's induction theorems cannot be instantiated here. The argument goes
round that in two steps: the closed form of each prefix satisfies the
recursion's equation, so the function exists; and no other function does,
because two that differ would differ at a least (for the slot, greatest) number,
where the equation makes them equal. For the sort, `SortRound` is the equation:
inserting the next row behind those of no higher rank into the closed form for a
prefix gives the closed form for the prefix with that row; a named row lands
behind the named rows before it in the client's list (`NamedRowInserted`), any
other at the end.

**SessionActorProofs** assumes only `IdAssumption`: the kinds of prompts are
disjoint, `None` and the MCP task are no prompts, every user prompt has an
owner, and there are finitely many user prompts. It proves for any number of
prompts and clients:

* `TypeCorrect`: `Spec => []TypeOK`
* `RunningIsFront`: `Spec => []FrontIsRunning`
* `PinsAgree`: `Spec => []PinAgrees`

The inductive invariant is `IndInv == TypeOK /\ CancelKnown /\ FrontIsRunning /\
PinOwned`. `TypeOK` alone is not inductive, because the answer a cancel gives is
the kind it was asked for, which only a cancel under way has (`CancelKnown`).
`PinAgrees` is not inductive either: its second half says what a captured pin
names when a turn runs, and nothing of when none does, so that a start by another
task could make it false; `PinOwned` says whose a pin is at each position of the
actor (outside a cancel the promoted turn's; after a cancel's lock perhaps the
victim's; a captured one the promoted turn's until the lock). There is one lemma per
handler, each with a step per conjunct it can disturb; `NextStep` puts them
together. 
**SessionSafetyProofs** proves, from the same assumption:

* `SessionSchedules`: `Spec => Schedules`, the refinement of `TurnScheduler`
* `PromptsKept`: `Spec => []NoPromptLost`
* `NoOrphans`: `Spec => []NoOrphanTurn`
* `TerminalsOnce`: `Spec => []OneTerminalPerTurn`
* `RewindsPristine`: `Spec => []RewindIsPristine`
* `DepthNeverLeaks`: `Spec => []DepthIsHeld`
* `NothingLeftIdle`: `Spec => []NothingStranded`
* `RunningDriven`: `Spec => []RunningIsDriven`
* `RowsConverge`: `Spec => []RowsMirrored`
* `SweepsKeepOrder`, `SendNowSlotsAreLoops`, `ReordersAreStableSorts`: the theorems
  of QueueLoopsProofs for the queue of every state of the session

None of these is inductive alone. That a promotion starts a turn for the first
time rests on where its prompt is (`PlacesInv`), which rests on what the locals
of a handler hold at each position (`LocalsInv`); that a terminal is sent once
rests on which turns have been (`TurnsInv`) and on the exact set of turns whose
terminal is out (`TerminalsInv`, an equivalence where the property has two
implications); a rewind window left open without a turn is closed by the
terminal to come (`WindowInv`); the depth is a lower bound of the guards held,
of which there are finitely many, and a call on its way has none (`DepthInv`), so
that neither a store of 0 nor a decrement that saturates can leave it too high; and an idle actor is idle
already when a cancel begins (`IdleInv`). `SafeInv` is their conjunction, on top
of `IndInv`. Each handler's lemma shows `Keeps`: that `SafeInv` is kept and that
every prompt moves along a path of the scheduler (`MayGo`), which is what the
refinement needs of a step; `ScheduleStep` turns that into a step of
`TurnScheduler` or a stutter.

`RunningIsDriven` is inductive on top of `IndInv` and `SafeInv`: what a cancel
aborts is its victim, which holds no slot by then, and a completion that is taken
off the channel frees the slot if it is the promoted turn's.

`RowsMirrored` speaks of an actor at rest; what is inductive is that the
clients' copy is exact after every step (`MirrorInv`), unless a hard teardown has
taken a prompt or is about to answer for one (`Spared`, which by the refinement
never becomes true again). The handlers that change the queue and broadcast
nothing are the point: each adds or takes only what the last broadcast did not
show as a row.

**CircuitBreakerProofs** assumes `BreakerAssumption` (durations and limits are
natural numbers, at least one probe slot and one window entry, the word is
larger than the number of slots) and proves for any number of callers:

* `TakeoverIsUnique`: `Spec => OneTakeover`, from `LeaseInv`: what a caller about
  to exchange has loaded stays as old as the lease while time passes
* `WindowCountIsExact`: `Spec => []WindowCounts`
* `BreakerTypeCorrect`: `Spec => []TypeOK`

The last two follow from `BreakerInv`, which adds `WindowOK`. Dropping entries
from the front is a bijection of the rest (`BadDrop`), and the loop of `evict`
stops (`EvictStops`) because the positions are well-founded.

**UploadQueueProofs** assumes `UploadAssumption` (limits that are natural
numbers, at least one permit, one attempt and one place in the channel) and proves, for any artifacts, limits and number of crashes:

* `QueueKeepsPromise`: `Spec => KeepsPromise`, the refinement of `DurableUpload`
* `StoredWhole`: `Spec => []CloudIsWhole`
* `IdleSettled`: `Spec => []IdleMeansSettled`
* `GaugesSound`: `Spec => []GaugesHold`
* `MarksHeld`: `Spec => []MarksAreHeld`
* `SlotsNeverLeak`: `Spec => []SlotsAreUsed`, and from it `WireIsBounded`: no more
  than `MaxConcurrent` uploads are on the wire
* `WaitersOwed`: `Spec => []WaiterIsOwed`
* `DrainIsComplete`: `Spec => []DrainLeavesNothing`
* `TypeCorrect`: `Spec => []TypeOK`

The gauges are not determined by the items, because a drain that times out
leaves them standing; so `CountsInv` bounds each from below by the cardinality
of the items that will still subtract from it (`pending - inflight`, `inflight`
and `pending_bytes` separately, since the subtractions are separate steps).
`ChannelInv` says that the channel holds the queued items, each once. `LifeInv`
says which call or scan may have made an item, so that no second one appears;
`WholeInv` that a torn file is one nobody is going to read; `FateInv` that
nobody deletes the pair of a durable artifact that is neither stored nor given
up, and that a result "ok" is true. The refinement follows from `FateInv` and a
classification of the steps into those that accept, store and drop. The last
group rests on `HandsInv`: the worker holds at most one item, only where it waits
for a permit, and the channel is empty once it has left its loops (`WorkerInv`);
only the callers of `enqueue_blocking` wait (`WaitersInv`). Every step of a task
is shown to be one in which only its own item moves, its permit is one it needs
and its waiter, if it settles, has an answer (`Serves`); one lemma (`ServesFacts`)
then does for all of them.

**CompletionDeliveryProofs** assumes `DeliveryAssumption` (the two kinds of
tasks are disjoint, room for at least one notification) and proves, for any sets
of bash tasks and subagents:

* `NoneVanishes`: `Spec => []NothingVanishes`
* `AwaitedStaysQuiet`: `Spec => []AwaitedIsNotWoken`
* `TypeCorrect`: `Spec => []TypeOK`

`NothingVanishes` counts everything that might still carry a completion, also
what may yet fail (a wait that expires, a notification that the limit drops, an
answer that is discarded because the id is marked). Inductive is that each mark
that silences a reminder is backed by a carrier that cannot fail (`FirmInv`),
and that an ended subagent is so carried or still in the coordinator's buffer or
its answer (`FoundInv`); `LocalsInv` and `HeadInv` say what a turn holds at each
of its positions, `KnownInv` that only ended tasks are announced. For
`AwaitedIsNotWoken`, a running bash task for which any wait is registered has
`block_waited` set (`WaitInv`), so that the terminal actor says nothing when it
gives the exit to a running call, and nobody else does afterwards (`AwaitInv`).
The flag is what several helpers share: an expiry clears it only with the last
of them.

**LeaderElectionProofs** assumes `ElectionAssumption` (finite, disjoint sets of
clients and leaders) and proves:

* `PidNamesHolder`: `Spec => []PidIsHolder`
* `AdoptsNoSibling`: a client that holds the lock of the file at `lock_path`
  goes to no sibling's leader: only one whose file has been unlinked adopts or evicts
* `OneServes`: two leaders that serve never hold the lock of one inode
* `TypeCorrect`: `Spec => []TypeOK`

`PidIsHolder` needs to know where a process holds the lock and where it does not
(`Holding`, `NotHolding`), where it has the file open (`FdOpen`) and that a pid
was written by a process that has lived (`PidBorn`). That whoever creates the
file finds an unused inode number is the pigeonhole principle (`FreshFacts`).

Every inductive invariant was checked by TLC on the instances of the runs before it
was proved.

**Only model-checked.** Liveness (`EventuallyAnswered`, `KeepsProbing`,
`DrainCompletes`, `WaiterReleased`, `EventuallyTold`, `Settles`), which the
prover cannot treat, being under fairness. Every invariant, action property and
refinement of a passing run is stated by a theorem.

## 9 Where the code and its comments disagree

| Run | The source says | The code does |
|---|---|---|
| `SessionStaleWait` | `tasks_cancel.rs:493`: "The aborted turn's `BlockingWaitGuard`s drop asynchronously … Zero the window here; late guard drops saturate at 0" | guards are also entered asynchronously: a call that the turn sent before the abort enters its guard after the store of 0, in the drainer (`tool_calls.rs:441`) or in the coordinator's task (`handle_request.rs:66`), and the next turn's prompt finds a depth that is not its own: a prompt that arrives is sent now and cancels that turn |
| `CompletionPreempt` | `prompt_queue.rs:140`: "Un-mark preempted IDs so TaskCompletionReminder can report them on the next pass instead of permanently suppressing them." | the id was also marked in `ReportedTaskCompletions` when the wake was queued (`:90`), a set nothing leaves; the reminder skips it for good |
| `LeaderStuck` | `agent/app.rs:961`: "Lock held + no socket → spawner (connect_or_spawn) holds lock and is waiting for our socket → proceed normally." | a client that takes the lock between the spawner's release and the leader's poll finds no pid, removes the leader's socket and starts a second leader; when the first gets the lock after all, the second gives up and its server's last statement removes the socket path: the lock is held by a leader nobody can reach |

More was met while translating and has no run of its own.

*Session actor.*
A guard of an aborted turn that drops after the store of 0 also takes away from
the count of the next turn, if that is in a wait of its own by then: its wait is
not seen, and a prompt that should be sent now is queued (`tasks_cancel.rs:498`,
"late guard drops saturate at 0").
`acp_session.rs:612` calls the pin the id of the running turn; the tail of a
cancel clears it (`tasks_cancel.rs:518`) after awaits in which another task may
have started and pinned a turn, which then runs unpinned.
`tasks_cancel.rs:438` says that the cancel aborts the goal loop before its
cleanup and so clears the flag; the flag is cleared before the abort, with an
await in between in which the victim may set it again.
`commands.rs:550` says that an interjected row is pushed into
`pending_interjections`; it is made send-now and the running turn is cancelled
for it (`prompt_queue.rs:484`).
`prompt_queue.rs:577` says of a reorder that items which are not named keep their
order behind the named ones; queued items that are not user rows move ahead of
all rows (`ReorderIsLoop`).
`notification_drain.rs:253` sweeps the monitor buffer into the notifications
without their limit.

*Circuit breaker.*
`breaker.rs:41` calls `is_open_fast` a mirror of `state == Open`; a delayed store
(`:257`) sets it for a state that has moved on. `breaker.rs:211` says that
nothing increments the probe count while `Open`; a caller that read `HalfOpen`
before the trip does (`:279`).

*Upload queue.*
`pending_bytes` is documented as the bytes of pending temp files. The amount to
subtract is read from the file when the upload starts; if a twin item or a purge
has removed it by then, the amount is 0 and the gauge stays above zero for the
rest of the process. `enqueue_blocking` does not look at the disk budget.

*Completions.*
The helpers of an aborted wait are aborted when the guard of the call's future is
dropped; until the runtime has dropped them they are registered and receive. A
task that ends in that window is received by nobody: `block_waited` keeps the
wake silent (`swallowed`). A reminder of a later tool call still finds it. A bash
task that exits between the look-up and the registration of a wait is told twice,
by the wait that is answered at once and by the wake that is under way.
A cancel between the step that marks a completion reported and the one that puts
it into the conversation loses it (`aborted`). The coordinator clears
`block_waited` at every expiry, also with another live wait, so that a subagent's
result may wake the model and be received as well. The snapshot of delivered ids
that the between-turn drain takes may be stale when it is used, and the model is
told twice. After a rewind with auto-wake off, notifications that are no longer
suppressed wait for the next event. The coordinator's buffer is emptied for all
parents at once.

*Leader.*
`lock.rs:132` says that the leader holds the lock for its entire lifetime, and
`:128` that the lock indicates who leads. `Drop` unlinks the path before it
closes the file and `try_acquire_timeout` polls a file it opened once, so two
leaders may for a time each hold the lock of an inode of their own.

## 10 What is not modelled

The components of section 1 that have no module, for the reasons `PROJECT.json`
gives: either they are in the plan, or they are input and output on files,
processes and the network with little protocol of their own, or rendering.
Third-party code under `src/third_party` is not considered. Inside the modelled
components: the commands of the session that touch neither queue nor turn, a
disabled breaker, breaker observers and `retry_after` values, the registry and
test hooks; the upload calls that
enqueue a file, compression and the storage client's wire format; monitors,
goals and the rendering of messages; the leader's routing and registry; how the
coordinator spawns and resumes subagents.

The repository has more than a million lines, most of them views, text
handling, configuration, wrappers of external services and tests. The models
cover the protocols in which several actors or processes share state, and a
small part of the lines.
