----------------------------- MODULE UploadQueue -----------------------------
(***************************************************************************)
(* The spill-to-disk upload queue (xai-file-utils, queue.rs) and the       *)
(* restart recovery that feeds it (xai-grok-workspace, recovery.rs; the    *)
(* detached reconcile of xai-grok-shell, upload/trace.rs).                 *)
(*                                                                         *)
(* A caller writes an artifact to a temp file, with a sidecar manifest if  *)
(* it must survive a restart, and hands it to a worker over a bounded      *)
(* channel.  The worker gives every item a concurrency slot and a task     *)
(* that uploads it with retries, parks it while its credentials are        *)
(* rejected, and deletes its files when it is done with it.  A crash loses *)
(* everything but the disk; the next life of the process re-enqueues the   *)
(* pairs it finds there, while its own callers are already enqueueing.     *)
(*                                                                         *)
(* The network, the credentials and the clock answer as they please.       *)
(* Every artifact has the same size, one unit of the disk budget.          *)
(***************************************************************************)
EXTENDS Integers, Sequences, FiniteSets

CONSTANTS
    Artifacts,
    Calls,        \* the calls made, of Kinds
    Dest,         \* gcs_path
    Addressed,    \* the destinations that are content-addressed
    Capacity,     \* CHANNEL_CAPACITY
    Budget,       \* max_queue_bytes
    MaxConcurrent,
    MaxAttempts,  \* max_attempts
    Threshold,    \* CIRCUIT_BREAKER_THRESHOLD
    Events,       \* what the surroundings may do, of Surroundings
    MaxCrashes    \* bound: the lives of the process, less one

(* enqueue, enqueue_bytes_blocking and enqueue_blocking. *)
Kinds == {"bytes", "durable", "awaited"}

(* Time may pass max_age, a write may fail, the last handle may go, the startup reconcile may *)
(* recover or purge, and a crash may take with it what was written and not synced.            *)
Surroundings == {"age", "io", "drop", "recover", "purge", "power"}

ASSUME UploadAssumption ==
    /\ Calls \subseteq Kinds
    /\ DOMAIN Dest = Artifacts
    /\ Capacity \in Nat \ {0} /\ Budget \in Nat
    /\ MaxConcurrent \in Nat \ {0} /\ MaxAttempts \in Nat \ {0} /\ Threshold \in Nat \ {0}
    /\ Events \subseteq Surroundings /\ MaxCrashes \in Nat

VARIABLES
    temp,      \* the temp file of an artifact: "none", "torn" or "whole"
    sidecar,   \* the artifacts whose manifest is on disk
    old,       \* the artifacts spilled longer than max_age ago
    cloud,     \* what the object store holds of an artifact
    kind,      \* the call that brings an artifact
    caller,    \* where the enqueue call of an artifact is
    told,      \* what its caller has been told
    inline,    \* the artifacts with an inline fallback upload under way
    channel,   \* the jobs in the channel, oldest first
    job,       \* the queue items, and the tasks that own them
    slots,     \* the jobs that hold a concurrency permit
    worker,    \* where upload_worker is
    failures,  \* consecutive_failures
    drain,     \* the drain() call: "none", "asked", "done", "timedOut"; "dropped" when the last
               \* handle of the queue has gone instead
    draining,  \* draining_flag
    pending, pendingBytes, inflight,  \* UploadQueueStats
    marks,     \* uploads_in_flight
    reconcile, \* SPILL_RECONCILE_STATE
    recovery,  \* the detached recovery task: "none", "running" or "done"
    todo,      \* the sidecars of its snapshot that it has yet to look at
    verified,  \* the one it has read and found sound, if any, as a set
    abandoned, \* history: the artifacts that a policy has given up
    crashes

disk    == <<temp, sidecar, old, cloud>>
callers == <<kind, caller, told, inline>>
loop    == <<channel, worker, failures, drain, draining>>
stats   == <<pending, pendingBytes, inflight>>
scan    == <<reconcile, recovery, todo, verified>>
vars == <<disk, callers, job, slots, loop, stats, marks, scan, abandoned, crashes>>

(* An artifact can be in the queue twice: as its caller sent it, and as recovery found it. *)
Jobs == Artifacts \X {"sent", "recovered"}
Artifact(j) == j[1]
Recovered(j) == j[2] = "recovered"

(* Where a job waits for something that takes time, with a task of its own or before it has   *)
(* one, and where its task runs on to the end.                                                *)
Untasked  == {"queued", "held"}
Waiting   == {"queued", "held", "spawned", "attempt", "wire", "parked", "reacquire"}
Finishing == {"remove", "removeSidecar", "settle", "settlePending"}
NoJob == [at |-> "none", attempts |-> 0, authRetried |-> FALSE, old |-> FALSE, opened |-> "none",
          bytes |-> 0, result |-> "none"]

HasSidecar(a) == kind[a] # "bytes"
Dedups(a)     == kind[a] \in {"bytes", "durable"} /\ Dest[a] \in Addressed

Init ==
    /\ temp = [a \in Artifacts |-> "none"]
    /\ sidecar = {} /\ old = {}
    /\ cloud = [a \in Artifacts |-> "none"]
    /\ kind = [a \in Artifacts |-> "none"]
    /\ caller = [a \in Artifacts |-> "idle"]
    /\ told = [a \in Artifacts |-> "nothing"]
    /\ inline = {}
    /\ channel = << >>
    /\ job = [j \in Jobs |-> NoJob]
    /\ slots = {}
    /\ worker = "top" /\ failures = 0
    /\ drain = "none" /\ draining = FALSE
    /\ pending = 0 /\ pendingBytes = 0 /\ inflight = 0
    /\ marks = {}
    /\ reconcile = "fresh" /\ recovery = "none" /\ todo = {} /\ verified = {}
    /\ abandoned = {} /\ crashes = 0

Up == worker # "down"
Closed == worker \in {"drain", "drainAcquire", "joining", "exited", "aborted"}
OverBudget == pendingBytes + 1 > Budget
SlotFree == Cardinality(slots) < MaxConcurrent

(* Caller a goes on to p; its call returns with t. *)
CallerTo(a, p) == caller' = [caller EXCEPT ![a] = p] /\ UNCHANGED told
Return(a, t) ==
    /\ caller' = [caller EXCEPT ![a] = "returned"]
    /\ told' = [told EXCEPT ![a] = t]

(* Fault: the mark outlives the item. *)
StaysMarked(a) == marks

(* The guard of an item that is dropped takes its destination off the set. *)
Unmarked(a) == IF Dedups(a) THEN marks \ {Dest[a]} ELSE marks

-----------------------------------------------------------------------------
(* The enqueue calls. *)

(* mark_in_flight, and the temp file is created. *)
Begin(a, k) ==
    /\ Up /\ drain # "dropped" /\ caller[a] = "idle"
    /\ kind' = [kind EXCEPT ![a] = k]
    /\ LET dedups == k # "awaited" /\ Dest[a] \in Addressed
       IN  \/ /\ dedups /\ Dest[a] \in marks
              /\ Return(a, "deduplicated")
              /\ UNCHANGED <<marks, temp>>
           \/ /\ dedups => Dest[a] \notin marks
              /\ marks' = IF dedups THEN marks \cup {Dest[a]} ELSE marks
              /\ temp' = [temp EXCEPT ![a] = "torn"]
              /\ CallerTo(a, "writing")
    /\ UNCHANGED <<sidecar, old, cloud, inline, job, slots, loop, stats, scan, abandoned, crashes>>

(* write_temp_file returns; a purge may have unlinked the file meanwhile. *)
WriteTemp(a) ==
    /\ caller[a] = "writing"
    /\ temp' = [temp EXCEPT ![a] = IF @ = "torn" THEN "whole" ELSE @]
    /\ CallerTo(a, IF kind[a] = "awaited" THEN "sidecar" ELSE "budget")
    /\ UNCHANGED <<kind, sidecar, old, cloud, inline, job, slots, loop, stats, marks, scan, abandoned,
                   crashes>>

(* It fails: a partial file, if there is one, stays. *)
WriteFails(a) ==
    /\ "io" \in Events
    /\ caller[a] = "writing"
    /\ temp' \in {temp, [temp EXCEPT ![a] = "none"]}
    /\ marks' = Unmarked(a)
    /\ Return(a, "failed")
    /\ UNCHANGED <<kind, sidecar, old, cloud, inline, job, slots, loop, stats, scan, abandoned, crashes>>

(* over_disk_budget: the bytes go out inline from memory instead. *)
CheckBudget(a) ==
    /\ caller[a] = "budget"
    /\ \/ /\ OverBudget
          /\ temp' = [temp EXCEPT ![a] = "none"]
          /\ inline' = inline \cup {a}
          /\ marks' = Unmarked(a)
          /\ Return(a, "inline")
       \/ /\ ~OverBudget
          /\ CallerTo(a, IF HasSidecar(a) THEN "sidecar" ELSE "count")
          /\ UNCHANGED <<temp, inline, marks>>
    /\ UNCHANGED <<kind, sidecar, old, cloud, job, slots, loop, stats, scan, abandoned, crashes>>

(* write_sidecar_file: the manifest appears at once, or the temp file goes too. *)
WriteSidecar(a) ==
    /\ caller[a] = "sidecar"
    /\ \/ /\ sidecar' = sidecar \cup {a}
          /\ CallerTo(a, "count")
          /\ UNCHANGED <<temp, marks>>
       \/ /\ "io" \in Events
          /\ temp' = [temp EXCEPT ![a] = "none"]
          /\ marks' = Unmarked(a)
          /\ Return(a, "failed")
          /\ UNCHANGED sidecar
    /\ UNCHANGED <<kind, old, cloud, inline, job, slots, loop, stats, scan, abandoned, crashes>>

(* The item is counted before it is sent. *)
Count(a) ==
    /\ caller[a] = "count"
    /\ pending' = pending + 1
    /\ pendingBytes' = pendingBytes + 1
    /\ CallerTo(a, "send")
    /\ UNCHANGED <<kind, disk, inline, job, slots, loop, inflight, marks, scan, abandoned, crashes>>

(* try_send. *)
Send(a) ==
    /\ caller[a] = "send"
    /\ ~Closed /\ Len(channel) < Capacity
    /\ channel' = Append(channel, <<a, "sent">>)
    /\ job' = [job EXCEPT ![<<a, "sent">>].at = "queued"]
    /\ Return(a, IF kind[a] = "awaited" THEN "waiting" ELSE "enqueued")
    /\ UNCHANGED <<kind, disk, inline, slots, worker, failures, drain, draining, stats, marks, scan,
                   abandoned, crashes>>

(* The item comes back: it is uncounted and its files go.  A full channel, and a closed one   *)
(* under enqueue, fall back to an inline upload; the one of enqueue_blocking reads the temp   *)
(* file, which therefore stays.                                                               *)
SendFails(a) ==
    /\ caller[a] = "send"
    /\ Closed \/ Len(channel) = Capacity
    /\ pending' = pending - 1
    /\ pendingBytes' = pendingBytes - 1
    /\ marks' = Unmarked(a)
    /\ sidecar' = sidecar \ {a}
    /\ LET fallsBack == ~Closed \/ kind[a] = "bytes"
           keepsTemp == fallsBack /\ kind[a] = "awaited"
       IN  /\ temp' = IF keepsTemp THEN temp ELSE [temp EXCEPT ![a] = "none"]
           /\ inline' = IF fallsBack THEN inline \cup {a} ELSE inline
           /\ Return(a, CASE keepsTemp -> "waiting"
                          [] fallsBack /\ ~keepsTemp -> "inline"
                          [] OTHER -> "failed")
    /\ UNCHANGED <<kind, old, cloud, job, slots, loop, inflight, scan, abandoned, crashes>>

(* An inline upload, one attempt: from memory, or from the temp file, deleted afterwards. *)
InlineUpload(a) ==
    /\ a \in inline
    /\ inline' = inline \ {a}
    /\ LET bytes == IF kind[a] = "awaited" THEN temp[a] ELSE "whole"
       IN  \E stored \in {"none", bytes} :
             /\ cloud' = IF stored = "none" THEN cloud ELSE [cloud EXCEPT ![a] = stored]
             /\ told' = IF kind[a] # "awaited" THEN told
                        ELSE [told EXCEPT ![a] = IF stored = "none" THEN "error" ELSE "uploaded"]
    /\ temp' = IF kind[a] = "awaited" THEN [temp EXCEPT ![a] = "none"] ELSE temp
    /\ UNCHANGED <<kind, sidecar, old, caller, job, slots, loop, stats, marks, scan, abandoned, crashes>>

-----------------------------------------------------------------------------
(* upload_worker. *)

(* The head of its loop: too many failures in a row pause the dispatch. *)
LoopTop ==
    /\ worker = "top"
    /\ worker' = IF failures >= Threshold THEN "cooldown" ELSE "select"
    /\ UNCHANGED <<disk, callers, job, slots, channel, failures, drain, draining, stats, marks,
                   scan, abandoned, crashes>>

CooldownEnds ==
    /\ worker = "cooldown"
    /\ worker' = "select"
    /\ failures' = 0
    /\ UNCHANGED <<disk, callers, job, slots, channel, drain, draining, stats, marks, scan,
                   abandoned, crashes>>

(* rx.recv(), in the loop and, once the channel is closed, for what it still holds. *)
Recv ==
    /\ worker \in {"select", "drain"} /\ channel # << >>
    /\ worker' = IF worker = "select" THEN "acquire" ELSE "drainAcquire"
    /\ channel' = Tail(channel)
    /\ job' = [job EXCEPT ![Head(channel)].at = "held"]
    /\ UNCHANGED <<disk, callers, slots, failures, drain, draining, stats, marks, scan, abandoned,
                   crashes>>

(* dispatch_item has its permit: the item gets a task. *)
Dispatch(j) ==
    /\ job[j].at = "held" /\ SlotFree
    /\ slots' = slots \cup {j}
    /\ job' = [job EXCEPT ![j].at = "spawned"]
    /\ worker' = IF worker = "acquire" THEN "top" ELSE "drain"
    /\ UNCHANGED <<disk, callers, channel, failures, drain, draining, stats, marks, scan,
                   abandoned, crashes>>

(* The shutdown signal is seen at the select and in the cooldown: the channel closes.  The    *)
(* sender of the signal dropped with the last handle wakes the same branch.                   *)
SeeShutdown ==
    /\ worker \in {"select", "cooldown"} /\ drain \in {"asked", "dropped"}
    /\ worker' = "drain"
    /\ draining' = TRUE
    /\ UNCHANGED <<disk, callers, job, slots, channel, failures, drain, stats, marks, scan,
                   abandoned, crashes>>

(* Fault: the worker leaves what the channel still holds. *)
DrainedEarly ==
    /\ worker = "drain"
    /\ worker' = "joining"
    /\ UNCHANGED <<disk, callers, job, slots, channel, failures, drain, draining, stats, marks,
                   scan, abandoned, crashes>>

Drained ==
    /\ worker = "drain" /\ channel = << >>
    /\ worker' = "joining"
    /\ UNCHANGED <<disk, callers, job, slots, channel, failures, drain, draining, stats, marks,
                   scan, abandoned, crashes>>

(* No handle is left, in a call or in the recovery task; a caller that waits for its upload   *)
(* may have been cancelled.  The queue's end of the channel and the shutdown sender are gone. *)
DropHandles ==
    /\ "drop" \in Events
    /\ Up /\ drain = "none" /\ recovery # "running"
    /\ \A a \in Artifacts : caller[a] \in {"idle", "returned"}
    /\ drain' = "dropped"
    /\ UNCHANGED <<disk, callers, job, slots, channel, worker, failures, draining, stats, marks,
                   scan, abandoned, crashes>>

(* The branch of recv() may be the one that runs: it gives None once the channel is empty. *)
ChannelEnds ==
    /\ worker = "select" /\ channel = << >> /\ drain = "dropped"
    /\ draining' = TRUE
    /\ worker' = "joining"
    /\ UNCHANGED <<disk, callers, job, slots, channel, failures, drain, stats, marks, scan,
                   abandoned, crashes>>

(* Every task has ended: the worker exits and drain() returns. *)
Join ==
    /\ worker = "joining"
    /\ \A j \in Jobs : job[j].at \notin (Waiting \ Untasked) \cup Finishing
    /\ worker' = "exited"
    /\ drain' = IF drain = "asked" THEN "done" ELSE drain
    /\ UNCHANGED <<disk, callers, job, slots, channel, failures, draining, stats, marks, scan,
                   abandoned, crashes>>

(* drain() is called. *)
Drain ==
    /\ Up /\ drain = "none"
    /\ drain' = "asked"
    /\ UNCHANGED <<disk, callers, job, slots, channel, worker, failures, draining, stats, marks,
                   scan, abandoned, crashes>>

(* Its deadline passes: the worker and the tasks that wait are aborted, and their items are   *)
(* dropped where they are; the files stay and the counts are not settled.                     *)
DrainTimesOut ==
    /\ drain = "asked" /\ worker # "exited"
    /\ drain' = "timedOut"
    /\ worker' = "aborted"
    /\ channel' = << >>
    /\ LET aborted == {j \in Jobs : job[j].at \in Waiting}
       IN  /\ job' = [j \in Jobs |-> IF j \in aborted THEN [NoJob EXCEPT !.at = "aborted"]
                                     ELSE job[j]]
           /\ slots' = slots \ aborted
           /\ marks' = marks \ {Dest[a] : a \in {b \in Artifacts : /\ Dedups(b)
                                                                    /\ <<b, "sent">> \in aborted}}
           /\ told' = [a \in Artifacts |->
                        IF told[a] = "waiting" /\ <<a, "sent">> \in aborted THEN "closed"
                        ELSE told[a]]
    /\ UNCHANGED <<kind, disk, caller, inline, failures, draining, stats, scan, abandoned, crashes>>

-----------------------------------------------------------------------------
(* process_item and upload_with_retries: the task of a job. *)

Expired(j) == IF Recovered(j) THEN job[j].old ELSE Artifact(j) \in old

(* The task has its result; the rest of what it knew does not matter any more. *)
Ended(result, bytes) == [NoJob EXCEPT !.at = "remove", !.result = result, !.bytes = bytes]

(* The upload has failed for good: the artifact is given up.  Unless the server refused the   *)
(* request itself, the failure counts towards the pause of the dispatch.                      *)
Abandon(j) ==
    /\ job' = [job EXCEPT ![j] = Ended("failed", @.bytes)]
    /\ abandoned' = abandoned \cup {Artifact(j)}

GiveUp(j) ==
    /\ Abandon(j)
    /\ failures' = IF failures < Threshold THEN failures + 1 ELSE failures

unpaused == <<channel, worker, drain, draining>>

(* The task starts: the bytes it will settle are what it finds on disk now. *)
Start(j) ==
    /\ job[j].at = "spawned"
    /\ inflight' = inflight + 1
    /\ LET bytes == IF temp[Artifact(j)] = "none" THEN 0 ELSE 1
       IN  \/ /\ Expired(j)
              /\ job' = [job EXCEPT ![j] = Ended("expired", bytes)]
              /\ abandoned' = abandoned \cup {Artifact(j)}
           \/ /\ ~Expired(j)
              /\ job' = [job EXCEPT ![j].at = "attempt", ![j].bytes = bytes]
              /\ UNCHANGED abandoned
    /\ UNCHANGED <<disk, callers, slots, loop, pending, pendingBytes, marks, scan, crashes>>

Capped(n) == IF n < MaxAttempts THEN n ELSE MaxAttempts

(* An attempt opens the file and sends it. *)
Attempt(j) ==
    /\ job[j].at = "attempt"
    /\ job' = [job EXCEPT ![j].at = "wire",
                          ![j].attempts = Capped(@ + 1),
                          ![j].opened = temp[Artifact(j)]]
    /\ UNCHANGED <<disk, callers, slots, loop, stats, marks, scan, abandoned, crashes>>

(* The answer. *)
Uploaded(j) ==
    /\ job[j].at = "wire" /\ job[j].opened # "none"
    /\ cloud' = [cloud EXCEPT ![Artifact(j)] = job[j].opened]
    /\ job' = [job EXCEPT ![j] = Ended("ok", @.bytes)]
    /\ failures' = 0
    /\ UNCHANGED <<temp, sidecar, old, callers, slots, unpaused, stats, marks, scan, abandoned,
                   crashes>>

(* 400, 403, 404. *)
Terminal(j) ==
    /\ job[j].at = "wire" /\ job[j].opened # "none"
    /\ Abandon(j)
    /\ UNCHANGED <<disk, callers, slots, loop, stats, marks, scan, crashes>>

(* Anything else, a file that is gone included; the object may have been stored all the same. *)
Retryable(j) ==
    /\ job[j].at = "wire"
    /\ cloud' \in {cloud} \cup
         (IF job[j].opened = "none" THEN {} ELSE {[cloud EXCEPT ![Artifact(j)] = job[j].opened]})
    /\ \/ job[j].attempts >= MaxAttempts /\ GiveUp(j)
       \/ /\ job[j].attempts < MaxAttempts
          /\ job' = [job EXCEPT ![j].at = "attempt", ![j].opened = "none"]
          /\ UNCHANGED <<failures, abandoned>>
    /\ UNCHANGED <<temp, sidecar, old, callers, slots, unpaused, stats, marks, scan, crashes>>

(* 401 for the first time since the credentials were last good: one more try. *)
AuthRetry(j) ==
    /\ job[j].at = "wire" /\ job[j].opened # "none" /\ ~job[j].authRetried
    /\ job' = [job EXCEPT ![j].at = "attempt", ![j].authRetried = TRUE, ![j].opened = "none"]
    /\ UNCHANGED <<disk, callers, slots, loop, stats, marks, scan, abandoned, crashes>>

(* Fault: a waiter hears of the end only. *)
NotifiedAtEnd(j, t) ==
    IF ~Recovered(j) /\ told[Artifact(j)] = "waiting" /\ t # "parked"
    THEN [told EXCEPT ![Artifact(j)] = t] ELSE told

(* Fault: an item that is settled without an answer leaves its waiter. *)
NotifiedBeforeSettled(j, t) ==
    IF ~Recovered(j) /\ told[Artifact(j)] = "waiting" /\ job[j].at # "settlePending"
    THEN [told EXCEPT ![Artifact(j)] = t] ELSE told

(* A waiter is answered once. *)
Notified(j, t) ==
    IF ~Recovered(j) /\ told[Artifact(j)] = "waiting" THEN [told EXCEPT ![Artifact(j)] = t]
    ELSE told

(* Fault: the slot is kept while the item is parked. *)
Kept(j) == slots

(* ConcurrencyPermit::release. *)
Released(j) == slots \ {j}

(* 401 again: the slot is released and the item parks, unless the queue is draining, the      *)
(* credentials cannot recover, or the item is too old.  A waiter is sent away with an error.  *)
Park(j) ==
    /\ job[j].at = "wire" /\ job[j].opened # "none" /\ job[j].authRetried
    /\ slots' = Released(j)
    /\ \/ GiveUp(j) /\ UNCHANGED told
       \/ /\ ~draining
          /\ \/ Expired(j) /\ GiveUp(j)
             \/ /\ ~Expired(j)
                /\ job' = [job EXCEPT ![j].at = "parked", ![j].opened = "none"]
                /\ UNCHANGED <<abandoned, failures>>
          /\ told' = Notified(j, "parked")
    /\ UNCHANGED <<kind, disk, caller, inline, unpaused, stats, marks, scan, crashes>>

(* The credentials change, or a probe is due: the guards are looked at once more and the slot *)
(* is asked for again.                                                                        *)
Wake(j) ==
    /\ job[j].at = "parked"
    /\ ~draining /\ ~Expired(j)
    /\ job' = [job EXCEPT ![j].at = "reacquire"]
    /\ UNCHANGED <<disk, callers, slots, loop, stats, marks, scan, abandoned, crashes>>

(* The next look of a parked item finds that the queue is draining or that it is too old ...  *)
ParkEnds(j) ==
    /\ job[j].at = "parked"
    /\ draining \/ Expired(j)
    /\ GiveUp(j)
    /\ UNCHANGED <<disk, callers, slots, unpaused, stats, marks, scan, crashes>>

(* ... or that the credentials cannot recover. *)
CredentialGone(j) ==
    /\ job[j].at = "parked"
    /\ GiveUp(j)
    /\ UNCHANGED <<disk, callers, slots, unpaused, stats, marks, scan, crashes>>

(* Fault: a slot is taken whether or not one is free. *)
ReacquireUngated(j) ==
    /\ job[j].at = "reacquire"
    /\ slots' = slots \cup {j}
    /\ job' = [job EXCEPT ![j].at = "attempt", ![j].authRetried = FALSE]
    /\ UNCHANGED <<disk, callers, loop, stats, marks, scan, abandoned, crashes>>

Reacquire(j) ==
    /\ job[j].at = "reacquire" /\ SlotFree
    /\ slots' = slots \cup {j}
    /\ job' = [job EXCEPT ![j].at = "attempt", ![j].authRetried = FALSE]
    /\ UNCHANGED <<disk, callers, loop, stats, marks, scan, abandoned, crashes>>

(* remove_item_files, the temp file first. *)
RemoveTemp(j) ==
    /\ job[j].at = "remove"
    /\ temp' = [temp EXCEPT ![Artifact(j)] = "none"]
    /\ job' = [job EXCEPT ![j].at = "removeSidecar"]
    /\ UNCHANGED <<sidecar, old, cloud, callers, slots, loop, stats, marks, scan, abandoned,
                   crashes>>

(* The sidecar, then the waiter is told; one whose item had expired, after it is settled. *)
RemoveSidecar(j) ==
    /\ job[j].at = "removeSidecar"
    /\ sidecar' = sidecar \ {Artifact(j)}
    /\ told' = CASE job[j].result = "ok" -> Notified(j, "uploaded")
                 [] job[j].result = "failed" -> Notified(j, "error")
                 [] OTHER -> told
    /\ job' = [job EXCEPT ![j].at = "settle", ![j].result = "none"]
    /\ UNCHANGED <<kind, temp, old, cloud, caller, inline, slots, loop, stats, marks, scan, abandoned,
                   crashes>>

(* Fault: pending is settled before inflight. *)
SettlePendingFirst(j) ==
    /\ job[j].at = "settle"
    /\ pending' = pending - 1
    /\ job' = [job EXCEPT ![j].at = "settlePending"]
    /\ UNCHANGED <<disk, callers, slots, loop, inflight, pendingBytes, marks, scan, abandoned,
                   crashes>>

(* settle_pending: inflight first ... *)
SettleInflight(j) ==
    /\ job[j].at = "settle"
    /\ inflight' = inflight - 1
    /\ job' = [job EXCEPT ![j].at = "settlePending"]
    /\ UNCHANGED <<disk, callers, slots, loop, pending, pendingBytes, marks, scan, abandoned,
                   crashes>>

(* ... then pending; the item is dropped, and with it its guard and its slot. *)
SettlePending(j) ==
    /\ job[j].at = "settlePending"
    /\ pending' = pending - 1
    /\ pendingBytes' = pendingBytes - job[j].bytes
    /\ job' = [job EXCEPT ![j] = [NoJob EXCEPT !.at = "settled"]]
    /\ slots' = slots \ {j}
    /\ marks' = IF Recovered(j) THEN marks ELSE Unmarked(Artifact(j))
    /\ told' = Notified(j, "error")
    /\ UNCHANGED <<disk, kind, caller, inline, loop, inflight, scan, abandoned, crashes>>

-----------------------------------------------------------------------------
(* Restart. *)

(* Fault: the janitor does not look at the age. *)
SweepAll(t, s) ==
    /\ temp' = [a \in Artifacts |-> "none"]
    /\ sidecar' = {}
    /\ abandoned' = abandoned \cup {a \in old : t[a] # "none"}

(* The janitor deletes what is older than max_age. *)
Sweep(t, s) ==
    /\ temp' = [a \in Artifacts |-> IF a \in old THEN "none" ELSE t[a]]
    /\ sidecar' = s \ old
    /\ abandoned' = abandoned \cup {a \in old : t[a] # "none"}

(* run_startup_recovery lists the sidecars there are.  In the shell it runs detached, beside  *)
(* the callers of the session that started it.                                                *)
RecoverScan ==
    /\ Up /\ drain # "dropped" /\ "recover" \in Events /\ reconcile = "fresh"
    /\ reconcile' = "recovered"
    /\ recovery' = "running"
    /\ todo' = sidecar
    /\ UNCHANGED <<verified, disk, callers, job, slots, loop, stats, marks, abandoned, crashes>>

(* Fault: the bytes are not compared with the hash in the manifest. *)
SoundUnhashed(a) == a \in sidecar /\ temp[a] # "none" /\ a \notin old

Sound(a) == a \in sidecar /\ temp[a] = "whole" /\ a \notin old

(* It reads the pair: one that is incomplete, torn or too old is deleted. *)
RecoverCheck(a) ==
    /\ verified = {} /\ a \in todo
    /\ todo' = todo \ {a}
    /\ \/ Sound(a) /\ verified' = {a} /\ UNCHANGED <<temp, sidecar, abandoned>>
       \/ /\ ~Sound(a)
          /\ temp' = [temp EXCEPT ![a] = "none"]
          /\ sidecar' = sidecar \ {a}
          /\ abandoned' = IF a \in sidecar /\ temp[a] # "none" THEN abandoned \cup {a}
                          ELSE abandoned
          /\ UNCHANGED verified
    /\ UNCHANGED <<old, cloud, callers, job, slots, loop, stats, marks, reconcile, recovery,
                   crashes>>

(* enqueue_recovered sends it again as it is, whatever has become of it since, and leaves it  *)
(* where it is when that fails.                                                               *)
Reenqueue(a) ==
    /\ a \in verified
    /\ verified' = {}
    /\ LET size == IF temp[a] = "none" THEN 0 ELSE 1
           fits == pendingBytes + size <= Budget /\ ~Closed /\ Len(channel) < Capacity
       IN  \/ /\ fits
              /\ pending' = pending + 1
              /\ pendingBytes' = pendingBytes + size
              /\ channel' = Append(channel, <<a, "recovered">>)
              /\ job' = [job EXCEPT ![<<a, "recovered">>].at = "queued"]
           \/ ~fits /\ UNCHANGED <<channel, job, pending, pendingBytes>>
    /\ UNCHANGED <<disk, callers, slots, worker, failures, drain, draining, inflight, marks,
                   reconcile, recovery, todo, abandoned, crashes>>

(* ... and cleanup_orphans follows. *)
RecoverDone ==
    /\ recovery = "running" /\ todo = {} /\ verified = {}
    /\ recovery' = "done"
    /\ Sweep(temp, sidecar)
    /\ UNCHANGED <<old, cloud, callers, job, slots, loop, stats, marks, reconcile, todo, verified, crashes>>

(* Data collection is found to be disabled: purge_spilled_items, even after a recovery. *)
Purge ==
    /\ Up /\ "purge" \in Events /\ reconcile # "purged"
    /\ reconcile' = "purged"
    /\ temp' = [a \in Artifacts |-> "none"]
    /\ sidecar' = {}
    /\ abandoned' = abandoned \cup {a \in Artifacts : temp[a] # "none"}
    /\ UNCHANGED <<old, cloud, callers, job, slots, loop, stats, marks, recovery, todo, verified, crashes>>

(* The clock. *)
Age(a) ==
    /\ "age" \in Events
    /\ temp[a] # "none" /\ a \notin old
    /\ old' = old \cup {a}
    /\ UNCHANGED <<temp, sidecar, cloud, callers, job, slots, loop, stats, marks, scan, abandoned,
                   crashes>>

AgeRecovered(j) ==
    /\ Recovered(j) /\ job[j].at \in Waiting /\ Artifact(j) \in old /\ ~job[j].old
    /\ job' = [job EXCEPT ![j].old = TRUE]
    /\ UNCHANGED <<disk, callers, slots, loop, stats, marks, scan, abandoned, crashes>>

(* The process dies.  When the power goes too it tears files that were never synced, and      *)
(* takes sidecars with it: they are synced, the directory that names them is not.             *)
Crash ==
    /\ Up /\ crashes < MaxCrashes
    /\ crashes' = crashes + 1
    /\ \E lost \in SUBSET {a \in Artifacts : "power" \in Events /\ temp[a] = "whole"},
          unnamed \in SUBSET {a \in sidecar : "power" \in Events} :
         /\ temp' = [a \in Artifacts |-> IF a \in lost THEN "torn" ELSE temp[a]]
         /\ sidecar' = sidecar \ unnamed
         /\ abandoned' = abandoned \cup lost \cup unnamed
    /\ worker' = "down"
    /\ caller' = [a \in Artifacts |-> IF caller[a] = "idle" THEN "idle" ELSE "returned"]
    /\ told' = [a \in Artifacts |-> IF told[a] = "waiting" THEN "closed" ELSE told[a]]
    /\ inline' = {} /\ channel' = << >> /\ slots' = {}
    /\ job' = [j \in Jobs |-> NoJob]
    /\ failures' = 0 /\ drain' = "none" /\ draining' = FALSE
    /\ pending' = 0 /\ pendingBytes' = 0 /\ inflight' = 0
    /\ marks' = {} /\ reconcile' = "fresh" /\ recovery' = "none" /\ todo' = {} /\ verified' = {}
    /\ UNCHANGED <<kind, old, cloud>>

(* The next life begins with cleanup_orphaned_uploads. *)
Restart ==
    /\ worker = "down"
    /\ worker' = "top"
    /\ Sweep(temp, sidecar)
    /\ UNCHANGED <<old, cloud, callers, job, slots, channel, failures, drain, draining, stats,
                   marks, scan, crashes>>

-----------------------------------------------------------------------------
Call(a) ==
    \/ \E k \in Calls : Begin(a, k)
    \/ WriteTemp(a) \/ WriteFails(a) \/ CheckBudget(a) \/ WriteSidecar(a)
    \/ Count(a) \/ Send(a) \/ SendFails(a)

Loop ==
    \/ LoopTop \/ CooldownEnds \/ Recv \/ SeeShutdown \/ Drained \/ DropHandles
    \/ ChannelEnds \/ Join
    \/ \E j \in Jobs : Dispatch(j)

Answer(j) == Uploaded(j) \/ Terminal(j) \/ Retryable(j) \/ AuthRetry(j) \/ Park(j)

Task(j) ==
    \/ Start(j) \/ Attempt(j) \/ Answer(j) \/ Wake(j) \/ ParkEnds(j) \/ CredentialGone(j)
    \/ Reacquire(j)
    \/ RemoveTemp(j) \/ RemoveSidecar(j) \/ SettleInflight(j) \/ SettlePending(j)

Recover ==
    \/ RecoverScan \/ RecoverDone
    \/ \E a \in Artifacts : RecoverCheck(a) \/ Reenqueue(a)

Next ==
    \/ \E a \in Artifacts : Call(a) \/ InlineUpload(a) \/ Age(a)
    \/ Loop \/ Drain \/ DrainTimesOut
    \/ \E j \in Jobs : Task(j) \/ AgeRecovered(j)
    \/ Recover \/ Purge \/ Crash \/ Restart

Spec == Init /\ [][Next]_vars

-----------------------------------------------------------------------------
Files == {"none", "torn", "whole"}

(* Every part of the state has its type; no more than MaxConcurrent uploads hold a slot and   *)
(* the channel stays within its capacity, whatever parks, resumes or is recovered.            *)
TypeOK ==
    /\ temp \in [Artifacts -> Files] /\ cloud \in [Artifacts -> Files]
    /\ sidecar \subseteq Artifacts /\ old \subseteq Artifacts /\ abandoned \subseteq Artifacts
    /\ kind \in [Artifacts -> Calls \cup {"none"}]
    /\ caller \in [Artifacts -> {"idle", "writing", "budget", "sidecar", "count", "send",
                                 "returned"}]
    /\ told \in [Artifacts -> {"nothing", "deduplicated", "failed", "inline", "enqueued",
                               "waiting", "uploaded", "error", "parked", "closed"}]
    /\ inline \subseteq Artifacts
    /\ channel \in Seq(Jobs) /\ Len(channel) <= Capacity
    /\ job \in [Jobs -> [at : Waiting \cup Finishing \cup {"none", "aborted", "settled"},
                         attempts : 0 .. MaxAttempts, authRetried : BOOLEAN, old : BOOLEAN,
                         opened : Files, bytes : 0 .. 1,
                         result : {"none", "ok", "failed", "expired"}]]
    /\ slots \subseteq Jobs /\ Cardinality(slots) <= MaxConcurrent
    /\ worker \in {"top", "select", "cooldown", "acquire", "drain", "drainAcquire", "joining",
                   "exited", "aborted", "down"}
    /\ failures \in 0 .. Threshold
    /\ drain \in {"none", "asked", "done", "timedOut", "dropped"} /\ draining \in BOOLEAN
    /\ pending \in Nat /\ pendingBytes \in Nat /\ inflight \in Nat
    /\ marks \subseteq Addressed
    /\ reconcile \in {"fresh", "recovered", "purged"}
    /\ recovery \in {"none", "running", "done"} /\ todo \subseteq Artifacts
    /\ verified \subseteq Artifacts
    /\ crashes \in 0 .. MaxCrashes

(* What has become of an artifact.  It is accepted when enqueue_bytes_blocking has answered   *)
(* Enqueued: its pair must then be on disk and whole.  A waiter who was told that the upload  *)
(* is done must find it done.                                                                 *)
Fate(a) ==
    IF cloud[a] # "none" THEN "stored"
    ELSE IF told[a] = "uploaded" THEN "lost"
    ELSE IF a \in abandoned THEN "dropped"
    ELSE IF ~(told[a] = "enqueued" /\ kind[a] = "durable") THEN "open"
    ELSE IF temp[a] = "whole" /\ a \in sidecar THEN "accepted" ELSE "lost"

Promise == INSTANCE DurableUpload WITH fate <- [a \in Artifacts |-> Fate(a)]

(* The queue implements the durable upload: no crash, abort, restart, purge or second life of *)
(* a pair makes an accepted artifact vanish, and no waiter is told of an upload that was none.*)
KeepsPromise == Promise!Spec

(* The bytes that reach the object store are the bytes that were enqueued, although temp      *)
(* files are written without a sync and a crash may leave them torn.                          *)
CloudIsWhole == \A a \in Artifacts : cloud[a] # "torn"

(* wait_idle: a pending count of zero means that nothing accepted is left unsettled. *)
IdleMeansSettled ==
    pending = 0 => \A j \in Jobs : job[j].at \notin Waiting \cup Finishing

(* Items that are still to be settled. *)
Unsettled == {j \in Jobs : job[j].at \in Waiting \cup Finishing}

(* The gauges never show more uploads under way than items pending, and pending_bytes is      *)
(* never settled below what the unsettled items will still subtract from it.                  *)
GaugesHold ==
    /\ inflight <= pending
    /\ pendingBytes >= Cardinality({j \in Unsettled : job[j].bytes = 1})

(* A destination is marked in flight only by a call under way or an unsettled item: a mark    *)
(* that nobody holds would drop every later upload to it.                                     *)
MarksAreHeld ==
    \A d \in marks : \E a \in Artifacts :
      /\ Dedups(a) /\ Dest[a] = d
      /\ \/ caller[a] \notin {"idle", "returned"}
         \/ <<a, "sent">> \in Unsettled

(* No upload is on the wire without a concurrency slot, and no slot stays with an item that   *)
(* has parked, gone back to the end of the line, been aborted or been settled: the slots in   *)
(* use are those of the tasks that still run.                                                 *)
Slotted == {"spawned", "attempt", "wire"}
SlotsAreUsed ==
    /\ {j \in Jobs : job[j].at \in Slotted} \subseteq slots
    /\ slots \subseteq {j \in Jobs : job[j].at \in Slotted \cup Finishing}

(* A caller of enqueue_blocking that waits is owed its answer by somebody: an item of its own *)
(* that is not settled, or an inline upload.  However its item expires, parks, is refused or  *)
(* aborted, the answer is not forgotten with it.                                              *)
WaiterIsOwed ==
    \A a \in Artifacts : told[a] = "waiting" => a \in inline \/ <<a, "sent">> \in Unsettled

(* drain() that returns in time answers that nothing remains: when the worker has exited no   *)
(* item is in the channel, in its hand, parked or under way, although callers and recovery    *)
(* were sending until the channel closed.                                                     *)
DrainLeavesNothing == worker = "exited" => Unsettled = {}

-----------------------------------------------------------------------------
(* Every task and the worker go on, and the network answers.  The permits of a tokio          *)
(* semaphore go to its waiters in their order: nobody is passed over for ever.  Nothing is    *)
(* assumed of the clock, the credentials, the callers or the deadline of drain().             *)
Fairness ==
    /\ WF_vars(LoopTop \/ CooldownEnds \/ Recv \/ Drained \/ ChannelEnds \/ Join)
    /\ SF_vars(SeeShutdown)
    /\ SF_vars(\E j \in Jobs : Dispatch(j))
    /\ \A a \in Artifacts :
         WF_vars(WriteTemp(a) \/ CheckBudget(a) \/ WriteSidecar(a) \/ Count(a) \/ Send(a)
                 \/ SendFails(a) \/ InlineUpload(a))
    /\ \A j \in Jobs :
         /\ WF_vars(Start(j) \/ Attempt(j) \/ Answer(j) \/ ParkEnds(j) \/ RemoveTemp(j)
                    \/ RemoveSidecar(j) \/ SettleInflight(j) \/ SettlePending(j))
         /\ SF_vars(Reacquire(j))

FairSpec == Spec /\ Fairness

(* drain() ends although its deadline never passes: the dispatch loop does not stay behind    *)
(* items that wait for credentials, and those do not outlast the drain.                       *)
DrainCompletes == drain = "asked" ~> drain # "asked"

(* The caller of enqueue_blocking is not left waiting, although an item may wait for          *)
(* credentials for as long as max_age.                                                        *)
WaiterReleased == \A a \in Artifacts : told[a] = "waiting" ~> told[a] # "waiting"

=============================================================================
