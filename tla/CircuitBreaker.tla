---------------------------- MODULE CircuitBreaker ----------------------------
(***************************************************************************)
(* The shared HTTP circuit breaker (xai-circuit-breaker): one breaker, its *)
(* sliding window behind a mutex, and callers on many threads that run     *)
(* check() and record() over five atomics.  A step is one access to an     *)
(* atomic, one critical section of the window, or one reading of the       *)
(* clock; the interleaving is sequentially consistent.                     *)
(*                                                                         *)
(* Times are kept as ages, the ticks since the moment they name, and stop  *)
(* growing at Horizon, past which nothing the code compares can change.    *)
(***************************************************************************)
EXTENDS Integers, Sequences, FiniteSets

CONSTANTS
    Callers,
    OpenFor,     \* open_duration, and the lease of a probe
    WindowFor,   \* window_duration
    MinSamples,  \* min_samples
    RateNum,     \* error_rate_threshold = RateNum / RateDen
    RateDen,
    MaxProbes,   \* half_open_max_probes, clamped to at least 1
    MaxEntries,  \* MAX_WINDOW_ENTRIES
    WordMax,     \* the largest usize
    MaxInside,   \* bound: the callers inside check() or record() at once
    MaxStall     \* bound: the ticks a caller may hold a reading of the clock

ASSUME BreakerAssumption ==
    /\ OpenFor \in Nat /\ WindowFor \in Nat /\ MinSamples \in Nat
    /\ RateNum \in Nat /\ RateDen \in Nat \ {0}
    /\ MaxProbes \in Nat \ {0} /\ MaxEntries \in Nat \ {0}
    /\ WordMax \in Nat /\ WordMax > MaxProbes
    /\ MaxInside \in Nat /\ MaxStall \in Nat

VARIABLES
    state,     \* the authoritative state
    fast,      \* is_open_fast
    opened,    \* opened_at_millis, as an age
    claimed,   \* probe_claimed_at_millis, as an age
    probes,    \* half_open_probes
    entries,   \* SlidingWindow.entries, oldest first
    failures,  \* SlidingWindow.failures
    pc,        \* where each caller is
    clock,     \* the reading of the clock each caller holds, as an age
    loaded     \* the time each caller has loaded from an atomic, as an age

atomics == <<state, fast, opened, claimed, probes>>
window  == <<entries, failures>>
vars == <<atomics, window, pc, clock, loaded>>

States == {"closed", "open", "halfOpen"}

(* What a caller does next, named for the access: in check(), between check() and record(), *)
(* in record().                                                                            *)
InCheck  == {"opened", "elapsed", "cas", "mirror", "lost", "now", "add", "claim", "sub", "lease",
             "takeover"}
InRecord == {"sample", "late", "trip", "trip_at", "trip_probes", "trip_fast", "close",
             "close_window", "close_probes", "close_fast"}

(* The largest age that the code can tell from an older one. *)
Horizon == OpenFor + WindowFor + 2 * MaxStall + 1

Older(age) == IF age = Horizon THEN Horizon ELSE age + 1

(* A sample, as the window keeps it. *)
Samples == [age : 0 .. Horizon, bad : BOOLEAN]

(* A time that a caller has not read. *)
NoTime == 0

Init ==
    /\ state = "closed"
    /\ fast = FALSE
    /\ opened = 0
    /\ claimed = 0
    /\ probes = 0
    /\ entries = << >>
    /\ failures = 0
    /\ pc = [c \in Callers |-> "idle"]
    /\ clock = [c \in Callers |-> NoTime]
    /\ loaded = [c \in Callers |-> NoTime]

Inside == {c \in Callers : pc[c] \in InCheck \cup InRecord}

(* Where a caller still needs its reading of the clock, or the time it has loaded. *)
HoldsClock  == {"add", "claim", "sub", "lease", "takeover", "sample", "late"}
HoldsLoaded == {"elapsed", "takeover"}

(* Caller c goes on to p, holding the clock reading t and the loaded time l if p needs them. *)
GotoWith(c, p, t, l) ==
    /\ pc' = [pc EXCEPT ![c] = p]
    /\ clock' = [clock EXCEPT ![c] = IF p \in HoldsClock THEN t ELSE NoTime]
    /\ loaded' = [loaded EXCEPT ![c] = IF p \in HoldsLoaded THEN l ELSE NoTime]

Goto(c, p) == GotoWith(c, p, clock[c], loaded[c])

(* saturating_sub, on ages: how much longer ago a is than b. *)
Since(a, b) == IF a > b THEN a - b ELSE 0

-----------------------------------------------------------------------------
(* check(). *)

(* The state is loaded; closed admits at once. *)
Check(c) ==
    /\ pc[c] = "idle" /\ Cardinality(Inside) < MaxInside
    /\ \/ state = "closed"   /\ Goto(c, "admitted")
       \/ state = "open"     /\ Goto(c, "opened")
       \/ state = "halfOpen" /\ Goto(c, "now")
    /\ UNCHANGED <<atomics, window>>

(* check_open: opened_at_millis is loaded ... *)
LoadOpened(c) ==
    /\ pc[c] = "opened"
    /\ GotoWith(c, "elapsed", NoTime, opened)
    /\ UNCHANGED <<atomics, window>>

(* ... and compared with the clock: a breaker that has not cooled down rejects. *)
CompareElapsed(c) ==
    /\ pc[c] = "elapsed"
    /\ Goto(c, IF loaded[c] >= OpenFor THEN "cas" ELSE "idle")
    /\ UNCHANGED <<atomics, window>>

(* cas_state(Open, HalfOpen). *)
CasHalfOpen(c) ==
    /\ pc[c] = "cas"
    /\ \/ state = "open" /\ state' = "halfOpen" /\ Goto(c, "mirror")
       \/ state # "open" /\ UNCHANGED state /\ Goto(c, "lost")
    /\ UNCHANGED <<fast, opened, claimed, probes, window>>

(* The winner clears the mirror and queues for a probe slot as everyone else. *)
MirrorHalfOpen(c) ==
    /\ pc[c] = "mirror"
    /\ fast' = FALSE
    /\ Goto(c, "now")
    /\ UNCHANGED <<state, opened, claimed, probes, window>>

(* The loser looks at the state again. *)
Reevaluate(c) ==
    /\ pc[c] = "lost"
    /\ \/ state = "closed"   /\ Goto(c, "admitted")
       \/ state = "open"     /\ Goto(c, "idle")
       \/ state = "halfOpen" /\ Goto(c, "now")
    /\ UNCHANGED <<atomics, window>>

(* try_half_open_probe: the clock is read ... *)
ReadClock(c) ==
    /\ pc[c] = "now"
    /\ GotoWith(c, "add", 0, NoTime)
    /\ UNCHANGED <<atomics, window>>

(* ... a slot is asked for (fetch_add, which wraps) ... *)
AddProbe(c) ==
    /\ pc[c] = "add"
    /\ probes' = (probes + 1) % (WordMax + 1)
    /\ Goto(c, IF probes < MaxProbes THEN "claim" ELSE "sub")
    /\ UNCHANGED <<state, fast, opened, claimed, window>>

(* ... and granted, the claim dated with the time read before, *)
StoreClaim(c) ==
    /\ pc[c] = "claim"
    /\ claimed' = clock[c]
    /\ Goto(c, "admitted")
    /\ UNCHANGED <<state, fast, opened, probes, window>>

(* or not, and the count is put back (fetch_sub, which wraps if it was zeroed meanwhile). *)
SubProbe(c) ==
    /\ pc[c] = "sub"
    /\ probes' = (probes + WordMax) % (WordMax + 1)
    /\ Goto(c, "lease")
    /\ UNCHANGED <<state, fast, opened, claimed, window>>

(* Fault: a claim is never taken for abandoned. *)
LoadClaimNever(c) ==
    /\ pc[c] = "lease"
    /\ Goto(c, "idle")
    /\ UNCHANGED <<atomics, window>>

(* A claim as old as the lease may be taken over. *)
LoadClaim(c) ==
    /\ pc[c] = "lease"
    /\ GotoWith(c, IF Since(claimed, clock[c]) >= OpenFor THEN "takeover" ELSE "idle",
                clock[c], claimed)
    /\ UNCHANGED <<atomics, window>>

(* Fault: a plain store in place of the compare-and-exchange. *)
TakeOverBlindly(c) ==
    /\ pc[c] = "takeover"
    /\ claimed' = clock[c]
    /\ Goto(c, "admitted")
    /\ UNCHANGED <<state, fast, opened, probes, window>>

(* compare_exchange of the claim with the time read before: its winner is admitted. *)
TakeOver(c) ==
    /\ pc[c] = "takeover"
    /\ \/ claimed = loaded[c] /\ claimed' = clock[c] /\ Goto(c, "admitted")
       \/ claimed # loaded[c] /\ UNCHANGED claimed /\ Goto(c, "idle")
    /\ UNCHANGED <<state, fast, opened, probes, window>>

-----------------------------------------------------------------------------
(* The sliding window, always under its mutex. *)

(* Fault: a window without a limit. *)
PushUncapped(es, f, s) ==
    [entries |-> Append(es, s), failures |-> f + (IF s.bad THEN 1 ELSE 0)]

(* SlidingWindow::push: at the limit the oldest entry makes room. *)
Push(es, f, s) ==
    LET full == Len(es) >= MaxEntries
    IN  [entries  |-> Append(IF full THEN Tail(es) ELSE es, s),
         failures |-> f - (IF full /\ Head(es).bad THEN 1 ELSE 0) + (IF s.bad THEN 1 ELSE 0)]

(* Fault: every expired failure leaves the count, those behind a young entry too. *)
EvictCountsExpired(w, now) ==
    LET n == CHOOSE k \in 0 .. Len(w.entries) :
                /\ \A i \in 1 .. k : w.entries[i].age - now > WindowFor
                /\ k < Len(w.entries) => w.entries[k + 1].age - now <= WindowFor
        expired == {i \in DOMAIN w.entries : w.entries[i].age - now > WindowFor}
    IN  [entries  |-> SubSeq(w.entries, n + 1, Len(w.entries)),
         failures |-> w.failures - Cardinality({i \in expired : w.entries[i].bad})]

(* SlidingWindow::evict: entries older than the window leave from the front, up to the first *)
(* that is not.  A caller that held its reading of the clock may have pushed an older one     *)
(* behind it.                                                                                *)
Evict(w, now) ==
    LET n == CHOOSE k \in 0 .. Len(w.entries) :
                /\ \A i \in 1 .. k : w.entries[i].age - now > WindowFor
                /\ k < Len(w.entries) => w.entries[k + 1].age - now <= WindowFor
    IN  [entries  |-> SubSeq(w.entries, n + 1, Len(w.entries)),
         failures |-> w.failures - Cardinality({i \in 1 .. n : w.entries[i].bad})]

(* A sample is pushed with the time read before, then the window is evicted against that time. *)
Sampled(c, bad) == Evict(Push(entries, failures, [age |-> clock[c], bad |-> bad]), clock[c])

(* sample_count and error_rate reach their thresholds. *)
ShouldTrip(w) ==
    /\ Len(w.entries) >= MinSamples
    /\ w.failures * RateDen >= RateNum * Len(w.entries)

-----------------------------------------------------------------------------
(* record(). *)

(* An admitted caller reads the clock and the state; in HalfOpen the outcome decides at once. *)
Record(c, bad) ==
    /\ pc[c] = "admitted" /\ Cardinality(Inside) < MaxInside
    /\ \/ state = "closed"   /\ GotoWith(c, "sample", 0, NoTime)
       \/ state = "open"     /\ GotoWith(c, "late", 0, NoTime)
       \/ state = "halfOpen" /\ Goto(c, IF bad THEN "trip" ELSE "close")
    /\ UNCHANGED <<atomics, window>>

(* The outcome is taken when the sample is: record() holds it from the start. *)
Sample(c, bad) ==
    /\ pc[c] \in {"sample", "late"}
    /\ LET w == Sampled(c, bad)
       IN  /\ entries' = w.entries
           /\ failures' = w.failures
           /\ Goto(c, IF pc[c] = "sample" /\ ShouldTrip(w) THEN "trip" ELSE "idle")
    /\ UNCHANGED atomics

(* A call whose outcome is never recorded: it was dropped, or its status counts as neither. *)
Abandon(c) ==
    /\ pc[c] = "admitted"
    /\ Goto(c, "idle")
    /\ UNCHANGED <<atomics, window>>

(* trip: Open is published first, *)
TripState(c) ==
    /\ pc[c] = "trip"
    /\ state' = "open"
    /\ Goto(c, "trip_at")
    /\ UNCHANGED <<fast, opened, claimed, probes, window>>

(* then the time of the trip, *)
TripOpened(c) ==
    /\ pc[c] = "trip_at"
    /\ opened' = 0
    /\ Goto(c, "trip_probes")
    /\ UNCHANGED <<state, fast, claimed, probes, window>>

(* then the probe count is zeroed, *)
TripProbes(c) ==
    /\ pc[c] = "trip_probes"
    /\ probes' = 0
    /\ Goto(c, "trip_fast")
    /\ UNCHANGED <<state, fast, opened, claimed, window>>

(* and last the mirror is set. *)
TripFast(c) ==
    /\ pc[c] = "trip_fast"
    /\ fast' = TRUE
    /\ Goto(c, "idle")
    /\ UNCHANGED <<state, opened, claimed, probes, window>>

(* close: Closed is published first, *)
CloseState(c) ==
    /\ pc[c] = "close"
    /\ state' = "closed"
    /\ Goto(c, "close_window")
    /\ UNCHANGED <<fast, opened, claimed, probes, window>>

(* then the window is cleared, *)
CloseWindow(c) ==
    /\ pc[c] = "close_window"
    /\ entries' = << >> /\ failures' = 0
    /\ Goto(c, "close_probes")
    /\ UNCHANGED atomics

(* the probe count zeroed *)
CloseProbes(c) ==
    /\ pc[c] = "close_probes"
    /\ probes' = 0
    /\ Goto(c, "close_fast")
    /\ UNCHANGED <<state, fast, opened, claimed, window>>

(* and the mirror cleared. *)
CloseFast(c) ==
    /\ pc[c] = "close_fast"
    /\ fast' = FALSE
    /\ Goto(c, "idle")
    /\ UNCHANGED <<state, opened, claimed, probes, window>>

(* error_rate(), which a telemetry reader may call at any time, evicts too. *)
ReadErrorRate ==
    /\ LET w == Evict([entries |-> entries, failures |-> failures], 0)
       IN  entries' = w.entries /\ failures' = w.failures
    /\ <<entries', failures'>> # <<entries, failures>>
    /\ UNCHANGED <<atomics, pc, clock, loaded>>

(* Time passes.  Bound: nobody holds a reading of the clock for more than MaxStall ticks. *)
Tick ==
    /\ \A c \in Callers : clock[c] < MaxStall
    /\ opened' = Older(opened)
    /\ claimed' = Older(claimed)
    /\ entries' = [i \in DOMAIN entries |-> [entries[i] EXCEPT !.age = Older(@)]]
    /\ clock' = [c \in Callers |-> IF pc[c] \in HoldsClock THEN clock[c] + 1 ELSE NoTime]
    /\ loaded' = [c \in Callers |-> IF pc[c] \in HoldsLoaded THEN Older(loaded[c]) ELSE NoTime]
    /\ UNCHANGED <<state, fast, probes, failures, pc>>

CheckSteps(c) ==
    \/ LoadOpened(c) \/ CompareElapsed(c) \/ CasHalfOpen(c) \/ MirrorHalfOpen(c)
    \/ Reevaluate(c) \/ ReadClock(c) \/ AddProbe(c) \/ StoreClaim(c) \/ SubProbe(c)
    \/ LoadClaim(c) \/ TakeOver(c)

RecordSteps(c) ==
    \/ \E bad \in BOOLEAN : Sample(c, bad)
    \/ TripState(c) \/ TripOpened(c) \/ TripProbes(c) \/ TripFast(c)
    \/ CloseState(c) \/ CloseWindow(c) \/ CloseProbes(c) \/ CloseFast(c)

Next ==
    \/ \E c \in Callers :
          \/ Check(c)
          \/ CheckSteps(c)
          \/ \E bad \in BOOLEAN : Record(c, bad)
          \/ RecordSteps(c)
          \/ Abandon(c)
    \/ ReadErrorRate
    \/ Tick

Spec == Init /\ [][Next]_vars

(***************************************************************************)
(* Callers keep asking, the runtime runs them, a call ends one way or the  *)
(* other (it has a timeout), and time passes.                              *)
(***************************************************************************)
Fairness ==
    /\ \A c \in Callers :
          /\ WF_vars(Check(c))
          /\ WF_vars(CheckSteps(c))
          /\ WF_vars(RecordSteps(c))
          /\ WF_vars(Abandon(c) \/ \E bad \in BOOLEAN : Record(c, bad))
    /\ SF_vars(Tick)

FairSpec == Spec /\ Fairness

-----------------------------------------------------------------------------
(* Properties. *)

(* The breaker and its callers have their types, and the window its bound. *)
TypeOK ==
    /\ state \in States
    /\ fast \in BOOLEAN
    /\ opened \in 0 .. Horizon
    /\ claimed \in 0 .. Horizon
    /\ probes \in 0 .. WordMax
    /\ entries \in Seq(Samples) /\ Len(entries) <= MaxEntries
    /\ failures \in Nat
    /\ pc \in [Callers -> InCheck \cup InRecord \cup {"idle", "admitted"}]
    /\ clock \in [Callers -> 0 .. MaxStall]
    /\ loaded \in [Callers -> 0 .. Horizon]

(***************************************************************************)
(* The incremental count of failures is the number of failing entries,     *)
(* whatever the limit and the age of the window have pushed out, and       *)
(* however late a caller brings its sample.                                *)
(***************************************************************************)
WindowCounts == failures = Cardinality({i \in DOMAIN entries : entries[i].bad})

(***************************************************************************)
(* An abandoned probe is replaced by exactly one caller: no claim younger  *)
(* than the lease is taken over, not even by a caller that saw it expired  *)
(* before another one took it.                                             *)
(***************************************************************************)
OneTakeover ==
    [][\A c \in Callers :
         pc[c] = "takeover" /\ pc'[c] = "admitted" => Since(claimed, clock[c]) >= OpenFor]_vars

(***************************************************************************)
(* Shedding does not last: as long as callers ask, one is admitted again   *)
(* and again, although probes are abandoned, fail or lose their slot to a  *)
(* count that wrapped.                                                     *)
(***************************************************************************)
KeepsProbing == []<>(\E c \in Callers : pc[c] = "admitted")

=============================================================================
