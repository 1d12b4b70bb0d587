----------------------------- MODULE PromptQueue -----------------------------
(***************************************************************************)
(* The order-only operations on `State::pending_inputs`, the VecDeque that *)
(* holds a session's prompts: guarded sweeps, the insertion point of a     *)
(* send-now prompt and the reorder of the shared queue.  The queue is a    *)
(* sequence of prompt ids; what an id carries (origin, owner, version,     *)
(* send_now) is kept by the modules that use these operators.              *)
(*                                                                         *)
(* The operators are in closed form, which is what proofs about the        *)
(* session need; the loops of the code are in QueueLoops.  The runs of     *)
(* SessionActor compare the two, and QueueLoopsProofs proves them equal.   *)
(***************************************************************************)
EXTENDS Naturals, Sequences, FiniteSets

(* The k-th smallest element of the finite set of numbers K. *)
Nth(K, k) == CHOOSE i \in K : Cardinality({j \in K : j < i}) = k - 1

(* The positions of s whose element is in Keep. *)
KeptAt(s, Keep) == {i \in DOMAIN s : s[i] \in Keep}

(* Fault: a sweep that spares the front, whatever it is. *)
OnlyBehindFront(s, Keep) ==
    LET K == KeptAt(s, Keep) \cup (DOMAIN s \cap {1})
    IN  [k \in 1 .. Cardinality(K) |-> s[Nth(K, k)]]

(* The elements of s that are in Keep, in the order of s. *)
Only(s, Keep) ==
    LET K == KeptAt(s, Keep)
    IN  [k \in 1 .. Cardinality(K) |-> s[Nth(K, k)]]

(* The elements of s. *)
Elems(s) == {s[i] : i \in DOMAIN s}

(* s with x inserted behind its first p elements. *)
InsertBehind(s, p, x) == SubSeq(s, 1, p) \o <<x>> \o SubSeq(s, p + 1, Len(s))

(* Fault: an insertion point that may displace the running front. *)
BehindNothing(q, run) == 0

(***************************************************************************)
(* 1 when the front of the queue is the running turn's own slot, else 0:   *)
(* the position behind which nothing may displace the running front.       *)
(***************************************************************************)
BehindRunning(q, run) == IF q # << >> /\ Head(q) = run THEN 1 ELSE 0

(* Fault: an insertion point that counts every queued send-now prompt. *)
BehindAllSendNow(q, run, sn) ==
    LET b == BehindRunning(q, run) IN b + Cardinality({k \in (b + 1) .. Len(q) : q[k] \in sn})

(***************************************************************************)
(* Where a send-now prompt lands: behind the running front and behind the  *)
(* send-now prompts (the set sn) that directly follow it.                  *)
(***************************************************************************)
SendNowSlot(q, run, sn) ==
    LET b == BehindRunning(q, run)
    IN  b + Cardinality({k \in (b + 1) .. Len(q) : \A j \in (b + 1) .. k : q[j] \in sn})

(* Fault: a reorder that keeps only the rows the client named. *)
ReorderedNamedOnly(q, movable, ord) ==
    Only(q, Elems(q) \ movable) \o Only(ord, Elems(q) \cap movable)

(***************************************************************************)
(* The queue with its movable rows put in the order of the list ord: the   *)
(* other rows first, then the movable rows ord names, in its order, then   *)
(* the movable rows it does not name.  (The stable sort by rank of the     *)
(* code; ord names an id at most once.)                                    *)
(***************************************************************************)
Reordered(q, movable, ord) ==
    Only(q, Elems(q) \ movable)
      \o Only(ord, Elems(q) \cap movable)
      \o Only(q, movable \ Elems(ord))

=============================================================================
