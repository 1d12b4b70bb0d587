---------------------------- MODULE DurableUpload ----------------------------
(***************************************************************************)
(* What the upload queue promises of an artifact, whatever happens to the  *)
(* process: once it is accepted it stays accepted until it is stored or a  *)
(* policy drops it, and what is stored stays stored.  A crash, an abort or *)
(* a restart is no step of its own.                                        *)
(***************************************************************************)
CONSTANT Artifacts

VARIABLE fate  \* "open", "accepted", "stored" or "dropped"

Init == fate = [a \in Artifacts |-> "open"]

Becomes(S, f) == fate' = [a \in Artifacts |-> IF a \in S THEN f ELSE fate[a]]

In(F) == {a \in Artifacts : fate[a] \in F}

(* The caller is told that the queue has it. *)
Accept == \E S \in SUBSET In({"open"}) : Becomes(S, "accepted")

(* The store has it, however late: an artifact can be stored although it was given up. *)
Store == \E S \in SUBSET In({"open", "accepted", "dropped"}) : Becomes(S, "stored")

(* A policy gives it up: age, a refusal, too many attempts, a torn file, an opt-out. *)
Drop == \E S \in SUBSET In({"open", "accepted"}) : Becomes(S, "dropped")

Next == Accept \/ Store \/ Drop

Spec == Init /\ [][Next]_fate

=============================================================================
