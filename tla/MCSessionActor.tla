--------------------------- MODULE MCSessionActor ---------------------------
(* Model-checking instances of SessionActor. *)
EXTENDS SessionActor, TLC

(* Every user prompt is from the first client, or the prompts alternate between two. *)
CONSTANTS u1, u2, u3, c1, c2

OneOwner  == [u \in Users |-> c1]
TwoOwners == [u \in Users |-> IF u = u1 THEN c1 ELSE c2]

(* User prompts are interchangeable where their owners and what their turns may do are. *)
Alike == Permutations(Users)
=============================================================================
