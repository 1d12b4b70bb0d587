---------------------------- MODULE TurnScheduler ----------------------------
(***************************************************************************)
(* What a session promises of a prompt.  It is taken in once, gets the one *)
(* turn slot at most once and only while the slot is free, and is answered *)
(* once.  The answer tells what happened to it: only a prompt that had the *)
(* slot is done, rewound or, if it is a user's, cancelled; only one that   *)
(* never had it is removed, merged or discarded; and only a prompt the     *)
(* session made up itself is dropped, or cancelled before it has run.  A   *)
(* prompt whose turn is being stopped has lost the slot and is not yet     *)
(* answered; it never waits again.                                         *)
(***************************************************************************)
CONSTANTS Users, Synthetic

VARIABLE phase

Prompts == Users \cup Synthetic

(* What may become of any prompt, of a user's, and of a synthetic one. *)
Path == {<<"fresh", "waiting">>, <<"fresh", "running">>, <<"waiting", "running">>,
         <<"running", "done">>,
         <<"running", "cancelling">>, <<"cancelling", "cancelled">>,
         <<"running", "rewinding">>, <<"rewinding", "rewound">>,
         <<"running", "killing">>, <<"waiting", "killing">>, <<"killing", "killed">>}

UserPath == Path \cup {<<"waiting", "removed">>, <<"waiting", "merged">>,
                       <<"waiting", "discarded">>}

SyntheticPath == Path \cup {<<"waiting", "dropped">>, <<"running", "dropped">>,
                            <<"waiting", "cancelling">>}

Init == phase = [p \in Prompts |-> "fresh"]

Slot(f) == {p \in Prompts : f[p] = "running"}

(* One step of the session moves any number of prompts. *)
Next ==
    /\ DOMAIN phase' = Prompts
    /\ \A p \in Prompts : phase'[p] # phase[p] =>
         <<phase[p], phase'[p]>> \in (IF p \in Users THEN UserPath ELSE SyntheticPath)
    /\ Slot(phase') \ Slot(phase) # {} =>
         Slot(phase) = {} /\ \E p \in Prompts : Slot(phase') = {p}

Spec == Init /\ [][Next]_phase

=============================================================================
