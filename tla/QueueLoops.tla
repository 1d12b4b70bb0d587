------------------------------ MODULE QueueLoops ------------------------------
(***************************************************************************)
(* The loops that the session runs over `State::pending_inputs`, one       *)
(* element at a time as the code has them.  PromptQueue says in closed     *)
(* form what they compute; TLC compares the two on the queues that a small *)
(* session reaches and QueueLoopsProofs proves them equal on every queue.  *)
(***************************************************************************)
EXTENDS PromptQueue

(* The `for` loop of a sweep: `kept` after the first n items of s. *)
Swept(s, Keep) ==
    LET kept[n \in 0 .. Len(s)] ==
          IF n = 0 THEN << >>
          ELSE IF s[n] \in Keep THEN Append(kept[n - 1], s[n]) ELSE kept[n - 1]
    IN  kept[Len(s)]

(* The `while` loop of queue_input: from `insert_at` = p, step over the prompts in sn. *)
SteppedOver(q, p, sn) ==
    LET stop[i \in 0 .. Len(q)] ==
          IF i < Len(q) /\ q[i + 1] \in sn THEN stop[i + 1] ELSE i
    IN  stop[p]

(* The sort key: the position of x in the client's list, last of all if it is not named. *)
Rank(ord, x) ==
    IF x \in Elems(ord) THEN CHOOSE i \in DOMAIN ord : ord[i] = x ELSE Len(ord) + 1

(* The rows of t that the sort puts before one of rank r: a stable sort puts equals there. *)
NotAbove(t, ord, r) == {i \in DOMAIN t : Rank(ord, t[i]) <= r}

(* sort_by_key, as an insertion sort: the first n rows of s, each one behind its equals. *)
SortedByRank(s, ord) ==
    LET sorted[n \in 0 .. Len(s)] ==
          IF n = 0 THEN << >>
          ELSE InsertBehind(sorted[n - 1],
                            Cardinality(NotAbove(sorted[n - 1], ord, Rank(ord, s[n]))),
                            s[n])
    IN  sorted[Len(s)]

(* handle_reorder_queue: the rows that move are parted from the others, sorted, put behind. *)
PartedAndSorted(q, movable, ord) ==
    Swept(q, Elems(q) \ movable) \o SortedByRank(Swept(q, movable), ord)

=============================================================================
