---------------------------- MODULE ReadyQueues -----------------------------
(***************************************************************************)
(* What "priority-based round-robin" (include/scheduler.h:12) asks of the  *)
(* ready queues: a task joins a queue at its end, and leaves or moves      *)
(* without disturbing the order of the others.                             *)
(***************************************************************************)
EXTENDS SequencesExt

CONSTANTS Entries, Levels

VARIABLE queues   \* for each level, the entries that are ready, in order

Queued == UNION {Range(queues[l]) : l \in Levels}

Without(l, i) == [queues EXCEPT ![l] = RemoveAt(@, i)]

Join(l, e) == e \notin Queued /\ queues' = [queues EXCEPT ![l] = Append(@, e)]

Leave(l, i) == queues' = Without(l, i)

Move(from, to, i) == queues' = [Without(from, i) EXCEPT ![to] = Append(@, queues[from][i])]

Init == queues = [l \in Levels |-> <<>>]

Next ==
  \E l \in Levels :
     \/ \E e \in Entries : Join(l, e)
     \/ \E i \in DOMAIN queues[l] : Leave(l, i) \/ \E to \in Levels : Move(l, to, i)

Spec == Init /\ [][Next]_queues
=============================================================================
