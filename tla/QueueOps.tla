------------------------------ MODULE QueueOps ------------------------------
(***************************************************************************)
(* Taking several elements out of a queue of utils/list.c, one call of     *)
(* extract_from_queue for each, which leaves the others in their order.    *)
(***************************************************************************)
EXTENDS Integers, Sequences, FiniteSets

Without(queue, left) ==
    LET stay == {i \in DOMAIN queue : queue[i] \notin left}
        order == CHOOSE f \in [1 .. Cardinality(stay) -> stay] :
                     \A i, j \in DOMAIN f : i < j => f[i] < f[j]
    IN  [i \in DOMAIN order |-> queue[order[i]]]
=============================================================================
