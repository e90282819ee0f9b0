-------------------------- MODULE MCReentrantBook --------------------------
(* ReentrantBook on a few nodes, ids, prices and quantities.                *)
EXTENDS ReentrantBook

QueueOf(level) ==
  LET queue == Queue(level)
  IN [k \in DOMAIN queue |-> <<node[queue[k]].id, node[queue[k]].quantity>>]

(* Which free node an order gets decides nothing, and neither `out` nor a   *)
(* total is ever read: two states with the same orders in the same queues   *)
(* and the same activations have the same future.                           *)
QueuesState ==
  <<[side \in Sides |-> [l \in Levels |-> QueueOf(ladder[side][l])]],
    bits, [id \in OrderIds |-> index[id] = npos],
    IF Idle THEN <<>>
    ELSE <<frame.id, frame.side, frame.price, frame.remaining>>,
    [k \in DOMAIN stack |-> [stack[k] EXCEPT
       !.resting = node[@].id, !.call.slot = 0]]>>
=============================================================================
