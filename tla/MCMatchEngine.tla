--------------------------- MODULE MCMatchEngine ---------------------------
(* MatchEngine on a few nodes, with ids that collide in a table of eight    *)
(* entries.                                                                 *)
EXTENDS MatchEngine

(* Which free node an order gets decides nothing, and neither `out` nor the *)
(* last answer of the index is read: two states in which the same orders    *)
(* wait in the same queues, are matched, and lie in the same places of the  *)
(* table have the same future.                                              *)
QueuesState ==
  <<[side \in Sides |-> [l \in Levels |->
       LET queue == Queue(ladder[side][l])
       IN <<ladder[side][l].total_quantity,
            [k \in DOMAIN queue |-> <<node[queue[k]].id,
                                      node[queue[k]].quantity>>]>>]],
    IF Idle THEN <<>> ELSE <<frame.id, frame.side, frame.price,
                             frame.remaining>>,
    [place \in Index!Places |-> <<entries[place].id, entries[place].state>>],
    freeCount, wordVars>>
=============================================================================
