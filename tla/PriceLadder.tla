---------------------------- MODULE PriceLadder ----------------------------
(***************************************************************************)
(* The two arrays of price levels of the runtime book and the intrusive    *)
(* FIFO queues they hold (include/runtime/price_ladder.hpp,                *)
(* price_level.hpp): a level keeps the first and the last pool index of a  *)
(* doubly linked list threaded through the prev and next of the nodes, and *)
(* a cached sum of the quantities in it.                                   *)
(***************************************************************************)
EXTENDS LobSpec, OrderPool, Sequences

CONSTANTS
  MinPrice, MaxPrice,   (* the prices of Config, both included             *)
  QtyModulus            (* 2^64 for the unsigned total_quantity            *)

(* config.hpp:17, and a modulus that holds more than one value.             *)
ASSUME PriceAssumption ==
  MinPrice \in Int /\ MaxPrice \in Int /\ MinPrice < MaxPrice
ASSUME ModulusAssumption == QtyModulus \in Nat /\ QtyModulus > 1

VARIABLES
  ladder,     (* levels_ of the two sides                                  *)
  prev, next  (* nodes_[i].prev and nodes_[i].next                         *)

ladderVars == <<ladder, prev, next>>

(* config.hpp: valid_price, num_levels, price_to_index, index_to_price.     *)
Prices == MinPrice .. MaxPrice
num_levels == MaxPrice - MinPrice + 1
Levels == 0 .. num_levels - 1
price_to_index(price) == price - MinPrice
index_to_price(level) == MinPrice + level

PriceLevel == [head : Slots \cup {npos}, tail : Slots \cup {npos},
               total_quantity : 0 .. QtyModulus - 1]

EmptyLevel == [head |-> npos, tail |-> npos, total_quantity |-> 0]

isEmpty(level) == level.head = npos

LadderInit ==
  /\ ladder = [side \in Sides |-> [l \in Levels |-> EmptyLevel]]
  /\ prev = [i \in Slots |-> npos]
  /\ next = [i \in Slots |-> npos]

LadderClear ==
  /\ ladder' = [side \in Sides |-> [l \in Levels |-> EmptyLevel]]
  /\ UNCHANGED <<prev, next>>

-----------------------------------------------------------------------------

(* Mutant of AppendToLevel: the new order goes to the front of the queue.   *)
PushToLevel(side, l, i, quantity) ==
  LET level == ladder[side][l]
      total == (level.total_quantity + quantity) % QtyModulus
  IN IF isEmpty(level)
     THEN /\ ladder' = [ladder EXCEPT ![side][l] =
                          [head |-> i, tail |-> i, total_quantity |-> total]]
          /\ UNCHANGED <<prev, next>>
     ELSE /\ ladder' = [ladder EXCEPT ![side][l] =
                          [level EXCEPT !.head = i, !.total_quantity = total]]
          /\ next' = [next EXCEPT ![i] = level.head]
          /\ prev' = [prev EXCEPT ![level.head] = i]

(* append_to_level, and the addition to total_quantity with which its only  *)
(* caller completes it.                                                     *)
AppendToLevel(side, l, i, quantity) ==
  LET level == ladder[side][l]
      total == (level.total_quantity + quantity) % QtyModulus
  IN IF isEmpty(level)
     THEN /\ ladder' = [ladder EXCEPT ![side][l] =
                          [head |-> i, tail |-> i, total_quantity |-> total]]
          /\ UNCHANGED <<prev, next>>
     ELSE /\ ladder' = [ladder EXCEPT ![side][l] =
                          [level EXCEPT !.tail = i, !.total_quantity = total]]
          /\ next' = [next EXCEPT ![level.tail] = i]
          /\ prev' = [prev EXCEPT ![i] = level.tail]

(* Mutant of UnlinkedLevel: a level that empties is not reset.              *)
UnlinkedLevelKept(level, i, quantity) ==
  LET head == IF prev[i] = npos THEN next[i] ELSE level.head
      tail == IF next[i] = npos THEN prev[i] ELSE level.tail
  IN [head |-> head, tail |-> tail,
      total_quantity |-> (level.total_quantity - quantity) % QtyModulus]

(* The level unlink_from_level leaves when it takes node i off the level,   *)
(* quantity being what it subtracts from the total.                         *)
UnlinkedLevel(level, i, quantity) ==
  LET head == IF prev[i] = npos THEN next[i] ELSE level.head
      tail == IF next[i] = npos THEN prev[i] ELSE level.tail
  IN IF head = npos
     THEN EmptyLevel
     ELSE [head |-> head, tail |-> tail,
           total_quantity |-> (level.total_quantity - quantity) % QtyModulus]

(* Mutant of UnlinkNeighbours: the following node keeps its prev.           *)
UnlinkForward(i) ==
  /\ next' = IF prev[i] = npos THEN next
             ELSE [next EXCEPT ![prev[i]] = next[i]]
  /\ UNCHANGED prev

(* The two links unlink_from_level makes around node i; the links of i      *)
(* itself keep their values.                                                *)
UnlinkNeighbours(i) ==
  /\ next' = IF prev[i] = npos THEN next
             ELSE [next EXCEPT ![prev[i]] = next[i]]
  /\ prev' = IF next[i] = npos THEN prev
             ELSE [prev EXCEPT ![next[i]] = prev[i]]

-----------------------------------------------------------------------------

(* q lists n nodes, each once, head first: the ends of the level and the    *)
(* two links of each node agree with it.                                    *)
IsQueue(q, n, level, nexts, prevs) ==
  /\ level.head = IF n = 0 THEN npos ELSE q[1]
  /\ level.tail = IF n = 0 THEN npos ELSE q[n]
  /\ \A j, k \in 1 .. n : q[j] = q[k] => j = k
  /\ \A k \in 1 .. n : /\ nexts[q[k]] = IF k = n THEN npos ELSE q[k + 1]
                       /\ prevs[q[k]] = IF k = 1 THEN npos ELSE q[k - 1]

(* The list of a level, read forwards or backwards, meets each of these     *)
(* nodes exactly once and nothing else.                                     *)
Lists(level, nodes, nexts, prevs) ==
  \E n \in 0 .. MaxOrders : \E q \in [1 .. n -> nodes] :
    IsQueue(q, n, level, nexts, prevs) /\ nodes = Listed(q, n)

NodeSequences == UNION {[1 .. n -> Slots] : n \in 0 .. MaxOrders}

(* That list, given the links: LevelChains of OrderBook says there is one.  *)
ListOf(level, nexts, prevs) ==
  CHOOSE q \in NodeSequences : IsQueue(q, Len(q), level, nexts, prevs)

(* The queue of a level, head first: what snapshot() meets when it follows  *)
(* next, cut after MaxOrders nodes (a longer walk would be a cycle).        *)
Queue(level) ==
  LET walk[i \in Slots \cup {npos}, n \in 0 .. MaxOrders] ==
        IF i = npos \/ n = 0 THEN <<>> ELSE <<i>> \o walk[next[i], n - 1]
  IN walk[level.head, MaxOrders]

=============================================================================
