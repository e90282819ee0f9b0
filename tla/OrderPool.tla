----------------------------- MODULE OrderPool -----------------------------
(***************************************************************************)
(* The preallocated order pool of the runtime book                         *)
(* (include/runtime/order_pool.hpp): an array of MaxOrders nodes whose     *)
(* free entries form a LIFO list threaded through next_free.  This module  *)
(* owns the allocation half of a node (next_free, state) and the two       *)
(* counters; the order an allocated node carries belongs to OrderBook.     *)
(***************************************************************************)
EXTENDS Integers, FiniteSets

CONSTANTS
  MaxOrders,  (* Config::max_orders, the number of nodes                   *)
  npos        (* the 32-bit "no index" value, never the index of a node    *)

(* config.hpp:18 and the static_assert on 32-bit indices at config.hpp:19. *)
ASSUME MaxOrdersAssumption == MaxOrders \in Nat \ {0}
ASSUME NposAssumption == npos \notin Nat

VARIABLES
  nextFree,   (* nodes_[i].next_free                                       *)
  state,      (* nodes_[i].state: 0 = free, 1 = active                     *)
  freeHead,   (* free_head_                                                *)
  freeCount   (* free_count_                                               *)

poolVars == <<nextFree, state, freeHead, freeCount>>

Slots == 0 .. MaxOrders - 1

Free == {i \in Slots : state[i] = 0}
Used == {i \in Slots : state[i] = 1}

-----------------------------------------------------------------------------

(* Mutant of FreshList: the loop bound is one short, the last node is lost. *)
FreshListShort == [i \in Slots |-> IF i + 2 < MaxOrders THEN i + 1 ELSE npos]

(* The list that links every node to the next one, as the constructor and  *)
(* clear() both build it.                                                  *)
FreshList == [i \in Slots |-> IF i + 1 < MaxOrders THEN i + 1 ELSE npos]

PoolInit ==
  /\ nextFree = FreshList
  /\ state = [i \in Slots |-> 0]
  /\ freeHead = 0
  /\ freeCount = MaxOrders

full == freeHead = npos

usedCount == MaxOrders - freeCount

(* Mutant of Allocate: free_count_ is not decremented.                      *)
AllocateUncounted ==
  /\ ~full
  /\ freeHead' = nextFree[freeHead]
  /\ state' = [state EXCEPT ![freeHead] = 1]
  /\ nextFree' = [nextFree EXCEPT ![freeHead] = npos]
  /\ UNCHANGED freeCount

(* allocate() on a pool that is not full: the node handed out is freeHead. *)
Allocate ==
  /\ ~full
  /\ freeHead' = nextFree[freeHead]
  /\ state' = [state EXCEPT ![freeHead] = 1]
  /\ nextFree' = [nextFree EXCEPT ![freeHead] = npos]
  /\ freeCount' = freeCount - 1

(* deallocate(i).  The code tests nothing: that i is active is the          *)
(* contract of its callers.                                                 *)
Deallocate(i) ==
  /\ state' = [state EXCEPT ![i] = 0]
  /\ nextFree' = [nextFree EXCEPT ![i] = freeHead]
  /\ freeHead' = i
  /\ freeCount' = freeCount + 1

(* Mutant of PoolClear: free_head_ keeps its value, so the nodes before it  *)
(* are unreachable.                                                         *)
PoolClearKeepsHead ==
  /\ nextFree' = FreshList
  /\ state' = [i \in Slots |-> 0]
  /\ freeCount' = MaxOrders
  /\ UNCHANGED freeHead

(* clear() rebuilds the list of the constructor.                            *)
PoolClear ==
  /\ nextFree' = FreshList
  /\ state' = [i \in Slots |-> 0]
  /\ freeHead' = 0
  /\ freeCount' = MaxOrders

(* The pool under any client that keeps the contract of deallocate().       *)
PoolNext ==
  \/ Allocate
  \/ \E i \in Used : Deallocate(i)
  \/ PoolClear

PoolSpec == PoolInit /\ [][PoolNext]_poolVars

-----------------------------------------------------------------------------

(* Every field stays in its range: an index is a node or npos, and the      *)
(* unsigned free_count_ never passes below zero or above the capacity.      *)
PoolTypeOK ==
  /\ nextFree \in [Slots -> Slots \cup {npos}]
  /\ state \in [Slots -> {0, 1}]
  /\ freeHead \in Slots \cup {npos}
  /\ freeCount \in 0 .. MaxOrders

Listed(s, n) == {s[i] : i \in 1 .. n}

(* s lists n nodes, each once, in the order in which links threads them     *)
(* from head to the npos behind the last.                                   *)
Threads(s, n, head, links) ==
  /\ \A i, j \in 1 .. n : s[i] = s[j] => i = j
  /\ head = IF n = 0 THEN npos ELSE s[1]
  /\ \A i \in 1 .. n : links[s[i]] = IF i = n THEN npos ELSE s[i + 1]

(* No leak and no double hand-out: following next_free from free_head_      *)
(* meets every free node exactly once, no active node, and then ends, after *)
(* exactly free_count_ nodes.  A free list that loses a node would refuse   *)
(* orders with room left; one that repeats a node would give two orders the *)
(* same memory.                                                             *)
FreeListExact ==
  \E s \in [1 .. freeCount -> Slots] :
    /\ Threads(s, freeCount, freeHead, nextFree)
    /\ Free = Listed(s, freeCount)

(* full() and used_count(), which submit and active_order_count() read, say *)
(* what the states of the nodes say: the pool reports full exactly when no  *)
(* node is free, and used_count() is the number of active nodes.            *)
CountersExact ==
  /\ full <=> Free = {}
  /\ usedCount = Cardinality(Used)

=============================================================================
