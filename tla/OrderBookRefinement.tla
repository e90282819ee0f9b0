------------------------ MODULE OrderBookRefinement ------------------------
(***************************************************************************)
(* The runtime book implements its contract: the linked lists, bitmap,     *)
(* index and pool of OrderBook are one way to keep the queues of           *)
(* BookContract, and every step of the one is a step of the other.         *)
(***************************************************************************)
EXTENDS OrderBook

(* NoCall stands for no order either.                                       *)
ASSUME NoOrderAssumption == NoCall \notin Orders

(* The orders in a sequence of nodes.                                       *)
OrdersAt(q) == [k \in DOMAIN q |-> node[q[k]]]

(* The orders of a level, in the order of its list.                         *)
QueuedOrders(level) == OrdersAt(ListOf(level, next, prev))

(* The levels that hold orders, as a map from prices to queues.             *)
RuntimeLevels ==
  [side \in Sides |->
     [price \in {p \in Prices : ~isEmpty(LevelOf(side, p))} |->
        QueuedOrders(LevelOf(side, price))]]

(* The ids that cancel() would find once the running submit is set aside:   *)
(* the runtime book indexes an order before it is known to rest.            *)
RuntimeIds ==
  [id \in {x \in OrderIds : index[x] /= npos /\ (Idle \/ x /= frame.id)} |->
     [side |-> node[index[id]].side, price |-> node[index[id]].price]]

RuntimeOrder ==
  IF Idle THEN NoCall
  ELSE [id |-> frame.id, side |-> frame.side, price |-> frame.price,
        quantity |-> frame.remaining]

Contract == INSTANCE BookContract WITH
  Capacity <- MaxOrders, LowPrice <- MinPrice, HighPrice <- MaxPrice,
  levels <- RuntimeLevels, ids <- RuntimeIds, order <- RuntimeOrder

(* Every call of the runtime book returns what the reference book returns   *)
(* and hands the same trades, in the same order, to the sink, at every      *)
(* capacity and price range: the best price first, the oldest order first   *)
(* within a price, each trade at the resting price, and cancelled or filled *)
(* orders never again.  It is what the conformance scenarios sample.        *)
ImplementsContract == Contract!ContractSpec

=============================================================================
