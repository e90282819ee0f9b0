----------------------------- MODULE OrderBook -----------------------------
(***************************************************************************)
(* The runtime limit order book: include/runtime/order_book.hpp and the    *)
(* MatchEngine of include/runtime/side.hpp, over the pool (OrderPool), the *)
(* price levels (PriceLadder), one bitmap of non-empty levels per side and *)
(* the index from order ids to nodes.                                      *)
(*                                                                         *)
(* The book is sequential: one call runs at a time.  A submit hands its    *)
(* trades to the caller's sink while it runs, so the states between two    *)
(* trades can be seen from outside; a submit is therefore one step that    *)
(* opens a frame, one step per turn of the matching loop, and one step     *)
(* that returns.  Every other call is one step.  The sink is a pure        *)
(* observer here; ReentrantBook has one that calls submit and cancel.      *)
(*                                                                         *)
(* The bitmap and the index are their contracts: the set of levels whose   *)
(* bit is set, and the map from the ids present to their pool index.       *)
(***************************************************************************)
EXTENDS PriceLadder

CONSTANTS
  OrderIds,     (* the ids callers use                                     *)
  InputPrices,  (* the prices callers use, valid or not                    *)
  MaxQuantity,  (* the largest quantity callers use                        *)
  NoCall        (* no submit is running                                    *)

VARIABLES
  node,       (* id, side, price and quantity of nodes_[i]                 *)
  bits,       (* the levels whose bit is set, by side                      *)
  index,      (* the pool index of each id, npos for an absent id          *)
  frame,      (* match(): its parameters and its local `remaining`         *)
  out         (* what the last step showed the caller                      *)

bookVars == <<node, bits, index, frame, out>>
vars == <<poolVars, ladderVars, bookVars>>

Quantities == 0 .. MaxQuantity

Orders == [id : OrderIds, side : Sides, price : InputPrices,
           quantity : Quantities]

Frames == [id : OrderIds, side : Sides, price : Prices,
           slot : Slots, remaining : Quantities]

(* Quantities and their totals have the same unsigned type.                 *)
ASSUME InputAssumption ==
  MaxQuantity \in Nat /\ MaxQuantity < QtyModulus /\ InputPrices \subseteq Int
ASSUME NoCallAssumption == NoCall \notin Frames

Idle == frame = NoCall

valid_price(price) == price >= MinPrice /\ price <= MaxPrice

(* bitmap.hpp: best_buy and best_sell, on a side with a bit set.            *)
best_price(side) ==
  BestOf(side, {index_to_price(l) : l \in bits[side]})

LevelOf(side, price) == ladder[side][price_to_index(price)]

-----------------------------------------------------------------------------

(* The order a node that was never used carries: the member initialisers.   *)
FreshOrder == [id |-> 0, side |-> Buy, price |-> 0, quantity |-> 0]

Init ==
  /\ PoolInit
  /\ LadderInit
  /\ node = [i \in Slots |-> FreshOrder]
  /\ bits = [side \in Sides |-> {}]
  /\ index = [id \in OrderIds |-> npos]
  /\ frame = NoCall
  /\ out = Silent

(* submit_order refuses: bad price, bad quantity, or no node left.          *)
SubmitRefused(order) ==
  /\ Idle
  /\ out' = Refused(order)
  /\ \/ ~valid_price(order.price)
     \/ ~valid_quantity(order.quantity)
     \/ full
  /\ UNCHANGED <<poolVars, ladderVars, node, bits, index, frame>>

(* Mutant of FillNode: the links keep their values.                         *)
FillNodeKeepsLinks(i, order) ==
  /\ node' = [node EXCEPT ![i] = order]
  /\ UNCHANGED ladderVars

(* The fields submit_order writes in the node it was given.                 *)
FillNode(i, order) ==
  /\ node' = [node EXCEPT ![i] = order]
  /\ prev' = [prev EXCEPT ![i] = npos]
  /\ next' = [next EXCEPT ![i] = npos]
  /\ UNCHANGED ladder

(* submit_order finds the id in the index: it gives the node back, so the   *)
(* free list is what it was, but the node has been written.                 *)
SubmitDuplicate(order) ==
  /\ Idle
  /\ out' = Refused(order)
  /\ valid_price(order.price) /\ valid_quantity(order.quantity) /\ ~full
  /\ index[order.id] /= npos
  /\ FillNode(freeHead, order)
  /\ UNCHANGED <<poolVars, bits, index, frame>>

(* Mutant of SubmitAccepted: the index is not told of the new order.        *)
SubmitUnindexed(order) ==
  /\ Idle
  /\ out' = Silent
  /\ valid_price(order.price) /\ valid_quantity(order.quantity) /\ ~full
  /\ index[order.id] = npos
  /\ Allocate
  /\ FillNode(freeHead, order)
  /\ frame' = [id |-> order.id, side |-> order.side, price |-> order.price,
               slot |-> freeHead, remaining |-> order.quantity]
  /\ UNCHANGED <<bits, index>>

(* submit_order up to its call of match: the order has a node and is in the *)
(* index, before it trades or rests.                                        *)
SubmitAccepted(order) ==
  /\ Idle
  /\ out' = Silent
  /\ valid_price(order.price) /\ valid_quantity(order.quantity) /\ ~full
  /\ index[order.id] = npos
  /\ Allocate
  /\ FillNode(freeHead, order)
  /\ index' = [index EXCEPT ![order.id] = freeHead]
  /\ frame' = [id |-> order.id, side |-> order.side, price |-> order.price,
               slot |-> freeHead, remaining |-> order.quantity]
  /\ UNCHANGED bits

-----------------------------------------------------------------------------

(* The test at the top of the matching loop: there is something left to     *)
(* trade and the best opposite price is reached.                            *)
Crossing ==
  LET opp == opposite(frame.side)
  IN /\ frame.remaining > 0
     /\ bits[opp] /= {}
     /\ crosses(frame.side, frame.price, best_price(opp))

(* A turn of the loop that finds the best level empty: its bit is stale.    *)
DropStaleBit(opp, l) ==
  /\ bits' = [bits EXCEPT ![opp] = @ \ {l}]
  /\ out' = Silent
  /\ UNCHANGED <<poolVars, ladderVars, node, index, frame>>

(* The resting order i keeps a part of its quantity.                        *)
FillPart(opp, l, i, quantity) ==
  /\ ladder' = [ladder EXCEPT ![opp][l].total_quantity =
                  (@ - quantity) % QtyModulus]
  /\ node' = [node EXCEPT ![i].quantity = @ - quantity]
  /\ UNCHANGED <<poolVars, prev, next, bits, index>>

(* Mutant of FillWhole: the bit of a level that empties stays set.          *)
FillWholeKeepsBit(opp, l, i, quantity) ==
  LET level == [ladder[opp][l] EXCEPT !.total_quantity =
                  (@ - quantity) % QtyModulus]
      left == UnlinkedLevel(level, i, quantity)
  IN /\ node' = [node EXCEPT ![i].quantity = @ - quantity]
     /\ ladder' = [ladder EXCEPT ![opp][l] = left]
     /\ UnlinkNeighbours(i)
     /\ index' = [index EXCEPT ![node[i].id] = npos]
     /\ Deallocate(i)
     /\ UNCHANGED bits

(* The resting order i is filled: its quantity is taken off the level, then *)
(* unlink_from_level takes it off once more with the order itself.          *)
FillWhole(opp, l, i, quantity) ==
  LET level == [ladder[opp][l] EXCEPT !.total_quantity =
                  (@ - quantity) % QtyModulus]
      left == UnlinkedLevel(level, i, quantity)
  IN /\ node' = [node EXCEPT ![i].quantity = @ - quantity]
     /\ ladder' = [ladder EXCEPT ![opp][l] = left]
     /\ UnlinkNeighbours(i)
     /\ index' = [index EXCEPT ![node[i].id] = npos]
     /\ Deallocate(i)
     /\ bits' = IF isEmpty(left) THEN [bits EXCEPT ![opp] = @ \ {l}] ELSE bits

(* Mutant of MatchStep: a filled order is never taken off its level.        *)
MatchStepKeepsFilled ==
  LET opp == opposite(frame.side)
      price == best_price(opp)
      l == price_to_index(price)
      i == ladder[opp][l].head
      quantity == IF frame.remaining < node[i].quantity
                  THEN frame.remaining ELSE node[i].quantity
  IN /\ ~Idle
     /\ Crossing
     /\ IF i = npos
        THEN DropStaleBit(opp, l)
        ELSE /\ out' = Traded(Trade(frame.id, node[i].id, node[i].price,
                                    quantity))
             /\ frame' = [frame EXCEPT !.remaining = @ - quantity]
             /\ FillPart(opp, l, i, quantity)

(* Mutant of MatchStep: the quantity of the resting order always trades.    *)
MatchStepTakesAll ==
  LET opp == opposite(frame.side)
      price == best_price(opp)
      l == price_to_index(price)
      i == ladder[opp][l].head
      quantity == node[i].quantity
  IN /\ ~Idle
     /\ Crossing
     /\ IF i = npos
        THEN DropStaleBit(opp, l)
        ELSE /\ out' = Traded(Trade(frame.id, node[i].id, node[i].price,
                                    quantity))
             /\ frame' = [frame EXCEPT !.remaining = @ - quantity]
             /\ FillWhole(opp, l, i, quantity)

(* One turn of the loop: the head of the best opposite level trades.        *)
MatchStep ==
  LET opp == opposite(frame.side)
      price == best_price(opp)
      l == price_to_index(price)
      i == ladder[opp][l].head
      quantity == IF frame.remaining < node[i].quantity
                  THEN frame.remaining ELSE node[i].quantity
  IN /\ ~Idle
     /\ Crossing
     /\ IF i = npos
        THEN DropStaleBit(opp, l)
        ELSE /\ out' = Traded(Trade(frame.id, node[i].id, node[i].price,
                                    quantity))
             /\ frame' = [frame EXCEPT !.remaining = @ - quantity]
             /\ IF quantity < node[i].quantity
                THEN FillPart(opp, l, i, quantity)
                ELSE FillWhole(opp, l, i, quantity)

(* Mutant of MatchRests: the node is given back to the pool as well.        *)
MatchRestsFreed ==
  LET l == price_to_index(frame.price)
  IN /\ ~Idle
     /\ out' = Accepted(frame.id)
     /\ ~Crossing /\ frame.remaining > 0
     /\ node' = [node EXCEPT ![frame.slot].quantity = frame.remaining]
     /\ AppendToLevel(frame.side, l, frame.slot, frame.remaining)
     /\ bits' = [bits EXCEPT ![frame.side] = @ \cup {l}]
     /\ Deallocate(frame.slot)
     /\ frame' = NoCall
     /\ UNCHANGED index

(* match() returns with something left: the order joins its own side.       *)
MatchRests ==
  LET l == price_to_index(frame.price)
  IN /\ ~Idle
     /\ out' = Accepted(frame.id)
     /\ ~Crossing /\ frame.remaining > 0
     /\ node' = [node EXCEPT ![frame.slot].quantity = frame.remaining]
     /\ AppendToLevel(frame.side, l, frame.slot, frame.remaining)
     /\ bits' = [bits EXCEPT ![frame.side] = @ \cup {l}]
     /\ frame' = NoCall
     /\ UNCHANGED <<poolVars, index>>

(* match() returns with nothing left: the order leaves the index and the    *)
(* pool.                                                                    *)
MatchFilled ==
  /\ ~Idle
  /\ out' = Accepted(frame.id)
  /\ frame.remaining = 0
  /\ index' = [index EXCEPT ![frame.id] = npos]
  /\ Deallocate(frame.slot)
  /\ frame' = NoCall
  /\ UNCHANGED <<ladderVars, node, bits>>

-----------------------------------------------------------------------------

(* cancel() of an id the index does not know.                               *)
CancelMissed(id) ==
  /\ Idle
  /\ out' = CancelReturns(id, FALSE)
  /\ index[id] = npos
  /\ UNCHANGED <<poolVars, ladderVars, node, bits, index, frame>>

(* cancel() of a resting order.                                             *)
Cancelled(id) ==
  LET i == index[id]
      side == node[i].side
      l == price_to_index(node[i].price)
      left == UnlinkedLevel(ladder[side][l], i, node[i].quantity)
  IN /\ Idle
     /\ out' = CancelReturns(id, TRUE)
     /\ i /= npos
     /\ ladder' = [ladder EXCEPT ![side][l] = left]
     /\ UnlinkNeighbours(i)
     /\ bits' = IF isEmpty(left) THEN [bits EXCEPT ![side] = @ \ {l}] ELSE bits
     /\ index' = [index EXCEPT ![id] = npos]
     /\ Deallocate(i)
     /\ UNCHANGED <<node, frame>>

(* clear(): both sides, the pool and the index.                             *)
Clear ==
  /\ Idle
  /\ out' = Silent
  /\ LadderClear
  /\ bits' = [side \in Sides |-> {}]
  /\ PoolClear
  /\ index' = [id \in OrderIds |-> npos]
  /\ UNCHANGED <<node, frame>>

Matching == MatchStep \/ MatchRests \/ MatchFilled

Next ==
  \/ \E order \in Orders :
       SubmitRefused(order) \/ SubmitDuplicate(order) \/ SubmitAccepted(order)
  \/ Matching
  \/ \E id \in OrderIds : CancelMissed(id) \/ Cancelled(id)
  \/ Clear

Spec == Init /\ [][Next]_vars

-----------------------------------------------------------------------------

(* The orders on the book: the active nodes but the one being matched.      *)
Resting == {i \in Used : Idle \/ i /= frame.slot}

At(nodes, side, l) ==
  {i \in nodes : node[i].side = side /\ price_to_index(node[i].price) = l}

RestingAt(side, l) == At(Resting, side, l)

(* Every variable of the book has its type.                                 *)
BookTypeOK ==
  /\ ladder \in [Sides -> [Levels -> PriceLevel]]
  /\ prev \in [Slots -> Slots \cup {npos}]
  /\ next \in [Slots -> Slots \cup {npos}]
  /\ node \in [Slots -> Orders \cup {FreshOrder}]
  /\ bits \in [Sides -> SUBSET Levels]
  /\ index \in [OrderIds -> Slots \cup {npos}]
  /\ frame \in Frames \cup {NoCall}

(* The book is never crossed, not even between the trades of a submit: the  *)
(* best bid it reports is below the best ask it reports.  The matching loop *)
(* must not stop while the incoming order reaches an opposite price.        *)
NotCrossed ==
  bits[Buy] /= {} /\ bits[Sell] /= {} => best_price(Buy) < best_price(Sell)

BitsTell(nodes) ==
  \A side \in Sides, l \in Levels :
    l \in bits[side] <=> At(nodes, side, l) /= {}

(* The bitmap says which levels hold orders: best_bid() and best_ask() read *)
(* it alone, and the matching loop trusts it.                               *)
BitmapExact == BitsTell(Resting)

QueuesList(nodes) ==
  \A side \in Sides, l \in Levels :
    Lists(ladder[side][l], At(nodes, side, l), next, prev)

(* The intrusive list of every level, read forwards or backwards, holds     *)
(* each resting order of that side and price exactly once and nothing else: *)
(* no order is lost by an unlink, none stays behind after a fill or a       *)
(* cancel, and no stale link of a reused node leads into another level.     *)
LevelChains == QueuesList(Resting)

(* The index and the pool name each other: an id is present exactly when    *)
(* an active node carries it, and its entry is that node.  A stale entry    *)
(* would let cancel() unlink a node that is free or has been reused.        *)
IndexExact ==
  /\ \A id \in OrderIds :
       index[id] /= npos => index[id] \in Used /\ node[index[id]].id = id
  /\ \A i \in Used : node[i].id \in OrderIds /\ index[node[i].id] = i

(* The node of the running submit is its own until it rests: active, with   *)
(* the order it was filled with, and on no level.  append_to_level relies   *)
(* on its links, which it does not write on the far side: a link left over  *)
(* from the life of the node before would lead out of the level.            *)
FrameExact ==
  ~Idle => /\ frame.slot \in Used
           /\ node[frame.slot].id = frame.id
           /\ node[frame.slot].side = frame.side
           /\ node[frame.slot].price = frame.price
           /\ prev[frame.slot] = npos /\ next[frame.slot] = npos

(* No resting order is empty: a head of quantity 0 would make the loop      *)
(* trade nothing, for ever.                                                 *)
RestingPositive == \A i \in Resting : node[i].quantity > 0

(* The total of a level that empties is 0 whatever it had drifted to, so    *)
(* the error of one queue never reaches the next one at that price.         *)
EmptyLevelsReset ==
  \A side \in Sides, l \in Levels :
    RestingAt(side, l) = {} => ladder[side][l] = EmptyLevel

(* Every turn of the matching loop trades something: `remaining` only       *)
(* falls, so the loop ends, whatever quantities rest. The loop has no other *)
(* bound; a resting order of quantity 0, or one that a fill leaves behind   *)
(* at the head of its level, would keep it going.                           *)
LoopProgress ==
  [][~Idle => \/ Idle'
              \/ frame'.remaining < frame.remaining]_vars

(* The pool is used by its contract: no call of the book deallocates a node *)
(* that is not active, and none touches the pool in any other way.          *)
PoolContract == PoolSpec

=============================================================================
