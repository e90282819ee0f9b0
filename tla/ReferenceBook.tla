--------------------------- MODULE ReferenceBook ---------------------------
(***************************************************************************)
(* The reference book of the conformance tests                             *)
(* (tests/reference/reference_book.hpp): what a limit order book does,     *)
(* stated with sorted maps of queues.  A side is a function from the       *)
(* prices that have a level to the queue of the orders there, first come   *)
(* first.  It has no capacity and accepts every price.                     *)
(*                                                                         *)
(* A submit is a step that starts, one step per turn of its loop, and a    *)
(* step that returns, so that its trades can be compared one by one.       *)
(***************************************************************************)
EXTENDS LobSpec, Sequences, FiniteSets

CONSTANTS
  OrderIds,     (* the ids callers use                                     *)
  InputPrices,  (* the prices callers use                                  *)
  MaxQuantity,  (* the largest quantity callers use                        *)
  NoCall        (* no submit is running                                    *)

VARIABLES
  levels,     (* bids_ and asks_                                           *)
  ids,        (* index_: the side and the price of each id present         *)
  order,      (* the order of the running submit, its quantity what is left*)
  out         (* what the last step showed the caller                      *)

refVars == <<levels, ids, order, out>>

Orders == [id : OrderIds, side : Sides, price : InputPrices,
           quantity : 0 .. MaxQuantity]

(* Prices are numbers of a fixed width, and no order stands for no order.   *)
ASSUME ReferenceAssumption ==
  /\ InputPrices \subseteq Int /\ IsFiniteSet(InputPrices)
  /\ MaxQuantity \in Nat
  /\ NoCall \notin Orders

RefIdle == order = NoCall

RefInit ==
  /\ levels = [side \in Sides |-> <<>>]
  /\ ids = <<>>
  /\ order = NoCall
  /\ out = Silent

(* A function without the keys of S, and with one key set.                  *)
Without(f, S) == [k \in DOMAIN f \ S |-> f[k]]
With(f, key, value) ==
  [k \in DOMAIN f \cup {key} |-> IF k = key THEN value ELSE f[k]]

(* Mutant of StoreLevel: an empty level stays in the map.                   *)
StoreLevelAlways(side, price, queue) == With(levels[side], price, queue)

(* The side without a level that has become empty.                          *)
StoreLevel(side, price, queue) ==
  IF queue = <<>> THEN Without(levels[side], {price})
                  ELSE With(levels[side], price, queue)

-----------------------------------------------------------------------------

RefSubmitRefused(in) ==
  /\ RefIdle
  /\ out' = Refused(in)
  /\ ~valid_quantity(in.quantity) \/ in.id \in DOMAIN ids
  /\ UNCHANGED <<levels, ids, order>>

(* Mutant of RefSubmitStarts: a resting id is accepted again.               *)
RefSubmitAgain(in) ==
  /\ RefIdle
  /\ valid_quantity(in.quantity)
  /\ order' = in
  /\ out' = Silent
  /\ UNCHANGED <<levels, ids>>

RefSubmitStarts(in) ==
  /\ RefIdle
  /\ order' = in
  /\ valid_quantity(in.quantity) /\ in.id \notin DOMAIN ids
  /\ out' = Silent
  /\ UNCHANGED <<levels, ids>>

(* The test at the top of the loops of submit_buy and submit_sell.          *)
RefCrossing ==
  LET opp == DOMAIN levels[opposite(order.side)]
  IN /\ order.quantity > 0
     /\ opp /= {}
     /\ crosses(order.side, order.price, BestOf(opposite(order.side), opp))

(* One turn of the loop: the first order of the best opposite level trades, *)
(* at its own price.                                                        *)
RefTrade ==
  LET opp == opposite(order.side)
      price == BestOf(opp, DOMAIN levels[opp])
      queue == levels[opp][price]
      resting == Head(queue)
      filled == resting.quantity <= order.quantity
      quantity == IF filled THEN resting.quantity ELSE order.quantity
  IN /\ ~RefIdle /\ RefCrossing
     /\ order' = [order EXCEPT !.quantity = @ - quantity]
     /\ levels' = [levels EXCEPT ![opp] =
          StoreLevel(opp, price,
            IF filled THEN Tail(queue)
                      ELSE [queue EXCEPT ![1].quantity = @ - quantity])]
     /\ ids' = IF filled THEN Without(ids, {resting.id}) ELSE ids
     /\ out' = Traded(Trade(order.id, resting.id, resting.price, quantity))

(* Mutant of RefRests: the order rests although it still trades.            *)
RefRestsEarly ==
  LET side == order.side
      queue == IF order.price \in DOMAIN levels[side]
               THEN levels[side][order.price] ELSE <<>>
  IN /\ ~RefIdle /\ order.quantity > 0
     /\ levels' = [levels EXCEPT ![side] =
                     With(@, order.price, Append(queue, order))]
     /\ ids' = With(ids, order.id, [side |-> side, price |-> order.price])
     /\ order' = NoCall
     /\ out' = Accepted(order.id)

(* What is left joins the end of its level.                                 *)
RefRests ==
  LET side == order.side
      queue == IF order.price \in DOMAIN levels[side]
               THEN levels[side][order.price] ELSE <<>>
  IN /\ ~RefIdle /\ ~RefCrossing /\ order.quantity > 0
     /\ levels' = [levels EXCEPT ![side] =
                     With(@, order.price, Append(queue, order))]
     /\ ids' = With(ids, order.id, [side |-> side, price |-> order.price])
     /\ order' = NoCall
     /\ out' = Accepted(order.id)

RefFilled ==
  /\ ~RefIdle /\ order.quantity = 0
  /\ order' = NoCall
  /\ out' = Accepted(order.id)
  /\ UNCHANGED <<levels, ids>>

-----------------------------------------------------------------------------

RefCancelMissed(id) ==
  /\ RefIdle
  /\ out' = CancelReturns(id, FALSE)
  /\ id \notin DOMAIN ids
  /\ UNCHANGED <<levels, ids, order>>

(* The loop of cancel(): the queue without its first order of that id.      *)
EraseOrder(queue, id) ==
  LET places == {k \in DOMAIN queue : queue[k].id = id}
      first == CHOOSE k \in places : \A j \in places : k <= j
  IN IF places = {} THEN queue
     ELSE [j \in 1 .. Len(queue) - 1 |-> queue[IF j < first THEN j ELSE j + 1]]

(* cancel() searches the level the index names, which RefIndexExact says is *)
(* there, and erases the order.                                             *)
RefCancelled(id) ==
  LET side == ids[id].side
      price == ids[id].price
      queue == levels[side][price]
  IN /\ RefIdle
     /\ out' = CancelReturns(id, TRUE)
     /\ id \in DOMAIN ids
     /\ levels' = [levels EXCEPT ![side] =
          StoreLevel(side, price, EraseOrder(queue, id))]
     /\ ids' = Without(ids, {id})
     /\ UNCHANGED order

RefMatching == RefTrade \/ RefRests \/ RefFilled

RefNext ==
  \/ \E in \in Orders : RefSubmitRefused(in) \/ RefSubmitStarts(in)
  \/ RefMatching
  \/ \E id \in OrderIds : RefCancelMissed(id) \/ RefCancelled(id)

RefSpec == RefInit /\ [][RefNext]_refVars

-----------------------------------------------------------------------------

(* The queues hold orders, and a level is there only while it holds one.    *)
RefTypeOK ==
  /\ \A side \in Sides : \A price \in DOMAIN levels[side] :
       /\ price \in InputPrices
       /\ levels[side][price] \in Seq(Orders) \ {<<>>}
  /\ DOMAIN ids \subseteq OrderIds
  /\ order \in Orders \cup {NoCall}

(* The reference itself is never crossed, between two trades either: what   *)
(* the runtime book is compared with keeps best bid below best ask.         *)
RefUncrossed ==
  \A bid \in DOMAIN levels[Buy], ask \in DOMAIN levels[Sell] : bid < ask

(* index_ agrees with the queues: each id present stands once, on the level *)
(* its entry names, and no order stands on a level without an entry; so the *)
(* search of cancel() always finds its order and erases the right one.      *)
RefIndexExact ==
  /\ \A side \in Sides : \A price \in DOMAIN levels[side] :
       \A k \in DOMAIN levels[side][price] :
         LET o == levels[side][price][k]
         IN /\ o.id \in DOMAIN ids
            /\ ids[o.id] = [side |-> side, price |-> price]
            /\ o.side = side /\ o.price = price /\ o.quantity > 0
            /\ \A j \in DOMAIN levels[side][price] :
                 levels[side][price][j].id = o.id => j = k
  /\ \A id \in DOMAIN ids :
       /\ ids[id].price \in DOMAIN levels[ids[id].side]
       /\ \E k \in DOMAIN levels[ids[id].side][ids[id].price] :
            levels[ids[id].side][ids[id].price][k].id = id

=============================================================================
