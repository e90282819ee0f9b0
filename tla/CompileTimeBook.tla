-------------------------- MODULE CompileTimeBook --------------------------
(***************************************************************************)
(* The compile-time book (include/compile_time): a book is a type, and     *)
(* Submit_t and CancelOrder_t compute the type of the book that follows.   *)
(* A side is the sequence of its levels, best first; a level is its price  *)
(* and the sequence of its orders.  A program that submits to a book that  *)
(* is not `valid` does not compile: no step leaves such a book.            *)
(***************************************************************************)
EXTENDS LobSpec, TypeList, FiniteSets, Functions

CONSTANTS OrderIds, InputPrices, MaxQuantity

ASSUME CompileTimeAssumption ==
  MaxQuantity \in Nat \ {0} /\ InputPrices \subseteq Int

VARIABLES
  bids, asks,   (* the two sides of the book                               *)
  trades,       (* MatchResult::trades of the last submit                  *)
  remainder     (* MatchResult::remainder: what it did not trade           *)

ctVars == <<bids, asks, trades, remainder>>

(* ValidOrder: the quantity is positive.                                    *)
Orders == [id : OrderIds, side : Sides, price : InputPrices,
           quantity : 1 .. MaxQuantity]

(* An order of which a part has been filled.                                *)
OrderWithRemaining(order, filled) == [order EXCEPT !.quantity = @ - filled]

(* PriceLevel: its price and its orders, oldest first.                      *)
Level(price, orders) == [price |-> price, orders |-> orders]

LevelPushBack(level, order) == Level(level.price, PushBack(level.orders, order))

LevelPopFrontN(level, n) == Level(level.price, PopFrontN(level.orders, n))

(* The sum of a list of numbers.                                            *)
SumOf(amounts) ==
  LET sum[n \in 0 .. Len(amounts)] ==
        IF n = 0 THEN 0 ELSE sum[n - 1] + amounts[n]
  IN sum[Len(amounts)]

(* Mutant of TotalQuantity: the first order alone.                          *)
HeadQuantity(orders) == IF orders = <<>> THEN 0 ELSE Head(orders).quantity

TotalQuantity(orders) == SumOf([k \in DOMAIN orders |-> orders[k].quantity])

(* FlattenLevels                                                            *)
OrdersOf(side) ==
  LET orders[n \in 0 .. Len(side)] ==
        IF n = 0 THEN <<>> ELSE Concat(orders[n - 1], side[n].orders)
  IN orders[Len(side)]

-----------------------------------------------------------------------------
(* SideBook                                                                 *)

better(descending, p, q) == IF descending THEN p > q ELSE p < q

(* Mutant of InsertLevelSorted: the new level goes behind the best one.     *)
InsertLevelSecond(level, side, descending) ==
  IF side = <<>> THEN <<level>> ELSE <<Head(side), level>> \o Tail(side)

(* InsertLevelSorted: before the first level that is worse.                 *)
InsertLevelSorted(level, side, descending) ==
  LET found == FindIf(side, {l \in Range(side) :
                               better(descending, level.price, l.price)})
      at == IF found = -1 THEN Len(side) ELSE found
  IN Concat(SubSeq(side, 1, at), PushFront(level, PopFrontN(side, at)))

(* AddImpl::ReplaceLevel: level takes the place of the one at position k,   *)
(* but the levels before it are appended behind the others, last first.     *)
ReplaceLevel(side, k, level) ==
  Concat(PushFront(level, PopFrontN(side, k + 1)),
         [i \in 1 .. k |-> At(k - i, side)])

(* AddOrderToSide                                                           *)
AddOrderToSide(descending, side, order) ==
  LET found == FindIf(side, {l \in Range(side) : l.price = order.price})
  IN IF found /= -1
     THEN ReplaceLevel(side, found, LevelPushBack(At(found, side), order))
     ELSE InsertLevelSorted(Level(order.price, <<order>>), side, descending)

(* Mutant of RemoveEmptyLevels: they stay.                                  *)
KeepEmptyLevels(side) == side

RemoveEmptyLevels(side) == Filter(side, {l \in Range(side) : l.orders /= <<>>})

RemoveOrderFromLevel(level, id) ==
  Level(level.price,
        Filter(level.orders, {o \in Range(level.orders) : o.id /= id}))

(* Mutant of CancelOrderFromSide: a level that empties stays.               *)
CancelKeepsLevel(side, id) ==
  [k \in DOMAIN side |-> RemoveOrderFromLevel(side[k], id)]

(* CancelOrderFromSide                                                      *)
CancelOrderFromSide(side, id) ==
  RemoveEmptyLevels(
    [k \in DOMAIN side |-> RemoveOrderFromLevel(side[k], id)])

-----------------------------------------------------------------------------
(* Book                                                                     *)

(* LevelsSorted, and the contents of each level.                            *)
SideValid(side, which) ==
  /\ \A k \in DOMAIN side :
       /\ side[k].orders /= <<>>
       /\ \A j \in DOMAIN side[k].orders :
            side[k].orders[j].side = which /\ side[k].orders[j].quantity > 0
  /\ \A k \in 1 .. Len(side) - 1 :
       better(which = Buy, side[k].price, side[k + 1].price)

(* UniqueOrderIds, over both sides.                                         *)
UniqueOrderIds(b, a) ==
  LET all == Concat(OrdersOf(b), OrdersOf(a))
  IN \A j, k \in DOMAIN all : all[j].id = all[k].id => j = k

(* Book::valid                                                              *)
BookValid(b, a) ==
  /\ SideValid(b, Buy) /\ SideValid(a, Sell)
  /\ UniqueOrderIds(b, a)
  /\ b /= <<>> /\ a /= <<>> => Head(b).price < Head(a).price

-----------------------------------------------------------------------------
(* Match: the opposite side, the incoming order with what is left of it,    *)
(* and the trades so far.                                                   *)

Crosses(opp, order) ==
  opp /= <<>> /\ crosses(order.side, order.price, Head(opp).price)

(* Mutant of TradeWith: the trade is at the price of the incoming order.    *)
TradeAtLimit(order, resting, quantity) ==
  Trade(order.id, resting.id, order.price, quantity)

TradeWith(order, resting, quantity) ==
  Trade(order.id, resting.id, resting.price, quantity)

ReplaceBestLevel(side, level) == PushFront(level, Tail(side))

(* MatchStep<.., true> and CrossResult: one trade with the best order.  A   *)
(* resting order that is partly filled becomes the only order of its level  *)
(* (match.hpp:121).                                                         *)
MatchStep(m) ==
  LET best == Head(m.opp)
      resting == Head(best.orders)
      quantity == IF m.order.quantity < resting.quantity
                  THEN m.order.quantity ELSE resting.quantity
      left == OrderWithRemaining(resting, quantity)
      level == IF left.quantity = 0 THEN LevelPopFrontN(best, 1)
               ELSE Level(resting.price, <<left>>)
  IN [opp |-> RemoveEmptyLevels(ReplaceBestLevel(m.opp, level)),
      order |-> OrderWithRemaining(m.order, quantity),
      trades |-> PushBack(m.trades, TradeWith(m.order, resting, quantity))]

(* MatchStep<.., false>, or a step that filled the order, ends the match.   *)
MatchEnds(m) == m.order.quantity = 0 \/ ~Crosses(m.opp, m.order)

(* Match: every step takes a part of the order, so there are no more steps  *)
(* than its quantity.                                                       *)
Match(opp, order) ==
  LET match[n \in 0 .. order.quantity] ==
        IF n = 0 THEN [opp |-> opp, order |-> order, trades |-> <<>>]
        ELSE LET m == match[n - 1] IN IF MatchEnds(m) THEN m ELSE MatchStep(m)
  IN match[order.quantity]

CtInit == bids = <<>> /\ asks = <<>> /\ trades = <<>> /\ remainder = 0

SideOf(side) == IF side = Buy THEN bids ELSE asks

(* Submit_t: the trades, the opposite side, and what is left joins its own. *)
Submit(order) ==
  LET own == SideOf(order.side)
      result == Match(SideOf(opposite(order.side)), order)
      joined == IF result.order.quantity = 0 THEN own
                ELSE AddOrderToSide(order.side = Buy, own, result.order)
  IN /\ BookValid(bids, asks)
     /\ bids' = IF order.side = Buy THEN joined ELSE result.opp
     /\ asks' = IF order.side = Buy THEN result.opp ELSE joined
     /\ trades' = result.trades
     /\ remainder' = result.order.quantity

(* CancelOrder_t: an id that is absent changes nothing.                     *)
Cancel(id) ==
  /\ BookValid(bids, asks)
  /\ bids' = CancelOrderFromSide(bids, id)
  /\ asks' = CancelOrderFromSide(asks, id)
  /\ trades' = <<>>
  /\ remainder' = 0

(* RuntimeBookView: what it shows of the levels of a side; its level_count  *)
(* is their number.                                                         *)
LevelView(level) ==
  [price |-> level.price, total_quantity |-> TotalQuantity(level.orders),
   order_count |-> Len(level.orders)]

runtime_view(side) == [k \in DOMAIN side |-> LevelView(side[k])]

CtNext ==
  \/ \E order \in Orders : Submit(order)
  \/ \E id \in OrderIds : Cancel(id)

CtSpec == CtInit /\ [][CtNext]_ctVars

-----------------------------------------------------------------------------

(* The levels that a book may have: every one holds an order, and every     *)
(* order is one a caller may submit.                                        *)
PriceLevels == [price : InputPrices, orders : Seq(Orders) \ {<<>>}]

Trades == [aggressor : OrderIds, resting : OrderIds, price : InputPrices,
           quantity : 1 .. MaxQuantity]

CtTypeOK ==
  /\ bids \in Seq(PriceLevels) /\ asks \in Seq(PriceLevels)
  /\ trades \in Seq(Trades) /\ remainder \in 0 .. MaxQuantity

(* No bid level, best or not, reaches an ask level, even on a book whose    *)
(* levels have lost their order.                                            *)
CtUncrossed ==
  \A j \in DOMAIN bids, k \in DOMAIN asks : bids[j].price < asks[k].price

(* How much of the k-th order of a queue an order of this quantity takes,   *)
(* the orders before it having been served.                                 *)
Before(queue, k) == TotalQuantity(SubSeq(queue, 1, k - 1))
Share(queue, k, quantity) ==
  LET free == quantity - Before(queue, k)
  IN IF free <= 0 THEN 0
     ELSE IF free < queue[k].quantity THEN free ELSE queue[k].quantity

(* The orders an incoming order may reach, in price-time priority.          *)
Reached(order) ==
  Filter(OrdersOf(SideOf(opposite(order.side))),
         {o \in Orders : crosses(order.side, order.price, o.price)})

NewId(order) ==
  \A o \in Range(OrdersOf(bids) \o OrdersOf(asks)) : o.id /= order.id

(* A submit trades what price-time priority gives it: each reached order in *)
(* turn, at its own price, for its share of the quantity, and no other.     *)
TradesConform ==
  [][\A order \in Orders : Submit(order) =>
       LET queue == Reached(order)
           share(k) == Share(queue, k, order.quantity)
           last == Cardinality({k \in DOMAIN queue : share(k) > 0})
       IN trades' = [k \in 1 .. last |->
            [aggressor |-> order.id, resting |-> queue[k].id,
             price |-> queue[k].price, quantity |-> share(k)]]]_ctVars

(* What a submit leaves of the opposite side is what it did not trade: the  *)
(* orders behind a partly filled one keep their place.  They do not:        *)
(* CrossResult<.., true, false> rebuilds the level from the remainder of    *)
(* its first order alone.                                                   *)
RestKept ==
  [][\A order \in Orders : Submit(order) /\ NewId(order) =>
       LET opp == OrdersOf(SideOf(opposite(order.side)))
           left == SelectSeq(opp, LAMBDA o :
                     \A k \in DOMAIN trades' :
                       ~(trades'[k].resting = o.id
                         /\ trades'[k].quantity = o.quantity))
       IN Len(OrdersOf(SideOf(opposite(order.side))')) = Len(left)]_ctVars

(* What a view of levels shows, and what trades took, at a price.           *)
ShownAt(view, price) ==
  SumOf([k \in DOMAIN view |->
           IF view[k].price = price THEN view[k].total_quantity ELSE 0])
TradedAt(done, price) ==
  SumOf([k \in DOMAIN done |->
           IF done[k].price = price THEN done[k].quantity ELSE 0])

(* The last trade leaves a part of its order, and others wait behind it.    *)
PartWithOthers(queue, done) ==
  LET n == Len(done)
  IN /\ n > 0 /\ n < Len(queue)
     /\ done[n].quantity < queue[n].quantity
     /\ queue[n + 1].price = queue[n].price

(* Whoever keeps the totals of the view up to date from the trades and the  *)
(* remainder of each submit is right: at every price of the opposite side   *)
(* the view loses what was traded there, on the own side it gains the       *)
(* remainder at the price of the order, and both add up to the order, be    *)
(* the levels in order or not.  Left out is the submit that loses the       *)
(* orders behind a partly filled one.                                       *)
ViewFollowsTrades ==
  [][\A order \in Orders :
       LET opp == SideOf(opposite(order.side))
           own == SideOf(order.side)
       IN Submit(order) /\ ~PartWithOthers(OrdersOf(opp), trades') =>
            /\ \A price \in InputPrices :
                 /\ ShownAt(runtime_view(opp), price) =
                      ShownAt(runtime_view(opp'), price) + TradedAt(trades', price)
                 /\ ShownAt(runtime_view(own'), price) =
                      ShownAt(runtime_view(own), price)
                      + IF price = order.price THEN remainder' ELSE 0
            /\ order.quantity = remainder' + TotalQuantity(trades')]_ctVars

(* Bids stay in descending, asks in ascending order of price, as long as no *)
(* id is used twice.  They do not: an order that joins a level that is not  *)
(* the best moves the levels before it to the end.                          *)
LevelsSorted ==
  UniqueOrderIds(bids, asks) =>
  /\ \A k \in 1 .. Len(bids) - 1 : bids[k].price > bids[k + 1].price
  /\ \A k \in 1 .. Len(asks) - 1 : asks[k].price < asks[k + 1].price

(* What keeps the next submit from compiling: exactly a remainder that      *)
(* joins a level behind the best one of its side, or whose id an order that *)
(* rests, on either side, still has.  An id in use that trades in full, or  *)
(* trades its other bearer away, does no harm.                              *)
NextCompiles ==
  [][\A order \in Orders : Submit(order) =>
       LET own == SideOf(order.side)
           left == SideOf(opposite(order.side))'
           used == {o.id : o \in Range(OrdersOf(own) \o OrdersOf(left))}
       IN BookValid(bids', asks') <=>
            \/ remainder' = 0
            \/ /\ order.id \notin used
               /\ \A k \in 2 .. Len(own) : own[k].price /= order.price]_ctVars

(* A cancel removes that id and nothing else, keeps the queues in order and *)
(* leaves a valid book.                                                     *)
CancelExact ==
  [][\A id \in OrderIds : Cancel(id) =>
       /\ BookValid(bids', asks')
       /\ \A side \in {Buy, Sell} :
            OrdersOf(SideOf(side)') =
              Filter(OrdersOf(SideOf(side)), {o \in Orders : o.id /= id})]_ctVars

=============================================================================
