---------------------------- MODULE MatchEngine ----------------------------
(***************************************************************************)
(* The MatchEngine of include/runtime/side.hpp on its real parts: the hash *)
(* table of OrderIndex and, for each side, the words of Bitmap, next to    *)
(* the pool and the price ladders.  Each step makes the calls that the     *)
(* code makes and goes by what they answer; OrderBook, which has a map and *)
(* a set of levels in their place, is its specification.                   *)
(***************************************************************************)
EXTENDS PriceLadder

CONSTANTS
  OrderIds, InputPrices, MaxQuantity, NoCall,   (* as in OrderBook         *)
  Capacity, HashFactor,                         (* as in OrderIndex        *)
  WordBits                                      (* as in Bitmap            *)

VARIABLES
  node, frame, out,         (* as in OrderBook                             *)
  entries, size, answer,    (* index_                                      *)
  bidWords, askWords        (* the bitmaps of bids_ and asks_              *)

(* What the parts assume of their constants; Config is one for all of them. *)
ASSUME InputAssumption ==
  MaxQuantity \in Nat /\ MaxQuantity < QtyModulus /\ InputPrices \subseteq Int
ASSUME TableAssumption ==
  /\ OrderIds \subseteq Nat /\ HashFactor \in Nat
  /\ Capacity \in Nat
  /\ \E k \in 2 .. 32 :
       Capacity = 2^k /\ 2^(k - 1) <= 2 * MaxOrders /\ 2 * MaxOrders < 2^k
ASSUME WordAssumption == WordBits \in Nat /\ WordBits > 1

Index == INSTANCE OrderIndex WITH PoolIndices <- Slots

BidBits == INSTANCE Bitmap WITH words <- bidWords, NumLevels <- num_levels
AskBits == INSTANCE Bitmap WITH words <- askWords, NumLevels <- num_levels

(* The specification: the ids in the table, the levels whose bit is set.    *)
Book == INSTANCE OrderBook WITH
  index <- Index!TableMap,
  bits <- [side \in Sides |-> IF side = Buy THEN BidBits!SetLevels
                                            ELSE AskBits!SetLevels]

tableVars == <<entries, size, answer>>
wordVars == <<bidWords, askWords>>
ASSUME NoCallAssumption == NoCall \notin Book!Frames

engineVars == <<poolVars, ladderVars, node, frame, out, tableVars, wordVars>>

Idle == frame = NoCall

nullopt == -1

(* best_price<Side>(): the level the scan stops at, or nothing.             *)
best_level(side) ==
  IF side = Buy THEN BidBits!best_buy ELSE AskBits!best_sell

SetBit(side, l) ==
  IF side = Buy THEN BidBits!set(l) /\ UNCHANGED askWords
                ELSE AskBits!set(l) /\ UNCHANGED bidWords

ClearBit(side, l) ==
  IF side = Buy THEN BidBits!clear_bit(l) /\ UNCHANGED askWords
                ELSE AskBits!clear_bit(l) /\ UNCHANGED bidWords

EngineInit ==
  /\ PoolInit /\ LadderInit
  /\ Index!IndexInit
  /\ BidBits!BitmapInit /\ AskBits!BitmapInit
  /\ node = [i \in Slots |-> Book!FreshOrder]
  /\ frame = NoCall
  /\ out = Silent

-----------------------------------------------------------------------------

Refuse(order) ==
  /\ Idle
  /\ \/ ~Book!valid_price(order.price)
     \/ ~valid_quantity(order.quantity)
     \/ full
  /\ out' = Refused(order)
  /\ UNCHANGED <<poolVars, ladderVars, node, frame, tableVars, wordVars>>

(* submit_order with a node at hand: what insert() answers decides whether  *)
(* the node is kept and match is called.                                    *)
Enter(order) ==
  /\ Idle
  /\ Book!valid_price(order.price) /\ valid_quantity(order.quantity) /\ ~full
  /\ Book!FillNode(freeHead, order)
  /\ Index!Insert(order.id, freeHead)
  /\ IF answer' = Index!Inserted(order.id, freeHead, TRUE)
     THEN /\ Allocate
          /\ frame' = [id |-> order.id, side |-> order.side,
                       price |-> order.price, slot |-> freeHead,
                       remaining |-> order.quantity]
          /\ out' = Silent
     ELSE /\ out' = Refused(order)
          /\ UNCHANGED <<poolVars, frame>>
  /\ UNCHANGED wordVars

(* The test at the top of the loop, on what the bitmap answers.             *)
Crossing ==
  LET l == best_level(opposite(frame.side))
  IN /\ frame.remaining > 0
     /\ l /= nullopt
     /\ crosses(frame.side, frame.price, index_to_price(l))

(* Mutant of Fill: a filled order leaves everything but the index.          *)
FillKeepsId(opp, l, i, quantity) ==
  LET level == [ladder[opp][l] EXCEPT !.total_quantity =
                  (@ - quantity) % QtyModulus]
      left == UnlinkedLevel(level, i, quantity)
  IN /\ node' = [node EXCEPT ![i].quantity = @ - quantity]
     /\ IF quantity < node[i].quantity
        THEN /\ ladder' = [ladder EXCEPT ![opp][l] = level]
             /\ UNCHANGED <<poolVars, prev, next, tableVars, wordVars>>
        ELSE /\ ladder' = [ladder EXCEPT ![opp][l] = left]
             /\ UnlinkNeighbours(i)
             /\ Deallocate(i)
             /\ IF isEmpty(left) THEN ClearBit(opp, l) ELSE UNCHANGED wordVars
             /\ UNCHANGED tableVars

(* A trade of this quantity with the resting order i: what is left of it    *)
(* stays, or it leaves its level, the index and the pool, and the bit of a  *)
(* level that empties is cleared.                                           *)
Fill(opp, l, i, quantity) ==
  LET level == [ladder[opp][l] EXCEPT !.total_quantity =
                  (@ - quantity) % QtyModulus]
      left == UnlinkedLevel(level, i, quantity)
  IN /\ node' = [node EXCEPT ![i].quantity = @ - quantity]
     /\ IF quantity < node[i].quantity
        THEN /\ ladder' = [ladder EXCEPT ![opp][l] = level]
             /\ UNCHANGED <<poolVars, prev, next, tableVars, wordVars>>
        ELSE /\ ladder' = [ladder EXCEPT ![opp][l] = left]
             /\ UnlinkNeighbours(i)
             /\ Index!Erase(node[i].id)
             /\ Deallocate(i)
             /\ IF isEmpty(left) THEN ClearBit(opp, l) ELSE UNCHANGED wordVars

(* The head of the best opposite level trades; a level found empty only     *)
(* loses its bit.                                                           *)
Turn ==
  LET opp == opposite(frame.side)
      l == best_level(opp)
      i == ladder[opp][l].head
      quantity == IF frame.remaining < node[i].quantity
                  THEN frame.remaining ELSE node[i].quantity
  IN /\ ~Idle
     /\ Crossing
     /\ IF i = npos
        THEN /\ ClearBit(opp, l)
             /\ out' = Silent
             /\ UNCHANGED <<poolVars, ladderVars, node, frame, tableVars>>
        ELSE /\ Fill(opp, l, i, quantity)
             /\ frame' = [frame EXCEPT !.remaining = @ - quantity]
             /\ out' = Traded(Trade(frame.id, node[i].id, node[i].price,
                                    quantity))

(* match() returns: what is left rests, or the order leaves index and pool. *)
Rest ==
  LET l == price_to_index(frame.price)
  IN /\ ~Idle
     /\ ~Crossing /\ frame.remaining > 0
     /\ node' = [node EXCEPT ![frame.slot].quantity = frame.remaining]
     /\ AppendToLevel(frame.side, l, frame.slot, frame.remaining)
     /\ SetBit(frame.side, l)
     /\ frame' = NoCall
     /\ out' = Accepted(frame.id)
     /\ UNCHANGED <<poolVars, tableVars>>

Finish ==
  /\ ~Idle
  /\ frame.remaining = 0
  /\ Index!Erase(frame.id)
  /\ Deallocate(frame.slot)
  /\ frame' = NoCall
  /\ out' = Accepted(frame.id)
  /\ UNCHANGED <<ladderVars, node, wordVars>>

-----------------------------------------------------------------------------

(* cancel() believes find(): npos is a miss.                                *)
Miss(id) ==
  /\ Idle
  /\ Index!pool_index_of(id) = npos
  /\ Index!Find(id)
  /\ out' = CancelReturns(id, FALSE)
  /\ UNCHANGED <<poolVars, ladderVars, node, frame, wordVars>>

Remove(id) ==
  LET i == Index!pool_index_of(id)
      side == node[i].side
      l == price_to_index(node[i].price)
      left == UnlinkedLevel(ladder[side][l], i, node[i].quantity)
  IN /\ Idle
     /\ i /= npos
     /\ ladder' = [ladder EXCEPT ![side][l] = left]
     /\ UnlinkNeighbours(i)
     /\ IF isEmpty(left) THEN ClearBit(side, l) ELSE UNCHANGED wordVars
     /\ Index!Erase(id)
     /\ Deallocate(i)
     /\ out' = CancelReturns(id, TRUE)
     /\ UNCHANGED <<node, frame>>

Reset ==
  /\ Idle
  /\ LadderClear /\ PoolClear
  /\ BidBits!BitmapClear /\ AskBits!BitmapClear
  /\ Index!IndexClear
  /\ out' = Silent
  /\ UNCHANGED <<node, frame>>

Matching == Turn \/ Rest \/ Finish

EngineNext ==
  \/ \E order \in Book!Orders : Refuse(order) \/ Enter(order)
  \/ Matching
  \/ \E id \in OrderIds : Miss(id) \/ Remove(id)
  \/ Reset

EngineSpec == EngineInit /\ [][EngineNext]_engineVars

-----------------------------------------------------------------------------

(* On its hash table and its bit words the engine is OrderBook: insert()    *)
(* refuses exactly the ids that are in the book and never one for lack of   *)
(* room, find() never leads cancel() to a node of another order whatever    *)
(* tombstones the fills have left, and the scans send the matching loop to  *)
(* the best level of the book.                                              *)
ImplementsBook == Book!Spec

=============================================================================
