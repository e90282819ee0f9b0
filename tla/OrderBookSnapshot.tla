------------------------- MODULE OrderBookSnapshot -------------------------
(***************************************************************************)
(* What OrderBook::snapshot() reports, compared with the snapshot of the   *)
(* reference book and with the orders that rest.                           *)
(***************************************************************************)
EXTENDS OrderBookRefinement
LOCAL INSTANCE SequencesExt

(* The sum of the quantities of a set of nodes.                             *)
SumOf(S) == SumFunctionOnSet([i \in Slots |-> node[i].quantity], S)

(* snapshot(): the levels that hold orders, by growing index on both sides. *)
snapshot(side) ==
  LET shown == SetToSortSeq({l \in Levels : ~isEmpty(ladder[side][l])},
                            LAMBDA l, m : l < m)
  IN [k \in DOMAIN shown |->
        [price |-> index_to_price(shown[k]),
         orders |-> OrdersAt(Queue(ladder[side][shown[k]]))]]

(* ReferenceBook::snapshot(): a map whose bids are sorted by std::greater.  *)
reference_snapshot(side) ==
  LET levels == RuntimeLevels[side]
      shown == SetToSortSeq(DOMAIN levels,
                 LAMBDA p, q : IF side = Buy THEN p > q ELSE p < q)
  IN [k \in DOMAIN shown |->
        [price |-> shown[k], orders |-> levels[shown[k]]]]

(* total_quantity, which snapshot() reports, is the sum of the quantities   *)
(* that rest on the level.  It is not: side.hpp:130 subtracts a fill from   *)
(* the total, and side.hpp:133 has unlink_from_level subtract it again.     *)
LevelTotals ==
  Idle => \A side \in Sides, l \in Levels :
    ladder[side][l].total_quantity =
      SumOf(RestingAt(side, l)) % QtyModulus

(* The two books list their levels in the same order, as the conformance    *)
(* runner compares them.  They do not: the runtime book lists bids by       *)
(* growing price, the reference best first.                                 *)
SnapshotConforms ==
  Idle => \A side \in Sides : snapshot(side) = reference_snapshot(side)

=============================================================================
