---------------------------- MODULE MCOrderBook ----------------------------
(* OrderBook on a few nodes, ids, prices and quantities.                    *)
EXTENDS OrderBookSnapshot, TLC

Symmetry == Permutations(OrderIds)

(* The fields of a free node are written before they are read again, and    *)
(* `out` is never read: two states that differ in them alone are one.       *)
LiveState ==
  <<poolVars, ladder, bits, index, frame,
    [i \in Slots |-> IF state[i] = 1 THEN <<node[i], prev[i], next[i]>>
                                     ELSE <<>>]>>

MCMinPrice == -1
MCInputPrices == MinPrice - 1 .. MaxPrice + 1
=============================================================================
