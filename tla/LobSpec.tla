------------------------------ MODULE LobSpec ------------------------------
(***************************************************************************)
(* The vocabulary every book shares: include/lob/spec.hpp and              *)
(* include/lob/rules.hpp.                                                  *)
(***************************************************************************)
EXTENDS Integers

Buy == "Buy"
Sell == "Sell"
Sides == {Buy, Sell}

(* spec.hpp: opposite().                                                    *)
opposite(side) == IF side = Buy THEN Sell ELSE Buy

(* spec.hpp: struct Trade, as the sink of a submit sees it.                 *)
Trade(aggressor, resting, price, quantity) ==
  [aggressor |-> aggressor, resting |-> resting,
   price |-> price, quantity |-> quantity]

(* Mutant of crosses: an order at exactly the resting price does not trade. *)
crossesStrictly(side, incoming, resting) ==
  IF side = Buy THEN incoming > resting ELSE incoming < resting

(* rules.hpp: an incoming order trades with a resting price it reaches.     *)
crosses(side, incoming, resting) ==
  IF side = Buy THEN incoming >= resting ELSE incoming <= resting

(* rules.hpp: valid_quantity().                                             *)
valid_quantity(quantity) == quantity > 0

(* The best of a set of prices on a side: the highest bid, the lowest ask.  *)
BestOf(side, prices) ==
  CHOOSE p \in prices :
    \A q \in prices : IF side = Buy THEN p >= q ELSE p <= q

(* What a call shows its caller: nothing yet, a trade handed to the sink,   *)
(* or its return, which names the call: a submit that returns false, one    *)
(* that returns true, a cancel.  Each is a sequence of at most one record.  *)
Silent == <<>>
Traded(trade) == <<trade>>
Refused(order) == <<[refused |-> order]>>
Accepted(id) == <<[accepted |-> id]>>
CancelReturns(id, ok) == <<[cancel |-> id, return |-> ok]>>

=============================================================================
