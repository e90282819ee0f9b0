---------------------------- MODULE BookContract ----------------------------
(***************************************************************************)
(* What the runtime book promises: the reference book, except that it has  *)
(* a capacity and a price range.  An order is refused, and nothing changes,*)
(* when its price is outside the range or when Capacity orders rest, even  *)
(* if it would trade in full (side.hpp:74-76); clear() empties the book.   *)
(***************************************************************************)
EXTENDS ReferenceBook

CONSTANTS Capacity, LowPrice, HighPrice

Refuses(in) ==
  \/ in.price \notin LowPrice .. HighPrice
  \/ Cardinality(DOMAIN ids) = Capacity

ContractRefused(in) ==
  /\ RefIdle
  /\ out' = Refused(in)
  /\ Refuses(in)
  /\ UNCHANGED <<levels, ids, order>>

ContractCleared ==
  /\ RefIdle
  /\ levels' = [side \in Sides |-> <<>>]
  /\ ids' = <<>>
  /\ out' = Silent
  /\ UNCHANGED order

ContractNext ==
  \/ RefMatching
  \/ \E id \in OrderIds : RefCancelMissed(id) \/ RefCancelled(id)
  \/ ContractCleared
  \/ \E in \in Orders :
       \/ ContractRefused(in) \/ RefSubmitRefused(in)
       \/ RefSubmitStarts(in) /\ ~Refuses(in)

ContractSpec == RefInit /\ [][ContractNext]_refVars

=============================================================================
