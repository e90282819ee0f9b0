-------------------------- MODULE MCReferenceBook --------------------------
(* ReferenceBook on a few ids, prices and quantities.                       *)
EXTENDS ReferenceBook, TLC

Symmetry == Permutations(OrderIds)

=============================================================================
