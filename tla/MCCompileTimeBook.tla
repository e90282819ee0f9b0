------------------------- MODULE MCCompileTimeBook -------------------------
(* CompileTimeBook on a few ids, prices and quantities.                     *)
EXTENDS CompileTimeBook, TLC

Symmetry == Permutations(OrderIds)
=============================================================================
