------------------------------ MODULE MCBitmap ------------------------------
(* Both bitmaps on four words, the last of them partly used, and two words  *)
(* of summary.                                                              *)
EXTENDS HierarchicalBitmap
=============================================================================
