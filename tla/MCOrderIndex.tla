---------------------------- MODULE MCOrderIndex ----------------------------
(* OrderIndex on a table of eight entries.                                  *)
EXTENDS OrderIndex

(* `answer` is never read.                                                  *)
Table == <<entries, size>>
=============================================================================
