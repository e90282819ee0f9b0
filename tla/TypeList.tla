------------------------------ MODULE TypeList ------------------------------
(***************************************************************************)
(* The lists of types of include/compile_time/type_list.hpp, as sequences, *)
(* with the operations that the compile-time book uses.  Positions count   *)
(* from 0, as in the code; a predicate is the set of the elements that     *)
(* satisfy it.                                                             *)
(***************************************************************************)
EXTENDS Integers, Sequences

PushFront(x, list) == <<x>> \o list

PushBack(list, x) == Append(list, x)

Concat(list1, list2) == list1 \o list2

(* The elements that satisfy Pred, in their order.                          *)
Filter(list, Pred) ==
  LET kept[n \in 0 .. Len(list)] ==
        IF n = 0 THEN <<>>
        ELSE IF list[n] \in Pred THEN Append(kept[n - 1], list[n])
             ELSE kept[n - 1]
  IN kept[Len(list)]

At(i, list) == list[i + 1]

(* The position of the first element that satisfies Pred, -1 if none does.  *)
FindIf(list, Pred) ==
  LET found == {i \in DOMAIN list : list[i] \in Pred}
  IN IF found = {} THEN -1
     ELSE (CHOOSE i \in found : \A j \in found : i <= j) - 1

(* level.hpp: the list without its first n elements.                        *)
PopFrontN(list, n) == SubSeq(list, n + 1, Len(list))

=============================================================================
