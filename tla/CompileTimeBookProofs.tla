----------------------- MODULE CompileTimeBookProofs -----------------------
(***************************************************************************)
(* Proofs about CompileTimeBook, for every set of ids and of prices and    *)
(* every largest quantity: all its properties.                             *)
(*                                                                         *)
(* The inductive invariant adds one fact to the types and to the book not  *)
(* being crossed: every order lies in a level of its own price (CtInv).  A *)
(* turn of a match rebuilds the best level from an order of it, with the   *)
(* price of that order (match.hpp:121); only because that is the price of  *)
(* the level does the side stay where it was, whatever the book has lost.  *)
(*                                                                         *)
(* What a match trades follows from an account kept over its turns         *)
(* (Progress): the trades so far are with the first orders of the side,    *)
(* each for its share; and either those were taken whole and the others    *)
(* are left, or the last one was taken in part, nothing is left of the     *)
(* incoming order, and the others of that level may be gone.               *)
(*                                                                         *)
(* The model computes with functions that recurse on the length of a list. *)
(* Recursion gives such a function from its steps, and EveryList is        *)
(* induction over lists, for a set of lists instead of an operator.        *)
(***************************************************************************)
EXTENDS CompileTimeBook, FiniteSetTheorems, SequenceTheorems, TLAPS

-----------------------------------------------------------------------------
(* Recursion on the length of a list                                        *)

(* A set of indices has a least one.                                        *)
LEMMA LeastIndex ==
  ASSUME NEW n \in Nat, NEW T \in SUBSET (0 .. n), T # {}
  PROVE  \E k \in T : \A j \in T : k <= j
  <1> DEFINE Below(b) == {c \in T : c < b}
             F == {Below(b) : b \in T}
             U == 0 .. n
             R == StrictSubsetOrdering(U)
  <1>1. T \subseteq Int /\ IsFiniteSet(U)
    BY FS_Interval
  <1>2. IsWellFoundedOn(R, FiniteSubsetsOf(U)) /\ FiniteSubsetsOf(U) = SUBSET U
    BY <1>1, FS_StrictSubsetOrderingWellFounded, FS_FiniteSubsetsOfFinite
  <1>3. F \subseteq SUBSET U /\ F # {}
    OBVIOUS
  <1> HIDE DEF R, F, U
  <1>4. PICK A \in F : \A B \in F : ~(<<B, A>> \in R)
    BY <1>2, <1>3, WFMin
  <1>5. PICK x \in T : A = Below(x)
    BY DEF F
  <1>6. ASSUME NEW y \in T, y < x
        PROVE  FALSE
    <2>1. Below(y) \in F
      BY DEF F
    <2>2. y \in Below(x) /\ y \notin Below(y) /\ Below(y) \subseteq Below(x)
      <3>1. x \in Int /\ y \in Int /\ ~(y < y) /\ \A c \in T : c < y => c < x
        BY <1>1, <1>6
      <3> QED
        BY <1>6, <3>1
    <2>3. Below(x) \subseteq U /\ Below(y) \subseteq U
      BY DEF U
    <2> HIDE DEF Below
    <2>4. <<Below(y), Below(x)>> \in R
      BY <2>2, <2>3 DEF R, StrictSubsetOrdering
    <2> QED
      BY <1>4, <1>5, <2>1, <2>4
  <1> QED
    BY <1>1, <1>6

(* Induction from 0 to n, on a set of indices.                              *)
LEMMA UpTo ==
  ASSUME NEW n \in Nat, NEW P,
         0 \in P, \A k \in 1 .. n : k - 1 \in P => k \in P
  PROVE  n \in P /\ \A k \in 0 .. n : k \in P
  <1> DEFINE T == (0 .. n) \ P
  <1>1. SUFFICES ASSUME T # {} PROVE FALSE
    OBVIOUS
  <1>2. PICK k \in T : \A j \in T : k <= j
    <2>1. T \in SUBSET (0 .. n)
      OBVIOUS
    <2> HIDE DEF T
    <2> QED
      BY <1>1, <2>1, LeastIndex
  <1>3. k \in 1 .. n /\ k - 1 \in 0 .. n /\ ~(k <= k - 1)
    BY <1>2
  <1>4. k - 1 \in P
    BY <1>2, <1>3
  <1> QED
    BY <1>2, <1>3, <1>4

(* A function on 0 .. n is given by its value at 0 and a step for each of   *)
(* the others, and its values are those of the steps.                       *)
Follows(f, n, S, base, step) ==
  /\ f \in [0 .. n -> S]
  /\ f[0] = base
  /\ \A k \in 1 .. n : f[k] = step[k][f[k - 1]]

(* There is such a function.                                                *)
LEMMA Recursion ==
  ASSUME NEW n \in Nat, NEW S, NEW base \in S, NEW step \in [1 .. n -> [S -> S]]
  PROVE  \E f : Follows(f, n, S, base, step)
  <1> DEFINE Rec(f, m) == /\ f \in [0 .. m -> S]
                          /\ f[0] = base
                          /\ \A k \in 1 .. m : f[k] = step[k][f[k - 1]]
             P == {m \in 0 .. n : \E f : Rec(f, m)}
  <1>1. 0 \in P
    <2> DEFINE g == [k \in 0 .. 0 |-> base]
    <2>1. g \in [0 .. 0 -> S] /\ g[0] = base /\ 1 .. 0 = {}
      OBVIOUS
    <2>2. Rec(g, 0)
      BY <2>1
    <2>3. 0 \in 0 .. n
      OBVIOUS
    <2> QED
      BY <2>2, <2>3
  <1>2. ASSUME NEW m \in 1 .. n, m - 1 \in P
        PROVE  m \in P
    <2>1. PICK f : Rec(f, m - 1)
      BY <1>2
    <2> DEFINE g == [k \in 0 .. m |-> IF k = m THEN step[m][f[m - 1]] ELSE f[k]]
    <2>2. m - 1 \in 0 .. m - 1 /\ \A k \in 0 .. m : k # m => k \in 0 .. m - 1
      OBVIOUS
    <2>3. g \in [0 .. m -> S]
      <3>1. step[m][f[m - 1]] \in S
        BY <2>1, <2>2
      <3> QED
        BY <2>1, <2>2, <3>1
    <2>4. g[0] = base
      BY <2>1
    <2>5. ASSUME NEW k \in 1 .. m
          PROVE  g[k] = step[k][g[k - 1]]
      <3>1. k \in 0 .. m /\ k - 1 \in 0 .. m /\ k - 1 # m
        OBVIOUS
      <3>2. g[k - 1] = f[k - 1]
        BY <3>1
      <3>3. k # m => k \in 1 .. m - 1
        OBVIOUS
      <3> QED
        BY <2>1, <3>1, <3>2, <3>3
    <2> HIDE DEF g
    <2>6. Rec(g, m)
      BY <2>3, <2>4, <2>5
    <2>7. m \in 0 .. n
      OBVIOUS
    <2> HIDE DEF Rec
    <2> QED
      BY <2>6, <2>7
  <1> HIDE DEF P
  <1>3. n \in P
    BY <1>1, <1>2, UpTo
  <1> QED
    BY <1>3 DEF P, Follows

(* Induction over the lists of elements of T, on a set of lists.            *)
LEMMA EveryList ==
  ASSUME NEW T, NEW P, <<>> \in P,
         \A s \in Seq(T), x \in T : s \in P => Append(s, x) \in P
  PROVE  \A list \in Seq(T) : list \in P
  <1> SUFFICES ASSUME NEW list \in Seq(T) PROVE list \in P
    OBVIOUS
  <1> DEFINE n == Len(list)
             K == {k \in 0 .. n : SubSeq(list, 1, k) \in P}
  <1>1. n \in Nat /\ SubSeq(list, 1, n) = list /\ SubSeq(list, 1, 0) = <<>>
    OBVIOUS
  <1>2. 0 \in K
    <2> HIDE DEF n
    <2>1. 0 \in 0 .. n
      BY <1>1
    <2> QED
      BY <1>1, <2>1, Zenon
  <1>3. ASSUME NEW k \in 1 .. n, k - 1 \in K
        PROVE  k \in K
    <2>1. /\ SubSeq(list, 1, k - 1) \in Seq(T) /\ list[k] \in T
          /\ SubSeq(list, 1, k) = Append(SubSeq(list, 1, k - 1), list[k])
      OBVIOUS
    <2>2. SubSeq(list, 1, k) \in P
      BY <1>3, <2>1
    <2> QED
      BY <2>2
  <1> HIDE DEF K
  <1>4. n \in K
    BY <1>1, <1>2, <1>3, UpTo
  <1> QED
    BY <1>1, <1>4 DEF K

-----------------------------------------------------------------------------
(* Filter                                                                   *)

LEMMA FilterSteps ==
  ASSUME NEW T, NEW list \in Seq(T), NEW Pred
  PROVE  \E f \in [0 .. Len(list) -> Seq(T)] :
           /\ f[0] = <<>>
           /\ \A k \in 1 .. Len(list) :
                f[k] = IF list[k] \in Pred THEN Append(f[k - 1], list[k])
                       ELSE f[k - 1]
           /\ Filter(list, Pred) = f[Len(list)]
  <1> DEFINE n == Len(list)
             step == [k \in 1 .. n |-> [s \in Seq(T) |->
                        IF list[k] \in Pred THEN Append(s, list[k]) ELSE s]]
             Body(g) == [k \in 0 .. n |->
                           IF k = 0 THEN <<>>
                           ELSE IF list[k] \in Pred THEN Append(g[k - 1], list[k])
                                ELSE g[k - 1]]
             F == CHOOSE g : g = Body(g)
  <1>1. n \in Nat /\ step \in [1 .. n -> [Seq(T) -> Seq(T)]] /\ <<>> \in Seq(T)
    OBVIOUS
  <1> HIDE DEF step
  <1>2. PICK f \in [0 .. n -> Seq(T)] :
          /\ f[0] = <<>>
          /\ \A k \in 1 .. n : f[k] = step[k][f[k - 1]]
    <2>1. \E f : Follows(f, n, Seq(T), <<>>, step)
      <3> HIDE DEF n
      <3> QED
        BY <1>1, Recursion
    <2> QED
      BY <2>1 DEF Follows
  <1>3. \A k \in 1 .. n :
          f[k] = IF list[k] \in Pred THEN Append(f[k - 1], list[k]) ELSE f[k - 1]
    <2> SUFFICES ASSUME NEW k \in 1 .. n
                 PROVE  f[k] = IF list[k] \in Pred
                               THEN Append(f[k - 1], list[k]) ELSE f[k - 1]
      OBVIOUS
    <2>1. k - 1 \in 0 .. n
      BY <1>1
    <2> HIDE DEF n
    <2>2. f[k - 1] \in Seq(T)
      BY <2>1
    <2> QED
      BY <1>2, <2>2 DEF step
  <1>4. f = Body(f)
    <2> HIDE DEF n
    <2>1. \A k \in 0 .. n : k # 0 => k \in 1 .. n
      BY <1>1
    <2>2. f = [k \in 0 .. n |-> f[k]]
      OBVIOUS
    <2> QED
      BY <1>2, <1>3, <2>1, <2>2
  <1>5. F = Body(F)
    BY <1>4
  <1>6. Filter(list, Pred) = F[n]
    BY DEF Filter
  <1> HIDE DEF F, n
  <1> DEFINE P == {k \in 0 .. n : F[k] = f[k]}
  <1>7. 0 \in P
    BY <1>1, <1>2, <1>5
  <1>8. \A k \in 1 .. n : k - 1 \in P => k \in P
    <2> SUFFICES ASSUME NEW k \in 1 .. n, F[k - 1] = f[k - 1]
                 PROVE  F[k] = f[k]
      BY <1>1
    <2>1. k \in 0 .. n /\ k # 0
      BY <1>1
    <2>2. F[k] = Body(F)[k]
      BY <1>5
    <2> QED
      BY <1>3, <2>1, <2>2
  <1> HIDE DEF P
  <1>9. n \in P
    BY <1>1, <1>7, <1>8, UpTo, Zenon
  <1> QED
    BY <1>2, <1>3, <1>6, <1>9 DEF P, n

(* Of the empty list nothing is kept.                                       *)
LEMMA FilterEmpty == ASSUME NEW Pred PROVE Filter(<<>>, Pred) = <<>>
  <1>1. ASSUME NEW list \in Seq({0}), Len(list) = 0
        PROVE  Filter(list, Pred) = <<>>
    <2>1. PICK f \in [0 .. Len(list) -> Seq({0})] :
             /\ f[0] = <<>>
             /\ \A k \in 1 .. Len(list) :
                  f[k] = IF list[k] \in Pred THEN Append(f[k - 1], list[k])
                         ELSE f[k - 1]
             /\ Filter(list, Pred) = f[Len(list)]
      BY FilterSteps
    <2> QED
      BY <1>1, <2>1
  <1>2. <<>> \in Seq({0}) /\ Len(<<>>) = 0
    OBVIOUS
  <1> QED
    BY <1>1, <1>2

(* The last element is kept or not.                                         *)
LEMMA FilterAppend ==
  ASSUME NEW T, NEW list \in Seq(T), NEW x \in T, NEW Pred
  PROVE  Filter(Append(list, x), Pred) =
           IF x \in Pred THEN Append(Filter(list, Pred), x)
           ELSE Filter(list, Pred)
  <1> DEFINE n == Len(list)
             more == Append(list, x)
  <1>1. n \in Nat /\ more \in Seq(T) /\ Len(more) = n + 1 /\ more[n + 1] = x
        /\ \A k \in 1 .. n : more[k] = list[k] /\ k \in 1 .. n + 1
    OBVIOUS
  <1>2. PICK f \in [0 .. n -> Seq(T)] :
           /\ f[0] = <<>>
           /\ \A k \in 1 .. n :
                f[k] = IF list[k] \in Pred THEN Append(f[k - 1], list[k])
                       ELSE f[k - 1]
           /\ Filter(list, Pred) = f[n]
    BY FilterSteps
  <1> HIDE DEF more
  <1>3. PICK g \in [0 .. n + 1 -> Seq(T)] :
           /\ g[0] = <<>>
           /\ \A k \in 1 .. n + 1 :
                g[k] = IF more[k] \in Pred THEN Append(g[k - 1], more[k])
                       ELSE g[k - 1]
           /\ Filter(more, Pred) = g[n + 1]
    BY <1>1, FilterSteps
  <1> DEFINE P == {k \in 0 .. n : g[k] = f[k]}
  <1>4. 0 \in P
    BY <1>1, <1>2, <1>3
  <1>5. \A k \in 1 .. n : k - 1 \in P => k \in P
    BY <1>1, <1>2, <1>3
  <1> HIDE DEF P, n
  <1>6. n \in P
    BY <1>1, <1>4, <1>5, UpTo
  <1>7. n + 1 \in 1 .. n + 1 /\ n + 1 - 1 = n
    BY <1>1
  <1> QED
    BY <1>1, <1>2, <1>3, <1>6, <1>7 DEF P, more

(* What is kept are elements of the list that satisfy the set.              *)
LEMMA FilterType ==
  ASSUME NEW T, NEW list \in Seq(T), NEW Pred
  PROVE  Filter(list, Pred) \in Seq(T \cap Pred)
  <1> DEFINE U == T \cap Pred
             P == {s \in Seq(T) : Filter(s, Pred) \in Seq(U)}
  <1>0. \A x \in T : x \in Pred => x \in U
    OBVIOUS
  <1> HIDE DEF U
  <1>1. <<>> \in P
    <2>1. <<>> \in Seq(T) /\ <<>> \in Seq(U)
      OBVIOUS
    <2> QED
      BY <2>1, FilterEmpty
  <1>2. \A s \in Seq(T), x \in T : s \in P => Append(s, x) \in P
    <2> SUFFICES ASSUME NEW s \in Seq(T), NEW x \in T,
                        Filter(s, Pred) \in Seq(U)
                 PROVE  /\ Append(s, x) \in Seq(T)
                        /\ Filter(Append(s, x), Pred) \in Seq(U)
      OBVIOUS
    <2>1. x \in Pred => Append(Filter(s, Pred), x) \in Seq(U)
      BY <1>0
    <2>2. Append(s, x) \in Seq(T)
      OBVIOUS
    <2>3. Filter(Append(s, x), Pred) =
            IF x \in Pred THEN Append(Filter(s, Pred), x) ELSE Filter(s, Pred)
      BY FilterAppend
    <2> QED
      BY <2>1, <2>2, <2>3
  <1> HIDE DEF P
  <1>3. list \in P
    BY <1>1, <1>2, EveryList
  <1> QED
    BY <1>3 DEF P, U

(* What is kept of two lists, one behind the other.                         *)
LEMMA FilterConcat ==
  ASSUME NEW T, NEW s \in Seq(T), NEW list \in Seq(T), NEW Pred
  PROVE  Filter(s \o list, Pred) = Filter(s, Pred) \o Filter(list, Pred)
  <1> DEFINE P == {t \in Seq(T) :
                     Filter(s \o t, Pred) = Filter(s, Pred) \o Filter(t, Pred)}
  <1>0. Filter(s, Pred) \in Seq(T)
    <2>1. Filter(s, Pred) \in Seq(T \cap Pred)
      BY FilterType
    <2> QED
      BY <2>1
  <1>1. <<>> \in P
    <2>1. s \o <<>> = s /\ Filter(s, Pred) \o <<>> = Filter(s, Pred)
          /\ <<>> \in Seq(T)
      BY <1>0
    <2> QED
      BY <2>1, FilterEmpty
  <1>2. \A t \in Seq(T), x \in T : t \in P => Append(t, x) \in P
    <2> SUFFICES ASSUME NEW t \in Seq(T), NEW x \in T, t \in P
                 PROVE  Append(t, x) \in P
      OBVIOUS
    <2>1. /\ s \o Append(t, x) = Append(s \o t, x) /\ s \o t \in Seq(T)
          /\ Append(t, x) \in Seq(T)
      OBVIOUS
    <2>2. Filter(t, Pred) \in Seq(T)
      <3>1. Filter(t, Pred) \in Seq(T \cap Pred)
        BY FilterType
      <3> QED
        BY <3>1
    <2>3. Filter(s, Pred) \o Append(Filter(t, Pred), x) =
            Append(Filter(s, Pred) \o Filter(t, Pred), x)
      BY <1>0, <2>2
    <2>4. Filter(Append(s \o t, x), Pred) =
            IF x \in Pred THEN Append(Filter(s \o t, Pred), x)
            ELSE Filter(s \o t, Pred)
      <3> HIDE DEF P
      <3> DEFINE all == s \o t
      <3>1. all \in Seq(T)
        BY <2>1
      <3> HIDE DEF all
      <3>2. Filter(Append(all, x), Pred) =
              IF x \in Pred THEN Append(Filter(all, Pred), x)
              ELSE Filter(all, Pred)
        BY <3>1, FilterAppend
      <3> QED
        BY <3>2 DEF all
    <2>5. Filter(Append(t, x), Pred) =
            IF x \in Pred THEN Append(Filter(t, Pred), x)
            ELSE Filter(t, Pred)
      BY <2>1, FilterAppend
    <2> QED
      BY <2>1, <2>3, <2>4, <2>5
  <1> HIDE DEF P
  <1>3. list \in P
    BY <1>1, <1>2, EveryList
  <1> QED
    BY <1>3 DEF P

(* What is kept of a single element.                                        *)
LEMMA FilterOne ==
  ASSUME NEW x, NEW Pred
  PROVE  Filter(<<x>>, Pred) = IF x \in Pred THEN <<x>> ELSE <<>>
  <1>1. <<>> \in Seq({x}) /\ x \in {x} /\ Append(<<>>, x) = <<x>>
    OBVIOUS
  <1>2. Filter(Append(<<>>, x), Pred) =
          IF x \in Pred THEN Append(Filter(<<>>, Pred), x)
          ELSE Filter(<<>>, Pred)
    BY <1>1, FilterAppend
  <1> QED
    BY <1>1, <1>2, FilterEmpty

(* Two sets that agree on the elements keep the same of them.               *)
LEMMA FilterAgree ==
  ASSUME NEW T, NEW list \in Seq(T), NEW Pred, NEW Other,
         \A k \in 1 .. Len(list) : list[k] \in Pred <=> list[k] \in Other
  PROVE  Filter(list, Pred) = Filter(list, Other)
  <1> DEFINE U == {x \in T : x \in Pred <=> x \in Other}
             P == {s \in Seq(U) : Filter(s, Pred) = Filter(s, Other)}
  <1>1. list \in Seq(U)
    OBVIOUS
  <1>2. <<>> \in P
    BY FilterEmpty
  <1>3. \A s \in Seq(U), x \in U : s \in P => Append(s, x) \in P
    <2> SUFFICES ASSUME NEW s \in Seq(U), NEW x \in U,
                        Filter(s, Pred) = Filter(s, Other)
                 PROVE  /\ Append(s, x) \in Seq(U)
                        /\ Filter(Append(s, x), Pred) = Filter(Append(s, x), Other)
      OBVIOUS
    <2>1. x \in Pred <=> x \in Other
      OBVIOUS
    <2>2. Append(s, x) \in Seq(U)
      OBVIOUS
    <2> HIDE DEF U
    <2>3. Filter(Append(s, x), Pred) =
            IF x \in Pred THEN Append(Filter(s, Pred), x) ELSE Filter(s, Pred)
      BY FilterAppend
    <2>4. Filter(Append(s, x), Other) =
            IF x \in Other THEN Append(Filter(s, Other), x) ELSE Filter(s, Other)
      BY FilterAppend
    <2> QED
      BY <2>1, <2>2, <2>3, <2>4
  <1> HIDE DEF P, U
  <1>4. list \in P
    BY <1>1, <1>2, <1>3, EveryList
  <1> QED
    BY <1>4 DEF P

(* A list all of whose elements satisfy the set is kept as it is.           *)
LEMMA FilterAll ==
  ASSUME NEW T, NEW list \in Seq(T), NEW Pred,
         \A k \in 1 .. Len(list) : list[k] \in Pred
  PROVE  Filter(list, Pred) = list
  <1> DEFINE U == T \cap Pred
             P == {s \in Seq(U) : Filter(s, Pred) = s}
  <1>1. list \in Seq(U)
    OBVIOUS
  <1>2. <<>> \in P
    BY FilterEmpty
  <1>3. \A s \in Seq(U), x \in U : s \in P => Append(s, x) \in P
    <2> SUFFICES ASSUME NEW s \in Seq(U), NEW x \in U, Filter(s, Pred) = s
                 PROVE  /\ Append(s, x) \in Seq(U)
                        /\ Filter(Append(s, x), Pred) = Append(s, x)
      OBVIOUS
    <2>1. x \in Pred /\ Append(s, x) \in Seq(U)
      OBVIOUS
    <2> HIDE DEF U
    <2>2. Filter(Append(s, x), Pred) =
            IF x \in Pred THEN Append(Filter(s, Pred), x) ELSE Filter(s, Pred)
      BY FilterAppend
    <2> QED
      BY <2>1, <2>2
  <1> HIDE DEF P, U
  <1>4. list \in P
    BY <1>1, <1>2, <1>3, EveryList
  <1> QED
    BY <1>4 DEF P

-----------------------------------------------------------------------------
(* SumOf                                                                    *)

LEMMA SumSteps ==
  ASSUME NEW amounts \in Seq(Int)
  PROVE  \E f \in [0 .. Len(amounts) -> Int] :
           /\ f[0] = 0
           /\ \A k \in 1 .. Len(amounts) : f[k] = f[k - 1] + amounts[k]
           /\ SumOf(amounts) = f[Len(amounts)]
  <1> DEFINE n == Len(amounts)
             step == [k \in 1 .. n |-> [s \in Int |-> s + amounts[k]]]
             Body(g) == [k \in 0 .. n |->
                           IF k = 0 THEN 0 ELSE g[k - 1] + amounts[k]]
             F == CHOOSE g : g = Body(g)
  <1>1. n \in Nat /\ step \in [1 .. n -> [Int -> Int]] /\ 0 \in Int
    OBVIOUS
  <1> HIDE DEF step
  <1>2. PICK f \in [0 .. n -> Int] :
          /\ f[0] = 0
          /\ \A k \in 1 .. n : f[k] = step[k][f[k - 1]]
    <2>1. \E f : Follows(f, n, Int, 0, step)
      <3> HIDE DEF n
      <3> QED
        BY <1>1, Recursion
    <2> QED
      BY <2>1 DEF Follows
  <1>3. \A k \in 1 .. n : f[k] = f[k - 1] + amounts[k]
    <2> SUFFICES ASSUME NEW k \in 1 .. n
                 PROVE  f[k] = f[k - 1] + amounts[k]
      OBVIOUS
    <2>1. k - 1 \in 0 .. n
      BY <1>1
    <2> HIDE DEF n
    <2>2. f[k - 1] \in Int
      BY <2>1
    <2> QED
      BY <1>2, <2>2 DEF step
  <1>4. f = Body(f)
    <2> HIDE DEF n
    <2>1. \A k \in 0 .. n : k # 0 => k \in 1 .. n
      BY <1>1
    <2>2. f = [k \in 0 .. n |-> f[k]]
      OBVIOUS
    <2> QED
      BY <1>2, <1>3, <2>1, <2>2
  <1>5. F = Body(F)
    BY <1>4
  <1>6. SumOf(amounts) = F[n]
    BY DEF SumOf, Concat
  <1> HIDE DEF F, n
  <1> DEFINE P == {k \in 0 .. n : F[k] = f[k]}
  <1>7. 0 \in P
    BY <1>1, <1>2, <1>5
  <1>8. \A k \in 1 .. n : k - 1 \in P => k \in P
    <2> SUFFICES ASSUME NEW k \in 1 .. n, F[k - 1] = f[k - 1]
                 PROVE  F[k] = f[k]
      BY <1>1
    <2>1. k \in 0 .. n /\ k # 0
      BY <1>1
    <2>2. F[k] = Body(F)[k]
      BY <1>5
    <2> QED
      BY <1>3, <2>1, <2>2
  <1> HIDE DEF P
  <1>9. n \in P
    BY <1>1, <1>7, <1>8, UpTo, Zenon
  <1> QED
    BY <1>2, <1>3, <1>6, <1>9 DEF P, n

(* Nothing sums up to zero.                                                 *)
LEMMA SumEmpty == SumOf(<<>>) = 0
  <1>1. ASSUME NEW amounts \in Seq(Int), Len(amounts) = 0
        PROVE  SumOf(amounts) = 0
    <2>1. PICK f \in [0 .. Len(amounts) -> Int] :
             /\ f[0] = 0
             /\ \A k \in 1 .. Len(amounts) : f[k] = f[k - 1] + amounts[k]
             /\ SumOf(amounts) = f[Len(amounts)]
      BY SumSteps
    <2> QED
      BY <1>1, <2>1
  <1>2. <<>> \in Seq(Int) /\ Len(<<>>) = 0
    OBVIOUS
  <1> QED
    BY <1>1, <1>2

(* One number more.                                                         *)
LEMMA SumAppend ==
  ASSUME NEW amounts \in Seq(Int), NEW x \in Int
  PROVE  SumOf(Append(amounts, x)) = SumOf(amounts) + x
  <1> DEFINE n == Len(amounts)
             more == Append(amounts, x)
  <1>1. n \in Nat /\ more \in Seq(Int) /\ Len(more) = n + 1 /\ more[n + 1] = x
        /\ \A k \in 1 .. n : more[k] = amounts[k] /\ k \in 1 .. n + 1
    OBVIOUS
  <1>2. PICK f \in [0 .. n -> Int] :
           /\ f[0] = 0
           /\ \A k \in 1 .. n : f[k] = f[k - 1] + amounts[k]
           /\ SumOf(amounts) = f[n]
    BY SumSteps
  <1> HIDE DEF more
  <1>3. PICK g \in [0 .. n + 1 -> Int] :
           /\ g[0] = 0
           /\ \A k \in 1 .. n + 1 : g[k] = g[k - 1] + more[k]
           /\ SumOf(more) = g[n + 1]
    <2>1. PICK g \in [0 .. Len(more) -> Int] :
           /\ g[0] = 0
           /\ \A k \in 1 .. Len(more) : g[k] = g[k - 1] + more[k]
           /\ SumOf(more) = g[Len(more)]
      BY <1>1, SumSteps
    <2> QED
      BY <1>1, <2>1
  <1> DEFINE P == {k \in 0 .. n : g[k] = f[k]}
  <1>4. 0 \in P
    BY <1>1, <1>2, <1>3
  <1>5. \A k \in 1 .. n : k - 1 \in P => k \in P
    BY <1>1, <1>2, <1>3
  <1> HIDE DEF P, n
  <1>6. n \in P
    BY <1>1, <1>4, <1>5, UpTo
  <1>7. n + 1 \in 1 .. n + 1 /\ n + 1 - 1 = n
    BY <1>1
  <1> QED
    BY <1>1, <1>2, <1>3, <1>6, <1>7 DEF P, more

-----------------------------------------------------------------------------
(* OrdersOf                                                                 *)

LEMMA OrdersSteps ==
  ASSUME NEW O, NEW L, \A l \in L : l.orders \in Seq(O), NEW side \in Seq(L)
  PROVE  \E f \in [0 .. Len(side) -> Seq(O)] :
           /\ f[0] = <<>>
           /\ \A k \in 1 .. Len(side) : f[k] = f[k - 1] \o side[k].orders
           /\ OrdersOf(side) = f[Len(side)]
  <1> DEFINE n == Len(side)
             step == [k \in 1 .. n |-> [s \in Seq(O) |-> s \o side[k].orders]]
             Body(g) == [k \in 0 .. n |->
                           IF k = 0 THEN <<>> ELSE g[k - 1] \o side[k].orders]
             F == CHOOSE g : g = Body(g)
  <1>1. n \in Nat /\ step \in [1 .. n -> [Seq(O) -> Seq(O)]] /\ <<>> \in Seq(O)
    <2>1. \A k \in 1 .. n : side[k].orders \in Seq(O)
      OBVIOUS
    <2> HIDE DEF n
    <2>2. \A k \in 1 .. n : \A s \in Seq(O) : s \o side[k].orders \in Seq(O)
      BY <2>1
    <2>3. n \in Nat
      BY DEF n
    <2> QED
      BY <2>2, <2>3
  <1> HIDE DEF step
  <1>2. PICK f \in [0 .. n -> Seq(O)] :
          /\ f[0] = <<>>
          /\ \A k \in 1 .. n : f[k] = step[k][f[k - 1]]
    <2>1. \E f : Follows(f, n, Seq(O), <<>>, step)
      <3> HIDE DEF n
      <3> QED
        BY <1>1, Recursion
    <2> QED
      BY <2>1 DEF Follows
  <1>3. \A k \in 1 .. n : f[k] = f[k - 1] \o side[k].orders
    <2> SUFFICES ASSUME NEW k \in 1 .. n
                 PROVE  f[k] = f[k - 1] \o side[k].orders
      OBVIOUS
    <2>1. k - 1 \in 0 .. n
      BY <1>1
    <2> HIDE DEF n
    <2>2. f[k - 1] \in Seq(O)
      BY <2>1
    <2> QED
      BY <1>2, <2>2 DEF step
  <1>4. f = Body(f)
    <2> HIDE DEF n
    <2>1. \A k \in 0 .. n : k # 0 => k \in 1 .. n
      BY <1>1
    <2>2. f = [k \in 0 .. n |-> f[k]]
      OBVIOUS
    <2> QED
      BY <1>2, <1>3, <2>1, <2>2
  <1>5. F = Body(F)
    BY <1>4
  <1>6. OrdersOf(side) = F[n]
    BY DEF OrdersOf, Concat
  <1> HIDE DEF F, n
  <1> DEFINE P == {k \in 0 .. n : F[k] = f[k]}
  <1>7. 0 \in P
    BY <1>1, <1>2, <1>5
  <1>8. \A k \in 1 .. n : k - 1 \in P => k \in P
    <2> SUFFICES ASSUME NEW k \in 1 .. n, F[k - 1] = f[k - 1]
                 PROVE  F[k] = f[k]
      BY <1>1
    <2>1. k \in 0 .. n /\ k # 0
      BY <1>1
    <2>2. F[k] = Body(F)[k]
      BY <1>5
    <2> QED
      BY <1>3, <2>1, <2>2
  <1> HIDE DEF P
  <1>9. n \in P
    BY <1>1, <1>7, <1>8, UpTo, Zenon
  <1> QED
    BY <1>2, <1>3, <1>6, <1>9 DEF P, n

(* A side without levels has no orders.                                     *)
LEMMA OrdersEmpty == OrdersOf(<<>>) = <<>>
  <1>1. ASSUME NEW side \in Seq({[orders |-> <<>>]}), Len(side) = 0
        PROVE  OrdersOf(side) = <<>>
    <2> DEFINE L == {[orders |-> <<>>]}
    <2>1. \A l \in L : l.orders \in Seq({0})
      <3>1. <<>> \in Seq({0}) /\ \A l \in L : l.orders = <<>>
        OBVIOUS
      <3> HIDE DEF L
      <3> QED
        BY <3>1
    <2>2. side \in Seq(L)
      OBVIOUS
    <2> HIDE DEF L
    <2>3. PICK f \in [0 .. Len(side) -> Seq({0})] :
             /\ f[0] = <<>>
             /\ \A k \in 1 .. Len(side) : f[k] = f[k - 1] \o side[k].orders
             /\ OrdersOf(side) = f[Len(side)]
      BY <2>1, <2>2, OrdersSteps
    <2> QED
      BY <1>1, <2>3
  <1>2. <<>> \in Seq({[orders |-> <<>>]}) /\ Len(<<>>) = 0
    OBVIOUS
  <1> QED
    BY <1>1, <1>2

(* The orders of one level more stand behind the others.                    *)
LEMMA OrdersAppend ==
  ASSUME NEW O, NEW L, \A l \in L : l.orders \in Seq(O), NEW side \in Seq(L), NEW x \in L
  PROVE  OrdersOf(Append(side, x)) = OrdersOf(side) \o x.orders
  <1> DEFINE n == Len(side)
             more == Append(side, x)
  <1>1. n \in Nat /\ more \in Seq(L) /\ Len(more) = n + 1 /\ more[n + 1] = x
        /\ \A k \in 1 .. n : more[k] = side[k] /\ k \in 1 .. n + 1
    OBVIOUS
  <1>2. PICK f \in [0 .. n -> Seq(O)] :
           /\ f[0] = <<>>
           /\ \A k \in 1 .. n : f[k] = f[k - 1] \o side[k].orders
           /\ OrdersOf(side) = f[n]
    BY OrdersSteps
  <1> HIDE DEF more
  <1>3. PICK g \in [0 .. n + 1 -> Seq(O)] :
           /\ g[0] = <<>>
           /\ \A k \in 1 .. n + 1 : g[k] = g[k - 1] \o more[k].orders
           /\ OrdersOf(more) = g[n + 1]
    <2>1. PICK g \in [0 .. Len(more) -> Seq(O)] :
           /\ g[0] = <<>>
           /\ \A k \in 1 .. Len(more) : g[k] = g[k - 1] \o more[k].orders
           /\ OrdersOf(more) = g[Len(more)]
      BY <1>1, OrdersSteps
    <2> QED
      BY <1>1, <2>1
  <1> DEFINE P == {k \in 0 .. n : g[k] = f[k]}
  <1>4. 0 \in P
    BY <1>1, <1>2, <1>3
  <1>5. \A k \in 1 .. n : k - 1 \in P => k \in P
    <2> SUFFICES ASSUME NEW k \in 1 .. n, g[k - 1] = f[k - 1]
                 PROVE  k \in 0 .. n /\ g[k] = f[k]
      OBVIOUS
    <2>1. k \in 0 .. n /\ k \in 1 .. n + 1 /\ more[k] = side[k]
      BY <1>1
    <2>2. g[k] = g[k - 1] \o more[k].orders /\ f[k] = f[k - 1] \o side[k].orders
      BY <1>2, <1>3, <2>1
    <2> QED
      BY <2>1, <2>2
  <1> HIDE DEF P, n
  <1>6. n \in P
    BY <1>1, <1>4, <1>5, UpTo
  <1>7. n + 1 \in 1 .. n + 1 /\ n + 1 - 1 = n
    BY <1>1
  <1>8. g[n + 1] = g[n] \o more[n + 1].orders
    <2> DEFINE m == n + 1
    <2>1. m \in 1 .. n + 1 /\ m - 1 = n
      BY <1>1, <1>7
    <2> HIDE DEF m
    <2>2. g[m] = g[m - 1] \o more[m].orders
      BY <1>3, <2>1
    <2>3. g[m] = g[n] \o more[m].orders
      BY <2>1, <2>2
    <2> QED
      BY <2>3 DEF m
  <1>9. OrdersOf(more) = OrdersOf(side) \o x.orders
    BY <1>1, <1>2, <1>3, <1>6, <1>8 DEF P
  <1> QED
    BY <1>9 DEF more

(* What a list of numbers sums up to is an integer.                         *)
LEMMA SumType == \A amounts \in Seq(Int) : SumOf(amounts) \in Int
  <1> SUFFICES ASSUME NEW amounts \in Seq(Int) PROVE SumOf(amounts) \in Int
    OBVIOUS
  <1>1. PICK f \in [0 .. Len(amounts) -> Int] : SumOf(amounts) = f[Len(amounts)]
    BY SumSteps
  <1> QED
    BY <1>1

(* Two lists of numbers, one behind the other.                              *)
LEMMA SumConcat ==
  ASSUME NEW s \in Seq(Int), NEW amounts \in Seq(Int)
  PROVE  SumOf(s \o amounts) = SumOf(s) + SumOf(amounts)
  <1> DEFINE P == {t \in Seq(Int) : SumOf(s \o t) = SumOf(s) + SumOf(t)}
  <1>1. <<>> \in P
    <2>1. s \o <<>> = s /\ <<>> \in Seq(Int) /\ SumOf(s) \in Int
      BY SumType
    <2> QED
      BY <2>1, SumEmpty
  <1>2. \A t \in Seq(Int), x \in Int : t \in P => Append(t, x) \in P
    <2> SUFFICES ASSUME NEW t \in Seq(Int), NEW x \in Int, t \in P
                 PROVE  Append(t, x) \in P
      OBVIOUS
    <2> DEFINE all == s \o t
    <2>1. /\ s \o Append(t, x) = Append(all, x) /\ all \in Seq(Int)
          /\ Append(t, x) \in Seq(Int)
      OBVIOUS
    <2>2. SumOf(all) = SumOf(s) + SumOf(t)
      OBVIOUS
    <2>3. SumOf(s) \in Int /\ SumOf(t) \in Int
      BY SumType
    <2> HIDE DEF all
    <2>4. SumOf(Append(all, x)) = SumOf(all) + x
      BY <2>1, SumAppend
    <2>5. SumOf(Append(t, x)) = SumOf(t) + x
      BY SumAppend
    <2>6. SumOf(s \o Append(t, x)) = SumOf(s) + SumOf(Append(t, x))
      BY <2>1, <2>2, <2>3, <2>4, <2>5
    <2> QED
      BY <2>1, <2>6
  <1> HIDE DEF P
  <1>3. amounts \in P
    BY <1>1, <1>2, EveryList
  <1> QED
    BY <1>3 DEF P

(* A single number.                                                         *)
LEMMA SumOne == ASSUME NEW x \in Int PROVE SumOf(<<x>>) = x
  <1>1. <<>> \in Seq(Int) /\ Append(<<>>, x) = <<x>>
    OBVIOUS
  <1>2. SumOf(Append(<<>>, x)) = SumOf(<<>>) + x
    BY <1>1, SumAppend
  <1> QED
    BY <1>1, <1>2, SumEmpty

(* The sum of numbers that are not negative is not negative.                *)
LEMMA SumNat ==
  ASSUME NEW amounts \in Seq(Nat)
  PROVE  SumOf(amounts) \in Nat
  <1> DEFINE P == {s \in Seq(Nat) : SumOf(s) \in Nat}
  <1>1. <<>> \in P
    <2>1. <<>> \in Seq(Nat)
      OBVIOUS
    <2> QED
      BY <2>1, SumEmpty
  <1>2. \A s \in Seq(Nat), x \in Nat : s \in P => Append(s, x) \in P
    <2> SUFFICES ASSUME NEW s \in Seq(Nat), NEW x \in Nat, SumOf(s) \in Nat
                 PROVE  Append(s, x) \in Seq(Nat) /\ SumOf(Append(s, x)) \in Nat
      OBVIOUS
    <2>1. s \in Seq(Int) /\ x \in Int /\ Append(s, x) \in Seq(Nat)
      OBVIOUS
    <2>2. SumOf(Append(s, x)) = SumOf(s) + x
      BY <2>1, SumAppend
    <2> QED
      BY <2>1, <2>2
  <1> HIDE DEF P
  <1>3. amounts \in P
    BY <1>1, <1>2, EveryList
  <1> QED
    BY <1>3 DEF P

-----------------------------------------------------------------------------
(* OrdersOf over lists                                                      *)

LEMMA OrdersType ==
  ASSUME NEW O, NEW L, \A l \in L : l.orders \in Seq(O), NEW side \in Seq(L)
  PROVE  OrdersOf(side) \in Seq(O)
  <1>1. PICK f \in [0 .. Len(side) -> Seq(O)] : OrdersOf(side) = f[Len(side)]
    BY OrdersSteps
  <1> QED
    BY <1>1

(* The orders of two lists of levels, one behind the other.                 *)
LEMMA OrdersConcat ==
  ASSUME NEW O, NEW L, \A l \in L : l.orders \in Seq(O),
         NEW s \in Seq(L), NEW side \in Seq(L)
  PROVE  OrdersOf(s \o side) = OrdersOf(s) \o OrdersOf(side)
  <1> DEFINE P == {t \in Seq(L) : OrdersOf(s \o t) = OrdersOf(s) \o OrdersOf(t)}
  <1>0. \A t \in Seq(L) : OrdersOf(t) \in Seq(O)
    BY OrdersType
  <1>1. <<>> \in P
    <2>1. s \o <<>> = s /\ <<>> \in Seq(L) /\ OrdersOf(s) \o <<>> = OrdersOf(s)
      BY <1>0
    <2> QED
      BY <2>1, OrdersEmpty
  <1>2. \A t \in Seq(L), x \in L : t \in P => Append(t, x) \in P
    <2> SUFFICES ASSUME NEW t \in Seq(L), NEW x \in L, t \in P
                 PROVE  Append(t, x) \in P
      OBVIOUS
    <2> DEFINE all == s \o t
    <2>1. /\ s \o Append(t, x) = Append(all, x) /\ all \in Seq(L)
          /\ Append(t, x) \in Seq(L)
      OBVIOUS
    <2>2. OrdersOf(all) = OrdersOf(s) \o OrdersOf(t)
      OBVIOUS
    <2> HIDE DEF all
    <2>4. OrdersOf(Append(all, x)) = OrdersOf(all) \o x.orders
      BY <2>1, OrdersAppend
    <2>5. OrdersOf(Append(t, x)) = OrdersOf(t) \o x.orders
      BY OrdersAppend
    <2>6. (OrdersOf(s) \o OrdersOf(t)) \o x.orders =
            OrdersOf(s) \o (OrdersOf(t) \o x.orders)
      <3>1. OrdersOf(s) \in Seq(O) /\ OrdersOf(t) \in Seq(O) /\ x.orders \in Seq(O)
        BY <1>0
      <3> DEFINE u == OrdersOf(s)
                 v == OrdersOf(t)
                 w == x.orders
      <3>2. u \in Seq(O) /\ v \in Seq(O) /\ w \in Seq(O)
        BY <3>1
      <3> HIDE DEF u, v, w
      <3>3. (u \o v) \o w = u \o (v \o w)
        BY <3>2, ConcatAssociative
      <3> QED
        BY <3>3 DEF u, v, w
    <2>7. OrdersOf(s \o Append(t, x)) = OrdersOf(s) \o OrdersOf(Append(t, x))
      BY <2>1, <2>2, <2>4, <2>5, <2>6
    <2> QED
      BY <2>1, <2>7
  <1> HIDE DEF P
  <1>3. side \in P
    BY <1>1, <1>2, EveryList
  <1> QED
    BY <1>3 DEF P

(* The orders of a single level.                                            *)
LEMMA OrdersOne ==
  ASSUME NEW O, NEW x, x.orders \in Seq(O)
  PROVE  OrdersOf(<<x>>) = x.orders
  <1> DEFINE L == {x}
  <1>1. /\ <<>> \in Seq(L) /\ x \in L /\ Append(<<>>, x) = <<x>>
        /\ \A l \in L : l.orders \in Seq(O)
        /\ <<>> \o x.orders = x.orders
    OBVIOUS
  <1> HIDE DEF L
  <1>2. OrdersOf(Append(<<>>, x)) = OrdersOf(<<>>) \o x.orders
    BY <1>1, OrdersAppend
  <1> QED
    BY <1>1, <1>2, OrdersEmpty

-----------------------------------------------------------------------------
(* FindIf, and the places where an order joins a side                       *)

LEMMA FindIfCases ==
  ASSUME NEW T, NEW list \in Seq(T), NEW Pred
  PROVE  \/ /\ FindIf(list, Pred) = -1
            /\ \A k \in 1 .. Len(list) : list[k] \notin Pred
         \/ \E k \in 1 .. Len(list) :
              /\ FindIf(list, Pred) = k - 1
              /\ list[k] \in Pred
              /\ \A j \in 1 .. k - 1 : list[j] \notin Pred
  <1> DEFINE n == Len(list)
             found == {i \in DOMAIN list : list[i] \in Pred}
             first == CHOOSE i \in found : \A j \in found : i <= j
  <1>1. n \in Nat /\ DOMAIN list = 1 .. n
    OBVIOUS
  <1>2. FindIf(list, Pred) = IF found = {} THEN -1 ELSE first - 1
    BY DEF FindIf
  <1>3. CASE found = {}
    <2>1. \A k \in 1 .. n : list[k] \notin Pred
      BY <1>1, <1>3
    <2>2. FindIf(list, Pred) = -1
      BY <1>2, <1>3
    <2> QED
      BY <2>1, <2>2
  <1>4. CASE found # {}
    <2>1. found \in SUBSET (0 .. n)
      BY <1>1
    <2>2. \E k \in found : \A j \in found : k <= j
      <3> HIDE DEF n, found
      <3> QED
        BY <1>1, <1>4, <2>1, LeastIndex
    <2>3. first \in found /\ \A j \in found : first <= j
      <3> HIDE DEF found
      <3> QED
        BY <2>2
    <2>4. FindIf(list, Pred) = first - 1
      BY <1>2, <1>4
    <2> HIDE DEF first
    <2>5. first \in 1 .. n /\ list[first] \in Pred
      BY <1>1, <2>3
    <2>6. \A j \in 1 .. first - 1 : list[j] \notin Pred
      <3> SUFFICES ASSUME NEW j \in 1 .. first - 1, list[j] \in Pred PROVE FALSE
        OBVIOUS
      <3>1. j \in 1 .. n /\ ~(first <= j)
        BY <1>1, <2>5
      <3>2. j \in found
        BY <1>1, <3>1
      <3> QED
        BY <2>3, <3>1, <3>2
    <2> QED
      BY <2>4, <2>5, <2>6
  <1> QED
    BY <1>3, <1>4

(* Where an order of this price joins a side: it joins a level, which moves *)
(* to the front, and the levels before it behind the others; or it opens    *)
(* one.                                                                     *)
JoinsLevel(side, order, k, result) ==
  /\ side[k].price = order.price
  /\ \A j \in 1 .. k - 1 : side[j].price # order.price
  /\ result = (<<Level(side[k].price, Append(side[k].orders, order))>>
                 \o SubSeq(side, k + 1, Len(side)))
              \o [i \in 1 .. k - 1 |-> side[k - i]]

OpensLevel(descending, side, order, at, result) ==
  /\ \A j \in 1 .. Len(side) : side[j].price # order.price
  /\ \A j \in 1 .. at : ~better(descending, order.price, side[j].price)
  /\ at < Len(side) => better(descending, order.price, side[at + 1].price)
  /\ result = SubSeq(side, 1, at)
              \o (<<Level(order.price, <<order>>)>>
                  \o SubSeq(side, at + 1, Len(side)))


(* AddOrderToSide does one of the two.                                      *)
LEMMA AddOrderCases ==
  ASSUME NEW T, NEW side \in Seq(T), NEW descending, NEW order
  PROVE  LET result == AddOrderToSide(descending, side, order)
         IN \/ \E k \in 1 .. Len(side) : JoinsLevel(side, order, k, result)
            \/ \E at \in 0 .. Len(side) :
                 OpensLevel(descending, side, order, at, result)
  <1> DEFINE n == Len(side)
             Pred == {l \in Range(side) : l.price = order.price}
             level == Level(order.price, <<order>>)
             Worse == {l \in Range(side) : better(descending, level.price, l.price)}
             result == AddOrderToSide(descending, side, order)
  <1>1. n \in Nat /\ DOMAIN side = 1 .. n
    OBVIOUS
  <1>2. \A k \in 1 .. n : side[k] \in Range(side)
    BY <1>1 DEF Range
  <1>3. \A k \in 1 .. n : side[k] \in Pred <=> side[k].price = order.price
    BY <1>2
  <1>4. level.price = order.price
    BY DEF Level
  <1>5. \A k \in 1 .. n : side[k] \in Worse
                            <=> better(descending, order.price, side[k].price)
    BY <1>2, <1>4
  <1>6. result = IF FindIf(side, Pred) # -1
                 THEN ReplaceLevel(side, FindIf(side, Pred),
                        LevelPushBack(At(FindIf(side, Pred), side), order))
                 ELSE InsertLevelSorted(level, side, descending)
    BY DEF AddOrderToSide
  <1>7. ASSUME NEW k \in 1 .. n, FindIf(side, Pred) = k - 1, side[k] \in Pred,
               \A j \in 1 .. k - 1 : side[j] \notin Pred
        PROVE  JoinsLevel(side, order, k, result)
    <2>1. k - 1 # -1 /\ k - 1 + 1 = k /\ \A i \in 1 .. k - 1 : k - 1 - i + 1 = k - i
      BY <1>1
    <2>2. result = ReplaceLevel(side, k - 1, LevelPushBack(At(k - 1, side), order))
      BY <1>6, <1>7, <2>1
    <2>3. At(k - 1, side) = side[k]
      BY <2>1 DEF At
    <2>4. [i \in 1 .. k - 1 |-> At(k - 1 - i, side)] = [i \in 1 .. k - 1 |-> side[k - i]]
      BY <2>1 DEF At
    <2>5. \A j \in 1 .. k - 1 : side[j].price # order.price
      BY <1>1, <1>3, <1>7
    <2>6. side[k].price = order.price
      BY <1>3, <1>7
    <2> HIDE DEF result, Pred
    <2> QED
      BY <2>1, <2>2, <2>3, <2>4, <2>5, <2>6
         DEF JoinsLevel, ReplaceLevel, LevelPushBack, PushBack, PushFront,
             PopFrontN, Concat
  <1>8. ASSUME FindIf(side, Pred) = -1, \A k \in 1 .. n : side[k] \notin Pred
        PROVE  \E at \in 0 .. n : OpensLevel(descending, side, order, at, result)
    <2>1. \A j \in 1 .. n : side[j].price # order.price
      BY <1>3, <1>8
    <2> DEFINE at == IF FindIf(side, Worse) = -1 THEN n ELSE FindIf(side, Worse)
    <2>2. result = SubSeq(side, 1, at) \o (<<level>> \o SubSeq(side, at + 1, n))
      BY <1>6, <1>8 DEF InsertLevelSorted, Concat, PushFront, PopFrontN
    <2>3. CASE /\ FindIf(side, Worse) = -1
               /\ \A k \in 1 .. n : side[k] \notin Worse
      <3>1. at = n
        BY <2>3
      <3> HIDE DEF at, result, Pred, n, Worse
      <3>2. OpensLevel(descending, side, order, n, result)
        BY <1>1, <1>5, <2>1, <2>2, <2>3, <3>1 DEF OpensLevel, n
      <3> QED
        BY <1>1, <3>2
    <2>4. ASSUME NEW k \in 1 .. n, FindIf(side, Worse) = k - 1, side[k] \in Worse,
                 \A j \in 1 .. k - 1 : side[j] \notin Worse
          PROVE  OpensLevel(descending, side, order, k - 1, result)
      <3>1. at = k - 1 /\ k - 1 + 1 = k /\ \A j \in 1 .. k - 1 : j \in 1 .. n
        BY <1>1, <2>4
      <3> HIDE DEF at, result, Pred, n, Worse
      <3> QED
        BY <1>1, <1>5, <2>1, <2>2, <2>4, <3>1 DEF OpensLevel, n
    <2>5. \/ /\ FindIf(side, Worse) = -1
             /\ \A k \in 1 .. n : side[k] \notin Worse
          \/ \E k \in 1 .. n :
               /\ FindIf(side, Worse) = k - 1
               /\ side[k] \in Worse
               /\ \A j \in 1 .. k - 1 : side[j] \notin Worse
      <3> HIDE DEF Worse
      <3> QED
        BY FindIfCases
    <2>6. \A k \in 1 .. n : k - 1 \in 0 .. n
      BY <1>1
    <2> HIDE DEF result, Pred, n, Worse, at
    <2> QED
      BY <2>3, <2>4, <2>5, <2>6
  <1>9. \/ /\ FindIf(side, Pred) = -1
           /\ \A k \in 1 .. n : side[k] \notin Pred
        \/ \E k \in 1 .. n :
             /\ FindIf(side, Pred) = k - 1
             /\ side[k] \in Pred
             /\ \A j \in 1 .. k - 1 : side[j] \notin Pred
    <2> HIDE DEF Pred
    <2> QED
      BY FindIfCases
  <1> HIDE DEF Pred, Worse, level
  <1> QED
    BY <1>7, <1>8, <1>9

-----------------------------------------------------------------------------
(* The sides of a book                                                      *)

(* A level that may be empty, and a level all of whose orders are at its    *)
(* price.                                                                   *)
AnyLevels == [price : InputPrices, orders : Seq(Orders)]

PricedLevels ==
  {l \in PriceLevels : \A j \in DOMAIN l.orders : l.orders[j].price = l.price}

(* How the three sets of levels relate.                                     *)
LEMMA LevelFacts ==
  /\ \A l \in AnyLevels : l.orders \in Seq(Orders) /\ l.price \in InputPrices
  /\ PriceLevels \subseteq AnyLevels /\ PricedLevels \subseteq PriceLevels
  /\ \A l \in PriceLevels : l.orders # <<>>
  /\ \A l \in AnyLevels : l.orders # <<>> => l \in PriceLevels
  /\ \A side \in Seq(PriceLevels) : side \in Seq(AnyLevels)
  /\ \A side \in Seq(PricedLevels) : side \in Seq(PriceLevels)
  /\ \A side \in Seq(PricedLevels) : side \in Seq(AnyLevels)
  <1>1. \A l \in AnyLevels : l.orders \in Seq(Orders) /\ l.price \in InputPrices
    BY DEF AnyLevels
  <1>2. PriceLevels \subseteq AnyLevels /\ PricedLevels \subseteq PriceLevels
    BY DEF AnyLevels, PriceLevels, PricedLevels
  <1>3. \A l \in PriceLevels : l.orders # <<>>
    BY DEF PriceLevels
  <1>4. \A l \in AnyLevels : l.orders # <<>> => l \in PriceLevels
    BY DEF AnyLevels, PriceLevels
  <1>5. \A side \in Seq(PriceLevels) : side \in Seq(AnyLevels)
    BY <1>2
  <1>6. \A side \in Seq(PricedLevels) : side \in Seq(PriceLevels)
    BY <1>2
  <1> QED
    BY <1>1, <1>2, <1>3, <1>4, <1>5, <1>6

(* The fields of an order, and of one that is partly filled.                *)
LEMMA OrderFacts ==
  /\ MaxQuantity \in Nat /\ MaxQuantity > 0 /\ InputPrices \subseteq Int
  /\ \A o \in Orders : /\ o.id \in OrderIds /\ o.side \in {Buy, Sell}
                       /\ o.price \in InputPrices /\ o.price \in Int
                       /\ o.quantity \in 1 .. MaxQuantity
                       /\ o.quantity \in Int /\ o.quantity > 0
  /\ \A o \in Orders, filled \in Nat :
       filled < o.quantity => OrderWithRemaining(o, filled) \in Orders
  /\ \A o \in Orders : \A filled :
       LET left == OrderWithRemaining(o, filled)
       IN /\ left.id = o.id /\ left.side = o.side /\ left.price = o.price
          /\ left.quantity = o.quantity - filled
  <1>1. MaxQuantity \in Nat /\ MaxQuantity > 0 /\ InputPrices \subseteq Int
    BY CompileTimeAssumption
  <1>2. \A o \in Orders : /\ o.id \in OrderIds /\ o.side \in {Buy, Sell}
                          /\ o.price \in InputPrices /\ o.price \in Int
                          /\ o.quantity \in 1 .. MaxQuantity
                          /\ o.quantity \in Int /\ o.quantity > 0
    <2> SUFFICES ASSUME NEW o \in Orders
                 PROVE  /\ o.id \in OrderIds /\ o.side \in {Buy, Sell}
                        /\ o.price \in InputPrices /\ o.price \in Int
                        /\ o.quantity \in 1 .. MaxQuantity
                        /\ o.quantity \in Int /\ o.quantity > 0
      OBVIOUS
    <2>1. /\ o.id \in OrderIds /\ o.side \in {Buy, Sell}
          /\ o.price \in InputPrices /\ o.quantity \in 1 .. MaxQuantity
      BY DEF Orders, Sides
    <2>2. o.price \in Int
      BY <1>1, <2>1
    <2>3. o.quantity \in Int /\ o.quantity > 0
      BY <1>1, <2>1
    <2> QED
      BY <2>1, <2>2, <2>3
  <1>3. \A o \in Orders, filled \in Nat :
          filled < o.quantity => OrderWithRemaining(o, filled) \in Orders
    BY <1>1 DEF Orders, OrderWithRemaining
  <1>4. \A o \in Orders : \A filled :
          LET left == OrderWithRemaining(o, filled)
          IN /\ left.id = o.id /\ left.side = o.side /\ left.price = o.price
             /\ left.quantity = o.quantity - filled
    BY DEF Orders, OrderWithRemaining
  <1> QED
    BY <1>1, <1>2, <1>3, <1>4

(* A list of one order.                                                     *)
LEMMA OneOrder ==
  \A o \in Orders : /\ <<o>> \in Seq(Orders) /\ <<o>> # <<>>
                    /\ Len(<<o>>) = 1 /\ <<o>>[1] = o
  OBVIOUS

(* An order joins orders of its price.                                      *)
LEMMA AppendAtPrice ==
  ASSUME NEW old \in Seq(Orders), NEW order \in Orders,
         \A j \in 1 .. Len(old) : old[j].price = order.price
  PROVE  /\ Append(old, order) \in Seq(Orders) /\ Append(old, order) # <<>>
         /\ \A j \in 1 .. Len(Append(old, order)) :
              Append(old, order)[j].price = order.price
  <1>1. /\ Append(old, order) \in Seq(Orders) /\ Append(old, order) # <<>>
        /\ Len(Append(old, order)) = Len(old) + 1
        /\ \A j \in 1 .. Len(old) : Append(old, order)[j] = old[j]
        /\ Append(old, order)[Len(old) + 1] = order
    BY AppendProperties
  <1>2. \A j \in 1 .. Len(old) + 1 : j \in 1 .. Len(old) \/ j = Len(old) + 1
    OBVIOUS
  <1> QED
    BY <1>1, <1>2

(* An order joins a side: every level stays a level of its price, and no    *)
(* price is new but that of the order.                                      *)
LEMMA AddOrderKeepsLevels ==
  ASSUME NEW side \in Seq(PricedLevels), NEW order \in Orders, NEW descending,
         NEW result, result = AddOrderToSide(descending, side, order)
  PROVE  /\ result \in Seq(PricedLevels)
         /\ \A k \in 1 .. Len(result) :
              \/ result[k].price = order.price
              \/ \E j \in 1 .. Len(side) : result[k].price = side[j].price
  <1> DEFINE n == Len(side)
             OfPrices(l) == \/ l.price = order.price
                            \/ \E j \in 1 .. n : l.price = side[j].price
             K == {l \in PricedLevels : OfPrices(l)}
  <1>1. n \in Nat /\ \A k \in 1 .. n : side[k] \in K
    OBVIOUS
  <1>2. SUFFICES result \in Seq(K)
    OBVIOUS
  <1>3. \A l \in PricedLevels : /\ l.orders \in Seq(Orders) /\ l.price \in InputPrices
                                /\ \A j \in 1 .. Len(l.orders) : l.orders[j].price = l.price
    BY LevelFacts DEF PricedLevels
  <1>4. \A l \in K : l \in PricedLevels /\ OfPrices(l)
    OBVIOUS
  <1>5. ASSUME NEW orders \in Seq(Orders), orders # <<>>,
               \A j \in 1 .. Len(orders) : orders[j].price = order.price
        PROVE  Level(order.price, orders) \in K
    BY <1>5, OrderFacts DEF Level, PricedLevels, PriceLevels
  <1> HIDE DEF K
  <1>6. ASSUME NEW k \in 1 .. n, JoinsLevel(side, order, k, result)
        PROVE  result \in Seq(K)
    <2> DEFINE orders == Append(side[k].orders, order)
               moved == [i \in 1 .. k - 1 |-> side[k - i]]
    <2>1. side[k].price = order.price /\ side[k].orders \in Seq(Orders)
          /\ \A j \in 1 .. Len(side[k].orders) : side[k].orders[j].price = order.price
      BY <1>1, <1>3, <1>4, <1>6 DEF JoinsLevel
    <2>2. Level(side[k].price, orders) \in K
      <3>1. orders \in Seq(Orders) /\ orders # <<>>
            /\ \A j \in 1 .. Len(orders) : orders[j].price = order.price
        <4> DEFINE old == side[k].orders
        <4>1. old \in Seq(Orders) /\ \A j \in 1 .. Len(old) : old[j].price = order.price
          BY <2>1
        <4> HIDE DEF old
        <4>2. Append(old, order) \in Seq(Orders) /\ Append(old, order) # <<>>
              /\ \A j \in 1 .. Len(Append(old, order)) :
                   Append(old, order)[j].price = order.price
          BY <4>1, AppendAtPrice
        <4> QED
          BY <4>2 DEF old
      <3> HIDE DEF orders
      <3> QED
        BY <1>5, <2>1, <3>1
    <2>3. SubSeq(side, k + 1, n) \in Seq(K)
      BY <1>1
    <2>4. moved \in Seq(K)
      <3>1. k - 1 \in Nat /\ \A i \in 1 .. k - 1 : k - i \in 1 .. n
        BY <1>1
      <3>2. \A i \in 1 .. k - 1 : side[k - i] \in K
        BY <1>1, <3>1
      <3> QED
        BY <3>1, <3>2
    <2>5. result = (<<Level(side[k].price, orders)>> \o SubSeq(side, k + 1, n))
                     \o moved
      BY <1>6 DEF JoinsLevel
    <2> HIDE DEF orders, moved, n
    <2> QED
      BY <2>2, <2>3, <2>4, <2>5
  <1>7. ASSUME NEW at \in 0 .. n, OpensLevel(descending, side, order, at, result)
        PROVE  result \in Seq(K)
    <2> DEFINE orders == <<order>>
    <2>1. Level(order.price, orders) \in K
      <3>1. orders \in Seq(Orders) /\ orders # <<>> /\ Len(orders) = 1
            /\ orders[1] = order
        BY OneOrder
      <3> HIDE DEF orders
      <3> QED
        BY <1>5, <3>1
    <2>2. SubSeq(side, 1, at) \in Seq(K) /\ SubSeq(side, at + 1, n) \in Seq(K)
      BY <1>1
    <2>3. result = SubSeq(side, 1, at)
                     \o (<<Level(order.price, orders)>> \o SubSeq(side, at + 1, n))
      BY <1>7 DEF OpensLevel
    <2> HIDE DEF orders, n
    <2> QED
      BY <2>1, <2>2, <2>3
  <1> QED
    BY <1>6, <1>7, AddOrderCases

-----------------------------------------------------------------------------
(* One turn of a match                                                      *)

LEMMA RemoveEmptyFirst ==
  ASSUME NEW level \in AnyLevels, NEW rest \in Seq(PriceLevels)
  PROVE  RemoveEmptyLevels(<<level>> \o rest) =
           IF level.orders = <<>> THEN rest ELSE <<level>> \o rest
  <1> DEFINE side == <<level>> \o rest
             Pred == {l \in Range(side) : l.orders # <<>>}
             one == <<level>>
  <1>1. one \in Seq(AnyLevels) /\ rest \in Seq(AnyLevels) /\ side = one \o rest
    BY LevelFacts
  <1>2. side \in Seq(AnyLevels) /\ side[1] = level
        /\ Len(side) = Len(rest) + 1
        /\ \A k \in 1 .. Len(rest) : rest[k] = side[k + 1]
    BY <1>1
  <1>3. \A k \in 1 .. Len(side) : side[k] \in Range(side)
    BY <1>2 DEF Range
  <1>4. level \in Pred <=> level.orders # <<>>
    BY <1>2, <1>3
  <1>5. \A k \in 1 .. Len(rest) : rest[k] \in Pred
    <2> SUFFICES ASSUME NEW k \in 1 .. Len(rest) PROVE rest[k] \in Pred
      OBVIOUS
    <2>1. rest[k] = side[k + 1] /\ k + 1 \in 1 .. Len(side) /\ rest[k] \in PriceLevels
      BY <1>2
    <2> HIDE DEF side
    <2> QED
      BY <1>3, <2>1, LevelFacts
  <1>6. RemoveEmptyLevels(side) = Filter(one \o rest, Pred)
    BY <1>1 DEF RemoveEmptyLevels
  <1> HIDE DEF Pred, side
  <1>7. Filter(one \o rest, Pred) = Filter(one, Pred) \o Filter(rest, Pred)
    <2> HIDE DEF one
    <2> QED
      BY <1>1, FilterConcat
  <1>8. Filter(one, Pred) = IF level \in Pred THEN <<level>> ELSE <<>>
    BY FilterOne
  <1>9. Filter(rest, Pred) = rest
    BY <1>1, <1>5, FilterAll
  <1>10. <<>> \o rest = rest
    OBVIOUS
  <1> QED
    BY <1>4, <1>6, <1>7, <1>8, <1>9, <1>10 DEF side

(* What a turn does: it fills the incoming order and takes a part of the    *)
(* first resting one, which stays alone in its level; or it takes the       *)
(* resting order whole.                                                     *)
PartTurn(m, next) ==
  LET best == Head(m.opp)
      resting == Head(best.orders)
  IN /\ m.order.quantity < resting.quantity
     /\ next.opp =
          <<Level(best.price, <<OrderWithRemaining(resting, m.order.quantity)>>)>>
          \o Tail(m.opp)
     /\ next.order = OrderWithRemaining(m.order, m.order.quantity)
     /\ next.trades =
          Append(m.trades, TradeWith(m.order, resting, m.order.quantity))

WholeTurn(m, next) ==
  LET best == Head(m.opp)
      resting == Head(best.orders)
  IN /\ m.order.quantity >= resting.quantity
     /\ next.opp =
          IF Tail(best.orders) = <<>> THEN Tail(m.opp)
          ELSE <<Level(best.price, Tail(best.orders))>> \o Tail(m.opp)
     /\ next.order = OrderWithRemaining(m.order, resting.quantity)
     /\ next.trades =
          Append(m.trades, TradeWith(m.order, resting, resting.quantity))

(* A turn does one of the two.                                              *)
LEMMA TurnCases ==
  ASSUME NEW m, m.opp \in Seq(PricedLevels), m.opp # <<>>,
         m.order.quantity \in Nat \ {0}
  PROVE  PartTurn(m, MatchStep(m)) \/ WholeTurn(m, MatchStep(m))
  <1> DEFINE best == Head(m.opp)
             resting == Head(best.orders)
             quantity == IF m.order.quantity < resting.quantity
                         THEN m.order.quantity ELSE resting.quantity
             left == OrderWithRemaining(resting, quantity)
             level == IF left.quantity = 0 THEN LevelPopFrontN(best, 1)
                      ELSE Level(resting.price, <<left>>)
             rest == Tail(m.opp)
  <1>1. best \in PricedLevels /\ rest \in Seq(PricedLevels)
    OBVIOUS
  <1>2. /\ best.orders \in Seq(Orders) /\ best.orders # <<>>
        /\ best.price \in InputPrices /\ rest \in Seq(PriceLevels)
        /\ \A j \in 1 .. Len(best.orders) : best.orders[j].price = best.price
    <2> HIDE DEF best, rest
    <2> QED
      BY <1>1, LevelFacts DEF PricedLevels
  <1>3. resting \in Orders /\ resting.price = best.price
        /\ Tail(best.orders) \in Seq(Orders)
        /\ SubSeq(best.orders, 1 + 1, Len(best.orders)) = Tail(best.orders)
    <2> HIDE DEF best
    <2>1. 1 \in 1 .. Len(best.orders) /\ resting = best.orders[1]
      BY <1>2
    <2> QED
      BY <1>2, <2>1, HeadTailProperties, TailIsSubSeq
  <1>4. /\ MatchStep(m).opp = RemoveEmptyLevels(<<level>> \o rest)
        /\ MatchStep(m).order = OrderWithRemaining(m.order, quantity)
        /\ MatchStep(m).trades =
             Append(m.trades, TradeWith(m.order, resting, quantity))
    BY DEF MatchStep, ReplaceBestLevel, PushFront, PushBack
  <1> HIDE DEF best, resting, rest, left, quantity
  <1>5. left.quantity = resting.quantity - quantity
    BY <1>3, OrderFacts DEF left
  <1>6. resting.quantity \in Int /\ resting.quantity > 0
    BY <1>3, OrderFacts
  <1>7. CASE m.order.quantity < resting.quantity
    <2>1. quantity = m.order.quantity /\ left.quantity # 0 /\ quantity \in Nat
      BY <1>5, <1>6, <1>7 DEF quantity
    <2>2. level = Level(best.price, <<left>>) /\ left \in Orders
      BY <1>3, <1>7, <2>1, OrderFacts DEF left
    <2>3. level \in AnyLevels /\ level.orders # <<>>
      <3> HIDE DEF level
      <3>1. <<left>> \in Seq(Orders) /\ <<left>> # <<>>
        BY <2>2, OneOrder
      <3> QED
        BY <1>2, <2>2, <3>1 DEF Level, AnyLevels
    <2> HIDE DEF level
    <2>4. MatchStep(m).opp = <<level>> \o rest
      BY <1>2, <1>4, <2>3, RemoveEmptyFirst
    <2>5. PartTurn(m, MatchStep(m))
      BY <1>4, <1>7, <2>1, <2>2, <2>4 DEF PartTurn, best, resting, rest, left
    <2> QED
      BY <2>5
  <1>8. CASE ~(m.order.quantity < resting.quantity)
    <2>1. quantity = resting.quantity /\ left.quantity = 0
          /\ m.order.quantity >= resting.quantity
      BY <1>5, <1>6, <1>8 DEF quantity
    <2>2. level = Level(best.price, Tail(best.orders))
      BY <1>3, <2>1 DEF LevelPopFrontN, PopFrontN
    <2>3. level \in AnyLevels /\ level.orders = Tail(best.orders)
      <3> HIDE DEF level
      <3> QED
        BY <1>2, <1>3, <2>2 DEF Level, AnyLevels
    <2> HIDE DEF level
    <2>4. MatchStep(m).opp = IF Tail(best.orders) = <<>> THEN rest
                             ELSE <<level>> \o rest
      BY <1>2, <1>4, <2>3, RemoveEmptyFirst
    <2>5. WholeTurn(m, MatchStep(m))
      BY <1>4, <2>1, <2>2, <2>4 DEF WholeTurn, best, resting, rest
    <2> QED
      BY <2>5
  <1> QED
    BY <1>7, <1>8

-----------------------------------------------------------------------------
(* A whole match                                                            *)

(* A match ends, in a state that every turn stays among.                    *)
LEMMA MatchReaches ==
  ASSUME NEW opp, NEW order, order.quantity \in Nat, NEW S,
         [opp |-> opp, order |-> order, trades |-> <<>>] \in S,
         \A m \in S : m.order.quantity \in Nat,
         \A m \in S : ~MatchEnds(m) =>
           /\ MatchStep(m) \in S
           /\ MatchStep(m).order.quantity < m.order.quantity
  PROVE  Match(opp, order) \in S /\ MatchEnds(Match(opp, order))
  <1> DEFINE n == order.quantity
             first == [opp |-> opp, order |-> order, trades |-> <<>>]
             turn(m) == IF MatchEnds(m) THEN m ELSE MatchStep(m)
             turns == [m \in S |-> turn(m)]
             step == [k \in 1 .. n |-> turns]
             Body(g) == [k \in 0 .. n |-> IF k = 0 THEN first ELSE turn(g[k - 1])]
             F == CHOOSE g : g = Body(g)
  <1>1. n \in Nat /\ first \in S /\ step \in [1 .. n -> [S -> S]]
    <2>1. turns \in [S -> S]
      OBVIOUS
    <2> HIDE DEF turns
    <2> QED
      BY <2>1
  <1>2. first.order.quantity = n
    OBVIOUS
  <1>3. Match(opp, order) = F[n]
    BY DEF Match
  <1>4. \A m \in S : turns[m] = turn(m)
    OBVIOUS
  <1> HIDE DEF n, first, turns, turn
  <1>5. \A k \in 1 .. n : step[k] = turns
    OBVIOUS
  <1> HIDE DEF step
  <1>6. PICK f \in [0 .. n -> S] :
          /\ f[0] = first
          /\ \A k \in 1 .. n : f[k] = step[k][f[k - 1]]
    <2>1. \E f : Follows(f, n, S, first, step)
      BY <1>1, Recursion
    <2> QED
      BY <2>1 DEF Follows
  <1>7. \A k \in 1 .. n : f[k] = turn(f[k - 1])
    <2> SUFFICES ASSUME NEW k \in 1 .. n PROVE f[k] = turn(f[k - 1])
      OBVIOUS
    <2>1. k - 1 \in 0 .. n
      BY <1>1
    <2>2. f[k - 1] \in S
      BY <2>1
    <2> QED
      BY <1>4, <1>5, <1>6, <2>2
  <1>8. f = Body(f)
    <2>1. \A k \in 0 .. n : k # 0 => k \in 1 .. n
      BY <1>1
    <2>2. f = [k \in 0 .. n |-> f[k]]
      OBVIOUS
    <2> QED
      BY <1>6, <1>7, <2>1, <2>2
  <1>9. F = Body(F)
    BY <1>8
  <1> HIDE DEF F
  <1> DEFINE P == {k \in 0 .. n : F[k] = f[k]}
             Q == {k \in 0 .. n : MatchEnds(f[k]) \/ f[k].order.quantity <= n - k}
  <1>10. n \in P
    <2>1. 0 \in P
      BY <1>1, <1>6, <1>9
    <2>2. \A k \in 1 .. n : k - 1 \in P => k \in P
      <3> SUFFICES ASSUME NEW k \in 1 .. n, F[k - 1] = f[k - 1]
                   PROVE  F[k] = f[k]
        BY <1>1
      <3>1. k \in 0 .. n /\ k # 0
        BY <1>1
      <3>2. F[k] = Body(F)[k]
        BY <1>9
      <3> QED
        BY <1>7, <3>1, <3>2
    <2> HIDE DEF P
    <2> QED
      BY <1>1, <2>1, <2>2, UpTo, Zenon
  <1>11. n \in Q
    <2>1. 0 \in Q
      BY <1>1, <1>2, <1>6
    <2>2. \A k \in 1 .. n : k - 1 \in Q => k \in Q
      <3> SUFFICES ASSUME NEW k \in 1 .. n, k - 1 \in Q
                   PROVE  MatchEnds(f[k]) \/ f[k].order.quantity <= n - k
        BY <1>1
      <3> DEFINE m == f[k - 1]
      <3>1. k - 1 \in 0 .. n /\ k \in 0 .. n
        BY <1>1
      <3>2. m \in S /\ f[k] \in S /\ f[k] = turn(m)
        BY <1>7, <3>1
      <3>3. MatchEnds(m) \/ m.order.quantity <= n - (k - 1)
        OBVIOUS
      <3> HIDE DEF m
      <3>4. CASE MatchEnds(m)
        BY <3>2, <3>4 DEF turn
      <3>5. CASE ~MatchEnds(m)
        <4>1. f[k] = MatchStep(m)
          BY <3>2, <3>5 DEF turn
        <4>2. f[k].order.quantity < m.order.quantity
          BY <3>2, <3>5, <4>1
        <4>3. m.order.quantity \in Nat /\ f[k].order.quantity \in Nat
          BY <3>2
        <4> QED
          BY <1>1, <3>3, <3>5, <4>2, <4>3
      <3> QED
        BY <3>4, <3>5
    <2> HIDE DEF Q
    <2> QED
      BY <1>1, <2>1, <2>2, UpTo, Zenon
  <1>12. n \in 0 .. n /\ f[n] \in S /\ f[n].order.quantity \in Nat
    BY <1>1
  <1>13. MatchEnds(f[n])
    <2>1. MatchEnds(f[n]) \/ f[n].order.quantity <= n - n
      BY <1>11
    <2>2. f[n].order.quantity <= n - n => f[n].order.quantity = 0
      BY <1>1, <1>12
    <2> QED
      BY <2>1, <2>2 DEF MatchEnds
  <1>14. F[n] = f[n]
    BY <1>10
  <1> QED
    BY <1>3, <1>12, <1>13, <1>14

-----------------------------------------------------------------------------
(* Prices in order                                                          *)

SortedSide(side, descending) ==
  \A j, k \in 1 .. Len(side) :
    j < k => better(descending, side[j].price, side[k].price)

(* Neighbours in order are enough.                                          *)
LEMMA NeighboursSorted ==
  ASSUME NEW L, \A l \in L : l.price \in Int, NEW side \in Seq(L),
         NEW descending \in BOOLEAN,
         \A k \in 1 .. Len(side) - 1 :
           better(descending, side[k].price, side[k + 1].price)
  PROVE  SortedSide(side, descending)
  <1> DEFINE n == Len(side)
             P == {k \in 0 .. n : \A j \in 1 .. k :
                     j < k => better(descending, side[j].price, side[k].price)}
  <1>1. n \in Nat /\ \A k \in 1 .. n : side[k].price \in Int
    OBVIOUS
  <1>2. 0 \in P
    BY <1>1
  <1>3. \A k \in 1 .. n : k - 1 \in P => k \in P
    <2> SUFFICES ASSUME NEW k \in 1 .. n, k - 1 \in P,
                        NEW j \in 1 .. k, j < k
                 PROVE  better(descending, side[j].price, side[k].price)
      BY <1>1
    <2>1. k - 1 \in 1 .. n /\ j \in 1 .. n /\ k - 1 \in 1 .. n - 1
          /\ k - 1 + 1 = k
      BY <1>1
    <2>2. better(descending, side[k - 1].price, side[k].price)
      <3> DEFINE i == k - 1
      <3>1. i \in 1 .. n - 1 /\ i + 1 = k
        BY <2>1
      <3> HIDE DEF i, P
      <3>2. better(descending, side[i].price, side[i + 1].price)
        BY <3>1
      <3> QED
        BY <3>1, <3>2 DEF i
    <2>3. j # k - 1 => better(descending, side[j].price, side[k - 1].price)
      BY <2>1
    <2> HIDE DEF P
    <2> QED
      BY <1>1, <2>1, <2>2, <2>3 DEF better
  <1> HIDE DEF n
  <1>4. \A k \in 0 .. n : k \in P
    <2> HIDE DEF P
    <2> QED
      BY <1>1, <1>2, <1>3, UpTo, Zenon
  <1>5. \A k \in 1 .. n : k \in 0 .. n
    BY <1>1
  <1> QED
    BY <1>1, <1>4, <1>5 DEF SortedSide, n

(* A valid side is in order of price.                                       *)
LEMMA SideValidSorted ==
  ASSUME NEW side \in Seq(PricedLevels), NEW which \in {Buy, Sell},
         SideValid(side, which)
  PROVE  SortedSide(side, which = Buy)
  <1>1. \A l \in PricedLevels : l.price \in Int
    BY LevelFacts, OrderFacts
  <1>2. \A k \in 1 .. Len(side) - 1 :
          better(which = Buy, side[k].price, side[k + 1].price)
    BY DEF SideValid
  <1> QED
    BY <1>1, <1>2, NeighboursSorted

(* An order that does not reach the best price reaches none.                *)
LEMMA BestIsReachedFirst ==
  ASSUME NEW order \in Orders, NEW side \in Seq(PricedLevels),
         SortedSide(side, order.side = Sell), side # <<>>,
         NEW k \in 1 .. Len(side),
         crosses(order.side, order.price, side[k].price)
  PROVE  crosses(order.side, order.price, Head(side).price)
  <1>1. Head(side) = side[1] /\ 1 \in 1 .. Len(side)
    OBVIOUS
  <1>2. \A j \in 1 .. Len(side) : side[j].price \in Int
    <2>1. \A l \in PricedLevels : l.price \in Int
      BY LevelFacts, OrderFacts
    <2> QED
      BY <2>1
  <1>3. order.price \in Int /\ order.side \in {Buy, Sell}
    BY OrderFacts
  <1>4. k = 1 \/ better(order.side = Sell, side[1].price, side[k].price)
    BY <1>1 DEF SortedSide
  <1> QED
    BY <1>1, <1>2, <1>3, <1>4 DEF better, crosses, Buy, Sell

(* An element in front of a list.                                           *)
LEMMA InFront ==
  ASSUME NEW S, NEW x \in S, NEW rest \in Seq(S)
  PROVE  /\ <<x>> \o rest \in Seq(S) /\ <<x>> \o rest # <<>>
         /\ Len(<<x>> \o rest) = Len(rest) + 1
         /\ (<<x>> \o rest)[1] = x
         /\ \A k \in 1 .. Len(rest) : (<<x>> \o rest)[k + 1] = rest[k]
         /\ \A k \in 2 .. Len(rest) + 1 : (<<x>> \o rest)[k] = rest[k - 1]
         /\ Head(<<x>> \o rest) = x /\ Tail(<<x>> \o rest) = rest
  OBVIOUS

(* A first level at the price of the best one, or none: the prices stay in  *)
(* order, and none is new.                                                  *)
PricesFrom(side, old) ==
  \A k \in 1 .. Len(side) : \E j \in 1 .. Len(old) : side[k].price = old[j].price

(* The side that a turn leaves.                                             *)
LEMMA BestReplaced ==
  ASSUME NEW side \in Seq(PricedLevels), side # <<>>, NEW descending,
         SortedSide(side, descending), NEW new,
         \/ new = Tail(side)
         \/ \E level \in PricedLevels :
              level.price = Head(side).price /\ new = <<level>> \o Tail(side)
  PROVE  /\ new \in Seq(PricedLevels)
         /\ SortedSide(new, descending)
         /\ PricesFrom(new, side)
  <1>1. /\ Tail(side) \in Seq(PricedLevels) /\ Len(Tail(side)) = Len(side) - 1
        /\ \A k \in 1 .. Len(side) - 1 : Tail(side)[k] = side[k + 1]
        /\ Head(side) = side[1] /\ Len(side) \in Nat /\ Len(side) > 0
    OBVIOUS
  <1>2. CASE new = Tail(side)
    <2>1. \A k \in 1 .. Len(new) : k + 1 \in 1 .. Len(side) /\ new[k] = side[k + 1]
          /\ k \in Int
      BY <1>1, <1>2
    <2>2. PricesFrom(new, side)
      BY <2>1 DEF PricesFrom
    <2>3. SortedSide(new, descending)
      <3> SUFFICES ASSUME NEW j \in 1 .. Len(new), NEW k \in 1 .. Len(new), j < k
                   PROVE  better(descending, new[j].price, new[k].price)
        BY DEF SortedSide
      <3>1. j + 1 < k + 1
        BY <2>1
      <3> QED
        BY <2>1, <3>1 DEF SortedSide
    <2> QED
      BY <1>1, <1>2, <2>2, <2>3
  <1>3. ASSUME NEW level \in PricedLevels, level.price = Head(side).price,
               new = <<level>> \o Tail(side)
        PROVE  /\ new \in Seq(PricedLevels)
               /\ SortedSide(new, descending)
               /\ PricesFrom(new, side)
    <2>1. new \in Seq(PricedLevels) /\ Len(new) = Len(side) /\ new[1] = level
          /\ \A k \in 2 .. Len(side) : new[k] = Tail(side)[k - 1]
      <3> DEFINE rest == Tail(side)
      <3>1. rest \in Seq(PricedLevels) /\ Len(rest) + 1 = Len(side)
            /\ new = <<level>> \o rest
        <4>1. rest \in Seq(PricedLevels) /\ new = <<level>> \o rest
          BY <1>1, <1>3
        <4>2. Len(rest) = Len(side) - 1 /\ Len(side) \in Int
          BY <1>1
        <4> HIDE DEF rest
        <4>3. Len(rest) + 1 = Len(side)
          BY <4>2
        <4> QED
          BY <4>1, <4>3
      <3> HIDE DEF rest
      <3>2. /\ new \in Seq(PricedLevels) /\ Len(new) = Len(rest) + 1
            /\ new[1] = level
            /\ \A k \in 2 .. Len(rest) + 1 : new[k] = rest[k - 1]
        BY <1>3, <3>1, InFront
      <3> QED
        BY <3>1, <3>2 DEF rest
    <2>2. \A k \in 1 .. Len(side) : new[k].price = side[k].price
      <3> SUFFICES ASSUME NEW k \in 1 .. Len(side)
                   PROVE  new[k].price = side[k].price
        OBVIOUS
      <3>1. CASE k = 1
        BY <1>1, <1>3, <2>1, <3>1
      <3>2. CASE k # 1
        <4>1. k \in 2 .. Len(side) /\ k - 1 \in 1 .. Len(side) - 1 /\ k - 1 + 1 = k
          BY <1>1, <3>2
        <4> QED
          BY <1>1, <2>1, <4>1
      <3> QED
        BY <3>1, <3>2
    <2> QED
      BY <2>1, <2>2 DEF SortedSide, PricesFrom
  <1> QED
    BY <1>2, <1>3

(* What a match of the order may reach: the order with a part of its        *)
(* quantity, and levels at prices of the side it began with, in order.      *)
Rests(order) == {[order EXCEPT !.quantity = r] : r \in 0 .. order.quantity}

MatchStates(opp, order) ==
  {m \in [opp : Seq(PricedLevels), order : Rests(order), trades : Seq(Trades)] :
     SortedSide(m.opp, order.side = Sell) /\ PricesFrom(m.opp, opp)}

(* What is left of an order is an order, unless nothing is left.            *)
LEMMA RestFacts ==
  ASSUME NEW order \in Orders, NEW rest \in Rests(order)
  PROVE  /\ rest.id = order.id /\ rest.side = order.side
         /\ rest.price = order.price /\ rest.quantity \in 0 .. order.quantity
         /\ rest.quantity \in Nat
         /\ rest.quantity > 0 => rest \in Orders
         /\ \A filled \in 0 .. rest.quantity :
              OrderWithRemaining(rest, filled) \in Rests(order)
         /\ \A filled : OrderWithRemaining(rest, filled).quantity
                          = rest.quantity - filled
  <1>1. PICK r \in 0 .. order.quantity : rest = [order EXCEPT !.quantity = r]
    BY DEF Rests
  <1>2. order.quantity \in Int /\ order.quantity \in 1 .. MaxQuantity
        /\ MaxQuantity \in Nat
    BY OrderFacts
  <1>3. rest \in [id : OrderIds, side : Sides, price : InputPrices, quantity : Nat]
        /\ rest.id = order.id /\ rest.side = order.side
        /\ rest.price = order.price /\ rest.quantity = r
    BY <1>1, <1>2 DEF Orders
  <1>4. rest.quantity > 0 => rest \in Orders
    BY <1>2, <1>3 DEF Orders
  <1>5. ASSUME NEW filled \in 0 .. rest.quantity
        PROVE  OrderWithRemaining(rest, filled) \in Rests(order)
    <2>1. r - filled \in 0 .. order.quantity
      BY <1>2, <1>3
    <2>2. OrderWithRemaining(rest, filled) = [order EXCEPT !.quantity = r - filled]
      BY <1>1, <1>2 DEF OrderWithRemaining, Orders
    <2> QED
      BY <2>1, <2>2 DEF Rests
  <1>6. \A filled : OrderWithRemaining(rest, filled).quantity = rest.quantity - filled
    BY <1>3 DEF OrderWithRemaining
  <1> QED
    BY <1>2, <1>3, <1>4, <1>5, <1>6

(* The best level of a side, its first order, and the levels that may take  *)
(* its place.                                                               *)
LEMMA BestFacts ==
  ASSUME NEW side \in Seq(PricedLevels), side # <<>>
  PROVE  LET best == Head(side)
             resting == Head(best.orders)
         IN /\ best \in PricedLevels /\ best.orders \in Seq(Orders)
            /\ best.orders # <<>> /\ resting \in Orders
            /\ resting.price = best.price /\ best.price \in InputPrices
            /\ Tail(best.orders) # <<>> =>
                 Level(best.price, Tail(best.orders)) \in PricedLevels
            /\ \A filled \in Nat : filled < resting.quantity =>
                 Level(best.price, <<OrderWithRemaining(resting, filled)>>)
                   \in PricedLevels
  <1> DEFINE best == Head(side)
             resting == Head(best.orders)
             rest == Tail(best.orders)
  <1>1. best \in PricedLevels
    OBVIOUS
  <1> HIDE DEF best
  <1>2. best.orders \in Seq(Orders) /\ best.orders # <<>>
        /\ best.price \in InputPrices
        /\ \A j \in 1 .. Len(best.orders) : best.orders[j].price = best.price
    BY <1>1, LevelFacts DEF PricedLevels
  <1>3. resting = best.orders[1] /\ 1 \in 1 .. Len(best.orders)
        /\ resting \in Orders /\ rest \in Seq(Orders)
        /\ \A j \in 1 .. Len(rest) : rest[j] = best.orders[j + 1]
                                     /\ j + 1 \in 1 .. Len(best.orders)
    BY <1>2, HeadTailProperties
  <1>4. resting.price = best.price /\ \A j \in 1 .. Len(rest) : rest[j].price = best.price
    BY <1>2, <1>3
  <1> HIDE DEF resting, rest
  <1>5. rest # <<>> => Level(best.price, rest) \in PricedLevels
    <2> DEFINE level == Level(best.price, rest)
    <2>1. level.orders = rest /\ level.price = best.price
      BY DEF Level
    <2>2. rest # <<>> => level \in PriceLevels
      BY <1>2, <1>3 DEF Level, PriceLevels
    <2>3. DOMAIN rest = 1 .. Len(rest)
      BY <1>3
    <2> HIDE DEF level
    <2>4. \A j \in DOMAIN level.orders : level.orders[j].price = level.price
      BY <1>4, <2>1, <2>3
    <2>5. rest # <<>> => level \in PricedLevels
      BY <2>2, <2>4 DEF PricedLevels
    <2> QED
      BY <2>5 DEF level
  <1>6. ASSUME NEW filled \in Nat, filled < resting.quantity
        PROVE  Level(best.price, <<OrderWithRemaining(resting, filled)>>)
                 \in PricedLevels
    <2> DEFINE left == OrderWithRemaining(resting, filled)
               orders == <<left>>
    <2>1. left \in Orders /\ left.price = best.price
      BY <1>3, <1>4, <1>6, OrderFacts
    <2> HIDE DEF left
    <2>2. orders \in Seq(Orders) /\ orders # <<>> /\ Len(orders) = 1
          /\ orders[1] = left
      BY <2>1, OneOrder
    <2> HIDE DEF orders
    <2>3. Level(best.price, orders) \in PricedLevels
      BY <1>2, <2>1, <2>2 DEF Level, PricedLevels, PriceLevels
    <2> QED
      BY <2>3 DEF orders, left
  <1> QED
    BY <1>1, <1>2, <1>3, <1>4, <1>5, <1>6 DEF best, resting, rest

(* A turn stays among the states of a match and takes a part of the order.  *)
LEMMA TurnTyped ==
  ASSUME NEW order \in Orders, NEW opp \in Seq(PricedLevels),
         NEW m \in MatchStates(opp, order), ~MatchEnds(m)
  PROVE  /\ MatchStep(m) \in MatchStates(opp, order)
         /\ MatchStep(m).order.quantity < m.order.quantity
         /\ m.order.quantity \in Nat \ {0} /\ m.opp # <<>>
         /\ PartTurn(m, MatchStep(m)) \/ WholeTurn(m, MatchStep(m))
  <1> DEFINE next == MatchStep(m)
             best == Head(m.opp)
             resting == Head(best.orders)
  <1>1. /\ m.opp \in Seq(PricedLevels) /\ m.order \in Rests(order)
        /\ m.trades \in Seq(Trades) /\ SortedSide(m.opp, order.side = Sell)
        /\ PricesFrom(m.opp, opp)
    BY DEF MatchStates
  <1>2. m.opp # <<>> /\ m.order.quantity \in Nat \ {0} /\ m.order \in Orders
    BY <1>1, RestFacts DEF MatchEnds, Crosses
  <1>3. PartTurn(m, next) \/ WholeTurn(m, next)
    BY <1>1, <1>2, TurnCases
  <1>4. /\ best \in PricedLevels /\ resting \in Orders
        /\ Tail(best.orders) # <<>> =>
             Level(best.price, Tail(best.orders)) \in PricedLevels
        /\ \A filled \in Nat : filled < resting.quantity =>
             Level(best.price, <<OrderWithRemaining(resting, filled)>>)
               \in PricedLevels
    BY <1>1, <1>2, BestFacts
  <1>5. next = [opp |-> next.opp, order |-> next.order, trades |-> next.trades]
    BY DEF MatchStep
  <1> HIDE DEF next, best, resting
  <1>6. \A price, orders : Level(price, orders).price = price
    BY DEF Level
  <1>7. \/ next.opp = Tail(m.opp)
        \/ \E level \in PricedLevels :
             level.price = best.price /\ next.opp = <<level>> \o Tail(m.opp)
    <2>1. CASE PartTurn(m, next)
      <3> DEFINE level == Level(best.price,
                                <<OrderWithRemaining(resting, m.order.quantity)>>)
      <3>1. m.order.quantity < resting.quantity /\ next.opp = <<level>> \o Tail(m.opp)
        BY <2>1 DEF PartTurn, best, resting
      <3>2. level \in PricedLevels /\ level.price = best.price
        BY <1>2, <1>4, <1>6, <3>1
      <3> HIDE DEF level
      <3> QED
        BY <3>1, <3>2
    <2>2. CASE WholeTurn(m, next)
      <3> DEFINE level == Level(best.price, Tail(best.orders))
      <3>1. next.opp = IF Tail(best.orders) = <<>> THEN Tail(m.opp)
                       ELSE <<level>> \o Tail(m.opp)
        BY <2>2 DEF WholeTurn, best
      <3>2. Tail(best.orders) # <<>> => level \in PricedLevels /\ level.price = best.price
        BY <1>4, <1>6
      <3> HIDE DEF level
      <3> QED
        BY <3>1, <3>2
    <2> QED
      BY <1>3, <2>1, <2>2
  <1>8. /\ next.opp \in Seq(PricedLevels)
        /\ SortedSide(next.opp, order.side = Sell)
        /\ PricesFrom(next.opp, m.opp)
    BY <1>1, <1>2, <1>7, BestReplaced DEF best
  <1>9. PricesFrom(next.opp, opp)
    BY <1>1, <1>8 DEF PricesFrom
  <1>10. \E filled \in 1 .. m.order.quantity :
           /\ filled <= resting.quantity
           /\ next.order = OrderWithRemaining(m.order, filled)
           /\ next.trades = Append(m.trades, TradeWith(m.order, resting, filled))
    <2>1. resting.quantity \in Int /\ resting.quantity > 0
      BY <1>4, OrderFacts
    <2>2. CASE PartTurn(m, next)
      <3>1. /\ m.order.quantity < resting.quantity
            /\ next.order = OrderWithRemaining(m.order, m.order.quantity)
            /\ next.trades =
                 Append(m.trades, TradeWith(m.order, resting, m.order.quantity))
        BY <2>2 DEF PartTurn, best, resting
      <3>2. m.order.quantity \in 1 .. m.order.quantity
            /\ m.order.quantity <= resting.quantity
        BY <1>2, <2>1, <3>1
      <3> QED
        BY <3>1, <3>2
    <2>3. CASE WholeTurn(m, next)
      <3>1. /\ resting.quantity <= m.order.quantity
            /\ next.order = OrderWithRemaining(m.order, resting.quantity)
            /\ next.trades =
                 Append(m.trades, TradeWith(m.order, resting, resting.quantity))
        BY <1>2, <2>1, <2>3 DEF WholeTurn, best, resting
      <3>2. resting.quantity \in 1 .. m.order.quantity
            /\ resting.quantity <= resting.quantity
        BY <1>2, <2>1, <3>1
      <3> QED
        BY <3>1, <3>2
    <2> QED
      BY <1>3, <2>2, <2>3
  <1>11. PICK filled \in 1 .. m.order.quantity :
           /\ filled <= resting.quantity
           /\ next.order = OrderWithRemaining(m.order, filled)
           /\ next.trades = Append(m.trades, TradeWith(m.order, resting, filled))
    BY <1>10
  <1>12. filled \in 0 .. m.order.quantity /\ filled \in Nat /\ filled > 0
    BY <1>2
  <1>13. next.order \in Rests(order) /\ next.order.quantity = m.order.quantity - filled
    BY <1>1, <1>11, <1>12, RestFacts
  <1>14. TradeWith(m.order, resting, filled) \in Trades
    <2>1. m.order.id \in OrderIds /\ resting.id \in OrderIds
          /\ resting.price \in InputPrices /\ resting.quantity \in 1 .. MaxQuantity
          /\ MaxQuantity \in Nat
      BY <1>2, <1>4, OrderFacts
    <2>2. filled \in 1 .. MaxQuantity
      BY <1>11, <1>12, <2>1
    <2> QED
      BY <2>1, <2>2 DEF TradeWith, Trade, Trades
  <1>15. next.trades \in Seq(Trades)
    BY <1>1, <1>11, <1>14
  <1>16. next.order.quantity < m.order.quantity
    BY <1>2, <1>12, <1>13
  <1>17. next \in MatchStates(opp, order)
    BY <1>5, <1>8, <1>9, <1>13, <1>15 DEF MatchStates
  <1> QED
    BY <1>2, <1>3, <1>16, <1>17 DEF next

-----------------------------------------------------------------------------
(* A cancel                                                                 *)

OthersThan(id) == {o \in Orders : o.id # id}

LevelWithout(level, id) ==
  Level(level.price, Filter(level.orders, OthersThan(id)))

NonEmpty == {l \in AnyLevels : l.orders # <<>>}

LevelsWithout(side, id) ==
  Filter([k \in DOMAIN side |-> LevelWithout(side[k], id)], NonEmpty)

(* A level without an id is one of its price, or it is empty.               *)
LEMMA LevelWithoutFacts ==
  ASSUME NEW level \in PricedLevels, NEW id
  PROVE  /\ LevelWithout(level, id) \in AnyLevels
         /\ RemoveOrderFromLevel(level, id) = LevelWithout(level, id)
         /\ LevelWithout(level, id).price = level.price
         /\ LevelWithout(level, id).orders = Filter(level.orders, OthersThan(id))
         /\ LevelWithout(level, id) \in NonEmpty =>
              LevelWithout(level, id) \in PricedLevels
         /\ LevelWithout(level, id) \notin NonEmpty =>
              LevelWithout(level, id).orders = <<>>
  <1> DEFINE list == level.orders
             kept == Filter(list, OthersThan(id))
             Pred == {o \in Range(list) : o.id # id}
  <1>1. list \in Seq(Orders) /\ level.price \in InputPrices
        /\ \A j \in 1 .. Len(list) : list[j].price = level.price
    BY LevelFacts DEF PricedLevels
  <1> HIDE DEF list
  <1>2. \A j \in 1 .. Len(list) : list[j] \in Pred <=> list[j] \in OthersThan(id)
    BY <1>1 DEF OthersThan, Range
  <1>3. Filter(list, Pred) = kept
    <2> HIDE DEF Pred
    <2> QED
      BY <1>1, <1>2, FilterAgree
  <1>4. kept \in Seq({o \in Orders : o.price = level.price})
    <2> DEFINE U == {o \in Orders : o.price = level.price}
    <2>1. list \in Seq(U)
      BY <1>1
    <2>2. U \cap OthersThan(id) \subseteq U
      OBVIOUS
    <2> HIDE DEF U
    <2>3. kept \in Seq(U \cap OthersThan(id))
      BY <2>1, FilterType
    <2>4. kept \in Seq(U)
      <3> HIDE DEF kept
      <3> QED
        BY <2>2, <2>3
    <2> QED
      BY <2>4 DEF U
  <1> HIDE DEF kept
  <1>5. kept \in Seq(Orders) /\ \A j \in DOMAIN kept : kept[j].price = level.price
    BY <1>4
  <1>6. LevelWithout(level, id) = Level(level.price, kept)
        /\ RemoveOrderFromLevel(level, id) = LevelWithout(level, id)
    BY <1>3 DEF LevelWithout, RemoveOrderFromLevel, kept, list
  <1>7. Level(level.price, kept).price = level.price
        /\ Level(level.price, kept).orders = kept
    BY DEF Level
  <1>8. Level(level.price, kept) \in AnyLevels
    BY <1>1, <1>5 DEF Level, AnyLevels
  <1>9. kept # <<>> => Level(level.price, kept) \in PriceLevels
    BY <1>7, <1>8, LevelFacts
  <1>10. kept # <<>> => Level(level.price, kept) \in PricedLevels
    BY <1>5, <1>7, <1>9 DEF PricedLevels
  <1> QED
    BY <1>6, <1>7, <1>8, <1>10 DEF NonEmpty, kept, list

(* CancelOrderFromSide takes the id out of every level and then the levels  *)
(* that are empty.                                                          *)
LEMMA CancelIsWithout ==
  ASSUME NEW side \in Seq(PricedLevels), NEW id
  PROVE  CancelOrderFromSide(side, id) = LevelsWithout(side, id)
  <1> DEFINE cut == [k \in DOMAIN side |-> RemoveOrderFromLevel(side[k], id)]
             Pred == {l \in Range(cut) : l.orders # <<>>}
  <1>1. DOMAIN side = 1 .. Len(side) /\ \A k \in 1 .. Len(side) : side[k] \in PricedLevels
    OBVIOUS
  <1>2. \A k \in DOMAIN side : /\ RemoveOrderFromLevel(side[k], id) = LevelWithout(side[k], id)
                               /\ LevelWithout(side[k], id) \in AnyLevels
    BY <1>1, LevelWithoutFacts
  <1>3. cut = [k \in DOMAIN side |-> LevelWithout(side[k], id)]
    BY <1>2
  <1>4. cut \in Seq(AnyLevels) /\ DOMAIN cut = 1 .. Len(cut)
    BY <1>1, <1>2, <1>3
  <1> HIDE DEF cut
  <1>5. \A k \in 1 .. Len(cut) : cut[k] \in Pred <=> cut[k] \in NonEmpty
    BY <1>4 DEF NonEmpty, Range
  <1>6. Filter(cut, Pred) = Filter(cut, NonEmpty)
    <2> HIDE DEF Pred
    <2> QED
      BY <1>4, <1>5, FilterAgree
  <1> QED
    BY <1>3, <1>6 DEF CancelOrderFromSide, RemoveEmptyLevels, LevelsWithout, cut

(* One level more keeps its place, or it is empty.                          *)
LEMMA LevelsWithoutAppend ==
  ASSUME NEW side \in Seq(PricedLevels), NEW level \in PricedLevels, NEW id
  PROVE  LevelsWithout(Append(side, level), id) =
           IF LevelWithout(level, id) \in NonEmpty
           THEN Append(LevelsWithout(side, id), LevelWithout(level, id))
           ELSE LevelsWithout(side, id)
  <1> DEFINE more == Append(side, level)
             cut == [k \in DOMAIN side |-> LevelWithout(side[k], id)]
             moreCut == [k \in DOMAIN more |-> LevelWithout(more[k], id)]
             last == LevelWithout(level, id)
             n == Len(side)
  <1>1. n \in Nat /\ DOMAIN side = 1 .. n /\ DOMAIN more = 1 .. n + 1
        /\ more[n + 1] = level
        /\ \A k \in 1 .. n : more[k] = side[k] /\ side[k] \in PricedLevels
    OBVIOUS
  <1>2. \A k \in 1 .. n : LevelWithout(side[k], id) \in AnyLevels
    BY <1>1, LevelWithoutFacts
  <1>3. last \in AnyLevels
    BY LevelWithoutFacts
  <1> HIDE DEF last, more, n
  <1>4. cut \in Seq(AnyLevels) /\ Len(cut) = n
        /\ \A k \in 1 .. n : cut[k] = LevelWithout(side[k], id)
    BY <1>1, <1>2
  <1>5. moreCut = Append(cut, last)
    <2>1. \A k \in 1 .. n + 1 : k \in 1 .. n \/ k = n + 1
      BY <1>1
    <2>2. /\ Append(cut, last) \in Seq(AnyLevels)
          /\ Len(Append(cut, last)) = n + 1
          /\ \A k \in 1 .. n : Append(cut, last)[k] = cut[k]
          /\ Append(cut, last)[n + 1] = last
      <3> HIDE DEF cut
      <3> QED
        BY <1>3, <1>4, AppendProperties
    <2>3. DOMAIN Append(cut, last) = 1 .. n + 1
      BY <2>2
    <2>4. \A k \in 1 .. n + 1 : moreCut[k] = Append(cut, last)[k]
      <3> SUFFICES ASSUME NEW k \in 1 .. n + 1
                   PROVE  moreCut[k] = Append(cut, last)[k]
        OBVIOUS
      <3>1. moreCut[k] = LevelWithout(more[k], id)
        BY <1>1
      <3>2. k \in 1 .. n => Append(cut, last)[k] = LevelWithout(side[k], id)
        BY <1>4, <2>2
      <3> QED
        BY <1>1, <2>1, <2>2, <3>1, <3>2 DEF last
    <2>5. moreCut \in Seq(AnyLevels) /\ Len(moreCut) = n + 1
      <3>1. \A k \in 1 .. n + 1 : LevelWithout(more[k], id) \in AnyLevels
        BY <1>1, <1>2, <1>3, <2>1 DEF last
      <3>2. n + 1 \in Nat
        BY <1>1
      <3> QED
        BY <1>1, <3>1, <3>2
    <2> HIDE DEF moreCut, cut
    <2> QED
      BY <2>2, <2>4, <2>5, SeqEqual
  <1> HIDE DEF cut, moreCut
  <1>6. Filter(Append(cut, last), NonEmpty) =
          IF last \in NonEmpty THEN Append(Filter(cut, NonEmpty), last)
          ELSE Filter(cut, NonEmpty)
    BY <1>3, <1>4, FilterAppend
  <1> QED
    BY <1>5, <1>6 DEF LevelsWithout, cut, moreCut, last, more

(* What a cancel leaves of a side: levels of its prices, in the same order, *)
(* with all orders but those of the id.                                     *)
LEMMA CancelSide ==
  ASSUME NEW list \in Seq(PricedLevels), NEW id, NEW descending,
         NEW result, result = CancelOrderFromSide(list, id)
  PROVE  /\ result \in Seq(PricedLevels)
         /\ PricesFrom(result, list)
         /\ SortedSide(list, descending) => SortedSide(result, descending)
         /\ OrdersOf(result) = Filter(OrdersOf(list), OthersThan(id))
  <1> DEFINE W(s) == LevelsWithout(s, id)
             P == {s \in Seq(PricedLevels) :
                    /\ W(s) \in Seq(PricedLevels)
                    /\ PricesFrom(W(s), s)
                    /\ SortedSide(s, descending) => SortedSide(W(s), descending)
                    /\ OrdersOf(W(s)) = Filter(OrdersOf(s), OthersThan(id))}
  <1>1. <<>> \in P
    <2>1. <<>> \in Seq(PricedLevels) /\ [k \in DOMAIN <<>> |-> LevelWithout(<<>>[k], id)] = <<>>
          /\ Len(<<>>) = 0
      OBVIOUS
    <2>2. W(<<>>) = <<>>
      BY <2>1, FilterEmpty DEF LevelsWithout
    <2>3. PricesFrom(<<>>, <<>>) /\ SortedSide(<<>>, descending)
      BY <2>1 DEF PricesFrom, SortedSide
    <2>4. OrdersOf(<<>>) = Filter(OrdersOf(<<>>), OthersThan(id))
      BY OrdersEmpty, FilterEmpty
    <2> HIDE DEF W
    <2> QED
      BY <2>1, <2>2, <2>3, <2>4
  <1>2. \A s \in Seq(PricedLevels), l \in PricedLevels : s \in P => Append(s, l) \in P
    <2> SUFFICES ASSUME NEW s \in Seq(PricedLevels), NEW l \in PricedLevels, s \in P
                 PROVE  Append(s, l) \in P
      OBVIOUS
    <2> DEFINE more == Append(s, l)
               last == LevelWithout(l, id)
               w == W(s)
               n == Len(s)
    <2>1. /\ w \in Seq(PricedLevels)
          /\ PricesFrom(w, s)
          /\ SortedSide(s, descending) => SortedSide(w, descending)
          /\ OrdersOf(w) = Filter(OrdersOf(s), OthersThan(id))
      OBVIOUS
    <2>2. more \in Seq(PricedLevels) /\ Len(more) = n + 1 /\ more[n + 1] = l
          /\ n \in Nat /\ \A k \in 1 .. n : more[k] = s[k]
      OBVIOUS
    <2>3. W(more) = IF last \in NonEmpty THEN Append(w, last) ELSE w
      BY LevelsWithoutAppend
    <2>4. /\ last \in AnyLevels /\ last.price = l.price
          /\ last.orders = Filter(l.orders, OthersThan(id))
          /\ last \in NonEmpty => last \in PricedLevels
          /\ last \notin NonEmpty => last.orders = <<>>
      BY LevelWithoutFacts
    <2>5. OrdersOf(more) = OrdersOf(s) \o l.orders
          /\ OrdersOf(s) \in Seq(Orders) /\ OrdersOf(w) \in Seq(Orders)
          /\ l.orders \in Seq(Orders)
          /\ \A x \in PricedLevels : OrdersOf(Append(w, x)) = OrdersOf(w) \o x.orders
      <3>1. \A x \in PricedLevels : x.orders \in Seq(Orders)
        BY LevelFacts
      <3> HIDE DEF w, P
      <3>2. \A x \in PricedLevels : OrdersOf(Append(w, x)) = OrdersOf(w) \o x.orders
        BY <2>1, <3>1, OrdersAppend
      <3>3. OrdersOf(s) \in Seq(Orders) /\ OrdersOf(w) \in Seq(Orders)
        BY <2>1, <3>1, OrdersType
      <3>4. OrdersOf(more) = OrdersOf(s) \o l.orders
        BY <3>1, OrdersAppend
      <3> QED
        BY <3>1, <3>2, <3>3, <3>4
    <2> HIDE DEF P, W, w, last, more, n
    <2>6. Filter(OrdersOf(more), OthersThan(id)) = OrdersOf(w) \o last.orders
      <3> DEFINE a == OrdersOf(s)
                 b == l.orders
      <3>1. a \in Seq(Orders) /\ b \in Seq(Orders)
        BY <2>5
      <3> HIDE DEF a, b
      <3>2. Filter(a \o b, OthersThan(id)) =
              Filter(a, OthersThan(id)) \o Filter(b, OthersThan(id))
        BY <3>1, FilterConcat
      <3> QED
        BY <2>1, <2>4, <2>5, <3>2 DEF a, b
    <2>7. \A k \in 1 .. Len(w) : \E j \in 1 .. n : w[k].price = more[j].price /\ j \in 1 .. n + 1
                                                   /\ w[k].price = s[j].price
      BY <2>1, <2>2 DEF PricesFrom, n
    <2>8. SortedSide(more, descending) =>
            /\ SortedSide(s, descending)
            /\ \A k \in 1 .. n : better(descending, s[k].price, l.price)
      BY <2>2 DEF SortedSide, n
    <2>9. ASSUME last \in NonEmpty PROVE more \in P
      <3> DEFINE next == Append(w, last)
      <3>1. W(more) = next
        BY <2>3, <2>9
      <3>2. last \in PricedLevels
        BY <2>4, <2>9
      <3>3. /\ next \in Seq(PricedLevels) /\ Len(next) = Len(w) + 1
            /\ next[Len(w) + 1] = last /\ Len(w) \in Nat
            /\ \A k \in 1 .. Len(w) : next[k] = w[k]
        BY <2>1, <3>2
      <3>4. \A k \in 1 .. Len(w) + 1 : k \in 1 .. Len(w) \/ k = Len(w) + 1
        BY <3>3
      <3> HIDE DEF next
      <3>5. PricesFrom(next, more)
        <4>1. n + 1 \in 1 .. n + 1
          BY <2>2
        <4> QED
          BY <2>2, <2>4, <2>7, <3>3, <3>4, <4>1 DEF PricesFrom
      <3>6. SortedSide(more, descending) => SortedSide(next, descending)
        <4> SUFFICES ASSUME SortedSide(more, descending),
                            NEW j \in 1 .. Len(w) + 1, NEW k \in 1 .. Len(w) + 1, j < k
                     PROVE  better(descending, next[j].price, next[k].price)
          BY <3>3 DEF SortedSide
        <4>1. j \in 1 .. Len(w)
          BY <3>3, <3>4
        <4>2. CASE k \in 1 .. Len(w)
          BY <2>1, <2>8, <3>3, <4>1, <4>2 DEF SortedSide
        <4>3. CASE k = Len(w) + 1
          <5>1. PICK i \in 1 .. n : w[j].price = s[i].price
            BY <2>7, <4>1
          <5> QED
            BY <2>4, <2>8, <3>3, <4>1, <4>3, <5>1
        <4> QED
          BY <3>4, <4>2, <4>3
      <3>7. OrdersOf(next) = Filter(OrdersOf(more), OthersThan(id))
        BY <2>5, <2>6, <3>2 DEF next
      <3> QED
        BY <2>2, <3>1, <3>3, <3>5, <3>6, <3>7 DEF P
    <2>10. ASSUME last \notin NonEmpty PROVE more \in P
      <3>1. W(more) = w
        BY <2>3, <2>10
      <3>2. PricesFrom(w, more)
        BY <2>2, <2>7 DEF PricesFrom
      <3>3. OrdersOf(w) = Filter(OrdersOf(more), OthersThan(id))
        <4>1. OrdersOf(w) \o <<>> = OrdersOf(w)
          BY <2>5
        <4> QED
          BY <2>4, <2>6, <2>10, <4>1
      <3> QED
        BY <2>1, <2>2, <2>8, <3>1, <3>2, <3>3 DEF P
    <2>11. Append(s, l) \in P
      BY <2>9, <2>10 DEF more
    <2> QED
      BY <2>11
  <1> HIDE DEF P
  <1>3. list \in P
    BY <1>1, <1>2, EveryList
  <1>4. result = W(list)
    BY CancelIsWithout
  <1> QED
    BY <1>3, <1>4 DEF P

-----------------------------------------------------------------------------
(* The inductive invariant: every order lies in a level of its price.  The  *)
(* rebuilt level of a part fill takes the price of its order; that it is    *)
(* still uncrossed needs that this is the price of the level.               *)
CtInv ==
  /\ bids \in Seq(PricedLevels) /\ asks \in Seq(PricedLevels)
  /\ trades \in Seq(Trades) /\ remainder \in 0 .. MaxQuantity
  /\ CtUncrossed

(* What the invariant says of the checked properties.                       *)
LEMMA InvTypeOK == CtInv => CtTypeOK /\ CtUncrossed
  BY LevelFacts DEF CtInv, CtTypeOK

(* A submit, seen from the side its order joins.                            *)
Submitted(order, own, opp, result, joined) ==
  /\ result \in MatchStates(opp, order) /\ MatchEnds(result)
  /\ joined = IF result.order.quantity = 0 THEN own
              ELSE AddOrderToSide(order.side = Buy, own, result.order)

(* A match against a side in order ends among its states.                   *)
LEMMA MatchTyped ==
  ASSUME NEW order \in Orders, NEW opp \in Seq(PricedLevels),
         SortedSide(opp, order.side = Sell)
  PROVE  Match(opp, order) \in MatchStates(opp, order)
         /\ MatchEnds(Match(opp, order))
  <1> DEFINE S == MatchStates(opp, order)
             first == [opp |-> opp, order |-> order, trades |-> <<>>]
  <1>1. order.quantity \in Nat
    BY OrderFacts
  <1>2. first \in S
    <2>1. order \in Rests(order)
      <3>1. order = [order EXCEPT !.quantity = order.quantity]
        BY DEF Orders
      <3>2. order.quantity \in 0 .. order.quantity
        BY <1>1
      <3> QED
        BY <3>1, <3>2 DEF Rests
    <2>2. PricesFrom(opp, opp) /\ <<>> \in Seq(Trades)
      BY DEF PricesFrom
    <2> QED
      BY <2>1, <2>2 DEF MatchStates
  <1>3. \A m \in S : m.order.quantity \in Nat
    <2> SUFFICES ASSUME NEW m \in S PROVE m.order.quantity \in Nat
      OBVIOUS
    <2>1. m.order \in Rests(order)
      BY DEF MatchStates
    <2> QED
      BY <2>1, RestFacts
  <1>4. \A m \in S : ~MatchEnds(m) =>
          /\ MatchStep(m) \in S
          /\ MatchStep(m).order.quantity < m.order.quantity
    BY TurnTyped
  <1> HIDE DEF S
  <1>5. Match(opp, order) \in S /\ MatchEnds(Match(opp, order))
    BY <1>1, <1>2, <1>3, <1>4, MatchReaches
  <1> QED
    BY <1>5 DEF S

(* Every level of the joined side is at a price of the own side or at that  *)
(* of the order, which then reaches nothing that is left opposite.          *)
OutOfReach(order, own, left, joined) ==
  \A j \in 1 .. Len(joined) :
    \/ \E i \in 1 .. Len(own) : joined[j].price = own[i].price
    \/ /\ joined[j].price = order.price
       /\ \A k \in 1 .. Len(left) :
            ~crosses(order.side, order.price, left[k].price)

(* The prices of the opposite side stay among its prices.  What joins the   *)
(* own side, if anything does, reaches none of those that are left.         *)
LEMMA SubmittedTyped ==
  ASSUME NEW order \in Orders, NEW own \in Seq(PricedLevels),
         NEW opp \in Seq(PricedLevels), NEW result, NEW joined,
         Submitted(order, own, opp, result, joined)
  PROVE  /\ result.opp \in Seq(PricedLevels) /\ joined \in Seq(PricedLevels)
         /\ result.trades \in Seq(Trades)
         /\ result.order.quantity \in 0 .. MaxQuantity
         /\ PricesFrom(result.opp, opp)
         /\ OutOfReach(order, own, result.opp, joined)
  <1>1. /\ result.opp \in Seq(PricedLevels) /\ result.order \in Rests(order)
        /\ result.trades \in Seq(Trades)
        /\ SortedSide(result.opp, order.side = Sell)
        /\ PricesFrom(result.opp, opp)
    BY DEF Submitted, MatchStates
  <1>2. result.order.quantity \in 0 .. MaxQuantity
    <2>1. result.order.quantity \in 0 .. order.quantity
      BY <1>1, RestFacts
    <2>2. order.quantity \in 1 .. MaxQuantity /\ MaxQuantity \in Nat
      BY OrderFacts
    <2> QED
      BY <2>1, <2>2
  <1>3. CASE result.order.quantity = 0
    <2>1. joined = own
      BY <1>3 DEF Submitted
    <2> QED
      BY <1>1, <1>2, <2>1 DEF OutOfReach
  <1>4. CASE result.order.quantity # 0
    <2>1. result.order \in Orders /\ result.order.price = order.price
          /\ result.order.side = order.side
      BY <1>1, <1>2, <1>4, RestFacts
    <2>2. joined = AddOrderToSide(order.side = Buy, own, result.order)
      BY <1>4 DEF Submitted
    <2>3. /\ joined \in Seq(PricedLevels)
          /\ \A k \in 1 .. Len(joined) :
               \/ joined[k].price = result.order.price
               \/ \E j \in 1 .. Len(own) : joined[k].price = own[j].price
      BY <2>1, <2>2, AddOrderKeepsLevels
    <2>4. ASSUME NEW k \in 1 .. Len(result.opp),
                 crosses(order.side, order.price, result.opp[k].price)
          PROVE  FALSE
      <3>1. result.opp # <<>>
        BY <1>1
      <3>2. ~crosses(order.side, order.price, Head(result.opp).price)
        BY <1>4, <2>1, <3>1 DEF Submitted, MatchEnds, Crosses
      <3> QED
        BY <1>1, <2>4, <3>1, <3>2, BestIsReachedFirst
    <2>5. OutOfReach(order, own, result.opp, joined)
      BY <2>1, <2>3, <2>4 DEF OutOfReach
    <2> QED
      BY <1>1, <1>2, <2>3, <2>5
  <1> QED
    BY <1>3, <1>4

(* The opposite side of a submit is in order.                               *)
LEMMA SubmitSides ==
  ASSUME CtInv, NEW order \in Orders, Submit(order)
  PROVE  /\ SideOf(order.side) \in Seq(PricedLevels)
         /\ SortedSide(SideOf(order.side), order.side = Buy)
         /\ SideOf(opposite(order.side)) \in Seq(PricedLevels)
         /\ SortedSide(SideOf(opposite(order.side)), order.side = Sell)
  <1> DEFINE own == SideOf(order.side)
             opp == SideOf(opposite(order.side))
  <1>1. order.side \in {Buy, Sell} /\ Buy # Sell
    BY OrderFacts DEF Buy, Sell
  <1>2. bids \in Seq(PricedLevels) /\ asks \in Seq(PricedLevels)
    BY DEF CtInv
  <1>3. SideValid(bids, Buy) /\ SideValid(asks, Sell)
    BY DEF Submit, BookValid
  <1>4. SortedSide(bids, Buy = Buy) /\ SortedSide(asks, Sell = Buy)
    BY <1>2, <1>3, SideValidSorted
  <1>5. CASE order.side = Buy
    <2>1. own = bids /\ opp = asks /\ (order.side = Sell) = (Sell = Buy)
          /\ (order.side = Buy) = (Buy = Buy)
      BY <1>1, <1>5 DEF SideOf, opposite
    <2> HIDE DEF own, opp
    <2>2. /\ own \in Seq(PricedLevels) /\ SortedSide(own, order.side = Buy)
          /\ opp \in Seq(PricedLevels) /\ SortedSide(opp, order.side = Sell)
      BY <1>2, <1>4, <2>1
    <2> QED
      BY <2>2 DEF own, opp
  <1>6. CASE order.side = Sell
    <2>1. own = asks /\ opp = bids /\ (order.side = Sell) = (Buy = Buy)
          /\ (order.side = Buy) = (Sell = Buy)
      BY <1>1, <1>6 DEF SideOf, opposite
    <2> HIDE DEF own, opp
    <2>2. /\ own \in Seq(PricedLevels) /\ SortedSide(own, order.side = Buy)
          /\ opp \in Seq(PricedLevels) /\ SortedSide(opp, order.side = Sell)
      BY <1>2, <1>4, <2>1
    <2> QED
      BY <2>2 DEF own, opp
  <1> QED
    BY <1>1, <1>5, <1>6

(* A submit to a book of the invariant, side by side.                       *)
LEMMA SubmitCases ==
  ASSUME CtInv, NEW order \in Orders, Submit(order)
  PROVE  \E result, joined :
           /\ Submitted(order, SideOf(order.side),
                        SideOf(opposite(order.side)), result, joined)
           /\ result = Match(SideOf(opposite(order.side)), order)
           /\ order.side \in {Buy, Sell}
           /\ order.side = Buy => bids' = joined /\ asks' = result.opp
                                  /\ SideOf(order.side) = bids
                                  /\ SideOf(opposite(order.side)) = asks
           /\ order.side = Sell => bids' = result.opp /\ asks' = joined
                                   /\ SideOf(order.side) = asks
                                   /\ SideOf(opposite(order.side)) = bids
           /\ trades' = result.trades
           /\ remainder' = result.order.quantity
  <1> DEFINE own == SideOf(order.side)
             opp == SideOf(opposite(order.side))
             result == Match(opp, order)
             joined == IF result.order.quantity = 0 THEN own
                       ELSE AddOrderToSide(order.side = Buy, own, result.order)
  <1>1. order.side \in {Buy, Sell} /\ Buy # Sell
    BY OrderFacts DEF Buy, Sell
  <1>5. opp \in Seq(PricedLevels) /\ SortedSide(opp, order.side = Sell)
    BY SubmitSides
  <1>6. result \in MatchStates(opp, order) /\ MatchEnds(result)
    <2> HIDE DEF opp
    <2> QED
      BY <1>5, MatchTyped
  <1>7. Submitted(order, own, opp, result, joined)
    BY <1>6 DEF Submitted
  <1>8. /\ bids' = IF order.side = Buy THEN joined ELSE result.opp
        /\ asks' = IF order.side = Buy THEN result.opp ELSE joined
        /\ trades' = result.trades /\ remainder' = result.order.quantity
    BY DEF Submit
  <1>9. /\ order.side = Buy => own = bids /\ opp = asks
        /\ order.side = Sell => own = asks /\ opp = bids
    BY <1>1 DEF SideOf, opposite
  <1> DEFINE r == result
             j == joined
  <1> HIDE DEF own, opp, r, j
  <1>10. Submitted(order, own, opp, r, j) /\ r = Match(opp, order)
    BY <1>7 DEF r, j
  <1>11. /\ bids' = IF order.side = Buy THEN j ELSE r.opp
         /\ asks' = IF order.side = Buy THEN r.opp ELSE j
         /\ trades' = r.trades /\ remainder' = r.order.quantity
    BY <1>8 DEF r, j
  <1>12. /\ order.side = Buy => bids' = j /\ asks' = r.opp
                                /\ own = bids /\ opp = asks
         /\ order.side = Sell => bids' = r.opp /\ asks' = j
                                 /\ own = asks /\ opp = bids
    BY <1>1, <1>9, <1>11
  <1>13. \E x, y : /\ Submitted(order, own, opp, x, y)
                   /\ x = Match(opp, order)
                   /\ order.side = Buy => bids' = y /\ asks' = x.opp
                                          /\ own = bids /\ opp = asks
                   /\ order.side = Sell => bids' = x.opp /\ asks' = y
                                           /\ own = asks /\ opp = bids
                   /\ trades' = x.trades
                   /\ remainder' = x.order.quantity
    BY <1>10, <1>11, <1>12
  <1> QED
    BY <1>1, <1>13 DEF own, opp

(* A submit keeps the invariant.                                            *)
LEMMA SubmitKeepsInv ==
  ASSUME CtInv, NEW order \in Orders, Submit(order)
  PROVE  CtInv'
  <1>1. PICK result, joined :
           /\ Submitted(order, SideOf(order.side),
                        SideOf(opposite(order.side)), result, joined)
           /\ order.side \in {Buy, Sell}
           /\ order.side = Buy => bids' = joined /\ asks' = result.opp
                                  /\ SideOf(order.side) = bids
                                  /\ SideOf(opposite(order.side)) = asks
           /\ order.side = Sell => bids' = result.opp /\ asks' = joined
                                   /\ SideOf(order.side) = asks
                                   /\ SideOf(opposite(order.side)) = bids
           /\ trades' = result.trades
           /\ remainder' = result.order.quantity
    BY SubmitCases
  <1>2. bids \in Seq(PricedLevels) /\ asks \in Seq(PricedLevels)
        /\ DOMAIN bids = 1 .. Len(bids) /\ DOMAIN asks = 1 .. Len(asks)
        /\ \A j \in 1 .. Len(bids), k \in 1 .. Len(asks) :
             bids[j].price < asks[k].price
    BY DEF CtInv, CtUncrossed
  <1>3. \A side \in Seq(PricedLevels) : /\ DOMAIN side = 1 .. Len(side)
                                        /\ \A k \in 1 .. Len(side) : side[k].price \in Int
    <2>1. \A l \in PricedLevels : l.price \in Int
      BY LevelFacts, OrderFacts
    <2> QED
      BY <2>1
  <1>4. order.price \in Int /\ Buy # Sell
    BY OrderFacts DEF Buy, Sell
  <1>5. CASE order.side = Buy
    <2>1. Submitted(order, bids, asks, result, joined)
          /\ bids' = joined /\ asks' = result.opp
      BY <1>1, <1>5
    <2>2. /\ asks' \in Seq(PricedLevels) /\ bids' \in Seq(PricedLevels)
          /\ result.trades \in Seq(Trades)
          /\ result.order.quantity \in 0 .. MaxQuantity
          /\ PricesFrom(asks', asks)
          /\ OutOfReach(order, bids, asks', bids')
      BY <1>2, <2>1, SubmittedTyped
    <2>3. ASSUME NEW j \in 1 .. Len(bids'), NEW k \in 1 .. Len(asks')
          PROVE  bids'[j].price < asks'[k].price
      <3>1. PICK i \in 1 .. Len(asks) : asks'[k].price = asks[i].price
        BY <2>2 DEF PricesFrom
      <3>2. asks'[k].price \in Int
        BY <1>3, <2>2
      <3>3. CASE \E h \in 1 .. Len(bids) : bids'[j].price = bids[h].price
        <4>1. PICK h \in 1 .. Len(bids) : bids'[j].price = bids[h].price
          BY <3>3
        <4>2. bids[h].price < asks[i].price
          BY <1>2
        <4> QED
          BY <3>1, <4>1, <4>2
      <3>4. CASE /\ bids'[j].price = order.price
                 /\ ~crosses(order.side, order.price, asks'[k].price)
        <4>1. order.price < asks'[k].price
          BY <1>4, <1>5, <3>2, <3>4 DEF crosses
        <4> QED
          BY <3>4, <4>1
      <3> QED
        BY <2>2, <3>3, <3>4 DEF OutOfReach
    <2>4. DOMAIN bids' = 1 .. Len(bids') /\ DOMAIN asks' = 1 .. Len(asks')
      BY <1>3, <2>2
    <2> QED
      BY <1>1, <2>2, <2>3, <2>4 DEF CtInv, CtUncrossed
  <1>6. CASE order.side = Sell
    <2>1. Submitted(order, asks, bids, result, joined)
          /\ asks' = joined /\ bids' = result.opp
      BY <1>1, <1>6
    <2>2. /\ bids' \in Seq(PricedLevels) /\ asks' \in Seq(PricedLevels)
          /\ result.trades \in Seq(Trades)
          /\ result.order.quantity \in 0 .. MaxQuantity
          /\ PricesFrom(bids', bids)
          /\ OutOfReach(order, asks, bids', asks')
      BY <1>2, <2>1, SubmittedTyped
    <2>3. ASSUME NEW j \in 1 .. Len(asks'), NEW k \in 1 .. Len(bids')
          PROVE  bids'[k].price < asks'[j].price
      <3>1. PICK i \in 1 .. Len(bids) : bids'[k].price = bids[i].price
        BY <2>2 DEF PricesFrom
      <3>2. bids'[k].price \in Int
        BY <1>3, <2>2
      <3>3. CASE \E h \in 1 .. Len(asks) : asks'[j].price = asks[h].price
        <4>1. PICK h \in 1 .. Len(asks) : asks'[j].price = asks[h].price
          BY <3>3
        <4>2. bids[i].price < asks[h].price
          BY <1>2
        <4> QED
          BY <3>1, <4>1, <4>2
      <3>4. CASE /\ asks'[j].price = order.price
                 /\ ~crosses(order.side, order.price, bids'[k].price)
        <4>1. bids'[k].price < order.price
          BY <1>4, <1>6, <3>2, <3>4 DEF crosses
        <4> QED
          BY <3>4, <4>1
      <3> QED
        BY <2>2, <3>3, <3>4 DEF OutOfReach
    <2>4. DOMAIN bids' = 1 .. Len(bids') /\ DOMAIN asks' = 1 .. Len(asks')
      BY <1>3, <2>2
    <2> QED
      BY <1>1, <2>2, <2>3, <2>4 DEF CtInv, CtUncrossed
  <1> QED
    BY <1>1, <1>5, <1>6

(* A cancel keeps the invariant.                                            *)
LEMMA CancelKeepsInv ==
  ASSUME CtInv, NEW id \in OrderIds, Cancel(id)
  PROVE  CtInv'
  <1>1. bids \in Seq(PricedLevels) /\ asks \in Seq(PricedLevels)
        /\ DOMAIN bids = 1 .. Len(bids) /\ DOMAIN asks = 1 .. Len(asks)
        /\ \A j \in 1 .. Len(bids), k \in 1 .. Len(asks) :
             bids[j].price < asks[k].price
    BY DEF CtInv, CtUncrossed
  <1>2. bids' = CancelOrderFromSide(bids, id) /\ asks' = CancelOrderFromSide(asks, id)
        /\ trades' = <<>> /\ remainder' = 0
    BY DEF Cancel
  <1>3. /\ bids' \in Seq(PricedLevels) /\ PricesFrom(bids', bids)
        /\ asks' \in Seq(PricedLevels) /\ PricesFrom(asks', asks)
    BY <1>1, <1>2, CancelSide
  <1>4. DOMAIN bids' = 1 .. Len(bids') /\ DOMAIN asks' = 1 .. Len(asks')
    BY <1>3
  <1>5. CtUncrossed'
    BY <1>1, <1>3, <1>4 DEF CtUncrossed, PricesFrom
  <1>6. trades' \in Seq(Trades) /\ remainder' \in 0 .. MaxQuantity
    BY <1>2, OrderFacts
  <1> QED
    BY <1>3, <1>5, <1>6 DEF CtInv

(* The empty book satisfies it.                                             *)
LEMMA InitInv == CtInit => CtInv
  BY OrderFacts DEF CtInit, CtInv, CtUncrossed

(* The invariant: every order lies in a level of its own price, no level is *)
(* empty, and no bid level reaches an ask level.                            *)
THEOREM InvHolds == CtSpec => []CtInv
  <1>1. CtInv /\ [CtNext]_ctVars => CtInv'
    <2> SUFFICES ASSUME CtInv, [CtNext]_ctVars PROVE CtInv'
      OBVIOUS
    <2>1. CASE UNCHANGED ctVars
      BY <2>1 DEF CtInv, CtUncrossed, ctVars
    <2>2. CASE CtNext
      BY <2>2, SubmitKeepsInv, CancelKeepsInv DEF CtNext
    <2> QED
      BY <2>1, <2>2
  <1> QED
    BY <1>1, InitInv, PTL DEF CtSpec

(* CtTypeOK, for every set of ids and prices and every MaxQuantity: every   *)
(* level holds an order, and every order could be submitted, be it rebuilt  *)
(* from a remainder or left behind by a cancel.                             *)
THEOREM TypesHold == CtSpec => []CtTypeOK
  BY InvHolds, InvTypeOK, PTL

(* CtUncrossed: no bid level reaches an ask level.                          *)
THEOREM UncrossedHolds == CtSpec => []CtUncrossed
  BY InvHolds, InvTypeOK, PTL

-----------------------------------------------------------------------------
(* Valid books                                                              *)

OfSide(which) == {o \in Orders : o.side = which}

UniqueIn(list) ==
  \A j, k \in 1 .. Len(list) : list[j].id = list[k].id => j = k

(* The orders of a side lie in a set if those of its levels do.             *)
LEMMA OrdersIn ==
  ASSUME NEW list \in Seq(AnyLevels), NEW U, OrdersOf(list) \in Seq(U)
  PROVE  \A k \in 1 .. Len(list) : list[k].orders \in Seq(U)
  <1> DEFINE Q(s) == OrdersOf(s) \in Seq(U) =>
                       \A k \in 1 .. Len(s) : s[k].orders \in Seq(U)
             P == {s \in Seq(AnyLevels) : Q(s)}
  <1>1. <<>> \in P
    OBVIOUS
  <1>2. \A s \in Seq(AnyLevels), l \in AnyLevels : s \in P => Append(s, l) \in P
    <2> SUFFICES ASSUME NEW s \in Seq(AnyLevels), NEW l \in AnyLevels, Q(s)
                 PROVE  Append(s, l) \in Seq(AnyLevels) /\ Q(Append(s, l))
      <3> HIDE DEF Q
      <3> QED
        OBVIOUS
    <2>0. Append(s, l) \in Seq(AnyLevels)
      OBVIOUS
    <2> SUFFICES ASSUME OrdersOf(Append(s, l)) \in Seq(U)
                 PROVE  \A k \in 1 .. Len(Append(s, l)) :
                          Append(s, l)[k].orders \in Seq(U)
      BY <2>0
    <2> DEFINE a == OrdersOf(s)
               b == l.orders
    <2>1. a \in Seq(Orders) /\ b \in Seq(Orders)
          /\ OrdersOf(Append(s, l)) = a \o b
      <3>1. \A x \in AnyLevels : x.orders \in Seq(Orders)
        BY LevelFacts
      <3>2. a \in Seq(Orders)
        BY <3>1, OrdersType
      <3>3. OrdersOf(Append(s, l)) = a \o b
        BY <3>1, OrdersAppend
      <3> QED
        BY <3>1, <3>2, <3>3
    <2>2. a \in Seq(U) /\ b \in Seq(U)
      <3> HIDE DEF a, b, P
      <3>1. \A i \in 1 .. Len(a) : a[i] = (a \o b)[i] /\ i \in 1 .. Len(a \o b)
        BY <2>1
      <3>2. \A i \in 1 .. Len(b) : b[i] = (a \o b)[i + Len(a)]
                                   /\ i + Len(a) \in 1 .. Len(a \o b)
        BY <2>1
      <3>3. \A i \in 1 .. Len(a \o b) : (a \o b)[i] \in U
        BY <2>1
      <3> QED
        BY <2>1, <3>1, <3>2, <3>3
    <2>3. \A k \in 1 .. Len(s) : s[k].orders \in Seq(U)
      BY <2>2
    <2>4. /\ Append(s, l) \in Seq(AnyLevels) /\ Len(Append(s, l)) = Len(s) + 1
          /\ \A k \in 1 .. Len(s) : Append(s, l)[k] = s[k]
          /\ Append(s, l)[Len(s) + 1] = l
          /\ \A k \in 1 .. Len(s) + 1 : k \in 1 .. Len(s) \/ k = Len(s) + 1
      BY AppendProperties
    <2> QED
      BY <2>2, <2>3, <2>4
  <1> HIDE DEF P
  <1>3. list \in P
    BY <1>1, <1>2, EveryList
  <1> QED
    BY <1>3 DEF P

(* The orders of a valid side are of that side.                             *)
LEMMA SideValidGives ==
  ASSUME NEW side \in Seq(PricedLevels), NEW which, SideValid(side, which)
  PROVE  OrdersOf(side) \in Seq(OfSide(which))
  <1> DEFINE L == {l \in PricedLevels : l.orders \in Seq(OfSide(which))}
  <1>1. ASSUME NEW k \in 1 .. Len(side)
        PROVE  side[k].orders \in Seq(OfSide(which))
    <2>1. side[k].orders \in Seq(Orders) /\ k \in DOMAIN side
      BY LevelFacts
    <2>2. \A j \in 1 .. Len(side[k].orders) : side[k].orders[j].side = which
      BY <2>1 DEF SideValid
    <2>3. \A j \in 1 .. Len(side[k].orders) : side[k].orders[j] \in OfSide(which)
      BY <2>1, <2>2 DEF OfSide
    <2> QED
      BY <2>1, <2>3
  <1>2. side \in Seq(L) /\ \A l \in L : l.orders \in Seq(OfSide(which))
    BY <1>1
  <1> HIDE DEF L
  <1> QED
    BY <1>2, OrdersType

(* A side in order that holds only its own orders is valid.                 *)
LEMMA SideValidIf ==
  ASSUME NEW side \in Seq(PricedLevels), NEW which \in {Buy, Sell},
         SortedSide(side, which = Buy), OrdersOf(side) \in Seq(OfSide(which))
  PROVE  SideValid(side, which)
  <1>1. side \in Seq(AnyLevels) /\ DOMAIN side = 1 .. Len(side)
    BY LevelFacts
  <1>2. \A k \in 1 .. Len(side) : side[k].orders \in Seq(OfSide(which))
    BY <1>1, OrdersIn
  <1>3. \A l \in PricedLevels : l.orders # <<>>
    BY LevelFacts
  <1>4. \A k \in 1 .. Len(side) : side[k].orders # <<>>
    BY <1>3
  <1>5. \A o \in OfSide(which) : o.side = which /\ o.quantity > 0
    BY OrderFacts DEF OfSide
  <1>6. ASSUME NEW k \in DOMAIN side, NEW j \in DOMAIN side[k].orders
        PROVE  side[k].orders[j].side = which /\ side[k].orders[j].quantity > 0
    BY <1>1, <1>2, <1>5
  <1>7. ASSUME NEW k \in 1 .. Len(side) - 1
        PROVE  better(which = Buy, side[k].price, side[k + 1].price)
    <2>1. k \in 1 .. Len(side) /\ k + 1 \in 1 .. Len(side) /\ k < k + 1
      OBVIOUS
    <2> QED
      BY <2>1 DEF SortedSide
  <1> QED
    BY <1>1, <1>4, <1>6, <1>7 DEF SideValid

(* The ids are unique over the orders of both sides.                        *)
LEMMA UniqueIdsAre ==
  ASSUME NEW b \in Seq(PricedLevels), NEW a \in Seq(PricedLevels)
  PROVE  /\ OrdersOf(b) \in Seq(Orders) /\ OrdersOf(a) \in Seq(Orders)
         /\ UniqueOrderIds(b, a) <=> UniqueIn(OrdersOf(b) \o OrdersOf(a))
  <1>1. \A l \in PricedLevels : l.orders \in Seq(Orders)
    BY LevelFacts
  <1>2. OrdersOf(b) \in Seq(Orders) /\ OrdersOf(a) \in Seq(Orders)
    BY <1>1, OrdersType
  <1>3. DOMAIN (OrdersOf(b) \o OrdersOf(a)) = 1 .. Len(OrdersOf(b) \o OrdersOf(a))
    BY <1>2
  <1> QED
    BY <1>2, <1>3 DEF UniqueOrderIds, UniqueIn, Concat

(* A book is valid if its sides are in order and hold their own orders, no  *)
(* id twice, and no bid level reaches an ask level.                         *)
LEMMA BookValidIf ==
  ASSUME NEW b \in Seq(PricedLevels), NEW a \in Seq(PricedLevels),
         SortedSide(b, TRUE), SortedSide(a, FALSE),
         OrdersOf(b) \in Seq(OfSide(Buy)), OrdersOf(a) \in Seq(OfSide(Sell)),
         UniqueIn(OrdersOf(b) \o OrdersOf(a)),
         \A j \in 1 .. Len(b), k \in 1 .. Len(a) : b[j].price < a[k].price
  PROVE  BookValid(b, a)
  <1>1. (Buy = Buy) = TRUE /\ (Sell = Buy) = FALSE
    BY DEF Buy, Sell
  <1>2. SideValid(b, Buy)
    BY <1>1, SideValidIf
  <1>3. SideValid(a, Sell)
    BY <1>1, SideValidIf
  <1>4. UniqueOrderIds(b, a)
    BY UniqueIdsAre
  <1>5. b # <<>> /\ a # <<>> => Head(b).price < Head(a).price
    <2>1. \A s \in Seq(PricedLevels) : s # <<>> => Head(s) = s[1] /\ 1 \in 1 .. Len(s)
      OBVIOUS
    <2> QED
      BY <2>1
  <1> QED
    BY <1>2, <1>3, <1>4, <1>5 DEF BookValid

(* What a valid book is.                                                    *)
LEMMA BookValidGives ==
  ASSUME NEW b \in Seq(PricedLevels), NEW a \in Seq(PricedLevels), BookValid(b, a)
  PROVE  /\ SortedSide(b, TRUE) /\ SortedSide(a, FALSE)
         /\ OrdersOf(b) \in Seq(OfSide(Buy))
         /\ OrdersOf(a) \in Seq(OfSide(Sell))
         /\ UniqueIn(OrdersOf(b) \o OrdersOf(a))
  <1>1. SideValid(b, Buy) /\ SideValid(a, Sell) /\ UniqueOrderIds(b, a)
    BY DEF BookValid
  <1>2. (Buy = Buy) = TRUE /\ (Sell = Buy) = FALSE
    BY DEF Buy, Sell
  <1>3. SortedSide(b, Buy = Buy) /\ SortedSide(a, Sell = Buy)
    BY <1>1, SideValidSorted
  <1> QED
    BY <1>1, <1>2, <1>3, SideValidGives, UniqueIdsAre

(* What is left of a list without duplicate ids has none.                   *)
LEMMA FilterUnique ==
  ASSUME NEW list \in Seq(Orders), NEW Pred, UniqueIn(list)
  PROVE  UniqueIn(Filter(list, Pred))
  <1> DEFINE F(s) == Filter(s, Pred)
             From(s) == \A k \in 1 .. Len(F(s)) :
                          \E j \in 1 .. Len(s) : F(s)[k] = s[j]
             P == {s \in Seq(Orders) :
                     /\ F(s) \in Seq(Orders) /\ From(s)
                     /\ UniqueIn(s) => UniqueIn(F(s))}
  <1>1. <<>> \in P
    <2>1. <<>> \in Seq(Orders) /\ Len(<<>>) = 0 /\ F(<<>>) = <<>>
      BY FilterEmpty
    <2>2. UniqueIn(<<>>) /\ From(<<>>)
      <3> HIDE DEF F
      <3> QED
        BY <2>1 DEF UniqueIn
    <2> HIDE DEF F, From
    <2> QED
      BY <2>1, <2>2
  <1>2. \A s \in Seq(Orders), x \in Orders : s \in P => Append(s, x) \in P
    <2> SUFFICES ASSUME NEW s \in Seq(Orders), NEW x \in Orders, s \in P
                 PROVE  Append(s, x) \in P
      OBVIOUS
    <2> DEFINE more == Append(s, x)
               f == F(s)
               g == F(more)
    <2>1. /\ f \in Seq(Orders)
          /\ UniqueIn(s) => UniqueIn(f)
          /\ \A k \in 1 .. Len(f) : \E j \in 1 .. Len(s) : f[k] = s[j]
      OBVIOUS
    <2>2. g = IF x \in Pred THEN Append(f, x) ELSE f
      BY FilterAppend
    <2> HIDE DEF P, F
    <2>3. /\ more \in Seq(Orders) /\ Len(more) = Len(s) + 1 /\ Len(s) \in Nat
          /\ \A k \in 1 .. Len(s) : more[k] = s[k] /\ k \in 1 .. Len(s) + 1
          /\ more[Len(s) + 1] = x /\ Len(s) + 1 \in 1 .. Len(s) + 1
          /\ \A k \in 1 .. Len(s) : k # Len(s) + 1
      BY AppendProperties
    <2>4. UniqueIn(more) => /\ UniqueIn(s)
                            /\ \A k \in 1 .. Len(s) : s[k].id # x.id
      BY <2>3 DEF UniqueIn
    <2> HIDE DEF f, g, more
    <2>5. /\ Append(f, x) \in Seq(Orders) /\ Len(Append(f, x)) = Len(f) + 1
          /\ \A k \in 1 .. Len(f) : Append(f, x)[k] = f[k]
          /\ Append(f, x)[Len(f) + 1] = x
          /\ \A k \in 1 .. Len(f) + 1 : k \in 1 .. Len(f) \/ k = Len(f) + 1
      <3>1. f \in Seq(Orders) /\ Len(f) \in Nat
        BY <2>1
      <3>2. /\ Append(f, x) \in Seq(Orders) /\ Len(Append(f, x)) = Len(f) + 1
            /\ \A k \in 1 .. Len(f) : Append(f, x)[k] = f[k]
            /\ Append(f, x)[Len(f) + 1] = x
        BY <3>1, AppendProperties
      <3>3. \A k \in 1 .. Len(f) + 1 : k \in 1 .. Len(f) \/ k = Len(f) + 1
        BY <3>1
      <3> QED
        BY <3>2, <3>3
    <2>6. /\ g \in Seq(Orders)
          /\ \A k \in 1 .. Len(g) : \E j \in 1 .. Len(more) : g[k] = more[j]
      BY <2>1, <2>2, <2>3, <2>5
    <2>7. UniqueIn(more) => UniqueIn(g)
      <3>1. CASE x \notin Pred
        BY <2>1, <2>2, <2>4, <3>1
      <3>2. CASE x \in Pred
        <4> SUFFICES ASSUME UniqueIn(more),
                            NEW j \in 1 .. Len(f) + 1, NEW k \in 1 .. Len(f) + 1,
                            Append(f, x)[j].id = Append(f, x)[k].id
                     PROVE  j = k
          <5>1. g = Append(f, x) /\ Len(g) = Len(f) + 1
            BY <2>2, <2>5, <3>2
          <5> QED
            BY <5>1 DEF UniqueIn
        <4>1. UniqueIn(f)
          BY <2>1, <2>4
        <4>2. \A i \in 1 .. Len(f) : f[i].id # x.id
          <5> SUFFICES ASSUME NEW i \in 1 .. Len(f) PROVE f[i].id # x.id
            OBVIOUS
          <5>1. PICK h \in 1 .. Len(s) : f[i] = s[h]
            BY <2>1
          <5> QED
            BY <2>4, <5>1
        <4>3. CASE j \in 1 .. Len(f) /\ k \in 1 .. Len(f)
          BY <2>5, <4>1, <4>3 DEF UniqueIn
        <4>4. CASE j = Len(f) + 1 /\ k = Len(f) + 1
          BY <4>4
        <4> QED
          BY <2>5, <4>2, <4>3, <4>4
      <3> QED
        BY <3>1, <3>2
    <2> QED
      BY <2>3, <2>6, <2>7 DEF P, F, f, g, more
  <1> HIDE DEF P
  <1>3. list \in P
    BY <1>1, <1>2, EveryList
  <1> QED
    BY <1>3 DEF P

(* A cancel, side by side, and the book it leaves.                          *)
LEMMA CancelIsExact ==
  ASSUME CtInv, NEW id \in OrderIds, Cancel(id)
  PROVE  /\ BookValid(bids', asks')
         /\ OrdersOf(bids') = Filter(OrdersOf(bids), OthersThan(id))
         /\ OrdersOf(asks') = Filter(OrdersOf(asks), OthersThan(id))
  <1>1. bids \in Seq(PricedLevels) /\ asks \in Seq(PricedLevels)
    BY DEF CtInv
  <1>2. BookValid(bids, asks) /\ bids' = CancelOrderFromSide(bids, id)
        /\ asks' = CancelOrderFromSide(asks, id)
    BY DEF Cancel
  <1>3. /\ SortedSide(bids, TRUE) /\ SortedSide(asks, FALSE)
        /\ OrdersOf(bids) \in Seq(OfSide(Buy))
        /\ OrdersOf(asks) \in Seq(OfSide(Sell))
        /\ UniqueIn(OrdersOf(bids) \o OrdersOf(asks))
    BY <1>2, BookValidGives DEF CtInv
  <1>4. /\ bids' \in Seq(PricedLevels) /\ SortedSide(bids', TRUE)
        /\ OrdersOf(bids') = Filter(OrdersOf(bids), OthersThan(id))
    BY <1>1, <1>2, <1>3, CancelSide
  <1>5. /\ asks' \in Seq(PricedLevels) /\ SortedSide(asks', FALSE)
        /\ OrdersOf(asks') = Filter(OrdersOf(asks), OthersThan(id))
    BY <1>1, <1>2, <1>3, CancelSide
  <1>6. ASSUME NEW which, NEW list \in Seq(OfSide(which))
        PROVE  Filter(list, OthersThan(id)) \in Seq(OfSide(which))
    <2> DEFINE U == OfSide(which)
               K == U \cap OthersThan(id)
    <2>1. K \subseteq U
      OBVIOUS
    <2>2. Filter(list, OthersThan(id)) \in Seq(K)
      BY FilterType
    <2> HIDE DEF K, U
    <2>3. Filter(list, OthersThan(id)) \in Seq(U)
      BY <2>1, <2>2
    <2> QED
      BY <2>3 DEF U
  <1>7. OrdersOf(bids') \in Seq(OfSide(Buy)) /\ OrdersOf(asks') \in Seq(OfSide(Sell))
    BY <1>3, <1>4, <1>5, <1>6
  <1>8. UniqueIn(OrdersOf(bids') \o OrdersOf(asks'))
    <2> DEFINE b == OrdersOf(bids)
               a == OrdersOf(asks)
               all == b \o a
    <2>1. b \in Seq(Orders) /\ a \in Seq(Orders)
      BY <1>1, UniqueIdsAre
    <2>2. UniqueIn(all)
      BY <1>3
    <2> HIDE DEF b, a
    <2>3. all \in Seq(Orders) /\ Filter(all, OthersThan(id)) =
            Filter(b, OthersThan(id)) \o Filter(a, OthersThan(id))
      BY <2>1, FilterConcat
    <2> HIDE DEF all
    <2>4. UniqueIn(Filter(all, OthersThan(id)))
      BY <2>2, <2>3, FilterUnique
    <2> QED
      BY <1>4, <1>5, <2>3, <2>4 DEF b, a
  <1>9. \A j \in 1 .. Len(bids'), k \in 1 .. Len(asks') :
          bids'[j].price < asks'[k].price
    <2>1. CtUncrossed'
      BY CancelKeepsInv DEF CtInv
    <2>2. DOMAIN bids' = 1 .. Len(bids') /\ DOMAIN asks' = 1 .. Len(asks')
      BY <1>4, <1>5
    <2> QED
      BY <2>1, <2>2 DEF CtUncrossed
  <1>10. BookValid(bids', asks')
    BY <1>3, <1>4, <1>5, <1>7, <1>8, <1>9, BookValidIf
  <1> QED
    BY <1>4, <1>5, <1>10

(* CancelExact: a cancel takes the orders of that id out of both sides, and *)
(* nothing else; the others keep their order, and the book is valid.        *)
THEOREM CancelIsExactAlways == CtSpec => CancelExact
  <1>1. ASSUME CtInv, CtInv', [CtNext]_ctVars
        PROVE  [\A id \in OrderIds : Cancel(id) =>
                 /\ BookValid(bids', asks')
                 /\ \A side \in {Buy, Sell} :
                      OrdersOf(SideOf(side)') =
                        Filter(OrdersOf(SideOf(side)),
                               {o \in Orders : o.id /= id})]_ctVars
    BY <1>1, CancelIsExact DEF SideOf, OthersThan, Buy, Sell
  <1>2. CtSpec => []CtInv
    BY InvHolds
  <1> QED
    BY <1>1, <1>2, PTL DEF CtSpec, CancelExact

-----------------------------------------------------------------------------
(* Sums over lists                                                          *)

Weighted(list, w) == [k \in DOMAIN list |-> w[list[k]]]

(* The weights of two lists, one behind the other, add up.                  *)
LEMMA WeightedConcat ==
  ASSUME NEW T, NEW w \in [T -> Int], NEW s \in Seq(T), NEW t \in Seq(T)
  PROVE  /\ Weighted(s, w) \in Seq(Int)
         /\ SumOf(Weighted(s \o t, w)) =
              SumOf(Weighted(s, w)) + SumOf(Weighted(t, w))
  <1> DEFINE a == Weighted(s, w)
             b == Weighted(t, w)
             c == Weighted(s \o t, w)
  <1>1. a \in Seq(Int) /\ Len(a) = Len(s) /\ \A k \in 1 .. Len(s) : a[k] = w[s[k]]
    BY DEF Weighted
  <1>2. b \in Seq(Int) /\ Len(b) = Len(t) /\ \A k \in 1 .. Len(t) : b[k] = w[t[k]]
    BY DEF Weighted
  <1>3. /\ s \o t \in Seq(T) /\ Len(s \o t) = Len(s) + Len(t)
        /\ \A i \in 1 .. Len(s) + Len(t) :
             (s \o t)[i] = IF i <= Len(s) THEN s[i] ELSE t[i - Len(s)]
    BY ConcatProperties
  <1>4. c \in Seq(Int) /\ Len(c) = Len(s) + Len(t)
        /\ \A k \in 1 .. Len(s) + Len(t) : c[k] = w[(s \o t)[k]]
    BY <1>3 DEF Weighted
  <1> HIDE DEF a, b, c
  <1>5. /\ a \o b \in Seq(Int) /\ Len(a \o b) = Len(a) + Len(b)
        /\ \A i \in 1 .. Len(a) + Len(b) :
             (a \o b)[i] = IF i <= Len(a) THEN a[i] ELSE b[i - Len(a)]
    BY <1>1, <1>2, ConcatProperties
  <1>6. \A i \in 1 .. Len(c) : c[i] = (a \o b)[i]
    <2> SUFFICES ASSUME NEW i \in 1 .. Len(s) + Len(t) PROVE c[i] = (a \o b)[i]
      BY <1>4
    <2>1. Len(s) \in Nat /\ Len(t) \in Nat
      OBVIOUS
    <2>2. CASE i <= Len(s)
      <3>1. i \in 1 .. Len(s)
        BY <2>1, <2>2
      <3> QED
        BY <1>1, <1>2, <1>3, <1>4, <1>5, <2>2, <3>1
    <2>3. CASE ~(i <= Len(s))
      <3>1. i - Len(s) \in 1 .. Len(t)
        BY <2>1, <2>3
      <3>2. (a \o b)[i] = b[i - Len(s)]
        BY <1>1, <1>2, <1>5, <2>3
      <3> QED
        BY <1>2, <1>3, <1>4, <2>3, <3>1, <3>2
    <2> QED
      BY <2>2, <2>3
  <1>7. c = a \o b
    BY <1>1, <1>2, <1>4, <1>5, <1>6, SeqEqual
  <1>8. SumOf(a \o b) = SumOf(a) + SumOf(b)
    BY <1>1, <1>2, SumConcat
  <1> QED
    BY <1>1, <1>7, <1>8 DEF a, b, c

(* The weight of no element and of one.                                     *)
LEMMA WeightedShort ==
  ASSUME NEW T, NEW w \in [T -> Int]
  PROVE  /\ SumOf(Weighted(<<>>, w)) = 0
         /\ \A x \in T : SumOf(Weighted(<<x>>, w)) = w[x]
  <1>1. Weighted(<<>>, w) = <<>>
    BY DEF Weighted
  <1>2. ASSUME NEW x \in T
        PROVE  SumOf(Weighted(<<x>>, w)) = w[x]
    <2>1. Weighted(<<x>>, w) = <<w[x]>> /\ w[x] \in Int
      BY DEF Weighted
    <2> QED
      BY <2>1, SumOne
  <1> QED
    BY <1>1, <1>2, SumEmpty

(* The quantities of two lists of orders add up.                            *)
LEMMA TotalConcat ==
  ASSUME NEW s \in Seq(Orders), NEW t \in Seq(Orders)
  PROVE  /\ TotalQuantity(s \o t) = TotalQuantity(s) + TotalQuantity(t)
         /\ TotalQuantity(s) \in Nat
  <1> DEFINE w == [o \in Orders |-> o.quantity]
  <1>1. w \in [Orders -> Int]
    BY OrderFacts
  <1>2. \A list \in Seq(Orders) : TotalQuantity(list) = SumOf(Weighted(list, w))
    <2> SUFFICES ASSUME NEW list \in Seq(Orders)
                 PROVE  TotalQuantity(list) = SumOf(Weighted(list, w))
      OBVIOUS
    <2>1. \A k \in DOMAIN list : list[k] \in Orders
      OBVIOUS
    <2>2. [k \in DOMAIN list |-> list[k].quantity] = Weighted(list, w)
      BY <2>1 DEF Weighted
    <2> QED
      BY <2>2 DEF TotalQuantity
  <1>3. TotalQuantity(s) \in Nat
    <2>1. [k \in DOMAIN s |-> s[k].quantity] \in Seq(Nat)
      <3>1. \A k \in 1 .. Len(s) : s[k].quantity \in Nat
        BY OrderFacts
      <3> QED
        BY <3>1
    <2> QED
      BY <2>1, SumNat DEF TotalQuantity
  <1>4. s \o t \in Seq(Orders)
    OBVIOUS
  <1> HIDE DEF w
  <1>5. SumOf(Weighted(s \o t, w)) = SumOf(Weighted(s, w)) + SumOf(Weighted(t, w))
    BY <1>1, WeightedConcat
  <1> QED
    BY <1>2, <1>3, <1>4, <1>5

(* The quantity of a single order.                                          *)
LEMMA TotalOne ==
  ASSUME NEW o \in Orders
  PROVE  TotalQuantity(<<o>>) = o.quantity
  <1>1. [k \in DOMAIN <<o>> |-> <<o>>[k].quantity] = <<o.quantity>>
        /\ o.quantity \in Int
    BY OrderFacts
  <1> QED
    BY <1>1, SumOne DEF TotalQuantity

(* No order has no quantity.                                                *)
LEMMA TotalEmpty == TotalQuantity(<<>>) = 0
  BY SumEmpty DEF TotalQuantity

(* What stands before the orders of a queue.                                *)
LEMMA BeforeFacts ==
  ASSUME NEW list \in Seq(Orders)
  PROVE  /\ Before(list, 1) = 0
         /\ \A k \in 1 .. Len(list) + 1 : Before(list, k) \in Nat
         /\ \A k \in 1 .. Len(list) :
              Before(list, k + 1) = Before(list, k) + list[k].quantity
         /\ \A j, k \in 1 .. Len(list) + 1 :
              j <= k => Before(list, j) <= Before(list, k)
  <1> DEFINE n == Len(list)
  <1>0. n \in Nat
    OBVIOUS
  <1>1. Before(list, 1) = 0
    <2>1. SubSeq(list, 1, 1 - 1) = <<>>
      BY SubSeqEmpty
    <2> QED
      BY <2>1, TotalEmpty DEF Before
  <1>2. \A k \in 1 .. n + 1 : Before(list, k) \in Nat
    <2> SUFFICES ASSUME NEW k \in 1 .. n + 1 PROVE Before(list, k) \in Nat
      OBVIOUS
    <2>1. SubSeq(list, 1, k - 1) \in Seq(Orders)
      OBVIOUS
    <2> QED
      BY <2>1, TotalConcat DEF Before
  <1>3. \A k \in 1 .. n : Before(list, k + 1) = Before(list, k) + list[k].quantity
    <2> SUFFICES ASSUME NEW k \in 1 .. n
                 PROVE  Before(list, k + 1) = Before(list, k) + list[k].quantity
      OBVIOUS
    <2> DEFINE u == SubSeq(list, 1, k - 1)
    <2>1. u \in Seq(Orders) /\ list[k] \in Orders /\ <<list[k]>> \in Seq(Orders)
      OBVIOUS
    <2>2. SubSeq(list, 1, k + 1 - 1) = u \o <<list[k]>>
      OBVIOUS
    <2> HIDE DEF u
    <2>3. TotalQuantity(u \o <<list[k]>>) = TotalQuantity(u) + TotalQuantity(<<list[k]>>)
      BY <2>1, TotalConcat
    <2>4. TotalQuantity(<<list[k]>>) = list[k].quantity
      BY <2>1, TotalOne
    <2>5. Before(list, k) = TotalQuantity(u)
          /\ Before(list, k + 1) = TotalQuantity(SubSeq(list, 1, k + 1 - 1))
      BY DEF Before, u
    <2> QED
      BY <2>2, <2>3, <2>4, <2>5
  <1>4. \A j, k \in 1 .. n + 1 : j <= k => Before(list, j) <= Before(list, k)
    <2> SUFFICES ASSUME NEW j \in 1 .. n + 1, NEW k \in 1 .. n + 1, j <= k
                 PROVE  Before(list, j) <= Before(list, k)
      OBVIOUS
    <2> DEFINE u == SubSeq(list, 1, j - 1)
               v == SubSeq(list, j, k - 1)
    <2>1. u \in Seq(Orders) /\ v \in Seq(Orders)
      OBVIOUS
    <2>2. SubSeq(list, 1, k - 1) = u \o v
      <3>1. 1 \in 1 .. n + 1 /\ j - 1 \in 1 - 1 .. n /\ k - 1 \in j - 1 .. n
            /\ j - 1 + 1 = j
        BY <1>0
      <3>2. SubSeq(list, 1, j - 1) \o SubSeq(list, j - 1 + 1, k - 1)
              = SubSeq(list, 1, k - 1)
        BY <3>1, ConcatAdjacentSubSeq
      <3> QED
        BY <3>1, <3>2
    <2> HIDE DEF u, v
    <2>3. TotalQuantity(u \o v) = TotalQuantity(u) + TotalQuantity(v)
          /\ TotalQuantity(u) \in Nat /\ TotalQuantity(v) \in Nat
      BY <2>1, TotalConcat
    <2>4. Before(list, j) = TotalQuantity(u)
          /\ Before(list, k) = TotalQuantity(SubSeq(list, 1, k - 1))
      BY DEF Before, u
    <2>5. Before(list, k) = TotalQuantity(u) + TotalQuantity(v)
      BY <2>2, <2>3, <2>4
    <2> DEFINE x == TotalQuantity(u)
               y == TotalQuantity(v)
    <2>6. x \in Nat /\ y \in Nat /\ Before(list, j) = x
          /\ Before(list, k) = x + y
      BY <2>3, <2>4, <2>5
    <2> HIDE DEF x, y
    <2> QED
      BY <2>6
  <1> QED
    BY <1>1, <1>2, <1>3, <1>4

-----------------------------------------------------------------------------
(* What a match has traded                                                  *)

(* The first order of a side, and those behind it.                          *)
LEMMA FirstOrder ==
  ASSUME NEW side \in Seq(PricedLevels), side # <<>>
  PROVE  LET best == Head(side)
         IN /\ OrdersOf(Tail(side)) \in Seq(Orders)
            /\ OrdersOf(side) = best.orders \o OrdersOf(Tail(side))
            /\ best.orders = <<Head(best.orders)>> \o Tail(best.orders)
            /\ Tail(best.orders) \in Seq(Orders)
            /\ \A j \in 1 .. Len(Tail(best.orders)) :
                 Tail(best.orders)[j].price = best.price
            /\ \A level \in AnyLevels :
                 OrdersOf(<<level>> \o Tail(side)) =
                   level.orders \o OrdersOf(Tail(side))
  <1> DEFINE best == Head(side)
             rest == Tail(side)
  <1>1. best \in PricedLevels /\ rest \in Seq(PricedLevels) /\ side = <<best>> \o rest
    OBVIOUS
  <1> HIDE DEF best, rest
  <1>2. best \in AnyLevels /\ rest \in Seq(AnyLevels)
        /\ best.orders \in Seq(Orders) /\ best.orders # <<>>
        /\ \A j \in 1 .. Len(best.orders) : best.orders[j].price = best.price
        /\ \A l \in AnyLevels : l.orders \in Seq(Orders)
    BY <1>1, LevelFacts DEF PricedLevels
  <1>3. \A level \in AnyLevels :
          OrdersOf(<<level>> \o rest) = level.orders \o OrdersOf(rest)
    <2> SUFFICES ASSUME NEW level \in AnyLevels
                 PROVE  OrdersOf(<<level>> \o rest) = level.orders \o OrdersOf(rest)
      OBVIOUS
    <2> DEFINE one == <<level>>
    <2>1. one \in Seq(AnyLevels) /\ level.orders \in Seq(Orders)
      BY <1>2
    <2>2. OrdersOf(one) = level.orders
      BY <2>1, OrdersOne
    <2> HIDE DEF one
    <2>3. OrdersOf(one \o rest) = OrdersOf(one) \o OrdersOf(rest)
      BY <1>2, <2>1, OrdersConcat
    <2> QED
      BY <2>2, <2>3 DEF one
  <1>4. OrdersOf(rest) \in Seq(Orders)
    BY <1>2, OrdersType
  <1>5. /\ best.orders = <<Head(best.orders)>> \o Tail(best.orders)
        /\ Tail(best.orders) \in Seq(Orders)
        /\ \A j \in 1 .. Len(Tail(best.orders)) :
             /\ Tail(best.orders)[j] = best.orders[j + 1]
             /\ j + 1 \in 1 .. Len(best.orders)
    BY <1>2
  <1>6. \A j \in 1 .. Len(Tail(best.orders)) : Tail(best.orders)[j].price = best.price
    BY <1>2, <1>5
  <1> QED
    BY <1>1, <1>2, <1>3, <1>4, <1>5, <1>6 DEF best, rest

(* An order that does not reach the best price of a side reaches none of    *)
(* its orders.                                                              *)
LEMMA OthersUnreached ==
  ASSUME NEW order \in Orders, NEW side \in Seq(PricedLevels),
         SortedSide(side, order.side = Sell),
         side # <<>> => ~crosses(order.side, order.price, Head(side).price),
         NEW Pred, \A o \in Pred : crosses(order.side, order.price, o.price)
  PROVE  Filter(OrdersOf(side), Pred) = <<>>
  <1> DEFINE U == {o \in Orders : ~crosses(order.side, order.price, o.price)}
             L == {l \in PricedLevels : l.orders \in Seq(U)}
             K == U \cap Pred
  <1>1. ASSUME NEW k \in 1 .. Len(side)
        PROVE  side[k].orders \in Seq(U)
    <2>1. side # <<>> /\ side[k] \in PricedLevels
      OBVIOUS
    <2>2. ~crosses(order.side, order.price, side[k].price)
      BY <2>1, BestIsReachedFirst
    <2>3. side[k].orders \in Seq(Orders)
          /\ \A j \in 1 .. Len(side[k].orders) : side[k].orders[j].price = side[k].price
      BY <2>1, LevelFacts DEF PricedLevels
    <2>4. \A j \in 1 .. Len(side[k].orders) : side[k].orders[j] \in U
      BY <2>2, <2>3
    <2> QED
      BY <2>3, <2>4
  <1>2. side \in Seq(L) /\ \A l \in L : l.orders \in Seq(U)
    <2> HIDE DEF U
    <2> QED
      BY <1>1
  <1>3. OrdersOf(side) \in Seq(U)
    <2> HIDE DEF L, U
    <2> QED
      BY <1>2, OrdersType
  <1>4. K = {}
    OBVIOUS
  <1>5. Filter(OrdersOf(side), Pred) \in Seq(K)
    <2> HIDE DEF U
    <2> QED
      BY <1>3, FilterType
  <1> HIDE DEF K
  <1> QED
    BY <1>4, <1>5

SplitAfter(F, t, x, R, X) ==
  /\ t + 1 \in 1 .. Len(F) /\ F[t + 1] = x
  /\ R \o X = SubSeq(F, t + 2, Len(F))
  /\ t + 1 + Len(R) \in t + 1 .. Len(F)
  /\ X = SubSeq(F, t + 1 + Len(R) + 1, Len(F))
  /\ R # <<>> => t + 2 \in 1 .. Len(F) /\ F[t + 2] = R[1]

(* The rest of a list, cut behind its first element and once more.          *)
LEMMA SuffixSplit ==
  ASSUME NEW F \in Seq(Orders), NEW t \in 0 .. Len(F), NEW x \in Orders,
         NEW R \in Seq(Orders), NEW X \in Seq(Orders),
         SubSeq(F, t + 1, Len(F)) = <<x>> \o (R \o X)
  PROVE  SplitAfter(F, t, x, R, X)
  <1> DEFINE N == Len(F)
             rest == R \o X
             all == SubSeq(F, t + 1, N)
  <1>1. N \in Nat /\ t \in Nat /\ t <= N /\ Len(R) \in Nat /\ Len(X) \in Nat
    OBVIOUS
  <1>2. /\ rest \in Seq(Orders) /\ Len(rest) = Len(R) + Len(X)
        /\ \A i \in 1 .. Len(R) + Len(X) :
             rest[i] = IF i <= Len(R) THEN R[i] ELSE X[i - Len(R)]
    BY ConcatProperties
  <1>3. all = <<x>> \o rest
    OBVIOUS
  <1> HIDE DEF rest
  <1>4. /\ Len(all) = Len(rest) + 1 /\ all[1] = x
        /\ \A k \in 1 .. Len(rest) : all[k + 1] = rest[k]
    <2> HIDE DEF all
    <2> QED
      BY <1>2, <1>3, InFront
  <1>5. /\ Len(all) = N - t
        /\ \A i \in 1 .. N - t : all[i] = F[t + i]
    OBVIOUS
  <1> HIDE DEF all, N
  <1>6. Len(rest) = N - t - 1 /\ 1 \in 1 .. N - t /\ Len(X) = N - t - 1 - Len(R)
    <2>1. Len(rest) + 1 = N - t
      BY <1>4, <1>5
    <2>2. Len(rest) = Len(R) + Len(X)
      BY <1>2
    <2> QED
      BY <1>1, <2>1, <2>2
  <1>7. t + 1 \in 1 .. N /\ F[t + 1] = x
    BY <1>1, <1>4, <1>5, <1>6
  <1>8. \A k \in 1 .. Len(rest) : rest[k] = F[t + 1 + k]
    <2> SUFFICES ASSUME NEW k \in 1 .. Len(rest) PROVE rest[k] = F[t + 1 + k]
      OBVIOUS
    <2>1. k + 1 \in 1 .. N - t /\ t + (k + 1) = t + 1 + k
      BY <1>1, <1>6
    <2> QED
      BY <1>4, <1>5, <2>1
  <1>9. rest = SubSeq(F, t + 2, N)
    <2> DEFINE s == SubSeq(F, t + 2, N)
    <2>1. s \in Seq(Orders) /\ Len(s) = N - t - 1
          /\ \A i \in 1 .. N - t - 1 : s[i] = F[t + 1 + i]
      <3>1. /\ \A i \in t + 2 .. N : F[i] \in Orders
            /\ t + 2 \in Int /\ N \in Int
        BY <1>1 DEF N
      <3>2. /\ s \in Seq(Orders)
            /\ Len(s) = IF t + 2 <= N THEN N - (t + 2) + 1 ELSE 0
            /\ \A i \in 1 .. N - (t + 2) + 1 : s[i] = F[t + 2 + i - 1]
        BY <3>1, SubSeqProperties
      <3>3. N - (t + 2) + 1 = N - t - 1 /\ \A i \in Int : t + 2 + i - 1 = t + 1 + i
        BY <1>1
      <3>4. Len(s) = N - t - 1
        BY <1>1, <1>6, <1>2, <3>2
      <3> QED
        BY <3>2, <3>3, <3>4
    <2> HIDE DEF s
    <2>2. rest = s
      BY <1>2, <1>6, <1>8, <2>1, SeqEqual
    <2> QED
      BY <2>2 DEF s
  <1>10. t + 1 + Len(R) \in t + 1 .. N
    BY <1>1, <1>6
  <1>11. X = SubSeq(F, t + 1 + Len(R) + 1, N)
    <2> DEFINE a == t + 1 + Len(R) + 1
               s == SubSeq(F, a, N)
    <2>1. s \in Seq(Orders) /\ Len(s) = Len(X)
          /\ \A i \in 1 .. Len(X) : s[i] = F[t + 1 + Len(R) + i]
      <3>1. a \in Int /\ a >= 1 /\ N \in Int
        BY <1>1
      <3>2. /\ N - a + 1 = Len(X)
            /\ \A i \in 1 .. Len(X) : a + i - 1 = t + 1 + Len(R) + i
        <4>1. N - a + 1 = Len(X)
          BY <1>1, <1>6
        <4>2. \A i \in 1 .. Len(X) : a + i - 1 = t + 1 + Len(R) + i
          BY <1>1
        <4> QED
          BY <4>1, <4>2
      <3>3. \A i \in a .. N : F[i] \in Orders
        BY <3>1 DEF N
      <3> HIDE DEF a
      <3>4. /\ s \in Seq(Orders)
            /\ Len(s) = IF a <= N THEN N - a + 1 ELSE 0
            /\ \A i \in 1 .. N - a + 1 : s[i] = F[a + i - 1]
        BY <3>1, <3>3, SubSeqProperties
      <3>5. Len(s) = Len(X)
        BY <1>1, <3>1, <3>2, <3>4
      <3>6. \A i \in 1 .. Len(X) : s[i] = F[a + i - 1]
        BY <3>2, <3>4
      <3> QED
        BY <3>2, <3>4, <3>5, <3>6
    <2>2. \A i \in 1 .. Len(X) : X[i] = F[t + 1 + Len(R) + i]
      <3> SUFFICES ASSUME NEW i \in 1 .. Len(X) PROVE X[i] = F[t + 1 + Len(R) + i]
        OBVIOUS
      <3> DEFINE k == Len(R) + i
      <3>1. k \in 1 .. Len(rest) /\ k \in 1 .. Len(R) + Len(X)
            /\ ~(k <= Len(R)) /\ k - Len(R) = i
            /\ t + 1 + k = t + 1 + Len(R) + i
        BY <1>1, <1>2
      <3> HIDE DEF k
      <3>2. rest[k] = X[k - Len(R)]
        BY <1>2, <3>1
      <3> QED
        BY <1>8, <3>1, <3>2
    <2> HIDE DEF s
    <2>3. X = s
      BY <2>1, <2>2, SeqEqual
    <2> QED
      BY <2>3 DEF s
  <1>12. R # <<>> => t + 2 \in 1 .. N /\ F[t + 2] = R[1]
    <2> SUFFICES ASSUME R # <<>> PROVE t + 2 \in 1 .. N /\ F[t + 2] = R[1]
      OBVIOUS
    <2>1. Len(R) > 0
      OBVIOUS
    <2>2. 1 \in 1 .. Len(rest) /\ 1 <= Len(R) /\ 1 \in 1 .. Len(R) + Len(X)
          /\ t + 2 \in 1 .. N /\ t + 1 + 1 = t + 2
      BY <1>1, <1>2, <1>6, <2>1
    <2> QED
      BY <1>2, <1>8, <2>2
  <1> QED
    BY <1>7, <1>9, <1>10, <1>11, <1>12 DEF rest, N, SplitAfter

(* The trades of a match so far: in the order F of the side it began with,  *)
(* each for its share.  Either they took those orders whole, and the rest   *)
(* of F is left; or the last of them took a part, which filled the order,   *)
(* and left the others of its level out.                                    *)
TradedInTurn(F, order, trade, k) ==
  /\ trade = TradeWith(order, F[k], Share(F, k, order.quantity))
  /\ Share(F, k, order.quantity) > 0
  /\ crosses(order.side, order.price, F[k].price)

WholeSoFar(F, order, m, t) ==
  /\ m.order.quantity = order.quantity - Before(F, t + 1)
  /\ OrdersOf(m.opp) = SubSeq(F, t + 1, Len(F))
  /\ \A k \in 1 .. t : m.trades[k].quantity = F[k].quantity

PartAtLast(F, order, m, t) ==
  /\ t >= 1
  /\ m.order.quantity = 0
  /\ order.quantity < Before(F, t + 1)
  /\ \A k \in 1 .. t - 1 : m.trades[k].quantity = F[k].quantity
  /\ m.trades[t].quantity = order.quantity - Before(F, t)
  /\ m.trades[t].quantity < F[t].quantity
  /\ \E j \in t .. Len(F) :
       /\ OrdersOf(m.opp) =
            <<OrderWithRemaining(F[t], m.trades[t].quantity)>>
            \o SubSeq(F, j + 1, Len(F))
       /\ j = t \/ (t + 1 \in 1 .. Len(F) /\ F[t + 1].price = F[t].price)

Progress(F, order, m) ==
  LET t == Len(m.trades)
  IN /\ t \in 0 .. Len(F)
     /\ \A k \in 1 .. t : TradedInTurn(F, order, m.trades[k], k)
     /\ WholeSoFar(F, order, m, t) \/ PartAtLast(F, order, m, t)

(* The trades after one trade more.                                         *)
LEMMA AppendTrade ==
  ASSUME NEW s \in Seq(Trades), NEW x
  PROVE  /\ Len(Append(s, x)) = Len(s) + 1
         /\ Append(s, x)[Len(s) + 1] = x
         /\ \A k \in 1 .. Len(s) : Append(s, x)[k] = s[k]
         /\ \A k \in 1 .. Len(s) + 1 : k \in 1 .. Len(s) \/ k = Len(s) + 1
  OBVIOUS

(* A turn keeps the account of the trades.                                  *)
LEMMA TurnProgress ==
  ASSUME NEW order \in Orders, NEW opp, NEW F \in Seq(Orders),
         NEW m \in MatchStates(opp, order), ~MatchEnds(m), Progress(F, order, m),
         NEW next, PartTurn(m, next) \/ WholeTurn(m, next)
  PROVE  Progress(F, order, next)
  <1> DEFINE t == Len(m.trades)
             N == Len(F)
             best == Head(m.opp)
             resting == Head(best.orders)
             R == Tail(best.orders)
             X == OrdersOf(Tail(m.opp))
             q == order.quantity
             r == m.order.quantity
  <1>1. /\ m.opp \in Seq(PricedLevels) /\ m.order \in Rests(order)
        /\ m.trades \in Seq(Trades)
    BY DEF MatchStates
  <1>2. m.opp # <<>> /\ r \in Nat \ {0} /\ q \in Nat
        /\ m.order.id = order.id /\ m.order.side = order.side
        /\ m.order.price = order.price
        /\ crosses(order.side, order.price, best.price)
    BY <1>1, RestFacts, OrderFacts DEF MatchEnds, Crosses
  <1>3. /\ best \in PricedLevels /\ resting \in Orders
        /\ resting.price = best.price
        /\ Level(best.price, R) \in AnyLevels
        /\ \A filled \in Nat : filled < resting.quantity =>
             Level(best.price, <<OrderWithRemaining(resting, filled)>>)
               \in AnyLevels
    <2>1. R \in Seq(Orders) /\ best.price \in InputPrices
      BY <1>1, <1>2, BestFacts, FirstOrder
    <2>2. Level(best.price, R) \in AnyLevels
      BY <2>1 DEF Level, AnyLevels
    <2> QED
      BY <1>1, <1>2, <2>2, BestFacts, LevelFacts
  <1>4. /\ X \in Seq(Orders) /\ R \in Seq(Orders)
        /\ OrdersOf(m.opp) = best.orders \o X
        /\ best.orders = <<resting>> \o R
        /\ \A j \in 1 .. Len(R) : R[j].price = best.price
        /\ \A level \in AnyLevels :
             OrdersOf(<<level>> \o Tail(m.opp)) = level.orders \o X
    BY <1>1, <1>2, FirstOrder
  <1>5. /\ t \in 0 .. N /\ t \in Nat /\ N \in Nat
        /\ \A k \in 1 .. t : TradedInTurn(F, order, m.trades[k], k)
        /\ WholeSoFar(F, order, m, t)
    <2>1. ~PartAtLast(F, order, m, t)
      BY <1>2 DEF PartAtLast
    <2> QED
      BY <2>1 DEF Progress
  <1> HIDE DEF t, N, best, resting, R, X, q, r
  <1>6. OrdersOf(m.opp) = <<resting>> \o (R \o X)
    <2>1. <<resting>> \in Seq(Orders)
      BY <1>3, OneOrder
    <2> DEFINE one == <<resting>>
    <2> HIDE DEF one
    <2>2. (one \o R) \o X = one \o (R \o X)
      BY <1>4, <2>1, ConcatAssociative DEF one
    <2> QED
      BY <1>4, <2>2 DEF one
  <1>7. /\ t + 1 \in 1 .. N /\ F[t + 1] = resting
        /\ R \o X = SubSeq(F, t + 2, N)
        /\ t + 1 + Len(R) \in t + 1 .. N
        /\ X = SubSeq(F, t + 1 + Len(R) + 1, N)
        /\ R # <<>> => t + 2 \in 1 .. N /\ F[t + 2] = R[1]
    <2>1. SubSeq(F, t + 1, N) = <<resting>> \o (R \o X)
      BY <1>5, <1>6 DEF WholeSoFar, N
    <2>2. t \in 0 .. Len(F) /\ SubSeq(F, t + 1, Len(F)) = <<resting>> \o (R \o X)
      BY <1>5, <2>1 DEF N
    <2>3. SplitAfter(F, t, resting, R, X)
      <3>1. resting \in Orders /\ R \in Seq(Orders) /\ X \in Seq(Orders)
        BY <1>3, <1>4
      <3> QED
        BY <2>2, <3>1, SuffixSplit
    <2> QED
      BY <2>3 DEF N, SplitAfter
  <1>8. /\ r = q - Before(F, t + 1) /\ Before(F, t + 1) \in Nat
        /\ Before(F, t + 1 + 1) = Before(F, t + 1) + resting.quantity
        /\ resting.quantity \in Int /\ resting.quantity > 0
        /\ \A k \in 1 .. t : m.trades[k].quantity = F[k].quantity
    <2>1. t + 1 \in 1 .. Len(F) + 1 /\ t + 1 \in 1 .. Len(F)
      BY <1>5, <1>7 DEF N
    <2> QED
      BY <1>3, <1>5, <1>7, <2>1, BeforeFacts, OrderFacts DEF WholeSoFar, r, q
  <1>9. Share(F, t + 1, q) = IF r < resting.quantity THEN r ELSE resting.quantity
    BY <1>2, <1>7, <1>8 DEF Share
  <1>10. ASSUME NEW filled, filled = Share(F, t + 1, q), filled > 0,
                next.trades = Append(m.trades, TradeWith(m.order, resting, filled))
         PROVE  /\ Len(next.trades) = t + 1 /\ t + 1 \in 0 .. N
                /\ \A k \in 1 .. t + 1 : TradedInTurn(F, order, next.trades[k], k)
                /\ next.trades[t + 1].quantity = filled
                /\ \A k \in 1 .. t : next.trades[k].quantity = F[k].quantity
    <2> DEFINE trade == TradeWith(m.order, resting, filled)
    <2>1. trade = TradeWith(order, F[t + 1], filled) /\ trade.quantity = filled
      BY <1>2, <1>7 DEF TradeWith, Trade
    <2>2. TradedInTurn(F, order, trade, t + 1)
      BY <1>2, <1>3, <1>7, <1>10, <2>1 DEF TradedInTurn, q
    <2> HIDE DEF trade
    <2>3. /\ next.trades = Append(m.trades, trade)
          /\ Len(next.trades) = t + 1
          /\ next.trades[t + 1] = trade
          /\ \A k \in 1 .. t : next.trades[k] = m.trades[k]
          /\ \A k \in 1 .. t + 1 : k \in 1 .. t \/ k = t + 1
      BY <1>1, <1>10, AppendTrade DEF trade, t
    <2>4. \A k \in 1 .. t + 1 : TradedInTurn(F, order, next.trades[k], k)
      BY <1>5, <2>2, <2>3
    <2>5. \A k \in 1 .. t : next.trades[k].quantity = F[k].quantity
      BY <1>8, <2>3
    <2>6. t + 1 \in 0 .. N
      BY <1>5, <1>7
    <2> QED
      BY <2>1, <2>3, <2>4, <2>5, <2>6
  <1>11. CASE WholeTurn(m, next)
    <2>1. /\ r >= resting.quantity
          /\ next.opp = IF R = <<>> THEN Tail(m.opp)
                        ELSE <<Level(best.price, R)>> \o Tail(m.opp)
          /\ next.order = OrderWithRemaining(m.order, resting.quantity)
          /\ next.trades =
               Append(m.trades, TradeWith(m.order, resting, resting.quantity))
      BY <1>11 DEF WholeTurn, best, resting, R, r
    <2>2. Share(F, t + 1, q) = resting.quantity
      BY <1>2, <1>8, <1>9, <2>1
    <2>3. /\ Len(next.trades) = t + 1 /\ t + 1 \in 0 .. N
          /\ \A k \in 1 .. t + 1 : TradedInTurn(F, order, next.trades[k], k)
          /\ next.trades[t + 1].quantity = resting.quantity
          /\ \A k \in 1 .. t : next.trades[k].quantity = F[k].quantity
      BY <1>8, <1>10, <2>1, <2>2
    <2>4. OrdersOf(next.opp) = R \o X
      <3>1. CASE R = <<>>
        <4>1. <<>> \o X = X
          BY <1>4
        <4> QED
          BY <2>1, <3>1, <4>1 DEF X
      <3>2. CASE R # <<>>
        <4>1. Level(best.price, R).orders = R
          BY DEF Level
        <4> QED
          BY <1>3, <1>4, <2>1, <3>2, <4>1
      <3> QED
        BY <3>1, <3>2
    <2>5. next.order.quantity = r - resting.quantity
      BY <1>1, <2>1, RestFacts DEF r
    <2>6. next.order.quantity = q - Before(F, t + 1 + 1)
      BY <1>2, <1>8, <2>5
    <2>7. \A k \in 1 .. t + 1 : next.trades[k].quantity = F[k].quantity
      BY <1>5, <1>7, <2>3
    <2>8. t + 1 + 1 = t + 2
      BY <1>5
    <2>9. WholeSoFar(F, order, next, t + 1)
      BY <1>7, <2>4, <2>6, <2>7, <2>8 DEF WholeSoFar, N, q
    <2> QED
      BY <2>3, <2>9 DEF Progress, N
  <1>12. CASE PartTurn(m, next)
    <2> DEFINE left == OrderWithRemaining(resting, r)
    <2>1. /\ r < resting.quantity
          /\ next.opp = <<Level(best.price, <<left>>)>> \o Tail(m.opp)
          /\ next.order = OrderWithRemaining(m.order, r)
          /\ next.trades = Append(m.trades, TradeWith(m.order, resting, r))
      BY <1>12 DEF PartTurn, best, resting, r
    <2>2. r = Share(F, t + 1, q) /\ r > 0
      BY <1>2, <1>9, <2>1
    <2>3. /\ Len(next.trades) = t + 1 /\ t + 1 \in 0 .. N
          /\ \A k \in 1 .. t + 1 : TradedInTurn(F, order, next.trades[k], k)
          /\ next.trades[t + 1].quantity = r
          /\ \A k \in 1 .. t : next.trades[k].quantity = F[k].quantity
      BY <1>10, <2>1, <2>2
    <2>4. OrdersOf(next.opp) = <<left>> \o X
      <3>1. Level(best.price, <<left>>).orders = <<left>>
        BY DEF Level
      <3>2. Level(best.price, <<left>>) \in AnyLevels
        BY <1>2, <1>3, <2>1
      <3> HIDE DEF left
      <3> QED
        BY <1>4, <2>1, <3>1, <3>2
    <2>5. next.order.quantity = 0
      <3>1. next.order.quantity = r - r
        BY <1>1, <2>1, RestFacts DEF r
      <3> QED
        BY <1>2, <3>1
    <2>6. q < Before(F, t + 1 + 1)
      BY <1>2, <1>8, <2>1
    <2> DEFINE j == t + 1 + Len(R)
    <2>7. j = t + 1 \/ (t + 1 + 1 \in 1 .. N /\ F[t + 1 + 1].price = F[t + 1].price)
      <3>1. CASE R = <<>>
        BY <1>5, <3>1
      <3>2. CASE R # <<>>
        <4>1. 1 \in 1 .. Len(R) /\ t + 1 + 1 = t + 2
          BY <1>4, <1>5, <3>2
        <4> QED
          BY <1>3, <1>4, <1>7, <3>2, <4>1
      <3> QED
        BY <3>1, <3>2
    <2>8. OrdersOf(next.opp) =
            <<OrderWithRemaining(F[t + 1], next.trades[t + 1].quantity)>>
            \o SubSeq(F, j + 1, Len(F))
      BY <1>7, <2>3, <2>4 DEF N
    <2>9. j \in t + 1 .. Len(F)
      BY <1>7 DEF N
    <2>10. /\ t + 1 >= 1
           /\ \A k \in 1 .. (t + 1) - 1 : next.trades[k].quantity = F[k].quantity
           /\ next.trades[t + 1].quantity = order.quantity - Before(F, t + 1)
           /\ next.trades[t + 1].quantity < F[t + 1].quantity
      <3>1. t + 1 >= 1 /\ (t + 1) - 1 = t
        BY <1>5
      <3> QED
        BY <1>7, <1>8, <2>1, <2>3, <3>1 DEF q
    <2> HIDE DEF j, left
    <2>11. \E i \in t + 1 .. Len(F) :
             /\ OrdersOf(next.opp) =
                  <<OrderWithRemaining(F[t + 1], next.trades[t + 1].quantity)>>
                  \o SubSeq(F, i + 1, Len(F))
             /\ \/ i = t + 1
                \/ t + 1 + 1 \in 1 .. Len(F) /\ F[t + 1 + 1].price = F[t + 1].price
      BY <2>7, <2>8, <2>9 DEF N
    <2>12. order.quantity < Before(F, t + 1 + 1)
      BY <2>6 DEF q
    <2>13. PartAtLast(F, order, next, t + 1)
      <3> DEFINE u == t + 1
      <3>1. \E i \in u .. Len(F) :
               /\ OrdersOf(next.opp) =
                    <<OrderWithRemaining(F[u], next.trades[u].quantity)>>
                    \o SubSeq(F, i + 1, Len(F))
               /\ i = u \/ (u + 1 \in 1 .. Len(F) /\ F[u + 1].price = F[u].price)
        BY <2>11, Zenon
      <3>2. u >= 1
        BY <2>10
      <3>3. \A k \in 1 .. u - 1 : next.trades[k].quantity = F[k].quantity
        BY <2>10
      <3>4. next.trades[u].quantity = order.quantity - Before(F, u)
        BY <2>10
      <3>5. next.trades[u].quantity < F[u].quantity
        BY <2>10
      <3>6. order.quantity < Before(F, u + 1)
        BY <2>12
      <3> HIDE DEF u
      <3>7. PartAtLast(F, order, next, u)
        BY <2>5, <3>1, <3>2, <3>3, <3>4, <3>5, <3>6, Zenon DEF PartAtLast
      <3> QED
        BY <3>7 DEF u
    <2> QED
      BY <2>3, <2>13 DEF Progress, N
  <1> QED
    BY <1>11, <1>12

(* A match ends with that account.                                          *)
LEMMA MatchProgress ==
  ASSUME NEW order \in Orders, NEW opp \in Seq(PricedLevels),
         SortedSide(opp, order.side = Sell)
  PROVE  Progress(OrdersOf(opp), order, Match(opp, order))
  <1> DEFINE F == OrdersOf(opp)
             S == {m \in MatchStates(opp, order) : Progress(F, order, m)}
             first == [opp |-> opp, order |-> order, trades |-> <<>>]
  <1>1. order.quantity \in Nat /\ F \in Seq(Orders)
    <2>1. \A l \in PricedLevels : l.orders \in Seq(Orders)
      BY LevelFacts
    <2> QED
      BY <2>1, OrdersType, OrderFacts
  <1> HIDE DEF F
  <1>2. first \in S
    <2>1. first \in MatchStates(opp, order)
      <3>1. order \in Rests(order)
        <4>1. order = [order EXCEPT !.quantity = order.quantity]
          BY DEF Orders
        <4>2. order.quantity \in 0 .. order.quantity
          BY <1>1
        <4> QED
          BY <4>1, <4>2 DEF Rests
      <3>2. PricesFrom(opp, opp) /\ <<>> \in Seq(Trades)
        BY DEF PricesFrom
      <3> QED
        BY <3>1, <3>2 DEF MatchStates
    <2>2. /\ first.trades = <<>> /\ first.order = order /\ first.opp = opp
          /\ Len(<<>>) = 0 /\ 0 \in 0 .. Len(F) /\ 0 + 1 = 1
      BY <1>1
    <2>3. Before(F, 1) = 0 /\ SubSeq(F, 1, Len(F)) = F
      BY <1>1, BeforeFacts
    <2> HIDE DEF first
    <2>4. WholeSoFar(F, order, first, 0)
      BY <1>1, <2>2, <2>3 DEF WholeSoFar, F
    <2>5. Progress(F, order, first)
      BY <2>2, <2>4 DEF Progress
    <2> QED
      BY <2>1, <2>5
  <1>3. \A m \in S : m.order.quantity \in Nat
    <2> SUFFICES ASSUME NEW m \in S PROVE m.order.quantity \in Nat
      OBVIOUS
    <2>1. m.order \in Rests(order)
      BY DEF MatchStates
    <2> QED
      BY <2>1, RestFacts
  <1>4. \A m \in S : ~MatchEnds(m) =>
          /\ MatchStep(m) \in S
          /\ MatchStep(m).order.quantity < m.order.quantity
    <2> SUFFICES ASSUME NEW m \in S, ~MatchEnds(m)
                 PROVE  /\ MatchStep(m) \in S
                        /\ MatchStep(m).order.quantity < m.order.quantity
      OBVIOUS
    <2>1. m \in MatchStates(opp, order) /\ Progress(F, order, m)
      OBVIOUS
    <2>2. /\ MatchStep(m) \in MatchStates(opp, order)
          /\ MatchStep(m).order.quantity < m.order.quantity
          /\ PartTurn(m, MatchStep(m)) \/ WholeTurn(m, MatchStep(m))
      BY <2>1, TurnTyped
    <2>3. Progress(F, order, MatchStep(m))
      BY <1>1, <2>1, <2>2, TurnProgress
    <2> QED
      BY <2>2, <2>3
  <1> HIDE DEF S
  <1>5. Match(opp, order) \in S
    BY <1>1, <1>2, <1>3, <1>4, MatchReaches
  <1> QED
    BY <1>5 DEF S, F

(* A list is its first n elements and the others.                           *)
CutAt(list, n, S) ==
  /\ SubSeq(list, 1, n) \in Seq(S)
  /\ Len(SubSeq(list, 1, n)) = n
  /\ \A i \in 1 .. n : SubSeq(list, 1, n)[i] = list[i] /\ i \in 1 .. Len(list)
  /\ SubSeq(list, n + 1, Len(list)) \in Seq(S)
  /\ SubSeq(list, 1, n) \o SubSeq(list, n + 1, Len(list)) = list

(* Every list can be cut at each of its positions.                          *)
LEMMA PrefixOf ==
  ASSUME NEW S, NEW list \in Seq(S), NEW n \in 0 .. Len(list)
  PROVE  CutAt(list, n, S)
  <1>1. SubSeq(list, 1, n) \in Seq(S) /\ SubSeq(list, n + 1, Len(list)) \in Seq(S)
    OBVIOUS
  <1>2. Len(SubSeq(list, 1, n)) = n
        /\ \A i \in 1 .. n : SubSeq(list, 1, n)[i] = list[i] /\ i \in 1 .. Len(list)
    OBVIOUS
  <1>3. 1 \in 1 .. Len(list) + 1 /\ n \in 1 - 1 .. Len(list) /\ Len(list) \in n .. Len(list)
    OBVIOUS
  <1>4. SubSeq(list, 1, n) \o SubSeq(list, n + 1, Len(list)) = SubSeq(list, 1, Len(list))
    BY <1>3, ConcatAdjacentSubSeq
  <1>5. SubSeq(list, 1, Len(list)) = list
    OBVIOUS
  <1> QED
    BY <1>1, <1>2, <1>4, <1>5 DEF CutAt

(* These trades give each order of a queue its share of an incoming order.  *)
AreShares(done, order, queue) ==
  LET last == Cardinality({k \in DOMAIN queue :
                             Share(queue, k, order.quantity) > 0})
  IN done = [k \in 1 .. last |->
       [aggressor |-> order.id, resting |-> queue[k].id,
        price |-> queue[k].price,
        quantity |-> Share(queue, k, order.quantity)]]

(* When a match has ended, the orders it could reach begin with those it    *)
(* traded with, and none of the others has a share.                         *)
LEMMA TradesAreShares ==
  ASSUME NEW order \in Orders, NEW opp \in Seq(PricedLevels),
         NEW m \in MatchStates(opp, order), MatchEnds(m),
         NEW F, F = OrdersOf(opp), Progress(F, order, m),
         NEW queue,
         queue = Filter(F, {o \in Orders : crosses(order.side, order.price, o.price)})
  PROVE  AreShares(m.trades, order, queue)
  <1> DEFINE Pred == {o \in Orders : crosses(order.side, order.price, o.price)}
             t == Len(m.trades)
             q == order.quantity
             head == SubSeq(F, 1, t)
             tail == SubSeq(F, t + 1, Len(F))
             more == Filter(tail, Pred)
             N == Len(queue)
             served == {k \in DOMAIN queue : Share(queue, k, q) > 0}
  <1>1. F \in Seq(Orders) /\ q \in Nat /\ m.trades \in Seq(Trades) /\ t \in Nat
        /\ Len(F) \in Nat
    <2>1. \A l \in PricedLevels : l.orders \in Seq(Orders)
      BY LevelFacts
    <2>2. F \in Seq(Orders)
      BY <2>1, OrdersType
    <2> QED
      BY <2>2, OrderFacts DEF MatchStates
  <1>2. /\ t \in 0 .. Len(F)
        /\ \A k \in 1 .. t : TradedInTurn(F, order, m.trades[k], k)
        /\ WholeSoFar(F, order, m, t) \/ PartAtLast(F, order, m, t)
    BY DEF Progress
  <1>3. /\ head \in Seq(Orders) /\ tail \in Seq(Orders) /\ F = head \o tail
        /\ Len(head) = t /\ \A k \in 1 .. t : head[k] = F[k]
    <2> HIDE DEF t
    <2>1. F \in Seq(Orders) /\ t \in 0 .. Len(F)
      BY <1>1, <1>2
    <2>2. CutAt(F, t, Orders)
      BY <2>1, PrefixOf
    <2> QED
      BY <2>2 DEF CutAt
  <1> HIDE DEF Pred, t, q, head, tail, more
  <1>4. queue = head \o more /\ more \in Seq(Orders)
    <2>1. Filter(head \o tail, Pred) = Filter(head, Pred) \o more
      BY <1>3, FilterConcat DEF more
    <2>2. \A k \in 1 .. t : crosses(order.side, order.price, F[k].price)
      BY <1>2 DEF TradedInTurn
    <2>3. \A k \in 1 .. Len(head) : head[k] \in Pred
      BY <1>3, <2>2 DEF Pred
    <2>4. Filter(head, Pred) = head
      BY <1>3, <2>3, FilterAll
    <2>5. queue = Filter(F, Pred)
      BY DEF Pred
    <2>6. more \in Seq(Orders)
      <3> DEFINE K == Orders \cap Pred
      <3>1. K \subseteq Orders
        OBVIOUS
      <3>2. more \in Seq(K)
        BY <1>3, FilterType DEF more
      <3> HIDE DEF K
      <3> QED
        BY <3>1, <3>2
    <2> QED
      BY <1>3, <2>1, <2>4, <2>5, <2>6
  <1>5. /\ queue \in Seq(Orders) /\ N = t + Len(more) /\ Len(more) \in Nat
        /\ \A k \in 1 .. t : queue[k] = F[k] /\ k \in 1 .. N
    <2>1. /\ queue \in Seq(Orders) /\ Len(queue) = Len(head) + Len(more)
          /\ \A i \in 1 .. Len(head) + Len(more) :
               queue[i] = IF i <= Len(head) THEN head[i] ELSE more[i - Len(head)]
      <3> DEFINE all == head \o more
      <3>1. /\ all \in Seq(Orders) /\ Len(all) = Len(head) + Len(more)
            /\ \A i \in 1 .. Len(head) + Len(more) :
                 all[i] = IF i <= Len(head) THEN head[i] ELSE more[i - Len(head)]
        BY <1>3, <1>4, ConcatProperties
      <3>2. queue = all
        BY <1>4
      <3> HIDE DEF all
      <3> QED
        BY <3>1, <3>2
    <2>2. Len(more) \in Nat
      BY <1>4
    <2>3. \A k \in 1 .. t : k \in 1 .. t + Len(more) /\ k <= t
      BY <1>1, <2>2
    <2> QED
      BY <1>3, <2>1, <2>2, <2>3
  <1>6. \A k \in 1 .. t + 1 : Before(queue, k) = Before(F, k)
    <2> SUFFICES ASSUME NEW k \in 1 .. t + 1 PROVE Before(queue, k) = Before(F, k)
      OBVIOUS
    <2> DEFINE a == SubSeq(queue, 1, k - 1)
               b == SubSeq(F, 1, k - 1)
    <2>1. k - 1 \in 0 .. t /\ \A i \in 1 .. k - 1 : i \in 1 .. t
      BY <1>1
    <2>2. /\ a \in Seq(Orders) /\ Len(a) = k - 1
          /\ \A i \in 1 .. k - 1 : a[i] = queue[i]
      <3>1. k - 1 <= N /\ k - 1 >= 0 /\ k - 1 \in Int
        BY <1>1, <1>5, <2>1
      <3> DEFINE i == k - 1
      <3>2. queue \in Seq(Orders) /\ i \in 0 .. Len(queue)
        BY <1>5, <3>1
      <3> HIDE DEF i
      <3>3. CutAt(queue, i, Orders)
        BY <3>2, PrefixOf
      <3> QED
        BY <3>3 DEF CutAt, i
    <2>3. /\ b \in Seq(Orders) /\ Len(b) = k - 1
          /\ \A i \in 1 .. k - 1 : b[i] = F[i]
      <3>1. k - 1 <= Len(F) /\ k - 1 >= 0 /\ k - 1 \in Int
        BY <1>1, <1>2, <2>1
      <3>2. k - 1 \in 0 .. Len(F)
        BY <3>1
      <3>3. CutAt(F, k - 1, Orders)
        BY <1>1, <3>2, PrefixOf
      <3> QED
        BY <3>3 DEF CutAt
    <2> HIDE DEF a, b
    <2>4. a = b
      BY <1>5, <2>1, <2>2, <2>3, SeqEqual
    <2> QED
      BY <2>4 DEF Before, a, b
  <1>7. \A k \in 1 .. t : Share(queue, k, q) = Share(F, k, q) /\ Share(F, k, q) > 0
    <2> SUFFICES ASSUME NEW k \in 1 .. t
                 PROVE  Share(queue, k, q) = Share(F, k, q) /\ Share(F, k, q) > 0
      OBVIOUS
    <2>1. k \in 1 .. t + 1
      BY <1>1
    <2>2. Share(queue, k, q) = Share(F, k, q)
      BY <1>5, <1>6, <2>1 DEF Share
    <2>3. Share(F, k, q) > 0
      BY <1>2 DEF TradedInTurn, q
    <2> QED
      BY <2>2, <2>3
  <1>8. \A k \in 1 .. N : k > t => Share(queue, k, q) = 0
    <2> SUFFICES ASSUME NEW k \in 1 .. N, k > t PROVE Share(queue, k, q) = 0
      OBVIOUS
    <2>0. t + 1 \in 1 .. N + 1 /\ k \in 1 .. N + 1 /\ t + 1 <= k /\ t + 1 \in 1 .. t + 1
          /\ t + 1 \in 1 .. Len(F) + 1
      BY <1>1, <1>2, <1>5
    <2>1. q <= Before(F, t + 1)
      <3>1. CASE PartAtLast(F, order, m, t)
        <4>1. Before(F, t + 1) \in Nat
          BY <1>1, <2>0, BeforeFacts
        <4> QED
          BY <1>1, <3>1, <4>1 DEF PartAtLast, q
      <3>2. CASE WholeSoFar(F, order, m, t)
        <4>1. m.order.quantity = q - Before(F, t + 1)
              /\ OrdersOf(m.opp) = tail
          BY <3>2 DEF WholeSoFar, q, tail
        <4>2. m.order.quantity = 0
          <5> SUFFICES ASSUME m.order.quantity # 0 PROVE FALSE
            OBVIOUS
          <5>1. m.opp \in Seq(PricedLevels) /\ m.order \in Rests(order)
                /\ SortedSide(m.opp, order.side = Sell)
            BY DEF MatchStates
          <5>2. m.order.side = order.side /\ m.order.price = order.price
            BY <5>1, RestFacts
          <5>3. m.opp # <<>> => ~crosses(order.side, order.price, Head(m.opp).price)
            BY <5>2 DEF MatchEnds, Crosses
          <5>4. Filter(OrdersOf(m.opp), Pred) = <<>>
            <6>1. \A o \in Pred : crosses(order.side, order.price, o.price)
              BY DEF Pred
            <6> QED
              BY <5>1, <5>3, <6>1, OthersUnreached
          <5>5. more = <<>> /\ Len(<<>>) = 0
            BY <4>1, <5>4 DEF more
          <5>6. N = t
            BY <1>1, <1>5, <5>5
          <5> QED
            BY <1>1, <5>6
        <4>3. Before(F, t + 1) \in Nat
          BY <1>1, <2>0, BeforeFacts
        <4> QED
          BY <1>1, <4>1, <4>2, <4>3
      <3> QED
        BY <1>2, <3>1, <3>2
    <2>2. Before(queue, t + 1) = Before(F, t + 1)
      BY <1>6, <2>0
    <2>3. Before(queue, t + 1) <= Before(queue, k)
          /\ Before(queue, k) \in Nat /\ Before(queue, t + 1) \in Nat
      <3>1. /\ \A i \in 1 .. Len(queue) + 1 : Before(queue, i) \in Nat
            /\ \A i, j \in 1 .. Len(queue) + 1 :
                 i <= j => Before(queue, i) <= Before(queue, j)
        BY <1>5, BeforeFacts
      <3> QED
        BY <2>0, <3>1
    <2>4. q - Before(queue, k) <= 0
      BY <1>1, <2>1, <2>2, <2>3
    <2> QED
      BY <2>4 DEF Share
  <1>9. served = 1 .. t
    <2>1. DOMAIN queue = 1 .. N /\ N \in Nat
      BY <1>5
    <2>2. \A k \in 1 .. N : k > t \/ k \in 1 .. t
      BY <1>1, <2>1
    <2>3. \A k \in 1 .. t : k \in DOMAIN queue
      BY <1>5, <2>1
    <2>4. \A k \in DOMAIN queue : Share(queue, k, q) > 0 <=> k \in 1 .. t
      <3> SUFFICES ASSUME NEW k \in 1 .. N
                   PROVE  Share(queue, k, q) > 0 <=> k \in 1 .. t
        BY <2>1
      <3>1. k \in 1 .. t => Share(queue, k, q) > 0
        BY <1>7
      <3>2. k > t => ~(Share(queue, k, q) > 0)
        BY <1>8
      <3>3. k \in 1 .. t => ~(k > t)
        BY <1>1
      <3> QED
        BY <2>2, <3>1, <3>2, <3>3
    <2> QED
      BY <2>3, <2>4
  <1>10. Cardinality(served) = t
    <2>1. Cardinality(1 .. t) = t
      <3>1. Cardinality(1 .. t) = IF 1 > t THEN 0 ELSE t - 1 + 1
        BY <1>1, FS_Interval
      <3> QED
        BY <1>1, <3>1
    <2> QED
      BY <1>9, <2>1
  <1>11. m.trades = [k \in 1 .. t |->
              [aggressor |-> order.id, resting |-> queue[k].id,
               price |-> queue[k].price, quantity |-> Share(queue, k, q)]]
    <2>1. m.trades = [k \in 1 .. t |-> m.trades[k]]
      BY <1>1 DEF t
    <2>2. \A k \in 1 .. t : m.trades[k] =
            [aggressor |-> order.id, resting |-> queue[k].id,
             price |-> queue[k].price, quantity |-> Share(queue, k, q)]
      <3> SUFFICES ASSUME NEW k \in 1 .. t
                   PROVE  m.trades[k] =
                     [aggressor |-> order.id, resting |-> queue[k].id,
                      price |-> queue[k].price, quantity |-> Share(queue, k, q)]
        OBVIOUS
      <3>1. m.trades[k] = TradeWith(order, F[k], Share(F, k, q))
        BY <1>2 DEF TradedInTurn, q
      <3> QED
        BY <1>5, <1>7, <3>1 DEF TradeWith, Trade
    <2> QED
      BY <2>1, <2>2
  <1> HIDE DEF served
  <1>12. m.trades = [k \in 1 .. Cardinality(served) |->
              [aggressor |-> order.id, resting |-> queue[k].id,
               price |-> queue[k].price, quantity |-> Share(queue, k, q)]]
    BY <1>10, <1>11
  <1> QED
    BY <1>12 DEF AreShares, served, q

(* TradesConform: a submit trades with the orders that it reaches, in       *)
(* price-time priority, each for its share and at its own price, and with   *)
(* no other, though every turn rebuilds the best level.                     *)
THEOREM TradesConformAlways == CtSpec => TradesConform
  <1>1. ASSUME CtInv, NEW order \in Orders, Submit(order)
        PROVE  LET queue == Reached(order)
                   share(k) == Share(queue, k, order.quantity)
                   last == Cardinality({k \in DOMAIN queue : share(k) > 0})
               IN trades' = [k \in 1 .. last |->
                    [aggressor |-> order.id, resting |-> queue[k].id,
                     price |-> queue[k].price, quantity |-> share(k)]]
    <2> DEFINE opp == SideOf(opposite(order.side))
               m == Match(opp, order)
    <2>1. opp \in Seq(PricedLevels) /\ SortedSide(opp, order.side = Sell)
      BY <1>1, SubmitSides
    <2>2. trades' = m.trades
      BY <1>1 DEF Submit
    <2>3. Reached(order) =
            Filter(OrdersOf(opp),
                   {o \in Orders : crosses(order.side, order.price, o.price)})
      BY DEF Reached
    <2> HIDE DEF opp
    <2>4. m \in MatchStates(opp, order) /\ MatchEnds(m)
          /\ Progress(OrdersOf(opp), order, m)
      BY <2>1, MatchTyped, MatchProgress
    <2> HIDE DEF m
    <2> DEFINE F == OrdersOf(opp)
               queue == Reached(order)
    <2>5. F = OrdersOf(opp) /\ Progress(F, order, m)
          /\ queue = Filter(F, {o \in Orders : crosses(order.side, order.price, o.price)})
      BY <2>3, <2>4
    <2> HIDE DEF F, queue
    <2>6. AreShares(m.trades, order, queue)
      BY <2>1, <2>4, <2>5, TradesAreShares
    <2> QED
      BY <2>2, <2>6 DEF queue, AreShares
  <1>2. ASSUME CtInv, [CtNext]_ctVars
        PROVE  [\A order \in Orders : Submit(order) =>
                  LET queue == Reached(order)
                      share(k) == Share(queue, k, order.quantity)
                      last == Cardinality({k \in DOMAIN queue : share(k) > 0})
                  IN trades' = [k \in 1 .. last |->
                       [aggressor |-> order.id, resting |-> queue[k].id,
                        price |-> queue[k].price,
                        quantity |-> share(k)]]]_ctVars
    BY <1>1, <1>2
  <1>3. CtSpec => []CtInv
    BY InvHolds
  <1> QED
    BY <1>2, <1>3, PTL DEF CtSpec, TradesConform

-----------------------------------------------------------------------------
(* Ids in use                                                               *)

IdsIn(list) == {list[k].id : k \in 1 .. Len(list)}

(* The places of a concatenation are those of its parts.                    *)
Joined(c, s, t) ==
  /\ Len(s) \in Nat /\ Len(t) \in Nat /\ Len(c) = Len(s) + Len(t)
  /\ \A i \in 1 .. Len(s) : c[i] = s[i] /\ i \in 1 .. Len(c)
  /\ \A i \in 1 .. Len(t) : c[i + Len(s)] = t[i] /\ i + Len(s) \in 1 .. Len(c)
  /\ \A k \in 1 .. Len(c) :
       k \in 1 .. Len(s) \/ \E i \in 1 .. Len(t) : k = i + Len(s)

(* A concatenation joins its parts.                                         *)
LEMMA ConcatJoins ==
  ASSUME NEW T, NEW s \in Seq(T), NEW t \in Seq(T)
  PROVE  s \o t \in Seq(T) /\ Joined(s \o t, s, t)
  <1> DEFINE c == s \o t
  <1>1. Len(s) \in Nat /\ Len(t) \in Nat /\ c \in Seq(T) /\ Len(c) = Len(s) + Len(t)
    OBVIOUS
  <1>2. \A i \in 1 .. Len(s) : c[i] = s[i] /\ i \in 1 .. Len(c)
    OBVIOUS
  <1>3. \A i \in 1 .. Len(t) : c[i + Len(s)] = t[i] /\ i + Len(s) \in 1 .. Len(c)
    OBVIOUS
  <1>4. \A k \in 1 .. Len(c) :
          k \in 1 .. Len(s) \/ \E i \in 1 .. Len(t) : k = i + Len(s)
    <2> SUFFICES ASSUME NEW k \in 1 .. Len(c), k \notin 1 .. Len(s)
                 PROVE  \E i \in 1 .. Len(t) : k = i + Len(s)
      OBVIOUS
    <2>1. k - Len(s) \in 1 .. Len(t) /\ k = (k - Len(s)) + Len(s)
      <3> HIDE DEF c
      <3> QED
        BY <1>1
    <2> QED
      BY <2>1
  <1> QED
    BY <1>1, <1>2, <1>3, <1>4 DEF Joined

(* The ids of a concatenation are those of its parts.                       *)
LEMMA IdsConcat ==
  ASSUME NEW s \in Seq(Orders), NEW t \in Seq(Orders)
  PROVE  IdsIn(s \o t) = IdsIn(s) \cup IdsIn(t)
  <1> DEFINE c == s \o t
  <1>1. Joined(c, s, t)
    BY ConcatJoins
  <1> HIDE DEF c
  <1>2. ASSUME NEW id \in IdsIn(c) PROVE id \in IdsIn(s) \cup IdsIn(t)
    <2>1. PICK k \in 1 .. Len(c) : id = c[k].id
      BY DEF IdsIn
    <2> QED
      BY <1>1, <2>1 DEF IdsIn, Joined
  <1>3. ASSUME NEW id \in IdsIn(s) \cup IdsIn(t) PROVE id \in IdsIn(c)
    <2>1. CASE id \in IdsIn(s)
      <3>1. PICK k \in 1 .. Len(s) : id = s[k].id
        BY <2>1 DEF IdsIn
      <3> QED
        BY <1>1, <3>1 DEF IdsIn, Joined
    <2>2. CASE id \in IdsIn(t)
      <3>1. PICK k \in 1 .. Len(t) : id = t[k].id
        BY <2>2 DEF IdsIn
      <3>2. k + Len(s) \in 1 .. Len(c) /\ c[k + Len(s)].id = id
        BY <1>1, <3>1 DEF Joined
      <3> QED
        BY <3>2 DEF IdsIn
    <2> QED
      BY <2>1, <2>2
  <1> QED
    BY <1>2, <1>3 DEF c

(* A concatenation has no id twice if neither part has and they share none. *)
LEMMA UniqueConcat ==
  ASSUME NEW s \in Seq(Orders), NEW t \in Seq(Orders)
  PROVE  UniqueIn(s \o t) <=>
           UniqueIn(s) /\ UniqueIn(t) /\ IdsIn(s) \cap IdsIn(t) = {}
  <1> DEFINE c == s \o t
  <1>1. Joined(c, s, t)
    BY ConcatJoins
  <1> HIDE DEF c
  <1>2. ASSUME UniqueIn(c)
        PROVE  UniqueIn(s) /\ UniqueIn(t) /\ IdsIn(s) \cap IdsIn(t) = {}
    <2>1. UniqueIn(s)
      BY <1>1, <1>2 DEF UniqueIn, Joined
    <2>2. UniqueIn(t)
      <3> SUFFICES ASSUME NEW j \in 1 .. Len(t), NEW k \in 1 .. Len(t),
                          t[j].id = t[k].id
                   PROVE  j = k
        BY DEF UniqueIn
      <3>1. j + Len(s) = k + Len(s)
        BY <1>1, <1>2 DEF UniqueIn, Joined
      <3>2. Len(s) \in Nat
        BY <1>1 DEF Joined
      <3> QED
        BY <3>1, <3>2
    <2>3. IdsIn(s) \cap IdsIn(t) = {}
      <3> SUFFICES ASSUME NEW j \in 1 .. Len(s), NEW k \in 1 .. Len(t),
                          s[j].id = t[k].id
                   PROVE  FALSE
        BY DEF IdsIn
      <3>1. j = k + Len(s)
        BY <1>1, <1>2 DEF UniqueIn, Joined
      <3>2. Len(s) \in Nat
        BY <1>1 DEF Joined
      <3> QED
        BY <3>1, <3>2
    <2> QED
      BY <2>1, <2>2, <2>3
  <1>3. ASSUME UniqueIn(s), UniqueIn(t), IdsIn(s) \cap IdsIn(t) = {}
        PROVE  UniqueIn(c)
    <2> SUFFICES ASSUME NEW j \in 1 .. Len(c), NEW k \in 1 .. Len(c),
                        c[j].id = c[k].id
                 PROVE  j = k
      BY DEF UniqueIn
    <2>0. \A i \in 1 .. Len(s), h \in 1 .. Len(t) : s[i].id # t[h].id
      BY <1>3 DEF IdsIn
    <2>1. CASE j \in 1 .. Len(s) /\ k \in 1 .. Len(s)
      <3>1. s[j].id = s[k].id
        BY <1>1, <2>1 DEF Joined
      <3> QED
        BY <1>3, <2>1, <3>1 DEF UniqueIn
    <2>2. CASE j \notin 1 .. Len(s) /\ k \notin 1 .. Len(s)
      <3>1. PICK i \in 1 .. Len(t) : j = i + Len(s)
        BY <1>1, <2>2 DEF Joined
      <3>2. PICK h \in 1 .. Len(t) : k = h + Len(s)
        BY <1>1, <2>2 DEF Joined
      <3>3. t[i].id = t[h].id
        BY <1>1, <3>1, <3>2 DEF Joined
      <3> QED
        BY <1>3, <3>1, <3>2, <3>3 DEF UniqueIn
    <2>3. CASE j \in 1 .. Len(s) /\ k \notin 1 .. Len(s)
      <3>1. PICK h \in 1 .. Len(t) : k = h + Len(s)
        BY <1>1, <2>3 DEF Joined
      <3>2. s[j].id = t[h].id
        BY <1>1, <2>3, <3>1 DEF Joined
      <3> QED
        BY <2>0, <2>3, <3>2
    <2>4. CASE j \notin 1 .. Len(s) /\ k \in 1 .. Len(s)
      <3>1. PICK h \in 1 .. Len(t) : j = h + Len(s)
        BY <1>1, <2>4 DEF Joined
      <3>2. s[k].id = t[h].id
        BY <1>1, <2>4, <3>1 DEF Joined
      <3> QED
        BY <2>0, <2>4, <3>2
    <2> QED
      BY <2>1, <2>2, <2>3, <2>4
  <1> QED
    BY <1>2, <1>3 DEF c

(* One order alone.                                                         *)
LEMMA UniqueOne ==
  ASSUME NEW o \in Orders
  PROVE  <<o>> \in Seq(Orders) /\ UniqueIn(<<o>>) /\ IdsIn(<<o>>) = {o.id}
  <1> DEFINE list == <<o>>
  <1>1. list \in Seq(Orders) /\ Len(list) = 1 /\ list[1] = o
    OBVIOUS
  <1>2. 1 .. 1 = {1}
    OBVIOUS
  <1> HIDE DEF list
  <1>3. UniqueIn(list)
    BY <1>1, <1>2 DEF UniqueIn
  <1>4. IdsIn(list) = {o.id}
    BY <1>1, <1>2 DEF IdsIn
  <1> QED
    BY <1>1, <1>3, <1>4 DEF list

(* Between the orders of a list stands one more.                            *)
Inserted(old, x, new) ==
  \E a, b \in Seq(Orders) : old = a \o b /\ new = a \o (<<x>> \o b)

(* An order of a new id among orders without duplicate ids.                 *)
LEMMA InsertedUnique ==
  ASSUME NEW old, NEW x \in Orders, NEW new, Inserted(old, x, new),
         UniqueIn(old), x.id \notin IdsIn(old)
  PROVE  new \in Seq(Orders) /\ UniqueIn(new)
         /\ IdsIn(new) = IdsIn(old) \cup {x.id}
  <1>1. PICK a \in Seq(Orders), b \in Seq(Orders) :
          old = a \o b /\ new = a \o (<<x>> \o b)
    BY DEF Inserted
  <1>2. /\ UniqueIn(a) /\ UniqueIn(b) /\ IdsIn(a) \cap IdsIn(b) = {}
        /\ IdsIn(old) = IdsIn(a) \cup IdsIn(b)
    BY <1>1, UniqueConcat, IdsConcat
  <1> DEFINE one == <<x>>
             c == one \o b
  <1>3. one \in Seq(Orders) /\ UniqueIn(one) /\ IdsIn(one) = {x.id}
    BY UniqueOne
  <1> HIDE DEF one
  <1>4. c \in Seq(Orders)
    BY <1>3, ConcatJoins
  <1>5. UniqueIn(c) /\ IdsIn(c) = {x.id} \cup IdsIn(b)
    <2>1. IdsIn(one) \cap IdsIn(b) = {}
      BY <1>2, <1>3
    <2> QED
      BY <1>2, <1>3, <2>1, UniqueConcat, IdsConcat
  <1>6. new = a \o c
    BY <1>1 DEF one
  <1> HIDE DEF c
  <1>7. IdsIn(a) \cap IdsIn(c) = {}
    BY <1>2, <1>5
  <1>8. new \in Seq(Orders)
    BY <1>4, <1>6, ConcatJoins
  <1>9. UniqueIn(new) /\ IdsIn(new) = IdsIn(a) \cup IdsIn(c)
    BY <1>2, <1>4, <1>5, <1>6, <1>7, UniqueConcat, IdsConcat
  <1> QED
    BY <1>2, <1>5, <1>8, <1>9

(* Conversely, its id is new if the result has no id twice.                 *)
LEMMA InsertedNew ==
  ASSUME NEW old, NEW x \in Orders, NEW new, Inserted(old, x, new), UniqueIn(new)
  PROVE  x.id \notin IdsIn(old) /\ x.id \in IdsIn(new)
  <1>1. PICK a \in Seq(Orders), b \in Seq(Orders) :
          old = a \o b /\ new = a \o (<<x>> \o b)
    BY DEF Inserted
  <1> DEFINE one == <<x>>
             c == one \o b
  <1>2. one \in Seq(Orders) /\ IdsIn(one) = {x.id}
    BY UniqueOne
  <1> HIDE DEF one
  <1>3. c \in Seq(Orders) /\ IdsIn(c) = {x.id} \cup IdsIn(b)
    BY <1>2, ConcatJoins, IdsConcat
  <1>4. UniqueIn(c) <=> UniqueIn(one) /\ UniqueIn(b) /\ IdsIn(one) \cap IdsIn(b) = {}
    BY <1>2, UniqueConcat
  <1>5. new = a \o c
    BY <1>1 DEF one
  <1> HIDE DEF c
  <1>6. /\ UniqueIn(a) /\ UniqueIn(c) /\ IdsIn(a) \cap IdsIn(c) = {}
        /\ IdsIn(new) = IdsIn(a) \cup IdsIn(c)
    BY <1>3, <1>5, UniqueConcat, IdsConcat
  <1>7. IdsIn(old) = IdsIn(a) \cup IdsIn(b)
    BY <1>1, IdsConcat
  <1> QED
    BY <1>2, <1>3, <1>4, <1>6, <1>7

(* ... and among orders of its own side.                                    *)
LEMMA InsertedSide ==
  ASSUME NEW U, U \subseteq Orders, NEW old \in Seq(U), NEW x \in U, NEW new,
         Inserted(old, x, new)
  PROVE  new \in Seq(U)
  <1>1. PICK a \in Seq(Orders), b \in Seq(Orders) :
          old = a \o b /\ new = a \o (<<x>> \o b)
    BY DEF Inserted
  <1>2. Joined(old, a, b)
    BY <1>1, ConcatJoins
  <1>3. \A i \in 1 .. Len(old) : old[i] \in U
    OBVIOUS
  <1>4. a \in Seq(U)
    <2>1. \A i \in 1 .. Len(a) : a[i] \in U
      BY <1>2, <1>3 DEF Joined
    <2> QED
      BY <2>1
  <1>5. b \in Seq(U)
    <2>1. \A i \in 1 .. Len(b) : b[i] \in U
      BY <1>2, <1>3 DEF Joined
    <2> QED
      BY <2>1
  <1> QED
    BY <1>1, <1>4, <1>5

(* What a match leaves of the orders that it began with: no id that was not *)
(* there, and none twice; and all of them are still of their side.          *)
LEMMA MatchLeaves ==
  ASSUME NEW order \in Orders, NEW F \in Seq(Orders), UniqueIn(F), NEW which,
         F \in Seq(OfSide(which)), NEW m, m.trades \in Seq(Trades),
         Progress(F, order, m)
  PROVE  LET list == OrdersOf(m.opp)
         IN /\ list \in Seq(OfSide(which)) /\ list \in Seq(Orders)
            /\ UniqueIn(list) /\ IdsIn(list) \subseteq IdsIn(F)
  <1> DEFINE t == Len(m.trades)
             U == OfSide(which)
  <1>0. U \subseteq Orders
    BY DEF OfSide
  <1>1. /\ t \in 0 .. Len(F) /\ Len(F) \in Nat
        /\ \A k \in 1 .. t : TradedInTurn(F, order, m.trades[k], k)
        /\ WholeSoFar(F, order, m, t) \/ PartAtLast(F, order, m, t)
    BY DEF Progress
  <1>2. ASSUME NEW n \in 0 .. Len(F), NEW rest, rest = SubSeq(F, n + 1, Len(F))
        PROVE  /\ rest \in Seq(U) /\ rest \in Seq(Orders) /\ UniqueIn(rest)
               /\ IdsIn(rest) \subseteq IdsIn(F)
               /\ \A k \in 1 .. n : F[k].id \notin IdsIn(rest)
    <2> DEFINE first == SubSeq(F, 1, n)
    <2>1. CutAt(F, n, Orders) /\ CutAt(F, n, U)
      BY PrefixOf
    <2>2. /\ first \in Seq(Orders) /\ rest \in Seq(Orders) /\ rest \in Seq(U)
          /\ first \o rest = F
      BY <1>2, <2>1 DEF CutAt
    <2>3. Len(first) = n /\ \A k \in 1 .. n : first[k] = F[k]
      BY <2>1 DEF CutAt
    <2> HIDE DEF first
    <2>4. /\ UniqueIn(rest) /\ IdsIn(first) \cap IdsIn(rest) = {}
          /\ IdsIn(F) = IdsIn(first) \cup IdsIn(rest)
      BY <2>2, UniqueConcat, IdsConcat
    <2>5. \A k \in 1 .. n : F[k].id \in IdsIn(first)
      BY <2>3 DEF IdsIn
    <2> QED
      BY <2>2, <2>4, <2>5
  <1> HIDE DEF t, U
  <1>3. CASE WholeSoFar(F, order, m, t)
    <2>1. OrdersOf(m.opp) = SubSeq(F, t + 1, Len(F))
      BY <1>3 DEF WholeSoFar
    <2> QED
      BY <1>1, <1>2, <2>1 DEF U
  <1>4. CASE PartAtLast(F, order, m, t)
    <2>1. PICK j \in t .. Len(F) :
            OrdersOf(m.opp) =
              <<OrderWithRemaining(F[t], m.trades[t].quantity)>>
              \o SubSeq(F, j + 1, Len(F))
      BY <1>4 DEF PartAtLast
    <2> DEFINE left == OrderWithRemaining(F[t], m.trades[t].quantity)
               rest == SubSeq(F, j + 1, Len(F))
               one == <<left>>
    <2>2. t \in 1 .. t /\ t \in 1 .. Len(F) /\ j \in 0 .. Len(F) /\ t \in 1 .. j
      BY <1>1, <1>4 DEF PartAtLast
    <2>3. F[t] \in U /\ F[t] \in Orders /\ F[t].id \in IdsIn(F)
      BY <1>0, <2>2 DEF IdsIn, U
    <2>4. left \in Orders /\ left.id = F[t].id /\ left.side = F[t].side
      <3>1. m.trades[t].quantity < F[t].quantity
        BY <1>4 DEF PartAtLast
      <3>2. m.trades[t].quantity \in Nat
        <4>1. m.trades[t] \in Trades
          BY <2>2 DEF t
        <4> QED
          BY <4>1, OrderFacts DEF Trades
      <3> QED
        BY <2>3, <3>1, <3>2, OrderFacts
    <2>5. left \in U
      BY <2>3, <2>4 DEF U, OfSide
    <2>6. /\ rest \in Seq(U) /\ rest \in Seq(Orders) /\ UniqueIn(rest)
          /\ IdsIn(rest) \subseteq IdsIn(F) /\ F[t].id \notin IdsIn(rest)
      BY <1>2, <2>2
    <2> HIDE DEF left, rest
    <2>7. one \in Seq(Orders) /\ UniqueIn(one) /\ IdsIn(one) = {left.id}
          /\ one \in Seq(U)
      BY <2>4, <2>5, UniqueOne
    <2>8. OrdersOf(m.opp) = one \o rest
      BY <2>1 DEF left, rest
    <2> HIDE DEF one
    <2>9. one \o rest \in Seq(U) /\ one \o rest \in Seq(Orders)
      BY <2>6, <2>7, ConcatJoins
    <2>10. IdsIn(one) \cap IdsIn(rest) = {}
      BY <2>4, <2>6, <2>7
    <2>11. UniqueIn(one \o rest) /\ IdsIn(one \o rest) = IdsIn(one) \cup IdsIn(rest)
      BY <2>6, <2>7, <2>10, UniqueConcat, IdsConcat
    <2>12. IdsIn(one \o rest) \subseteq IdsIn(F)
      BY <2>3, <2>4, <2>6, <2>7, <2>11
    <2> QED
      BY <2>8, <2>9, <2>11, <2>12 DEF U
  <1> QED
    BY <1>1, <1>3, <1>4

(* Two sides one behind the other are in order if each of them is and the   *)
(* first has the better prices.                                             *)
LEMMA SortedConcat ==
  ASSUME NEW T, NEW s \in Seq(T), NEW t \in Seq(T), NEW descending
  PROVE  SortedSide(s \o t, descending) <=>
           /\ SortedSide(s, descending) /\ SortedSide(t, descending)
           /\ \A j \in 1 .. Len(s), k \in 1 .. Len(t) :
                better(descending, s[j].price, t[k].price)
  <1> DEFINE c == s \o t
  <1>1. Joined(c, s, t)
    BY ConcatJoins
  <1>2. Len(s) \in Nat /\ Len(t) \in Nat
    OBVIOUS
  <1> HIDE DEF c
  <1>3. ASSUME SortedSide(c, descending)
        PROVE  /\ SortedSide(s, descending) /\ SortedSide(t, descending)
               /\ \A j \in 1 .. Len(s), k \in 1 .. Len(t) :
                    better(descending, s[j].price, t[k].price)
    <2>1. SortedSide(s, descending)
      BY <1>1, <1>3 DEF SortedSide, Joined
    <2>2. SortedSide(t, descending)
      <3> SUFFICES ASSUME NEW j \in 1 .. Len(t), NEW k \in 1 .. Len(t), j < k
                   PROVE  better(descending, t[j].price, t[k].price)
        BY DEF SortedSide
      <3>1. j + Len(s) < k + Len(s)
        BY <1>2
      <3>2. /\ c[j + Len(s)] = t[j] /\ j + Len(s) \in 1 .. Len(c)
            /\ c[k + Len(s)] = t[k] /\ k + Len(s) \in 1 .. Len(c)
        BY <1>1 DEF Joined
      <3> DEFINE u == j + Len(s)
                 v == k + Len(s)
      <3> HIDE DEF u, v
      <3>3. u \in 1 .. Len(c) /\ v \in 1 .. Len(c) /\ u < v
            /\ c[u] = t[j] /\ c[v] = t[k]
        BY <3>1, <3>2 DEF u, v
      <3> QED
        BY <1>3, <3>3 DEF SortedSide
    <2>3. \A j \in 1 .. Len(s), k \in 1 .. Len(t) :
            better(descending, s[j].price, t[k].price)
      <3> SUFFICES ASSUME NEW j \in 1 .. Len(s), NEW k \in 1 .. Len(t)
                   PROVE  better(descending, s[j].price, t[k].price)
        OBVIOUS
      <3> DEFINE v == k + Len(s)
      <3>1. j < v
        BY <1>2
      <3>2. v \in 1 .. Len(c) /\ j \in 1 .. Len(c) /\ c[v] = t[k] /\ c[j] = s[j]
        BY <1>1 DEF Joined
      <3> HIDE DEF v
      <3> QED
        BY <1>3, <3>1, <3>2 DEF SortedSide
    <2> QED
      BY <2>1, <2>2, <2>3
  <1>4. ASSUME SortedSide(s, descending), SortedSide(t, descending),
               \A j \in 1 .. Len(s), k \in 1 .. Len(t) :
                 better(descending, s[j].price, t[k].price)
        PROVE  SortedSide(c, descending)
    <2> SUFFICES ASSUME NEW j \in 1 .. Len(c), NEW k \in 1 .. Len(c), j < k
                 PROVE  better(descending, c[j].price, c[k].price)
      BY DEF SortedSide
    <2>1. CASE k \in 1 .. Len(s)
      <3>1. j \in 1 .. Len(s)
        BY <1>2, <2>1
      <3>2. c[j] = s[j] /\ c[k] = s[k]
        BY <1>1, <2>1, <3>1 DEF Joined
      <3> QED
        BY <1>4, <2>1, <3>1, <3>2 DEF SortedSide
    <2>2. CASE k \notin 1 .. Len(s)
      <3>1. PICK h \in 1 .. Len(t) : k = h + Len(s)
        BY <1>1, <2>2 DEF Joined
      <3>2. c[k] = t[h]
        BY <1>1, <3>1 DEF Joined
      <3>3. CASE j \in 1 .. Len(s)
        <4>1. c[j] = s[j]
          BY <1>1, <3>3 DEF Joined
        <4> QED
          BY <1>4, <3>2, <3>3, <4>1
      <3>4. CASE j \notin 1 .. Len(s)
        <4>1. PICK i \in 1 .. Len(t) : j = i + Len(s)
          BY <1>1, <3>4 DEF Joined
        <4>2. c[j] = t[i]
          BY <1>1, <4>1 DEF Joined
        <4>3. i < h
          BY <1>2, <3>1, <4>1
        <4> QED
          BY <1>4, <3>2, <4>2, <4>3 DEF SortedSide
      <3> QED
        BY <3>3, <3>4
    <2> QED
      BY <2>1, <2>2
  <1> QED
    BY <1>3, <1>4 DEF c

(* The orders of two sides, one behind the other.                           *)
LEMMA SideConcat ==
  \A s, t \in Seq(PricedLevels) : OrdersOf(s \o t) = OrdersOf(s) \o OrdersOf(t)
  <1>1. \A l \in PricedLevels : l.orders \in Seq(Orders)
    BY LevelFacts
  <1> SUFFICES ASSUME NEW s \in Seq(PricedLevels), NEW t \in Seq(PricedLevels)
               PROVE  OrdersOf(s \o t) = OrdersOf(s) \o OrdersOf(t)
    OBVIOUS
  <1> QED
    BY <1>1, OrdersConcat

(* An order that joins the best level of a side in order, or opens a level, *)
(* leaves the side in order, and its place is between the orders there.     *)
LEMMA JoinsInOrder ==
  ASSUME NEW order \in Orders, NEW own \in Seq(PricedLevels),
         NEW descending \in BOOLEAN, SortedSide(own, descending),
         \A k \in 2 .. Len(own) : own[k].price # order.price,
         NEW joined, joined = AddOrderToSide(descending, own, order)
  PROVE  SortedSide(joined, descending)
         /\ Inserted(OrdersOf(own), order, OrdersOf(joined))
  <1>0. /\ \A l \in PricedLevels : /\ l.orders \in Seq(Orders) /\ l.price \in Int
                                   /\ l \in AnyLevels
        /\ order.price \in Int
    BY LevelFacts, OrderFacts
  <1>1. ASSUME NEW k \in 1 .. Len(own), JoinsLevel(own, order, k, joined)
        PROVE  SortedSide(joined, descending)
               /\ Inserted(OrdersOf(own), order, OrdersOf(joined))
    <2>1. k = 1
      <3>1. k \notin 2 .. Len(own)
        BY <1>1 DEF JoinsLevel
      <3> QED
        BY <3>1
    <2> DEFINE best == Head(own)
               orders == Append(best.orders, order)
               level == Level(best.price, orders)
               rest == Tail(own)
    <2>2. own # <<>> /\ own[1] = best /\ best \in PricedLevels
          /\ SubSeq(own, 1 + 1, Len(own)) = rest /\ rest \in Seq(PricedLevels)
      <3>1. own # <<>> /\ own[1] = best /\ best \in PricedLevels
            /\ rest \in Seq(PricedLevels)
        BY <2>1
      <3>2. rest = SubSeq(own, 2, Len(own))
        BY <3>1, TailIsSubSeq
      <3> QED
        BY <3>1, <3>2
    <2>3. level \in PricedLevels /\ level.price = best.price
          /\ level.orders = orders /\ level \in AnyLevels
      <3> DEFINE old == best.orders
      <3>1. best.price = order.price
        BY <1>1, <2>1, <2>2 DEF JoinsLevel
      <3>2. old \in Seq(Orders) /\ \A j \in 1 .. Len(old) : old[j].price = order.price
        BY <1>0, <2>2, <3>1 DEF PricedLevels
      <3> HIDE DEF old
      <3>3. /\ Append(old, order) \in Seq(Orders) /\ Append(old, order) # <<>>
            /\ \A j \in 1 .. Len(Append(old, order)) :
                 Append(old, order)[j].price = order.price
        BY <3>2, AppendAtPrice
      <3>4. orders \in Seq(Orders) /\ orders # <<>>
            /\ \A j \in 1 .. Len(orders) : orders[j].price = best.price
        BY <3>1, <3>3 DEF old
      <3>5. DOMAIN orders = 1 .. Len(orders) /\ best.price \in InputPrices
        <4>1. DOMAIN orders = 1 .. Len(orders)
          BY <3>4
        <4>2. best.price \in InputPrices
          BY <2>2, LevelFacts
        <4> QED
          BY <4>1, <4>2
      <3> HIDE DEF orders
      <3> QED
        BY <1>0, <3>4, <3>5 DEF Level, PricedLevels, PriceLevels, AnyLevels
    <2>4. joined = <<level>> \o rest
      <3> DEFINE moved == [i \in 1 .. k - 1 |-> own[k - i]]
      <3>1. moved = <<>>
        BY <2>1
      <3>2. joined = (<<Level(own[k].price, Append(own[k].orders, order))>>
                       \o SubSeq(own, k + 1, Len(own))) \o moved
        BY <1>1 DEF JoinsLevel
      <3>3. joined = (<<level>> \o rest) \o moved
        BY <2>1, <2>2, <3>2
      <3> HIDE DEF moved, level, rest
      <3>4. <<level>> \o rest \in Seq(PricedLevels)
        BY <2>2, <2>3
      <3> DEFINE new == <<level>> \o rest
      <3> HIDE DEF new
      <3>5. new \o <<>> = new
        BY <3>4, ConcatEmptySeq DEF new
      <3> QED
        BY <3>1, <3>3, <3>5 DEF new
    <2>5. SortedSide(joined, descending)
      <3> HIDE DEF level, orders
      <3> QED
        BY <2>2, <2>3, <2>4, BestReplaced
    <2>6. Inserted(OrdersOf(own), order, OrdersOf(joined))
      <3> DEFINE a == best.orders
                 b == OrdersOf(rest)
      <3>1. b \in Seq(Orders) /\ OrdersOf(own) = a \o b
            /\ \A l \in AnyLevels : OrdersOf(<<l>> \o rest) = l.orders \o b
        BY <2>2, FirstOrder
      <3>2. a \in Seq(Orders)
        BY <1>0, <2>2
      <3>3. OrdersOf(joined) = orders \o b
        BY <2>3, <2>4, <3>1
      <3>4. orders = a \o <<order>>
        BY <3>2, AppendIsConcat
      <3> HIDE DEF a, b, orders
      <3>5. (a \o <<order>>) \o b = a \o (<<order>> \o b)
        <4>1. <<order>> \in Seq(Orders)
          OBVIOUS
        <4> QED
          BY <3>1, <3>2, <4>1, ConcatAssociative
      <3> QED
        BY <3>1, <3>2, <3>3, <3>4, <3>5 DEF Inserted
    <2> QED
      BY <2>5, <2>6
  <1>2. ASSUME NEW at \in 0 .. Len(own),
               OpensLevel(descending, own, order, at, joined)
        PROVE  SortedSide(joined, descending)
               /\ Inserted(OrdersOf(own), order, OrdersOf(joined))
    <2> DEFINE first == SubSeq(own, 1, at)
               last == SubSeq(own, at + 1, Len(own))
               orders == <<order>>
               level == Level(order.price, orders)
               one == <<level>>
               rest == one \o last
    <2>1. /\ first \in Seq(PricedLevels) /\ last \in Seq(PricedLevels)
          /\ first \o last = own /\ Len(first) = at
          /\ \A i \in 1 .. at : first[i] = own[i] /\ i \in 1 .. Len(own)
      <3>1. CutAt(own, at, PricedLevels)
        BY PrefixOf
      <3> QED
        BY <3>1 DEF CutAt
    <2>2. joined = first \o rest
      BY <1>2 DEF OpensLevel
    <2>3. /\ \A j \in 1 .. Len(own) : own[j].price # order.price
          /\ \A j \in 1 .. at : ~better(descending, order.price, own[j].price)
          /\ at < Len(own) => better(descending, order.price, own[at + 1].price)
      BY <1>2 DEF OpensLevel
    <2>4. last # <<>> => at < Len(own) /\ last[1] = own[at + 1]
      OBVIOUS
    <2>5. level \in PricedLevels /\ level.price = order.price
          /\ level.orders = orders
      <3>1. orders \in Seq(Orders) /\ orders # <<>> /\ Len(orders) = 1
            /\ orders[1] = order /\ DOMAIN orders = 1 .. Len(orders)
        BY OneOrder
      <3>2. \A j \in 1 .. Len(orders) : orders[j].price = order.price
        BY <3>1
      <3> HIDE DEF orders
      <3> QED
        BY <3>1, <3>2, OrderFacts DEF Level, PricedLevels, PriceLevels
    <2>6. one \in Seq(PricedLevels) /\ Len(one) = 1 /\ one[1] = level
      <3> HIDE DEF level
      <3> QED
        BY <2>5
    <2> HIDE DEF first, last, level, one, orders
    <2>7. SortedSide(first, descending) /\ SortedSide(last, descending)
          /\ SortedSide(one, descending)
      <3>1. SortedSide(first, descending) /\ SortedSide(last, descending)
        BY <2>1, SortedConcat
      <3>2. SortedSide(one, descending)
        BY <2>6 DEF SortedSide
      <3> QED
        BY <3>1, <3>2
    <2>8. \A j \in 1 .. Len(one), k \in 1 .. Len(last) :
            better(descending, one[j].price, last[k].price)
      <3> SUFFICES ASSUME NEW k \in 1 .. Len(last)
                   PROVE  better(descending, order.price, last[k].price)
        BY <2>5, <2>6
      <3>1. last # <<>> /\ 1 \in 1 .. Len(last)
            /\ last[k].price \in Int /\ last[1].price \in Int
        <4>1. last # <<>> /\ 1 \in 1 .. Len(last)
          BY <2>1
        <4>2. last[k] \in PricedLevels /\ last[1] \in PricedLevels
          BY <2>1, <4>1
        <4> QED
          BY <1>0, <4>1, <4>2
      <3>2. better(descending, order.price, last[1].price)
        BY <2>3, <2>4, <3>1
      <3>3. CASE k = 1
        BY <3>2, <3>3
      <3>4. CASE k # 1
        <4>1. 1 < k
          BY <3>4
        <4>2. better(descending, last[1].price, last[k].price)
          BY <2>7, <3>1, <4>1 DEF SortedSide
        <4> QED
          BY <1>0, <3>1, <3>2, <4>2 DEF better
      <3> QED
        BY <3>3, <3>4
    <2>9. rest \in Seq(PricedLevels) /\ SortedSide(rest, descending)
          /\ Joined(rest, one, last)
      BY <2>1, <2>6, <2>7, <2>8, SortedConcat, ConcatJoins
    <2>10. \A j \in 1 .. Len(first), k \in 1 .. Len(rest) :
             better(descending, first[j].price, rest[k].price)
      <3> SUFFICES ASSUME NEW j \in 1 .. Len(first), NEW k \in 1 .. Len(rest)
                   PROVE  better(descending, first[j].price, rest[k].price)
        OBVIOUS
      <3>1. CASE k \in 1 .. Len(one)
        <4>1. rest[k] = level
          BY <2>6, <2>9, <3>1 DEF Joined
        <4>2. first[j] = own[j] /\ j \in 1 .. at /\ j \in 1 .. Len(own)
          BY <2>1
        <4>3. own[j].price # order.price
              /\ ~better(descending, order.price, own[j].price)
          BY <2>3, <4>2
        <4>4. own[j].price \in Int
          BY <1>0, <4>2
        <4> QED
          BY <1>0, <2>5, <4>1, <4>2, <4>3, <4>4 DEF better
      <3>2. CASE k \notin 1 .. Len(one)
        <4>1. PICK i \in 1 .. Len(last) : k = i + Len(one)
          BY <2>9, <3>2 DEF Joined
        <4>2. rest[k] = last[i]
          BY <2>9, <4>1 DEF Joined
        <4>3. better(descending, first[j].price, last[i].price)
          BY <2>1, SortedConcat
        <4> QED
          BY <4>2, <4>3
      <3> QED
        BY <3>1, <3>2
    <2> HIDE DEF rest
    <2>11. SortedSide(joined, descending)
      BY <2>1, <2>2, <2>7, <2>9, <2>10, SortedConcat
    <2>12. Inserted(OrdersOf(own), order, OrdersOf(joined))
      <3> DEFINE a == OrdersOf(first)
                 b == OrdersOf(last)
      <3>0. \A l \in PricedLevels : l.orders \in Seq(Orders)
        BY <1>0
      <3>1. a \in Seq(Orders) /\ b \in Seq(Orders)
        BY <2>1, <3>0, OrdersType
      <3>2. OrdersOf(first \o last) = a \o b
            /\ OrdersOf(first \o rest) = a \o OrdersOf(rest)
        BY <2>1, <2>9, SideConcat
      <3>3. OrdersOf(one \o last) = OrdersOf(one) \o b
        BY <2>1, <2>6, SideConcat
      <3>4. OrdersOf(one) = <<order>>
        <4>1. level.orders \in Seq(Orders)
          BY <1>0, <2>5
        <4>2. OrdersOf(one) = level.orders
          BY <4>1, OrdersOne DEF one
        <4> QED
          BY <2>5, <4>2 DEF orders
      <3> HIDE DEF a, b
      <3> QED
        BY <2>1, <2>2, <3>1, <3>2, <3>3, <3>4 DEF Inserted, rest
    <2> QED
      BY <2>11, <2>12
  <1> QED
    BY <1>1, <1>2, AddOrderCases

(* An order that joins a level behind the best one leaves the side out of   *)
(* order: the level before it comes to stand behind it.                     *)
LEMMA JoinsBehind ==
  ASSUME NEW order \in Orders, NEW own \in Seq(PricedLevels),
         NEW descending \in BOOLEAN, SortedSide(own, descending),
         NEW behind \in 2 .. Len(own), own[behind].price = order.price,
         NEW joined, joined = AddOrderToSide(descending, own, order)
  PROVE  ~SortedSide(joined, descending)
  <1> SUFFICES ASSUME SortedSide(joined, descending)
               PROVE  FALSE
    OBVIOUS
  <1>0. \A l \in PricedLevels : l.orders \in Seq(Orders) /\ l.price \in Int
                                /\ l.price \in InputPrices /\ l \in AnyLevels
    BY LevelFacts, OrderFacts
  <1>1. own[1].price # order.price
    <2>1. 1 \in 1 .. Len(own) /\ behind \in 1 .. Len(own) /\ 1 < behind
      OBVIOUS
    <2>2. better(descending, own[1].price, own[behind].price)
      BY <2>1 DEF SortedSide
    <2>3. own[1].price \in Int
      BY <1>0, <2>1
    <2> QED
      BY <2>2, <2>3 DEF better
  <1>2. PICK k \in 1 .. Len(own) : JoinsLevel(own, order, k, joined)
    <2>1. behind \in 1 .. Len(own)
      OBVIOUS
    <2>2. ~\E at \in 0 .. Len(own) : OpensLevel(descending, own, order, at, joined)
      BY <2>1 DEF OpensLevel
    <2> QED
      BY <2>2, AddOrderCases
  <1>3. k # 1 /\ own[k].price = order.price
    BY <1>1, <1>2 DEF JoinsLevel
  <1> DEFINE level == Level(own[k].price, Append(own[k].orders, order))
             front == <<level>> \o SubSeq(own, k + 1, Len(own))
             moved == [i \in 1 .. k - 1 |-> own[k - i]]
  <1>4. joined = front \o moved
    BY <1>2 DEF JoinsLevel
  <1>5. level \in AnyLevels /\ level.price = own[k].price
    <2>1. own[k].orders \in Seq(Orders) /\ own[k].price \in InputPrices
      BY <1>0
    <2>2. Append(own[k].orders, order) \in Seq(Orders)
      BY <2>1
    <2> QED
      BY <2>1, <2>2 DEF Level, AnyLevels
  <1>6. own \in Seq(AnyLevels)
    BY LevelFacts
  <1>7. front \in Seq(AnyLevels) /\ 1 \in 1 .. Len(front) /\ front[1] = level
    <2> HIDE DEF level
    <2> QED
      BY <1>5, <1>6
  <1>8. moved \in Seq(AnyLevels) /\ 1 \in 1 .. Len(moved) /\ moved[1] = own[k - 1]
    <2>1. k - 1 \in Nat /\ \A i \in 1 .. k - 1 : k - i \in 1 .. Len(own)
      OBVIOUS
    <2>2. \A i \in 1 .. k - 1 : own[k - i] \in AnyLevels
      BY <1>6, <2>1
    <2>3. moved \in Seq(AnyLevels) /\ Len(moved) = k - 1
      BY <2>1, <2>2
    <2>4. 1 \in 1 .. k - 1
      BY <1>3
    <2> QED
      BY <2>3, <2>4
  <1> HIDE DEF front, moved, level
  <1>9. better(descending, own[k].price, own[k - 1].price)
    <2>1. better(descending, front[1].price, moved[1].price)
      BY <1>4, <1>7, <1>8, SortedConcat
    <2> QED
      BY <1>5, <1>7, <1>8, <2>1
  <1>10. better(descending, own[k - 1].price, own[k].price)
    <2>1. k - 1 \in 1 .. Len(own) /\ k - 1 < k
      BY <1>3
    <2> QED
      BY <2>1 DEF SortedSide
  <1>11. own[k].price \in Int /\ own[k - 1].price \in Int
    BY <1>0, <1>3
  <1> QED
    BY <1>9, <1>10, <1>11 DEF better

(* When what a submit leaves is a valid book.                               *)
LEMMA SubmitLeaves ==
  ASSUME CtInv, NEW order \in Orders, Submit(order),
         NEW left, left = IF order.side = Buy THEN asks' ELSE bids'
  PROVE  /\ OrdersOf(SideOf(order.side)) \in Seq(Orders)
         /\ OrdersOf(left) \in Seq(Orders)
         /\ BookValid(bids', asks') <=>
              \/ remainder' = 0
              \/ /\ order.id \notin IdsIn(OrdersOf(SideOf(order.side)))
                                    \cup IdsIn(OrdersOf(left))
                 /\ \A k \in 2 .. Len(SideOf(order.side)) :
                      SideOf(order.side)[k].price # order.price
  <1> DEFINE own == SideOf(order.side)
             opp == SideOf(opposite(order.side))
             which == opposite(order.side)
  <1>1. PICK result, joined :
          /\ Submitted(order, own, opp, result, joined)
          /\ result = Match(opp, order)
          /\ order.side \in {Buy, Sell}
          /\ order.side = Buy => bids' = joined /\ asks' = result.opp
                                 /\ own = bids /\ opp = asks
          /\ order.side = Sell => bids' = result.opp /\ asks' = joined
                                  /\ own = asks /\ opp = bids
          /\ remainder' = result.order.quantity
    BY SubmitCases
  <1>2. /\ own \in Seq(PricedLevels) /\ SortedSide(own, order.side = Buy)
        /\ opp \in Seq(PricedLevels) /\ SortedSide(opp, order.side = Sell)
    BY SubmitSides
  <1>3. Buy # Sell /\ (order.side = Buy => which = Sell)
        /\ (order.side = Sell => which = Buy)
    BY DEF Buy, Sell, opposite
  <1>4. /\ OrdersOf(bids) \in Seq(OfSide(Buy)) /\ OrdersOf(asks) \in Seq(OfSide(Sell))
        /\ UniqueIn(OrdersOf(bids) \o OrdersOf(asks))
    <2>1. BookValid(bids, asks)
      BY DEF Submit
    <2> QED
      BY <2>1, BookValidGives DEF CtInv
  <1>5. OrdersOf(bids) \in Seq(Orders) /\ OrdersOf(asks) \in Seq(Orders)
    BY UniqueIdsAre DEF CtInv
  <1>6. /\ UniqueIn(OrdersOf(bids)) /\ UniqueIn(OrdersOf(asks))
        /\ IdsIn(OrdersOf(bids)) \cap IdsIn(OrdersOf(asks)) = {}
    BY <1>4, <1>5, UniqueConcat
  <1> HIDE DEF own, opp, which
  <1>7. /\ OrdersOf(own) \in Seq(OfSide(order.side)) /\ OrdersOf(own) \in Seq(Orders)
        /\ UniqueIn(OrdersOf(own))
        /\ OrdersOf(opp) \in Seq(OfSide(which)) /\ OrdersOf(opp) \in Seq(Orders)
        /\ UniqueIn(OrdersOf(opp))
        /\ IdsIn(OrdersOf(own)) \cap IdsIn(OrdersOf(opp)) = {}
    BY <1>1, <1>3, <1>4, <1>5, <1>6
  <1>8. /\ result.opp \in Seq(PricedLevels) /\ joined \in Seq(PricedLevels)
        /\ result.order \in Rests(order) /\ result.trades \in Seq(Trades)
        /\ SortedSide(result.opp, order.side = Sell)
    <2>1. result \in MatchStates(opp, order)
      BY <1>1 DEF Submitted
    <2>2. joined \in Seq(PricedLevels)
      BY <1>1, <1>2, SubmittedTyped
    <2> QED
      BY <2>1, <2>2 DEF MatchStates
  <1> DEFINE O == OrdersOf(own)
             L == OrdersOf(result.opp)
             J == OrdersOf(joined)
             rest == result.order
  <1>9. /\ L \in Seq(OfSide(which)) /\ L \in Seq(Orders) /\ UniqueIn(L)
        /\ IdsIn(L) \subseteq IdsIn(OrdersOf(opp))
    <2> DEFINE F == OrdersOf(opp)
    <2>1. F \in Seq(Orders) /\ F \in Seq(OfSide(which)) /\ UniqueIn(F)
      BY <1>7
    <2>2. Progress(F, order, result)
      BY <1>1, <1>2, MatchProgress
    <2> HIDE DEF F
    <2> QED
      BY <1>8, <2>1, <2>2, MatchLeaves DEF F
  <1>10. ASSUME rest.quantity # 0
         PROVE  /\ joined = AddOrderToSide(order.side = Buy, own, rest)
                /\ rest.id = order.id /\ rest.side = order.side
                /\ rest.price = order.price /\ rest \in Orders
    <2>1. joined = AddOrderToSide(order.side = Buy, own, rest)
      BY <1>1, <1>10 DEF Submitted
    <2>2. rest.quantity \in Nat /\ (rest.quantity > 0 => rest \in Orders)
      BY <1>8, RestFacts
    <2>3. rest \in Orders
      BY <1>10, <2>2
    <2> QED
      BY <1>8, <2>1, <2>3, RestFacts
  <1> HIDE DEF rest
  <1>11. ASSUME rest.quantity # 0, \A k \in 2 .. Len(own) : own[k].price # order.price
         PROVE  SortedSide(joined, order.side = Buy) /\ Inserted(O, rest, J)
    <2> DEFINE descending == (order.side = Buy)
    <2>1. descending \in BOOLEAN /\ SortedSide(own, descending)
          /\ joined = AddOrderToSide(descending, own, rest)
      BY <1>2, <1>10, <1>11
    <2>2. rest \in Orders /\ \A k \in 2 .. Len(own) : own[k].price # rest.price
      BY <1>10, <1>11
    <2> HIDE DEF descending
    <2>3. SortedSide(joined, descending) /\ Inserted(O, rest, J)
      BY <1>2, <2>1, <2>2, JoinsInOrder
    <2> QED
      BY <2>3 DEF descending
  <1> HIDE DEF O, L, J
  <1>12. O \in Seq(OfSide(order.side)) /\ O \in Seq(Orders) /\ UniqueIn(O)
         /\ IdsIn(O) \cap IdsIn(L) = {}
    BY <1>7, <1>9 DEF O
  <1> DEFINE Fits == /\ order.id \notin IdsIn(O) \cup IdsIn(L)
                     /\ \A k \in 2 .. Len(own) : own[k].price # order.price
  <1>13. ASSUME rest.quantity = 0 \/ Fits
         PROVE  /\ SortedSide(joined, order.side = Buy)
                /\ J \in Seq(OfSide(order.side)) /\ J \in Seq(Orders)
                /\ UniqueIn(J) /\ IdsIn(J) \cap IdsIn(L) = {}
    <2>1. CASE rest.quantity = 0
      <3>1. joined = own
        BY <1>1, <2>1 DEF Submitted, rest
      <3>2. J = O
        BY <3>1 DEF J, O
      <3> QED
        BY <1>2, <1>12, <3>1, <3>2
    <2>2. CASE rest.quantity # 0
      <3> DEFINE U == OfSide(order.side)
      <3>1. SortedSide(joined, order.side = Buy) /\ Inserted(O, rest, J)
        BY <1>11, <1>13, <2>2
      <3>2. U \subseteq Orders /\ rest \in U /\ rest \in Orders
        BY <1>10, <2>2 DEF OfSide
      <3> HIDE DEF U
      <3>3. O \in Seq(U) /\ UniqueIn(O) /\ rest.id \notin IdsIn(O)
        BY <1>10, <1>12, <1>13, <2>2 DEF U
      <3>4. J \in Seq(Orders) /\ UniqueIn(J) /\ IdsIn(J) = IdsIn(O) \cup {rest.id}
        BY <3>1, <3>2, <3>3, InsertedUnique
      <3>5. J \in Seq(U)
        BY <3>1, <3>2, <3>3, InsertedSide
      <3>6. IdsIn(J) \cap IdsIn(L) = {}
        BY <1>10, <1>12, <1>13, <2>2, <3>4
      <3> QED
        BY <3>1, <3>4, <3>5, <3>6 DEF U
    <2> QED
      BY <2>1, <2>2
  <1>14. CtUncrossed'
    BY SubmitKeepsInv DEF CtInv
  <1>15. ASSUME rest.quantity = 0 \/ Fits
         PROVE  BookValid(bids', asks')
    <2> HIDE DEF Fits
    <2>0. /\ SortedSide(joined, order.side = Buy)
          /\ J \in Seq(OfSide(order.side)) /\ UniqueIn(L \o J) /\ UniqueIn(J \o L)
      <3>1. /\ SortedSide(joined, order.side = Buy)
            /\ J \in Seq(OfSide(order.side)) /\ J \in Seq(Orders)
            /\ UniqueIn(J) /\ IdsIn(J) \cap IdsIn(L) = {}
        BY <1>13, <1>15
      <3>2. IdsIn(L) \cap IdsIn(J) = {}
        BY <3>1
      <3> QED
        BY <1>9, <3>1, <3>2, UniqueConcat
    <2>1. CASE order.side = Buy
      <3>1. bids' = joined /\ asks' = result.opp /\ which = Sell
        BY <1>1, <1>3, <2>1
      <3>2. (order.side = Buy) = TRUE /\ (order.side = Sell) = FALSE
        BY <1>3, <2>1
      <3>3. SortedSide(joined, TRUE) /\ SortedSide(result.opp, FALSE)
        BY <1>8, <2>0, <3>2
      <3>4. OrdersOf(joined) \in Seq(OfSide(Buy)) /\ OrdersOf(result.opp) \in Seq(OfSide(Sell))
            /\ UniqueIn(OrdersOf(joined) \o OrdersOf(result.opp))
        BY <1>9, <2>0, <2>0, <2>1, <3>1 DEF L, J
      <3>5. \A j \in 1 .. Len(joined), k \in 1 .. Len(result.opp) :
              joined[j].price < result.opp[k].price
        <4>1. DOMAIN joined = 1 .. Len(joined)
              /\ DOMAIN result.opp = 1 .. Len(result.opp)
          BY <1>8
        <4> QED
          BY <1>14, <3>1, <4>1 DEF CtUncrossed
      <3>6. BookValid(joined, result.opp)
        BY <1>8, <3>3, <3>4, <3>5, BookValidIf
      <3> QED
        BY <3>1, <3>6
    <2>2. CASE order.side = Sell
      <3>1. bids' = result.opp /\ asks' = joined /\ which = Buy
        BY <1>1, <1>3, <2>2
      <3>2. (order.side = Buy) = FALSE /\ (order.side = Sell) = TRUE
        BY <1>3, <2>2
      <3>3. SortedSide(joined, FALSE) /\ SortedSide(result.opp, TRUE)
        BY <1>8, <2>0, <3>2
      <3>4. OrdersOf(joined) \in Seq(OfSide(Sell)) /\ OrdersOf(result.opp) \in Seq(OfSide(Buy))
            /\ UniqueIn(OrdersOf(result.opp) \o OrdersOf(joined))
        BY <1>9, <2>0, <2>0, <2>2, <3>1 DEF L, J
      <3>5. \A j \in 1 .. Len(result.opp), k \in 1 .. Len(joined) :
              result.opp[j].price < joined[k].price
        <4>1. DOMAIN joined = 1 .. Len(joined)
              /\ DOMAIN result.opp = 1 .. Len(result.opp)
          BY <1>8
        <4> QED
          BY <1>14, <3>1, <4>1 DEF CtUncrossed
      <3>6. BookValid(result.opp, joined)
        BY <1>8, <3>3, <3>4, <3>5, BookValidIf
      <3> QED
        BY <3>1, <3>6
    <2> QED
      BY <1>1, <2>1, <2>2
  <1>16. ASSUME BookValid(bids', asks')
         PROVE  SortedSide(joined, order.side = Buy)
                /\ UniqueIn(J) /\ IdsIn(J) \cap IdsIn(L) = {}
    <2>0. J \in Seq(Orders)
      BY <1>8, UniqueIdsAre DEF J
    <2>1. CASE order.side = Buy
      <3>1. BookValid(joined, result.opp)
        BY <1>1, <1>16, <2>1
      <3>2. SortedSide(joined, TRUE) /\ UniqueIn(J \o L)
        BY <1>8, <3>1, BookValidGives DEF J, L
      <3>3. (order.side = Buy) = TRUE
        BY <2>1
      <3> QED
        BY <1>9, <2>0, <3>2, <3>3, UniqueConcat
    <2>2. CASE order.side = Sell
      <3>1. BookValid(result.opp, joined)
        BY <1>1, <1>16, <2>2
      <3>2. SortedSide(joined, FALSE) /\ UniqueIn(L \o J)
        BY <1>8, <3>1, BookValidGives DEF J, L
      <3>3. (order.side = Buy) = FALSE
        BY <1>3, <2>2
      <3>4. UniqueIn(J) /\ IdsIn(L) \cap IdsIn(J) = {}
        BY <1>9, <2>0, <3>2, UniqueConcat
      <3> QED
        BY <3>2, <3>3, <3>4
    <2> QED
      BY <1>1, <2>1, <2>2
  <1>17. ASSUME BookValid(bids', asks'), rest.quantity # 0
         PROVE  Fits
    <2>1. ASSUME NEW k \in 2 .. Len(own), own[k].price = order.price
          PROVE  FALSE
      <3> DEFINE descending == (order.side = Buy)
      <3>1. descending \in BOOLEAN /\ SortedSide(own, descending)
            /\ joined = AddOrderToSide(descending, own, rest)
            /\ SortedSide(joined, descending)
        BY <1>2, <1>10, <1>16, <1>17
      <3>2. rest \in Orders /\ own[k].price = rest.price
        BY <1>10, <1>17, <2>1
      <3> HIDE DEF descending
      <3> QED
        BY <1>2, <3>1, <3>2, JoinsBehind
    <2>2. Inserted(O, rest, J)
      BY <1>11, <1>17, <2>1
    <2>3. UniqueIn(J) /\ IdsIn(J) \cap IdsIn(L) = {}
      BY <1>16, <1>17
    <2>4. rest.id \notin IdsIn(O) /\ rest.id \in IdsIn(J)
      BY <1>10, <1>17, <2>2, <2>3, InsertedNew
    <2> QED
      BY <1>10, <1>17, <2>1, <2>3, <2>4
  <1>18. left = result.opp
    BY <1>1, <1>3
  <1>19. remainder' = rest.quantity /\ L \in Seq(Orders) /\ O \in Seq(Orders)
    BY <1>1, <1>9, <1>12 DEF rest
  <1>20. BookValid(bids', asks') <=> remainder' = 0 \/ Fits
    BY <1>15, <1>17, <1>19
  <1> QED
    BY <1>18, <1>19, <1>20 DEF O, L, own

(* The ids of the orders of two lists.                                      *)
LEMMA IdsAre ==
  ASSUME NEW s \in Seq(Orders), NEW t \in Seq(Orders)
  PROVE  {o.id : o \in Range(s \o t)} = IdsIn(s) \cup IdsIn(t)
  <1> DEFINE all == s \o t
  <1>1. all \in Seq(Orders) /\ IdsIn(all) = IdsIn(s) \cup IdsIn(t)
    BY ConcatJoins, IdsConcat
  <1> HIDE DEF all
  <1>2. {o.id : o \in Range(all)} = IdsIn(all)
    <2>1. DOMAIN all = 1 .. Len(all)
      BY <1>1
    <2> QED
      BY <2>1 DEF Range, IdsIn
  <1> QED
    BY <1>1, <1>2 DEF all

(* NextCompiles: the next submit compiles exactly if nothing is left of the *)
(* order, or if no resting order has its id and it joins the best level of  *)
(* its side or opens one (match.hpp:32-52 and 169, side_book.hpp:152).      *)
THEOREM NextCompilesExactly == CtSpec => NextCompiles
  <1> DEFINE Compiles(order) ==
        LET own == SideOf(order.side)
            left == SideOf(opposite(order.side))'
            used == {o.id : o \in Range(OrdersOf(own) \o OrdersOf(left))}
        IN BookValid(bids', asks') <=>
             \/ remainder' = 0
             \/ /\ order.id \notin used
                /\ \A k \in 2 .. Len(own) : own[k].price # order.price
  <1>1. ASSUME CtInv, NEW order \in Orders, Submit(order)
        PROVE  Compiles(order)
    <2> DEFINE own == SideOf(order.side)
               left == SideOf(opposite(order.side))'
    <2>1. order.side \in {Buy, Sell}
      BY OrderFacts
    <2>2. left = IF order.side = Buy THEN asks' ELSE bids'
      BY <2>1 DEF SideOf, opposite, Buy, Sell
    <2> HIDE DEF left
    <2>3. /\ OrdersOf(own) \in Seq(Orders) /\ OrdersOf(left) \in Seq(Orders)
          /\ BookValid(bids', asks') <=>
               \/ remainder' = 0
               \/ /\ order.id \notin IdsIn(OrdersOf(own)) \cup IdsIn(OrdersOf(left))
                  /\ \A k \in 2 .. Len(own) : own[k].price # order.price
      BY <1>1, <2>2, SubmitLeaves
    <2> HIDE DEF own
    <2>4. {o.id : o \in Range(OrdersOf(own) \o OrdersOf(left))}
            = IdsIn(OrdersOf(own)) \cup IdsIn(OrdersOf(left))
      BY <2>3, IdsAre
    <2> QED
      BY <2>3, <2>4 DEF own, left
  <1>2. ASSUME CtInv, [CtNext]_ctVars
        PROVE  [\A order \in Orders : Submit(order) => Compiles(order)]_ctVars
    <2> HIDE DEF Compiles
    <2> QED
      BY <1>1, <1>2
  <1>3. CtSpec => []CtInv
    BY InvHolds
  <1> QED
    BY <1>2, <1>3, PTL DEF CtSpec, NextCompiles

-----------------------------------------------------------------------------
(* What a view shows                                                        *)

(* Orders and trades alike count for their quantity, at their price.        *)
Counted == Orders \cup Trades

Weighs(w) ==
  /\ w \in [Counted -> Int]
  /\ \A o \in Orders, d \in Trades :
       (o.price = d.price /\ o.quantity = d.quantity) => w[o] = w[d]
  /\ \A o, left \in Orders, d \in Trades :
       (/\ o.price = left.price /\ o.price = d.price
        /\ o.quantity = left.quantity + d.quantity) => w[o] = w[left] + w[d]

QuantityOf == [x \in Counted |-> x.quantity]
QuantityAt(price) == [x \in Counted |-> IF x.price = price THEN x.quantity ELSE 0]

(* The quantity is such a weight, and so is the quantity at a price.        *)
LEMMA WeighsBoth ==
  /\ Weighs(QuantityOf)
  /\ \A price \in Int : Weighs(QuantityAt(price))
  <1>1. \A x \in Counted : x.quantity \in Int
    BY OrderFacts DEF Counted, Trades
  <1>2. Orders \subseteq Counted /\ Trades \subseteq Counted
    BY DEF Counted
  <1>3. \A o \in Orders, d \in Trades : o.quantity \in Int /\ d.quantity \in Int
    BY <1>1, <1>2
  <1>4. Weighs(QuantityOf)
    BY <1>1, <1>2 DEF Weighs, QuantityOf
  <1>5. ASSUME NEW price \in Int PROVE Weighs(QuantityAt(price))
    <2> DEFINE w == QuantityAt(price)
    <2>1. w \in [Counted -> Int]
      BY <1>1 DEF QuantityAt
    <2>2. \A x \in Counted : w[x] = IF x.price = price THEN x.quantity ELSE 0
      BY DEF QuantityAt
    <2> HIDE DEF w
    <2>3. \A o \in Orders, d \in Trades :
            (o.price = d.price /\ o.quantity = d.quantity) => w[o] = w[d]
      BY <1>2, <2>2
    <2>4. \A o, left \in Orders, d \in Trades :
            (/\ o.price = left.price /\ o.price = d.price
             /\ o.quantity = left.quantity + d.quantity) => w[o] = w[left] + w[d]
      <3> SUFFICES ASSUME NEW o \in Orders, NEW left \in Orders, NEW d \in Trades,
                          o.price = left.price, o.price = d.price,
                          o.quantity = left.quantity + d.quantity
                   PROVE  w[o] = w[left] + w[d]
        OBVIOUS
      <3>1. o \in Counted /\ left \in Counted /\ d \in Counted
        BY <1>2
      <3>2. CASE o.price = price
        BY <2>2, <3>1, <3>2
      <3>3. CASE o.price # price
        <4>1. w[o] = 0 /\ w[left] = 0 /\ w[d] = 0
          BY <2>2, <3>1, <3>3
        <4> QED
          BY <4>1
      <3> QED
        BY <3>2, <3>3
    <2> QED
      BY <2>1, <2>3, <2>4 DEF Weighs, w
  <1> QED
    BY <1>4, <1>5

(* The totals of the model, as sums of weights.                             *)
LEMMA TotalsAreWeights ==
  ASSUME NEW list \in Seq(Counted)
  PROVE  /\ TotalQuantity(list) = SumOf(Weighted(list, QuantityOf))
         /\ \A price : TradedAt(list, price) = SumOf(Weighted(list, QuantityAt(price)))
  <1>1. \A k \in DOMAIN list : list[k] \in Counted
    OBVIOUS
  <1>2. [k \in DOMAIN list |-> list[k].quantity] = Weighted(list, QuantityOf)
    BY <1>1 DEF Weighted, QuantityOf
  <1>3. ASSUME NEW price
        PROVE  [k \in DOMAIN list |->
                  IF list[k].price = price THEN list[k].quantity ELSE 0]
                 = Weighted(list, QuantityAt(price))
    BY <1>1 DEF Weighted, QuantityAt
  <1> QED
    BY <1>2, <1>3 DEF TotalQuantity, TradedAt

(* Lists of orders and lists of trades are both counted.                    *)
LEMMA CountedLists ==
  \A list : (list \in Seq(Orders) \/ list \in Seq(Trades)) => list \in Seq(Counted)
  BY DEF Counted

(* The first n trades weigh what the first n orders do, if they agree.      *)
LEMMA TakenSum ==
  ASSUME NEW F \in Seq(Orders), NEW done \in Seq(Trades), NEW w, Weighs(w),
         NEW n \in 0 .. Len(done), n \in 0 .. Len(F),
         \A k \in 1 .. n : done[k].price = F[k].price
                           /\ done[k].quantity = F[k].quantity
  PROVE  SumOf(Weighted(SubSeq(done, 1, n), w)) =
           SumOf(Weighted(SubSeq(F, 1, n), w))
  <1> DEFINE a == SubSeq(done, 1, n)
             b == SubSeq(F, 1, n)
  <1>1. /\ a \in Seq(Trades) /\ Len(a) = n
        /\ \A k \in 1 .. n : a[k] = done[k] /\ k \in 1 .. Len(done)
    <2>1. CutAt(done, n, Trades)
      BY PrefixOf
    <2> QED
      BY <2>1 DEF CutAt
  <1>2. /\ b \in Seq(Orders) /\ Len(b) = n
        /\ \A k \in 1 .. n : b[k] = F[k] /\ k \in 1 .. Len(F)
    <2>1. CutAt(F, n, Orders)
      BY PrefixOf
    <2> QED
      BY <2>1 DEF CutAt
  <1> HIDE DEF a, b
  <1>3. DOMAIN a = 1 .. n /\ DOMAIN b = 1 .. n
    BY <1>1, <1>2
  <1>4. \A k \in 1 .. n : w[a[k]] = w[b[k]]
    <2> SUFFICES ASSUME NEW k \in 1 .. n PROVE w[a[k]] = w[b[k]]
      OBVIOUS
    <2>1. done[k] \in Trades /\ F[k] \in Orders
      BY <1>1, <1>2
    <2>2. w[F[k]] = w[done[k]]
      BY <2>1 DEF Weighs
    <2> QED
      BY <1>1, <1>2, <2>2
  <1>5. Weighted(a, w) = Weighted(b, w)
    BY <1>3, <1>4 DEF Weighted
  <1> QED
    BY <1>5 DEF a, b

(* A list is its first orders, the next one, and those behind it.           *)
LEMMA CutAround ==
  ASSUME NEW T, NEW w \in [T -> Int], NEW list \in Seq(T), NEW n \in 1 .. Len(list)
  PROVE  /\ SumOf(Weighted(list, w)) =
              SumOf(Weighted(SubSeq(list, 1, n - 1), w)) + w[list[n]]
              + SumOf(Weighted(SubSeq(list, n + 1, Len(list)), w))
         /\ SumOf(Weighted(SubSeq(list, 1, n - 1), w)) \in Int
         /\ SumOf(Weighted(SubSeq(list, n + 1, Len(list)), w)) \in Int
  <1> DEFINE i == n - 1
             a == SubSeq(list, 1, i)
             b == SubSeq(list, i + 1, Len(list))
             one == <<list[n]>>
             c == SubSeq(list, n + 1, Len(list))
  <1>1. i \in 0 .. Len(list) /\ i + 1 = n /\ n \in 1 .. Len(list)
        /\ Len(list) \in n .. Len(list) /\ list[n] \in T
    OBVIOUS
  <1> HIDE DEF i
  <1>2. a \in Seq(T) /\ b \in Seq(T) /\ a \o b = list
    <2>1. CutAt(list, i, T)
      BY <1>1, PrefixOf
    <2> QED
      BY <2>1 DEF CutAt
  <1>3. c \in Seq(T)
    <2>1. n \in 0 .. Len(list)
      OBVIOUS
    <2>2. CutAt(list, n, T)
      BY <2>1, PrefixOf
    <2> QED
      BY <2>2 DEF CutAt
  <1>4. b = one \o c
    BY <1>1, SubSeqRecursiveFirst
  <1>5. one \in Seq(T) /\ SumOf(Weighted(one, w)) = w[list[n]] /\ w[list[n]] \in Int
    BY <1>1, WeightedShort
  <1>6. SubSeq(list, 1, n - 1) = a
    BY DEF i
  <1> HIDE DEF a, b, c, one
  <1>7. SumOf(Weighted(a \o b, w)) = SumOf(Weighted(a, w)) + SumOf(Weighted(b, w))
        /\ SumOf(Weighted(one \o c, w)) = SumOf(Weighted(one, w)) + SumOf(Weighted(c, w))
    BY <1>2, <1>3, <1>5, WeightedConcat
  <1>8. \A s \in Seq(T) : SumOf(Weighted(s, w)) \in Int
    BY WeightedConcat, SumType
  <1>9. SumOf(Weighted(list, w)) =
          SumOf(Weighted(a, w)) + w[list[n]] + SumOf(Weighted(c, w))
    BY <1>2, <1>3, <1>4, <1>5, <1>7, <1>8
  <1> QED
    BY <1>2, <1>3, <1>6, <1>8, <1>9 DEF c

(* The weight of the trades of a match: of the orders it took whole, and of *)
(* the last trade if that took a part.                                      *)
LEMMA TradesWeigh ==
  ASSUME NEW order \in Orders, NEW F \in Seq(Orders), NEW m,
         m.trades \in Seq(Trades), Progress(F, order, m), NEW w, Weighs(w),
         NEW t, t = Len(m.trades)
  PROVE  /\ WholeSoFar(F, order, m, t) =>
              SumOf(Weighted(m.trades, w)) = SumOf(Weighted(SubSeq(F, 1, t), w))
         /\ PartAtLast(F, order, m, t) =>
              SumOf(Weighted(m.trades, w)) =
                SumOf(Weighted(SubSeq(F, 1, t - 1), w)) + w[m.trades[t]]
  <1> DEFINE done == m.trades
             Sum(list) == SumOf(Weighted(list, w))
  <1>1. /\ t \in 0 .. Len(F) /\ t \in Nat /\ t = Len(done) /\ done \in Seq(Trades)
        /\ \A k \in 1 .. t : TradedInTurn(F, order, done[k], k)
    BY DEF Progress
  <1>2. \A k \in 1 .. t : done[k].price = F[k].price
    <2> SUFFICES ASSUME NEW k \in 1 .. t PROVE done[k].price = F[k].price
      OBVIOUS
    <2>1. done[k] = TradeWith(order, F[k], Share(F, k, order.quantity))
      BY <1>1 DEF TradedInTurn
    <2> QED
      BY <2>1 DEF TradeWith, Trade
  <1>3. w \in [Counted -> Int] /\ done \in Seq(Counted)
    BY <1>1, CountedLists DEF Weighs
  <1> HIDE DEF done
  <1>4. ASSUME WholeSoFar(F, order, m, t)
        PROVE  Sum(done) = Sum(SubSeq(F, 1, t))
    <2>1. \A k \in 1 .. t : done[k].quantity = F[k].quantity
      BY <1>4 DEF WholeSoFar, done
    <2>2. t \in 0 .. Len(done)
      BY <1>1
    <2>3. Sum(SubSeq(done, 1, t)) = Sum(SubSeq(F, 1, t))
      BY <1>1, <1>2, <2>1, <2>2, TakenSum
    <2>4. SubSeq(done, 1, t) = done
      BY <1>1
    <2> QED
      BY <2>3, <2>4
  <1>5. ASSUME PartAtLast(F, order, m, t)
        PROVE  Sum(done) = Sum(SubSeq(F, 1, t - 1)) + w[done[t]]
    <2> DEFINE n == t - 1
    <2>1. \A k \in 1 .. t - 1 : done[k].quantity = F[k].quantity
      BY <1>5 DEF PartAtLast, done
    <2>2. t \in 1 .. Len(done) /\ n \in 0 .. Len(done) /\ n \in 0 .. Len(F)
      BY <1>1, <1>5 DEF PartAtLast
    <2>3. \A k \in 1 .. n : done[k].price = F[k].price
                            /\ done[k].quantity = F[k].quantity
      BY <1>1, <1>2, <2>1
    <2> HIDE DEF n
    <2>4. Sum(SubSeq(done, 1, n)) = Sum(SubSeq(F, 1, n))
      BY <1>1, <2>2, <2>3, TakenSum
    <2>5. /\ Sum(done) = Sum(SubSeq(done, 1, t - 1)) + w[done[t]]
                         + Sum(SubSeq(done, t + 1, Len(done)))
          /\ Sum(SubSeq(done, 1, t - 1)) \in Int
      BY <1>3, <2>2, CutAround
    <2>6. SubSeq(done, t + 1, Len(done)) = <<>>
      BY <1>1, SubSeqEmpty
    <2>7. Sum(<<>>) = 0
      BY <1>3, WeightedShort
    <2>8. w[done[t]] \in Int
      BY <1>3, <2>2
    <2> HIDE DEF Sum
    <2>9. Sum(SubSeq(done, 1, t - 1)) = Sum(SubSeq(F, 1, t - 1))
      BY <2>4 DEF n
    <2>10. Sum(done) = Sum(SubSeq(done, 1, t - 1)) + w[done[t]]
      <3> DEFINE a == Sum(SubSeq(done, 1, t - 1))
                 b == Sum(SubSeq(done, t + 1, Len(done)))
                 c == w[done[t]]
      <3>1. b = 0
        BY <2>6, <2>7, Zenon
      <3>2. Sum(done) = a + c + b /\ a \in Int /\ c \in Int
        BY <2>5, <2>8
      <3> HIDE DEF a, b, c
      <3>3. Sum(done) = a + c
        BY <3>1, <3>2
      <3> QED
        BY <3>3 DEF a, c
    <2> QED
      BY <2>9, <2>10
  <1> QED
    BY <1>4, <1>5 DEF done

(* A match that does not lose the orders behind a partly filled one: what   *)
(* the opposite side weighed, what is left of it and the trades weigh.      *)
LEMMA Conserved ==
  ASSUME NEW order \in Orders, NEW F \in Seq(Orders), NEW m,
         m.trades \in Seq(Trades), Progress(F, order, m),
         ~PartWithOthers(F, m.trades), NEW w, Weighs(w)
  PROVE  SumOf(Weighted(F, w)) =
           SumOf(Weighted(OrdersOf(m.opp), w)) + SumOf(Weighted(m.trades, w))
  <1> DEFINE t == Len(m.trades)
             Sum(list) == SumOf(Weighted(list, w))
             first == SubSeq(F, 1, t)
             rest == SubSeq(F, t + 1, Len(F))
  <1>1. /\ t \in 0 .. Len(F) /\ t \in Nat
        /\ \A k \in 1 .. t : TradedInTurn(F, order, m.trades[k], k)
        /\ WholeSoFar(F, order, m, t) \/ PartAtLast(F, order, m, t)
    BY DEF Progress
  <1>2. w \in [Counted -> Int] /\ F \in Seq(Counted)
    BY CountedLists DEF Weighs
  <1>3. first \in Seq(Counted) /\ rest \in Seq(Counted) /\ first \o rest = F
    <2> HIDE DEF t
    <2>1. CutAt(F, t, Counted)
      BY <1>1, <1>2, PrefixOf
    <2> QED
      BY <2>1 DEF CutAt
  <1>4. \A list \in Seq(Counted) : Sum(list) \in Int
    BY <1>2, WeightedConcat, SumType
  <1>5. CASE WholeSoFar(F, order, m, t)
    <2>1. OrdersOf(m.opp) = rest
      BY <1>5 DEF WholeSoFar
    <2>2. Sum(m.trades) = Sum(first)
      BY <1>5, TradesWeigh
    <2> HIDE DEF first, rest, t
    <2>3. Sum(first \o rest) = Sum(first) + Sum(rest)
      BY <1>2, <1>3, WeightedConcat
    <2> QED
      BY <1>3, <1>4, <2>1, <2>2, <2>3
  <1>6. CASE PartAtLast(F, order, m, t)
    <2> DEFINE left == OrderWithRemaining(F[t], m.trades[t].quantity)
               one == <<left>>
    <2>1. t \in 1 .. Len(F) /\ t \in 1 .. t /\ t > 0
          /\ m.trades[t].quantity < F[t].quantity
      BY <1>1, <1>6 DEF PartAtLast
    <2>2. PICK j \in t .. Len(F) :
            /\ OrdersOf(m.opp) = one \o SubSeq(F, j + 1, Len(F))
            /\ j = t \/ (t + 1 \in 1 .. Len(F) /\ F[t + 1].price = F[t].price)
      BY <1>6 DEF PartAtLast
    <2>3. j = t
      <3> SUFFICES ASSUME t + 1 \in 1 .. Len(F), F[t + 1].price = F[t].price
                   PROVE  FALSE
        BY <2>2
      <3>1. t < Len(F)
        BY <1>1
      <3> QED
        BY <2>1, <3>1 DEF PartWithOthers
    <2>4. F[t] \in Orders /\ m.trades[t] \in Trades
          /\ m.trades[t].price = F[t].price
      <3>1. m.trades[t] = TradeWith(order, F[t], Share(F, t, order.quantity))
        BY <1>1, <2>1 DEF TradedInTurn
      <3>2. m.trades[t].price = F[t].price
        BY <3>1 DEF TradeWith, Trade
      <3> QED
        BY <2>1, <3>2
    <2>5. m.trades[t].quantity \in Nat
      BY <2>4, OrderFacts DEF Trades
    <2>6. /\ left \in Orders /\ left.price = F[t].price
          /\ left.quantity = F[t].quantity - m.trades[t].quantity
      BY <2>1, <2>4, <2>5, OrderFacts
    <2>7. F[t].quantity = left.quantity + m.trades[t].quantity
      <3>1. F[t].quantity \in Int
        BY <2>4, OrderFacts
      <3> HIDE DEF left
      <3> QED
        BY <2>5, <2>6, <3>1
    <2> HIDE DEF left
    <2>8. w[F[t]] = w[left] + w[m.trades[t]]
      BY <2>4, <2>6, <2>7 DEF Weighs
    <2>9. Sum(m.trades) = Sum(SubSeq(F, 1, t - 1)) + w[m.trades[t]]
      BY <1>6, TradesWeigh
    <2>10. /\ Sum(F) = Sum(SubSeq(F, 1, t - 1)) + w[F[t]] + Sum(rest)
           /\ Sum(SubSeq(F, 1, t - 1)) \in Int
      <3> HIDE DEF t
      <3> QED
        BY <1>2, <2>1, CutAround
    <2>11. OrdersOf(m.opp) = one \o rest
      BY <2>2, <2>3
    <2>12. one \in Seq(Counted) /\ Sum(one) = w[left] /\ w[left] \in Int
           /\ w[m.trades[t]] \in Int
      <3>1. left \in Counted /\ m.trades[t] \in Counted
        BY <2>4, <2>6 DEF Counted
      <3> QED
        BY <1>2, <3>1, WeightedShort
    <2> HIDE DEF one, rest
    <2>13. Sum(one \o rest) = Sum(one) + Sum(rest)
      BY <1>2, <1>3, <2>12, WeightedConcat
    <2>14. Sum(rest) \in Int
      BY <1>3, <1>4
    <2> QED
      BY <2>8, <2>9, <2>10, <2>11, <2>12, <2>13, <2>14
  <1> QED
    BY <1>1, <1>5, <1>6

(* What is left of an order and its trades add up to it.                    *)
LEMMA Accounted ==
  ASSUME NEW order \in Orders, NEW F \in Seq(Orders), NEW m,
         m.trades \in Seq(Trades), m.order.quantity \in Nat, Progress(F, order, m)
  PROVE  order.quantity = m.order.quantity + TotalQuantity(m.trades)
  <1> DEFINE t == Len(m.trades)
             q == order.quantity
  <1>1. /\ t \in 0 .. Len(F) /\ t \in Nat /\ q \in Nat
        /\ WholeSoFar(F, order, m, t) \/ PartAtLast(F, order, m, t)
    BY OrderFacts DEF Progress
  <1>2. Weighs(QuantityOf)
    BY WeighsBoth
  <1>3. TotalQuantity(m.trades) = SumOf(Weighted(m.trades, QuantityOf))
    BY CountedLists, TotalsAreWeights
  <1>4. ASSUME NEW n \in 0 .. Len(F)
        PROVE  TotalQuantity(SubSeq(F, 1, n)) =
                 SumOf(Weighted(SubSeq(F, 1, n), QuantityOf))
    <2>1. SubSeq(F, 1, n) \in Seq(Orders)
      <3>1. CutAt(F, n, Orders)
        BY PrefixOf
      <3> QED
        BY <3>1 DEF CutAt
    <2> QED
      BY <2>1, CountedLists, TotalsAreWeights
  <1>5. CASE WholeSoFar(F, order, m, t)
    <2>1. m.order.quantity = q - Before(F, t + 1)
      BY <1>5 DEF WholeSoFar
    <2>2. TotalQuantity(m.trades) = TotalQuantity(SubSeq(F, 1, t))
      BY <1>1, <1>2, <1>3, <1>4, <1>5, TradesWeigh
    <2>3. (t + 1) - 1 = t
      BY <1>1
    <2>4. Before(F, t + 1) = TotalQuantity(SubSeq(F, 1, t))
      BY <2>3 DEF Before
    <2>5. Before(F, t + 1) \in Nat
      <3>1. t + 1 \in 1 .. Len(F) + 1
        BY <1>1
      <3> QED
        BY <3>1, BeforeFacts
    <2> HIDE DEF t
    <2> QED
      BY <1>1, <2>1, <2>2, <2>4, <2>5
  <1>6. CASE PartAtLast(F, order, m, t)
    <2>1. m.order.quantity = 0 /\ m.trades[t].quantity = q - Before(F, t)
          /\ t - 1 \in 0 .. Len(F) /\ t \in 1 .. t /\ t \in 1 .. Len(F) + 1
      BY <1>1, <1>6 DEF PartAtLast
    <2>2. TotalQuantity(m.trades) =
            SumOf(Weighted(SubSeq(F, 1, t - 1), QuantityOf)) + QuantityOf[m.trades[t]]
      BY <1>2, <1>3, <1>6, TradesWeigh
    <2>3. QuantityOf[m.trades[t]] = m.trades[t].quantity
      <3>1. m.trades[t] \in Counted
        BY <2>1 DEF Counted
      <3> QED
        BY <3>1 DEF QuantityOf
    <2>4. Before(F, t) = SumOf(Weighted(SubSeq(F, 1, t - 1), QuantityOf))
      BY <1>4, <2>1 DEF Before
    <2>5. Before(F, t) \in Nat
      BY <2>1, BeforeFacts
    <2> HIDE DEF t
    <2> QED
      BY <1>1, <2>1, <2>2, <2>3, <2>4, <2>5
  <1> QED
    BY <1>1, <1>5, <1>6

(* The total of a level counts at its price.                                *)
LevelAt(price) ==
  [l \in PricedLevels |-> IF l.price = price THEN TotalQuantity(l.orders) ELSE 0]

(* It is a number.                                                          *)
LEMMA LevelAtType ==
  ASSUME NEW price
  PROVE  /\ LevelAt(price) \in [PricedLevels -> Int]
         /\ \A l \in PricedLevels :
              LevelAt(price)[l] = IF l.price = price THEN TotalQuantity(l.orders) ELSE 0
  <1>1. \A l \in PricedLevels : TotalQuantity(l.orders) \in Int
    <2> SUFFICES ASSUME NEW l \in PricedLevels PROVE TotalQuantity(l.orders) \in Int
      OBVIOUS
    <2>1. l.orders \in Seq(Orders)
      BY LevelFacts
    <2> QED
      BY <2>1, TotalConcat
  <1> QED
    BY <1>1 DEF LevelAt

(* Zeros sum up to zero.                                                    *)
LEMMA SumZeros == \A zeros \in Seq({0}) : SumOf(zeros) = 0
  <1> DEFINE P == {s \in Seq({0}) : SumOf(s) = 0}
  <1>1. <<>> \in P
    BY SumEmpty
  <1>2. \A s \in Seq({0}), x \in {0} : s \in P => Append(s, x) \in P
    <2> SUFFICES ASSUME NEW s \in Seq({0}), SumOf(s) = 0
                 PROVE  Append(s, 0) \in Seq({0}) /\ SumOf(Append(s, 0)) = 0
      OBVIOUS
    <2>1. s \in Seq(Int) /\ 0 \in Int
      OBVIOUS
    <2>2. SumOf(Append(s, 0)) = SumOf(s) + 0
      BY <2>1, SumAppend
    <2> QED
      BY <2>2
  <1> HIDE DEF P
  <1>3. \A list \in Seq({0}) : list \in P
    BY <1>1, <1>2, EveryList
  <1> QED
    BY <1>3 DEF P

(* At its price a level counts whole, at another price it does not.         *)
LEMMA LevelCounts ==
  ASSUME NEW l \in PricedLevels, NEW price
  PROVE  TradedAt(l.orders, price) = LevelAt(price)[l]
  <1> DEFINE orders == l.orders
             counted == [k \in DOMAIN orders |->
                           IF orders[k].price = price THEN orders[k].quantity ELSE 0]
  <1>1. orders \in Seq(Orders) /\ \A k \in DOMAIN orders : orders[k].price = l.price
    BY LevelFacts DEF PricedLevels
  <1>2. LevelAt(price)[l] = IF l.price = price THEN TotalQuantity(orders) ELSE 0
    BY LevelAtType
  <1>3. TradedAt(orders, price) = SumOf(counted)
    BY DEF TradedAt
  <1>4. CASE l.price = price
    <2>1. counted = [k \in DOMAIN orders |-> orders[k].quantity]
      BY <1>1, <1>4
    <2> QED
      BY <1>2, <1>3, <1>4, <2>1 DEF TotalQuantity
  <1>5. CASE l.price # price
    <2>1. counted = [k \in DOMAIN orders |-> 0]
      BY <1>1, <1>5
    <2>2. [k \in DOMAIN orders |-> 0] \in Seq({0})
      BY <1>1
    <2>3. SumOf(counted) = 0
      BY <2>1, <2>2, SumZeros
    <2> QED
      BY <1>2, <1>3, <1>5, <2>3
  <1> QED
    BY <1>4, <1>5

(* What the view of a side shows at a price is the sum over its levels, and *)
(* also over its orders.                                                    *)
LEMMA ViewShows ==
  ASSUME NEW price, NEW side \in Seq(PricedLevels)
  PROVE  /\ ShownAt(runtime_view(side), price) = SumOf(Weighted(side, LevelAt(price)))
         /\ TradedAt(OrdersOf(side), price) = SumOf(Weighted(side, LevelAt(price)))
  <1> DEFINE w == LevelAt(price)
             view == runtime_view(side)
             Q(s) == TradedAt(OrdersOf(s), price) = SumOf(Weighted(s, w))
             P == {s \in Seq(PricedLevels) : Q(s)}
  <1>1. w \in [PricedLevels -> Int]
    BY LevelAtType
  <1>2. ShownAt(view, price) = SumOf(Weighted(side, w))
    <2>1. DOMAIN view = DOMAIN side
          /\ \A k \in DOMAIN side : /\ side[k] \in PricedLevels
                                    /\ view[k].price = side[k].price
                                    /\ view[k].total_quantity = TotalQuantity(side[k].orders)
      BY DEF runtime_view, LevelView
    <2>2. \A k \in DOMAIN side :
            w[side[k]] = IF side[k].price = price
                         THEN TotalQuantity(side[k].orders) ELSE 0
      BY <2>1, LevelAtType
    <2> HIDE DEF view, w
    <2>3. [k \in DOMAIN view |->
             IF view[k].price = price THEN view[k].total_quantity ELSE 0]
            = Weighted(side, w)
      BY <2>1, <2>2 DEF Weighted
    <2> QED
      BY <2>3 DEF ShownAt
  <1>3. <<>> \in P
    <2>1. OrdersOf(<<>>) = <<>> /\ <<>> \in Seq(PricedLevels)
      BY OrdersEmpty
    <2>2. TradedAt(<<>>, price) = 0
      BY SumEmpty DEF TradedAt
    <2>3. SumOf(Weighted(<<>>, w)) = 0
      BY <1>1, WeightedShort
    <2> QED
      BY <2>1, <2>2, <2>3
  <1> HIDE DEF w
  <1>4. \A s \in Seq(PricedLevels), l \in PricedLevels : s \in P => Append(s, l) \in P
    <2> SUFFICES ASSUME NEW s \in Seq(PricedLevels), NEW l \in PricedLevels, Q(s)
                 PROVE  Append(s, l) \in Seq(PricedLevels) /\ Q(Append(s, l))
      <3> HIDE DEF Q
      <3> QED
        OBVIOUS
    <2> DEFINE a == OrdersOf(s)
               b == l.orders
               one == <<l>>
               v == QuantityAt(price)
    <2>1. a \in Seq(Orders) /\ b \in Seq(Orders) /\ OrdersOf(Append(s, l)) = a \o b
      <3>1. \A x \in PricedLevels : x.orders \in Seq(Orders)
        BY LevelFacts
      <3>2. a \in Seq(Orders)
        BY <3>1, OrdersType
      <3>3. OrdersOf(Append(s, l)) = a \o b
        BY <3>1, OrdersAppend
      <3> QED
        BY <3>1, <3>2, <3>3
    <2> HIDE DEF a, b
    <2>2. TradedAt(a \o b, price) = TradedAt(a, price) + TradedAt(b, price)
      <3>1. v \in [Counted -> Int]
        <4>1. \A x \in Counted : x.quantity \in Int
          BY OrderFacts DEF Counted, Trades
        <4> QED
          BY <4>1 DEF QuantityAt
      <3>2. a \in Seq(Counted) /\ b \in Seq(Counted) /\ a \o b \in Seq(Counted)
        <4>1. a \in Seq(Counted) /\ b \in Seq(Counted)
          BY <2>1, CountedLists
        <4> QED
          BY <4>1, ConcatJoins
      <3> HIDE DEF v
      <3>3. SumOf(Weighted(a \o b, v)) = SumOf(Weighted(a, v)) + SumOf(Weighted(b, v))
        BY <3>1, <3>2, WeightedConcat
      <3> QED
        BY <3>2, <3>3, TotalsAreWeights DEF v
    <2>3. TradedAt(b, price) = w[l]
      BY LevelCounts DEF b, w
    <2>4. Append(s, l) = s \o one /\ one \in Seq(PricedLevels)
          /\ Append(s, l) \in Seq(PricedLevels)
      BY AppendIsConcat
    <2>5. SumOf(Weighted(one, w)) = w[l]
      BY <1>1, WeightedShort
    <2> HIDE DEF one
    <2>6. SumOf(Weighted(s \o one, w)) = SumOf(Weighted(s, w)) + SumOf(Weighted(one, w))
      BY <1>1, <2>4, WeightedConcat
    <2> QED
      BY <2>1, <2>2, <2>3, <2>4, <2>5, <2>6 DEF a
  <1> HIDE DEF P
  <1>5. side \in P
    BY <1>3, <1>4, EveryList
  <1> QED
    BY <1>2, <1>5 DEF P, w

(* A list, last element first.                                              *)
Backwards(list) == [i \in 1 .. Len(list) |-> list[(Len(list) + 1) - i]]

(* The last element comes first.                                            *)
LEMMA BackwardsAppend ==
  ASSUME NEW T, NEW s \in Seq(T), NEW x \in T
  PROVE  /\ Backwards(s) \in Seq(T)
         /\ Backwards(Append(s, x)) = <<x>> \o Backwards(s)
  <1> DEFINE n == Len(s)
             more == Append(s, x)
             b == Backwards(s)
             c == Backwards(more)
             d == <<x>> \o b
  <1>1. /\ n \in Nat /\ Len(more) = n + 1 /\ more[n + 1] = x /\ more \in Seq(T)
        /\ \A k \in 1 .. n : more[k] = s[k]
    OBVIOUS
  <1>2. b \in Seq(T) /\ Len(b) = n /\ \A i \in 1 .. n : b[i] = s[(n + 1) - i]
    <2>1. \A i \in 1 .. n : (n + 1) - i \in 1 .. n
      BY <1>1
    <2>2. \A i \in 1 .. n : s[(n + 1) - i] \in T
      BY <2>1
    <2> QED
      BY <1>1, <2>2 DEF Backwards
  <1> HIDE DEF more, b
  <1>3. c = [i \in 1 .. n + 1 |-> more[((n + 1) + 1) - i]]
    BY <1>1 DEF Backwards
  <1> HIDE DEF n
  <1>4. d \in Seq(T) /\ Len(d) = n + 1 /\ d[1] = x
        /\ \A k \in 2 .. n + 1 : d[k] = b[k - 1]
    BY <1>2, InFront
  <1> HIDE DEF d
  <1>5. ASSUME NEW i \in 1 .. n + 1
        PROVE  more[((n + 1) + 1) - i] = d[i]
    <2>1. CASE i = 1
      <3>1. ((n + 1) + 1) - i = n + 1
        BY <1>1, <2>1
      <3> QED
        BY <1>1, <1>4, <2>1, <3>1
    <2>2. CASE i # 1
      <3>1. /\ i \in 2 .. n + 1 /\ i - 1 \in 1 .. n
            /\ ((n + 1) + 1) - i = (n + 1) - (i - 1)
            /\ (n + 1) - (i - 1) \in 1 .. n
        BY <1>1, <2>2
      <3>2. d[i] = b[i - 1]
        BY <1>4, <3>1
      <3>3. b[i - 1] = s[(n + 1) - (i - 1)]
        BY <1>2, <3>1
      <3>4. more[(n + 1) - (i - 1)] = s[(n + 1) - (i - 1)]
        BY <1>1, <3>1
      <3> QED
        BY <3>1, <3>2, <3>3, <3>4
    <2> QED
      BY <2>1, <2>2
  <1>6. d = [i \in 1 .. n + 1 |-> d[i]]
    BY <1>4
  <1>7. c = d
    BY <1>3, <1>5, <1>6
  <1> QED
    BY <1>2, <1>7 DEF d, b, more

(* It weighs the same.                                                      *)
LEMMA BackwardsWeighs ==
  ASSUME NEW T, NEW w \in [T -> Int], NEW list \in Seq(T)
  PROVE  Backwards(list) \in Seq(T)
         /\ SumOf(Weighted(Backwards(list), w)) = SumOf(Weighted(list, w))
  <1> DEFINE Q(s) == Backwards(s) \in Seq(T)
                     /\ SumOf(Weighted(Backwards(s), w)) = SumOf(Weighted(s, w))
             P == {s \in Seq(T) : Q(s)}
  <1>1. <<>> \in P
    <2>1. Backwards(<<>>) = <<>> /\ <<>> \in Seq(T)
      BY DEF Backwards
    <2> QED
      BY <2>1
  <1>2. \A s \in Seq(T), x \in T : s \in P => Append(s, x) \in P
    <2> SUFFICES ASSUME NEW s \in Seq(T), NEW x \in T, Q(s)
                 PROVE  Append(s, x) \in Seq(T) /\ Q(Append(s, x))
      <3> HIDE DEF Q
      <3> QED
        OBVIOUS
    <2> DEFINE b == Backwards(s)
               one == <<x>>
    <2>1. b \in Seq(T) /\ Backwards(Append(s, x)) = one \o b
      BY BackwardsAppend
    <2>2. one \in Seq(T) /\ SumOf(Weighted(one, w)) = w[x] /\ w[x] \in Int
      <3>1. one \in Seq(T) /\ w[x] \in Int
        OBVIOUS
      <3>2. SumOf(Weighted(<<x>>, w)) = w[x]
        BY WeightedShort
      <3> QED
        BY <3>1, <3>2
    <2>3. Append(s, x) = s \o one /\ Append(s, x) \in Seq(T)
      BY AppendIsConcat
    <2>4. SumOf(Weighted(b, w)) = SumOf(Weighted(s, w))
      OBVIOUS
    <2> HIDE DEF b, one, P
    <2>5. /\ SumOf(Weighted(one \o b, w)) = SumOf(Weighted(one, w)) + SumOf(Weighted(b, w))
          /\ SumOf(Weighted(s \o one, w)) = SumOf(Weighted(s, w)) + SumOf(Weighted(one, w))
      BY <2>1, <2>2, WeightedConcat
    <2>6. SumOf(Weighted(s, w)) \in Int
      BY WeightedConcat, SumType
    <2>7. one \o b \in Seq(T)
      BY <2>1, <2>2, ConcatJoins
    <2>8. SumOf(Weighted(one \o b, w)) = SumOf(Weighted(s \o one, w))
      BY <2>2, <2>4, <2>5, <2>6
    <2> QED
      BY <2>1, <2>3, <2>7, <2>8
  <1> HIDE DEF P
  <1>3. list \in P
    BY <1>1, <1>2, EveryList
  <1> QED
    BY <1>3 DEF P

(* An order joins a side: at its price the side shows its quantity more, at *)
(* the other prices what it showed, though levels may have moved.           *)
LEMMA JoinedShows ==
  ASSUME NEW order \in Orders, NEW own \in Seq(PricedLevels), NEW descending,
         NEW joined, joined = AddOrderToSide(descending, own, order), NEW price
  PROVE  SumOf(Weighted(joined, LevelAt(price))) =
           SumOf(Weighted(own, LevelAt(price)))
           + (IF price = order.price THEN order.quantity ELSE 0)
  <1> DEFINE w == LevelAt(price)
             Sum(list) == SumOf(Weighted(list, w))
             more == IF price = order.price THEN order.quantity ELSE 0
  <1>1. /\ w \in [PricedLevels -> Int]
        /\ \A l \in PricedLevels :
             w[l] = IF l.price = price THEN TotalQuantity(l.orders) ELSE 0
    BY LevelAtType
  <1>2. order.quantity \in Int /\ more \in Int /\ order.price \in InputPrices
    BY OrderFacts
  <1> HIDE DEF w
  <1>3. /\ \A s \in Seq(PricedLevels) : Sum(s) \in Int
        /\ \A l \in PricedLevels : Sum(<<l>>) = w[l] /\ w[l] \in Int
        /\ \A s, t \in Seq(PricedLevels) :
             s \o t \in Seq(PricedLevels) /\ Sum(s \o t) = Sum(s) + Sum(t)
    <2>1. \A s \in Seq(PricedLevels) : Sum(s) \in Int
      BY <1>1, WeightedConcat, SumType
    <2>2. \A l \in PricedLevels : Sum(<<l>>) = w[l] /\ w[l] \in Int
      BY <1>1, WeightedShort
    <2>3. \A s, t \in Seq(PricedLevels) : Sum(s \o t) = Sum(s) + Sum(t)
      BY <1>1, WeightedConcat
    <2>4. \A s, t \in Seq(PricedLevels) : s \o t \in Seq(PricedLevels)
      OBVIOUS
    <2> QED
      BY <2>1, <2>2, <2>3, <2>4
  <1>4. ASSUME NEW k \in 1 .. Len(own), JoinsLevel(own, order, k, joined)
        PROVE  Sum(joined) = Sum(own) + more
    <2> DEFINE first == SubSeq(own, 1, k - 1)
               rest == SubSeq(own, k + 1, Len(own))
               orders == Append(own[k].orders, order)
               level == Level(own[k].price, orders)
               one == <<level>>
               moved == [i \in 1 .. k - 1 |-> own[k - i]]
    <2>1. joined = (one \o rest) \o moved /\ own[k].price = order.price
      BY <1>4 DEF JoinsLevel
    <2>2. own[k] \in PricedLevels
      OBVIOUS
    <2>3. Sum(own) = Sum(first) + w[own[k]] + Sum(rest)
      BY <1>1, CutAround
    <2>4. first \in Seq(PricedLevels) /\ rest \in Seq(PricedLevels)
          /\ Len(first) = k - 1 /\ \A i \in 1 .. k - 1 : first[i] = own[i]
      OBVIOUS
    <2>5. moved = Backwards(first)
      <3>1. \A i \in 1 .. k - 1 : /\ ((k - 1) + 1) - i = k - i
                                  /\ k - i \in 1 .. k - 1
        OBVIOUS
      <3> HIDE DEF first
      <3>2. \A i \in 1 .. k - 1 : own[k - i] = first[((k - 1) + 1) - i]
        BY <2>4, <3>1
      <3> QED
        BY <2>4, <3>2 DEF Backwards
    <2>6. level \in PricedLevels /\ level.price = order.price /\ level.orders = orders
      <3> DEFINE old == own[k].orders
      <3>1. old \in Seq(Orders) /\ \A j \in 1 .. Len(old) : old[j].price = order.price
        BY <2>1, <2>2, LevelFacts DEF PricedLevels
      <3> HIDE DEF old
      <3>2. /\ Append(old, order) \in Seq(Orders) /\ Append(old, order) # <<>>
            /\ \A j \in 1 .. Len(Append(old, order)) :
                 Append(old, order)[j].price = order.price
        BY <3>1, AppendAtPrice
      <3>3. orders \in Seq(Orders) /\ orders # <<>>
            /\ \A j \in 1 .. Len(orders) : orders[j].price = order.price
        BY <3>2 DEF old
      <3>4. DOMAIN orders = 1 .. Len(orders)
        BY <3>3
      <3> HIDE DEF orders
      <3> QED
        BY <1>2, <2>1, <3>3, <3>4 DEF Level, PricedLevels, PriceLevels
    <2>7. w[level] = w[own[k]] + more
      <3> DEFINE old == own[k].orders
                 last == <<order>>
      <3>1. old \in Seq(Orders) /\ last \in Seq(Orders) /\ orders = old \o last
        <4>1. old \in Seq(Orders)
          BY <2>2, LevelFacts
        <4> QED
          BY <4>1, AppendIsConcat
      <3>2. TotalQuantity(last) = order.quantity
        BY TotalOne
      <3> HIDE DEF orders, last, old
      <3>3. TotalQuantity(orders) = TotalQuantity(old) + order.quantity
            /\ TotalQuantity(old) \in Nat
        BY <3>1, <3>2, TotalConcat
      <3>4. w[level] = IF order.price = price THEN TotalQuantity(orders) ELSE 0
        BY <1>1, <2>6
      <3>5. w[own[k]] = IF order.price = price THEN TotalQuantity(old) ELSE 0
        BY <1>1, <2>1, <2>2 DEF old
      <3> HIDE DEF level
      <3> QED
        BY <1>2, <3>3, <3>4, <3>5
    <2> HIDE DEF first, rest, orders, level, moved
    <2>8. moved \in Seq(PricedLevels) /\ Sum(moved) = Sum(first)
      BY <1>1, <2>4, <2>5, BackwardsWeighs
    <2>9. one \in Seq(PricedLevels)
      BY <2>6
    <2>10. Sum(one) = w[level] /\ w[level] \in Int /\ w[own[k]] \in Int
      BY <1>3, <2>2, <2>6
    <2> HIDE DEF one, Sum
    <2>11. Sum(joined) = Sum(one) + Sum(rest) + Sum(moved)
      <3>1. one \o rest \in Seq(PricedLevels) /\ Sum(one \o rest) = Sum(one) + Sum(rest)
        BY <1>3, <2>4, <2>9
      <3>2. Sum((one \o rest) \o moved) = Sum(one \o rest) + Sum(moved)
        BY <1>3, <2>8, <3>1
      <3> QED
        BY <2>1, <3>1, <3>2
    <2>12. Sum(first) \in Int /\ Sum(rest) \in Int
      BY <1>3, <2>4
    <2> HIDE DEF more
    <2> QED
      BY <1>2, <2>3, <2>7, <2>8, <2>10, <2>11, <2>12
  <1>5. ASSUME NEW at \in 0 .. Len(own),
               OpensLevel(descending, own, order, at, joined)
        PROVE  Sum(joined) = Sum(own) + more
    <2> DEFINE first == SubSeq(own, 1, at)
               last == SubSeq(own, at + 1, Len(own))
               orders == <<order>>
               level == Level(order.price, orders)
               one == <<level>>
    <2>1. first \in Seq(PricedLevels) /\ last \in Seq(PricedLevels)
          /\ first \o last = own
      <3>1. CutAt(own, at, PricedLevels)
        BY PrefixOf
      <3> QED
        BY <3>1 DEF CutAt
    <2>2. joined = first \o (one \o last)
      BY <1>5 DEF OpensLevel
    <2>3. level \in PricedLevels /\ level.price = order.price
          /\ level.orders = orders
      <3>1. orders \in Seq(Orders) /\ orders # <<>> /\ Len(orders) = 1
            /\ orders[1] = order /\ DOMAIN orders = 1 .. Len(orders)
        BY OneOrder
      <3>2. \A j \in 1 .. Len(orders) : orders[j].price = order.price
        BY <3>1
      <3> HIDE DEF orders
      <3> QED
        BY <3>1, <3>2, OrderFacts DEF Level, PricedLevels, PriceLevels
    <2>4. w[level] = more
      <3>1. TotalQuantity(orders) = order.quantity
        BY TotalOne
      <3> HIDE DEF level, orders
      <3> QED
        BY <1>1, <2>3, <3>1
    <2> HIDE DEF first, last, level, orders
    <2>5. one \in Seq(PricedLevels)
      BY <2>3
    <2>6. Sum(one) = more
      BY <1>3, <2>3, <2>4
    <2> HIDE DEF one, Sum
    <2>7. one \o last \in Seq(PricedLevels) /\ Sum(one \o last) = Sum(one) + Sum(last)
      BY <1>3, <2>1, <2>5
    <2>8. Sum(joined) = Sum(first) + Sum(one \o last)
      <3> DEFINE rest == one \o last
      <3>1. rest \in Seq(PricedLevels) /\ joined = first \o rest
        BY <2>2, <2>7
      <3> HIDE DEF rest
      <3>2. Sum(first \o rest) = Sum(first) + Sum(rest)
        BY <1>3, <2>1, <3>1
      <3> QED
        BY <3>1, <3>2 DEF rest
    <2>9. Sum(own) = Sum(first) + Sum(last)
      BY <1>3, <2>1
    <2>10. Sum(first) \in Int /\ Sum(last) \in Int
      BY <1>3, <2>1
    <2> HIDE DEF more
    <2> QED
      BY <1>2, <2>6, <2>7, <2>8, <2>9, <2>10
  <1>6. Sum(joined) = Sum(own) + more
    BY <1>4, <1>5, AddOrderCases
  <1> QED
    BY <1>6 DEF w

(* What the trades and the remainder of a submit tell of the totals.        *)
Follow(order, opp, own, left, joined, done, rest) ==
  /\ \A price \in InputPrices :
       /\ ShownAt(runtime_view(opp), price) =
            ShownAt(runtime_view(left), price) + TradedAt(done, price)
       /\ ShownAt(runtime_view(joined), price) =
            ShownAt(runtime_view(own), price)
            + IF price = order.price THEN rest ELSE 0
  /\ order.quantity = rest + TotalQuantity(done)

(* A match, and what joins the own side, follow.                            *)
LEMMA SubmittedFollows ==
  ASSUME NEW order \in Orders, NEW own \in Seq(PricedLevels),
         NEW opp \in Seq(PricedLevels), SortedSide(opp, order.side = Sell),
         NEW result, result = Match(opp, order), NEW joined,
         Submitted(order, own, opp, result, joined),
         ~PartWithOthers(OrdersOf(opp), result.trades)
  PROVE  Follow(order, opp, own, result.opp, joined, result.trades,
                result.order.quantity)
  <1> DEFINE F == OrdersOf(opp)
             left == result.opp
             done == result.trades
             rest == result.order
  <1>1. /\ left \in Seq(PricedLevels) /\ done \in Seq(Trades) /\ rest \in Rests(order)
        /\ joined = IF rest.quantity = 0 THEN own
                    ELSE AddOrderToSide(order.side = Buy, own, rest)
    BY DEF Submitted, MatchStates
  <1>2. Progress(F, order, result)
    BY MatchProgress
  <1>3. F \in Seq(Orders) /\ OrdersOf(left) \in Seq(Orders)
    <2>1. \A l \in PricedLevels : l.orders \in Seq(Orders)
      BY LevelFacts
    <2> QED
      BY <1>1, <2>1, OrdersType
  <1>4. rest.quantity \in Nat /\ rest.price = order.price
        /\ (rest.quantity > 0 => rest \in Orders)
    BY <1>1, RestFacts
  <1> HIDE DEF F
  <1>5. order.quantity = rest.quantity + TotalQuantity(done)
    BY <1>1, <1>2, <1>3, <1>4, Accounted
  <1>6. ASSUME NEW price \in InputPrices
        PROVE  ShownAt(runtime_view(opp), price) =
                 ShownAt(runtime_view(left), price) + TradedAt(done, price)
    <2> DEFINE w == QuantityAt(price)
    <2>1. Weighs(w)
      BY WeighsBoth, OrderFacts
    <2>2. ~PartWithOthers(F, done)
      BY DEF F
    <2> HIDE DEF w
    <2>3. SumOf(Weighted(F, w)) =
            SumOf(Weighted(OrdersOf(left), w)) + SumOf(Weighted(done, w))
      BY <1>1, <1>2, <1>3, <2>1, <2>2, Conserved
    <2>4. F \in Seq(Counted) /\ OrdersOf(left) \in Seq(Counted)
          /\ done \in Seq(Counted)
      BY <1>1, <1>3, CountedLists
    <2>5. TradedAt(F, price) = TradedAt(OrdersOf(left), price) + TradedAt(done, price)
      BY <2>3, <2>4, TotalsAreWeights DEF w
    <2>6. TradedAt(F, price) = ShownAt(runtime_view(opp), price)
      BY ViewShows DEF F
    <2>7. TradedAt(OrdersOf(left), price) = ShownAt(runtime_view(left), price)
      BY <1>1, ViewShows
    <2> QED
      BY <2>5, <2>6, <2>7
  <1>7. ASSUME NEW price \in InputPrices
        PROVE  ShownAt(runtime_view(joined), price) =
                 ShownAt(runtime_view(own), price)
                 + IF price = order.price THEN rest.quantity ELSE 0
    <2> DEFINE w == LevelAt(price)
    <2>1. ShownAt(runtime_view(own), price) = SumOf(Weighted(own, w))
          /\ SumOf(Weighted(own, w)) \in Int
      <3>1. w \in [PricedLevels -> Int]
        BY LevelAtType
      <3> QED
        BY <3>1, ViewShows, WeightedConcat, SumType
    <2>2. CASE rest.quantity = 0
      <3>1. joined = own
        BY <1>1, <2>2
      <3>2. (IF price = order.price THEN rest.quantity ELSE 0) = 0
        BY <2>2
      <3> HIDE DEF w
      <3> QED
        BY <2>1, <3>1, <3>2
    <2>3. CASE rest.quantity # 0
      <3>1. rest \in Orders /\ joined = AddOrderToSide(order.side = Buy, own, rest)
        BY <1>1, <1>4, <2>3
      <3>2. joined \in Seq(PricedLevels)
        BY <3>1, AddOrderKeepsLevels
      <3>3. ShownAt(runtime_view(joined), price) = SumOf(Weighted(joined, w))
        BY <3>2, ViewShows
      <3> HIDE DEF rest
      <3>4. SumOf(Weighted(joined, w)) =
              SumOf(Weighted(own, w))
              + (IF price = rest.price THEN rest.quantity ELSE 0)
        BY <3>1, JoinedShows
      <3> QED
        BY <1>4, <2>1, <3>3, <3>4
    <2> QED
      BY <2>2, <2>3
  <1> QED
    BY <1>5, <1>6, <1>7 DEF Follow

(* So does a submit.                                                        *)
LEMMA SubmitFollows ==
  ASSUME CtInv, NEW order \in Orders, Submit(order),
         ~PartWithOthers(OrdersOf(SideOf(opposite(order.side))), trades')
  PROVE  Follow(order, SideOf(opposite(order.side)), SideOf(order.side),
                SideOf(opposite(order.side))', SideOf(order.side)',
                trades', remainder')
  <1> DEFINE own == SideOf(order.side)
             opp == SideOf(opposite(order.side))
  <1>1. PICK result, joined :
          /\ Submitted(order, own, opp, result, joined)
          /\ result = Match(opp, order)
          /\ order.side \in {Buy, Sell}
          /\ order.side = Buy => bids' = joined /\ asks' = result.opp
          /\ order.side = Sell => bids' = result.opp /\ asks' = joined
          /\ trades' = result.trades
          /\ remainder' = result.order.quantity
    BY SubmitCases
  <1>2. /\ own \in Seq(PricedLevels) /\ opp \in Seq(PricedLevels)
        /\ SortedSide(opp, order.side = Sell)
    BY SubmitSides
  <1>3. opp' = result.opp /\ own' = joined
    BY <1>1 DEF SideOf, opposite, Buy, Sell
  <1>4. ~PartWithOthers(OrdersOf(opp), result.trades)
    BY <1>1
  <1>5. Follow(order, opp, own, result.opp, joined, result.trades,
               result.order.quantity)
    <2> HIDE DEF own, opp
    <2> QED
      BY <1>1, <1>2, <1>4, SubmittedFollows
  <1> QED
    BY <1>1, <1>3, <1>5

(* ViewFollowsTrades: whoever keeps the totals of a view from the trades    *)
(* and the remainder of each submit is right, be the levels in order or     *)
(* not, save for the orders that are lost behind a partly filled one.       *)
THEOREM ViewFollowsTradesAlways == CtSpec => ViewFollowsTrades
  <1>1. ASSUME CtInv, [CtNext]_ctVars
        PROVE  [\A order \in Orders :
                  LET opp == SideOf(opposite(order.side))
                      own == SideOf(order.side)
                  IN Submit(order) /\ ~PartWithOthers(OrdersOf(opp), trades') =>
                       /\ \A price \in InputPrices :
                            /\ ShownAt(runtime_view(opp), price) =
                                 ShownAt(runtime_view(opp'), price)
                                 + TradedAt(trades', price)
                            /\ ShownAt(runtime_view(own'), price) =
                                 ShownAt(runtime_view(own), price)
                                 + IF price = order.price THEN remainder' ELSE 0
                       /\ order.quantity = remainder' + TotalQuantity(trades')]_ctVars
    BY <1>1, SubmitFollows DEF Follow
  <1>2. CtSpec => []CtInv
    BY InvHolds
  <1> QED
    BY <1>1, <1>2, PTL DEF CtSpec, ViewFollowsTrades

=============================================================================
