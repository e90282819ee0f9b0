------------------------ MODULE ReferenceBookProofs ------------------------
(***************************************************************************)
(* The reference book keeps its queues and its index together and never    *)
(* crosses, for every set of ids, finite set of prices and largest         *)
(* quantity.  The invariant says of each id where it stands, and of each   *)
(* price and side which ids the index sends there; it is kept level by     *)
(* level, since each step changes one queue of one side.                   *)
(***************************************************************************)
EXTENDS ReferenceBook, FiniteSetTheorems, SequenceTheorems, TLAPS

(* A level that is there: orders of that side and price, each once.         *)
QueueOK(queue, side, price) ==
  /\ queue \in Seq(Orders) \ {<<>>}
  /\ \A k \in DOMAIN queue :
       /\ queue[k].side = side /\ queue[k].price = price /\ queue[k].quantity > 0
       /\ \A j \in DOMAIN queue : queue[j].id = queue[k].id => j = k

IdsOf(queue) == {queue[k].id : k \in DOMAIN queue}

Place(side, price) == [side |-> side, price |-> price]

(* What a submit or a cancel leaves of a level.                             *)
LeftOK(queue, side, price) == queue = <<>> \/ QueueOK(queue, side, price)

-----------------------------------------------------------------------------

(* What each operation does to a queue.                                     *)

LEMMA Appended ==
  ASSUME NEW side, NEW price, NEW queue, LeftOK(queue, side, price),
         NEW o \in Orders, o.side = side, o.price = price, o.quantity > 0,
         o.id \notin IdsOf(queue)
  PROVE  /\ QueueOK(Append(queue, o), side, price)
         /\ IdsOf(Append(queue, o)) = IdsOf(queue) \cup {o.id}
  <1> DEFINE new == Append(queue, o)
  <1>1. queue \in Seq(Orders)
    BY EmptySeq DEF LeftOK, QueueOK
  <1>2. /\ new \in Seq(Orders) /\ new # <<>>
        /\ Len(queue) \in Nat /\ DOMAIN queue = 1 .. Len(queue)
        /\ DOMAIN new = 1 .. Len(queue) + 1
        /\ \A k \in 1 .. Len(queue) : new[k] = queue[k]
        /\ new[Len(queue) + 1] = o
    BY <1>1
  <1>3. \A k \in DOMAIN queue :
          /\ queue[k].side = side /\ queue[k].price = price /\ queue[k].quantity > 0
          /\ \A j \in DOMAIN queue : queue[j].id = queue[k].id => j = k
    BY <1>2 DEF LeftOK, QueueOK
  <1>4. \A k \in DOMAIN new : k \in DOMAIN queue \/ k = Len(queue) + 1
    BY <1>2
  <1> HIDE DEF new
  <1>5. QueueOK(new, side, price)
    BY <1>2, <1>3, <1>4 DEF QueueOK, IdsOf
  <1>6. IdsOf(new) = IdsOf(queue) \cup {o.id}
    BY <1>2, <1>4 DEF IdsOf
  <1> QED
    BY <1>5, <1>6 DEF new

LEMMA HeadTaken ==
  ASSUME NEW side, NEW price, NEW queue, QueueOK(queue, side, price)
  PROVE  /\ LeftOK(Tail(queue), side, price)
         /\ IdsOf(Tail(queue)) = IdsOf(queue) \ {Head(queue).id}
         /\ Head(queue) = queue[1] /\ 1 \in DOMAIN queue
  <1> DEFINE new == Tail(queue)
  <1>1. queue \in Seq(Orders) /\ queue # <<>>
    BY DEF QueueOK
  <1>2. /\ new \in Seq(Orders)
        /\ Len(queue) \in Nat \ {0} /\ DOMAIN queue = 1 .. Len(queue)
        /\ DOMAIN new = 1 .. Len(queue) - 1
        /\ \A k \in DOMAIN new : new[k] = queue[k + 1] /\ k + 1 \in DOMAIN queue
        /\ Head(queue) = queue[1] /\ 1 \in DOMAIN queue
    BY <1>1
  <1>3. \A k \in DOMAIN queue : k = 1 \/ (k - 1 \in DOMAIN new /\ queue[k] = new[k - 1])
    BY <1>2
  <1> HIDE DEF new
  <1>4. new = <<>> \/ QueueOK(new, side, price)
    BY <1>2 DEF QueueOK
  <1>5. ASSUME NEW k \in DOMAIN new
        PROVE  new[k].id \in IdsOf(queue) \ {queue[1].id}
    BY <1>2 DEF QueueOK, IdsOf
  <1>6. ASSUME NEW k \in DOMAIN queue, queue[k].id # queue[1].id
        PROVE  queue[k].id \in IdsOf(new)
    BY <1>3, <1>6 DEF IdsOf
  <1>7. IdsOf(new) = IdsOf(queue) \ {queue[1].id}
    BY <1>5, <1>6 DEF IdsOf
  <1> QED
    BY <1>2, <1>4, <1>7 DEF new, LeftOK

LEMMA HeadReduced ==
  ASSUME NEW side, NEW price, NEW queue, QueueOK(queue, side, price),
         NEW n \in Nat, n < queue[1].quantity
  PROVE  /\ QueueOK([queue EXCEPT ![1].quantity = @ - n], side, price)
         /\ IdsOf([queue EXCEPT ![1].quantity = @ - n]) = IdsOf(queue)
  <1> DEFINE first == [queue[1] EXCEPT !.quantity = @ - n]
             new == [queue EXCEPT ![1].quantity = @ - n]
  <1>1. /\ queue \in Seq(Orders) /\ queue # <<>>
        /\ Len(queue) \in Nat \ {0} /\ DOMAIN queue = 1 .. Len(queue)
        /\ 1 \in DOMAIN queue /\ queue[1] \in Orders
    BY DEF QueueOK
  <1>2. /\ first \in Orders /\ first.quantity > 0
        /\ first.id = queue[1].id /\ first.side = queue[1].side
        /\ first.price = queue[1].price
    BY <1>1, ReferenceAssumption DEF Orders
  <1>3. new = [queue EXCEPT ![1] = first]
    BY <1>1
  <1> HIDE DEF first, new
  <1>4. /\ new \in Seq(Orders) /\ new # <<>> /\ DOMAIN new = DOMAIN queue
        /\ \A k \in DOMAIN queue : new[k] = IF k = 1 THEN first ELSE queue[k]
    BY <1>1, <1>2, <1>3
  <1>5. QueueOK(new, side, price) /\ IdsOf(new) = IdsOf(queue)
    BY <1>2, <1>4 DEF QueueOK, IdsOf
  <1> QED
    BY <1>5 DEF new

LEMMA OrderErased ==
  ASSUME NEW side, NEW price, NEW queue, QueueOK(queue, side, price),
         NEW id \in IdsOf(queue)
  PROVE  /\ LeftOK(EraseOrder(queue, id), side, price)
         /\ IdsOf(EraseOrder(queue, id)) = IdsOf(queue) \ {id}
  <1> DEFINE places == {k \in DOMAIN queue : queue[k].id = id}
             first == CHOOSE k \in places : \A j \in places : k <= j
             new == [j \in 1 .. Len(queue) - 1 |->
                       queue[IF j < first THEN j ELSE j + 1]]
  <1>1. /\ queue \in Seq(Orders)
        /\ Len(queue) \in Nat \ {0} /\ DOMAIN queue = 1 .. Len(queue)
        /\ \A k \in DOMAIN queue : queue[k] \in Orders
    BY DEF QueueOK
  <1>2. PICK i \in DOMAIN queue : queue[i].id = id
    BY DEF IdsOf
  <1>3. places = {i}
    BY <1>2 DEF QueueOK
  <1>4. first = i /\ i \in 1 .. Len(queue)
    BY <1>1, <1>3
  <1>5. EraseOrder(queue, id) = new
    BY <1>3 DEF EraseOrder
  <1> HIDE DEF places, first
  <1>6. /\ new \in Seq(Orders) /\ DOMAIN new = 1 .. Len(queue) - 1
        /\ \A j \in DOMAIN new :
             /\ new[j] = queue[IF j < i THEN j ELSE j + 1]
             /\ (IF j < i THEN j ELSE j + 1) \in DOMAIN queue \ {i}
    BY <1>1, <1>4
  <1>7. \A k \in DOMAIN queue \ {i} :
          /\ (IF k < i THEN k ELSE k - 1) \in DOMAIN new
          /\ queue[k] = new[IF k < i THEN k ELSE k - 1]
    BY <1>1, <1>4
  <1> HIDE DEF new
  <1>8. \A j, k \in DOMAIN new :
          (IF j < i THEN j ELSE j + 1) = (IF k < i THEN k ELSE k + 1) => j = k
    BY <1>4, <1>6
  <1>9. new = <<>> \/ QueueOK(new, side, price)
    BY <1>6, <1>8 DEF QueueOK
  <1>10. ASSUME NEW k \in DOMAIN new
         PROVE  new[k].id \in IdsOf(queue) \ {id}
    BY <1>2, <1>6 DEF QueueOK, IdsOf
  <1>11. ASSUME NEW k \in DOMAIN queue, queue[k].id # id
         PROVE  queue[k].id \in IdsOf(new)
    BY <1>2, <1>7, <1>11 DEF IdsOf
  <1>12. IdsOf(new) = IdsOf(queue) \ {id}
    BY <1>10, <1>11 DEF IdsOf
  <1> QED
    BY <1>5, <1>9, <1>12 DEF LeftOK

-----------------------------------------------------------------------------

(* The best of a finite set of prices is one of them, and none is better.   *)
LEMMA BestIsBest ==
  ASSUME NEW side \in Sides, NEW T, T \subseteq InputPrices, T # {}
  PROVE  /\ BestOf(side, T) \in T
         /\ \A q \in T : IF side = Buy THEN BestOf(side, T) >= q
                                       ELSE BestOf(side, T) <= q
  <1> DEFINE Beats(p, q) == IF side = Buy THEN p > q ELSE p < q
             Better(p) == {q \in T : Beats(q, p)}
             F == {Better(p) : p \in T}
             R == StrictSubsetOrdering(InputPrices)
  <1>1. T \subseteq Int /\ IsFiniteSet(InputPrices)
    BY ReferenceAssumption
  <1>2. /\ IsWellFoundedOn(R, FiniteSubsetsOf(InputPrices))
        /\ FiniteSubsetsOf(InputPrices) = SUBSET InputPrices
    BY <1>1, FS_StrictSubsetOrderingWellFounded, FS_FiniteSubsetsOfFinite
  <1>3. F \subseteq SUBSET InputPrices /\ F # {}
    OBVIOUS
  <1>4. /\ \A p \in T : ~Beats(p, p)
        /\ \A p, q, r \in T : Beats(p, q) /\ Beats(q, r) => Beats(p, r)
    BY <1>1
  <1> HIDE DEF R, F
  <1>5. PICK A \in F : \A B \in F : ~(<<B, A>> \in R)
    BY <1>2, <1>3, WFMin
  <1>6. PICK x \in T : A = Better(x)
    BY DEF F
  <1>7. \A y \in T : ~Beats(y, x)
    <2>1. SUFFICES ASSUME NEW y \in T, Beats(y, x) PROVE FALSE
      OBVIOUS
    <2>2. Better(y) \in F
      BY DEF F
    <2> HIDE DEF Beats
    <2>3. Better(x) \subseteq InputPrices /\ Better(y) \subseteq Better(x)
      BY <1>4, <2>1
    <2>4. y \in Better(x) /\ y \notin Better(y)
      BY <1>4, <2>1
    <2>5. <<Better(y), Better(x)>> \in R
      BY <2>3, <2>4 DEF R, StrictSubsetOrdering
    <2> QED
      BY <1>5, <1>6, <2>2, <2>5
  <1>8. \A y \in T : IF side = Buy THEN x >= y ELSE x <= y
    BY <1>1, <1>7
  <1> QED
    BY <1>8 DEF BestOf

-----------------------------------------------------------------------------

(* The levels hold the orders of their side and price, and the index is has *)
(* exactly the ids that stand somewhere, each sent to the place it stands.  *)
Placed(book, is) ==
  /\ book = [side \in Sides |-> book[side]]
  /\ \A side \in Sides : \A price \in DOMAIN book[side] :
       /\ price \in InputPrices
       /\ QueueOK(book[side][price], side, price)
       /\ \A x : x \in IdsOf(book[side][price])
                   <=> x \in DOMAIN is /\ is[x] = Place(side, price)
  /\ \A x \in DOMAIN is :
       \E side \in Sides : \E price \in DOMAIN book[side] :
         is[x] = Place(side, price)

LEMMA PlacesDiffer ==
  ASSUME NEW s, NEW p, NEW t, NEW q, Place(s, p) = Place(t, q)
  PROVE  s = t /\ p = q
  <1>1. Place(s, p).side = Place(t, q).side /\ Place(s, p).price = Place(t, q).price
    OBVIOUS
  <1> QED
    BY <1>1 DEF Place

(* The book with one queue replaced, dropped when it is empty.              *)
Stored(book, side, price, queue) ==
  [book EXCEPT ![side] = IF queue = <<>> THEN Without(book[side], {price})
                                         ELSE With(book[side], price, queue)]

(* A book stays placed when one queue changes and the index follows: it     *)
(* sends there the ids of the new queue, and all others where it did.       *)
LEMMA QueueChanges ==
  ASSUME NEW book, NEW is, Placed(book, is),
         NEW side \in Sides, NEW price \in InputPrices, NEW queue,
         LeftOK(queue, side, price),
         NEW js,
         \A x : x \in DOMAIN js /\ js[x] = Place(side, price) <=> x \in IdsOf(queue),
         \A x : (x \in DOMAIN js /\ js[x] # Place(side, price))
                  <=> (x \in DOMAIN is /\ is[x] # Place(side, price)),
         \A x \in DOMAIN js : js[x] # Place(side, price) => js[x] = is[x]
  PROVE  Placed(Stored(book, side, price, queue), js)
  <1> DEFINE new == Stored(book, side, price, queue)
  <1>1. /\ new = [s \in Sides |-> new[s]]
        /\ \A s \in Sides : s # side => new[s] = book[s]
        /\ new[side] = IF queue = <<>> THEN Without(book[side], {price})
                                       ELSE With(book[side], price, queue)
    BY DEF Placed, Stored
  <1>2. /\ \A p \in DOMAIN new[side] :
             p # price => p \in DOMAIN book[side] /\ new[side][p] = book[side][p]
        /\ price \in DOMAIN new[side] <=> queue # <<>>
        /\ queue # <<>> => new[side][price] = queue
        /\ \A p \in DOMAIN book[side] : p # price => p \in DOMAIN new[side]
    BY <1>1 DEF Without, With
  <1>3. IdsOf(<<>>) = {}
    BY DEF IdsOf
  <1> HIDE DEF new
  <1>4. ASSUME NEW s \in Sides, NEW p \in DOMAIN new[s],
               s # side \/ p # price
        PROVE  /\ p \in InputPrices
               /\ QueueOK(new[s][p], s, p)
               /\ \A x : x \in IdsOf(new[s][p])
                           <=> x \in DOMAIN js /\ js[x] = Place(s, p)
    <2>1. p \in DOMAIN book[s] /\ new[s][p] = book[s][p]
      BY <1>1, <1>2, <1>4
    <2>2. Place(s, p) # Place(side, price)
      BY <1>4, PlacesDiffer
    <2> QED
      BY <2>1, <2>2 DEF Placed
  <1>5. price \in DOMAIN new[side] =>
          /\ QueueOK(new[side][price], side, price)
          /\ \A x : x \in IdsOf(new[side][price])
                      <=> x \in DOMAIN js /\ js[x] = Place(side, price)
    BY <1>2 DEF LeftOK
  <1>6. ASSUME NEW x \in DOMAIN js
        PROVE  \E s \in Sides : \E p \in DOMAIN new[s] : js[x] = Place(s, p)
    <2>1. CASE js[x] = Place(side, price)
      BY <1>2, <1>3, <2>1
    <2>2. CASE js[x] # Place(side, price)
      <3>1. PICK s \in Sides : \E p \in DOMAIN book[s] : is[x] = Place(s, p)
        BY <2>2 DEF Placed
      <3>2. PICK p \in DOMAIN book[s] : is[x] = Place(s, p)
        BY <3>1
      <3>3. p \in DOMAIN new[s] /\ js[x] = Place(s, p)
        BY <1>1, <1>2, <2>2, <3>2
      <3> QED
        BY <3>3
    <2> QED
      BY <2>1, <2>2
  <1>7. Placed(new, js)
    BY <1>1, <1>4, <1>5, <1>6 DEF Placed
  <1> QED
    BY <1>7 DEF new

-----------------------------------------------------------------------------

(* The inductive invariant: the levels and the index agree, the order of    *)
(* the running submit is not in the book, and the book is not crossed.      *)
RefInv ==
  /\ Placed(levels, ids)
  /\ order \in Orders \cup {NoCall}
  /\ ~RefIdle => order.id \notin DOMAIN ids
  /\ RefUncrossed

LEMMA StoredLevels ==
  ASSUME RefInv, NEW side \in Sides, NEW price, NEW queue,
         levels' = [levels EXCEPT ![side] = StoreLevel(side, price, queue)]
  PROVE  /\ levels' = Stored(levels, side, price, queue)
         /\ DOMAIN levels'[side] \subseteq DOMAIN levels[side] \cup {price}
         /\ \A s \in Sides : s # side => levels'[s] = levels[s]
  <1>1. levels' = Stored(levels, side, price, queue)
    BY DEF StoreLevel, Stored
  <1>2. levels = [s \in Sides |-> levels[s]]
    BY DEF RefInv, Placed
  <1>3. /\ levels'[side] = StoreLevel(side, price, queue)
        /\ \A s \in Sides : s # side => levels'[s] = levels[s]
    BY <1>2
  <1>4. DOMAIN StoreLevel(side, price, queue) \subseteq DOMAIN levels[side] \cup {price}
    BY DEF StoreLevel, Without, With
  <1> QED
    BY <1>1, <1>3, <1>4

(* A book with fewer levels stays uncrossed.                                *)
LEMMA FewerLevels ==
  ASSUME RefUncrossed, NEW side \in Sides, NEW price \in DOMAIN levels[side],
         DOMAIN levels'[side] \subseteq DOMAIN levels[side] \cup {price},
         \A s \in Sides : s # side => levels'[s] = levels[s]
  PROVE  RefUncrossed'
  <1>1. \A s \in Sides : DOMAIN levels'[s] \subseteq DOMAIN levels[s]
    OBVIOUS
  <1> QED
    BY <1>1 DEF RefUncrossed, Sides

LEMMA TradeKeeps ==
  ASSUME RefInv, RefTrade
  PROVE  RefInv'
  <1> DEFINE opp == opposite(order.side)
             price == BestOf(opp, DOMAIN levels[opp])
             queue == levels[opp][price]
             resting == Head(queue)
             filled == resting.quantity <= order.quantity
             quantity == IF filled THEN resting.quantity ELSE order.quantity
             left == IF filled THEN Tail(queue)
                     ELSE [queue EXCEPT ![1].quantity = @ - quantity]
  <1>1. /\ ~RefIdle /\ RefCrossing
        /\ order' = [order EXCEPT !.quantity = @ - quantity]
        /\ levels' = [levels EXCEPT ![opp] = StoreLevel(opp, price, left)]
        /\ ids' = IF filled THEN Without(ids, {resting.id}) ELSE ids
    BY DEF RefTrade
  <1>2. /\ order \in Orders /\ order.id \notin DOMAIN ids
        /\ opp \in Sides /\ order.quantity \in Nat
    BY <1>1, ReferenceAssumption DEF RefInv, RefIdle, Orders, opposite, Sides
  <1>3. price \in DOMAIN levels[opp] /\ price \in InputPrices
    <2>1. DOMAIN levels[opp] \subseteq InputPrices /\ DOMAIN levels[opp] # {}
      BY <1>1, <1>2 DEF RefInv, Placed, RefCrossing
    <2> HIDE DEF opp
    <2> QED
      BY <1>2, <2>1, BestIsBest
  <1> HIDE DEF opp, price
  <1>4. /\ QueueOK(queue, opp, price)
        /\ \A x : x \in IdsOf(queue) <=> x \in DOMAIN ids /\ ids[x] = Place(opp, price)
    BY <1>2, <1>3 DEF RefInv, Placed
  <1> HIDE DEF queue
  <1>5. /\ resting = queue[1] /\ 1 \in DOMAIN queue
        /\ LeftOK(Tail(queue), opp, price)
        /\ IdsOf(Tail(queue)) = IdsOf(queue) \ {resting.id}
    BY <1>4, HeadTaken
  <1>6. /\ queue[1] \in Orders /\ queue[1].quantity \in Nat
        /\ queue[1].id \in IdsOf(queue)
    <2>1. queue[1] \in Orders
      BY <1>4, <1>5 DEF QueueOK
    <2> QED
      BY <1>5, <2>1, ReferenceAssumption DEF Orders, IdsOf
  <1> HIDE DEF resting, left
  <1>7. levels' = Stored(levels, opp, price, left) /\ RefUncrossed'
    BY <1>1, <1>2, <1>3, StoredLevels, FewerLevels DEF RefInv
  <1>8. CASE filled
    <2>1. order' \in Orders /\ order'.id = order.id
      BY <1>1, <1>2, <1>5, <1>6, <1>8, ReferenceAssumption DEF Orders
    <2>2. levels' = Stored(levels, opp, price, Tail(queue))
      BY <1>8, <1>7 DEF left
    <2>3. ids' = Without(ids, {resting.id})
      BY <1>1, <1>8
    <2>4. Placed(levels', ids')
      <3> DEFINE js == Without(ids, {resting.id})
      <3>1. \A x : x \in DOMAIN js <=> x \in DOMAIN ids /\ x # resting.id
        BY DEF Without
      <3>2. \A x \in DOMAIN js : js[x] = ids[x]
        BY DEF Without
      <3>3. ids[resting.id] = Place(opp, price)
        BY <1>4, <1>5, <1>6
      <3> HIDE DEF js
      <3>4. Placed(Stored(levels, opp, price, Tail(queue)), js)
        <4>1. \A x : x \in DOMAIN js /\ js[x] = Place(opp, price)
                       <=> x \in IdsOf(Tail(queue))
          BY <1>4, <1>5, <3>1, <3>2
        <4>2. \A x : (x \in DOMAIN js /\ js[x] # Place(opp, price))
                       <=> (x \in DOMAIN ids /\ ids[x] # Place(opp, price))
          BY <3>1, <3>2, <3>3
        <4> QED
          BY <1>2, <1>3, <1>5, <3>2, <4>1, <4>2, QueueChanges DEF RefInv
      <3> QED
        BY <2>2, <2>3, <3>4 DEF js
    <2>5. DOMAIN ids' \subseteq DOMAIN ids
      BY <2>3 DEF Without
    <2> QED
      BY <1>2, <1>7, <2>1, <2>4, <2>5 DEF RefInv
  <1>9. CASE ~filled
    <2>1. order.quantity < queue[1].quantity
      BY <1>2, <1>5, <1>6, <1>9
    <2>2. /\ order' = [order EXCEPT !.quantity = @ - order.quantity]
          /\ ids' = ids
          /\ left = [queue EXCEPT ![1].quantity = @ - order.quantity]
      BY <1>1, <1>9 DEF left
    <2>3. order' \in Orders /\ order'.id = order.id
      BY <1>2, <2>2, ReferenceAssumption DEF Orders
    <2>4. QueueOK(left, opp, price) /\ IdsOf(left) = IdsOf(queue)
      BY <1>2, <1>4, <2>1, <2>2, HeadReduced
    <2>6. Placed(Stored(levels, opp, price, left), ids)
      BY <1>2, <1>3, <1>4, <2>4, QueueChanges DEF RefInv, LeftOK
    <2> QED
      BY <1>2, <1>7, <2>2, <2>3, <2>6 DEF RefInv
  <1> QED
    BY <1>8, <1>9

LEMMA RestsKeeps ==
  ASSUME RefInv, RefRests
  PROVE  RefInv'
  <1> DEFINE side == order.side
             price == order.price
             queue == IF price \in DOMAIN levels[side]
                      THEN levels[side][price] ELSE <<>>
             js == With(ids, order.id, Place(side, price))
  <1>1. /\ ~RefIdle /\ ~RefCrossing /\ order.quantity > 0
        /\ levels' = [levels EXCEPT ![side] =
                        With(@, price, Append(queue, order))]
        /\ ids' = js
        /\ order' = NoCall
    BY DEF RefRests, Place
  <1>2. /\ order \in Orders /\ order.id \notin DOMAIN ids
        /\ side \in Sides /\ price \in InputPrices
    BY <1>1, ReferenceAssumption DEF RefInv, RefIdle, Orders
  <1>3. /\ LeftOK(queue, side, price)
        /\ \A x : x \in IdsOf(queue) <=> x \in DOMAIN ids /\ ids[x] = Place(side, price)
    <2>1. CASE price \in DOMAIN levels[side]
      BY <1>2, <2>1 DEF RefInv, Placed, LeftOK
    <2>2. CASE price \notin DOMAIN levels[side]
      <3>1. queue = <<>> /\ IdsOf(queue) = {}
        BY <2>2 DEF IdsOf
      <3>2. \A x \in DOMAIN ids : ids[x] # Place(side, price)
        <4>1. SUFFICES ASSUME NEW x \in DOMAIN ids, ids[x] = Place(side, price)
                       PROVE  FALSE
          OBVIOUS
        <4>2. PICK s \in Sides : \E p \in DOMAIN levels[s] : ids[x] = Place(s, p)
          BY DEF RefInv, Placed
        <4> HIDE DEF side, price
        <4> QED
          BY <2>2, <4>1, <4>2, PlacesDiffer
      <3> QED
        BY <3>1, <3>2 DEF LeftOK
    <2> QED
      BY <2>1, <2>2
  <1>4. order.side = side /\ order.price = price
    OBVIOUS
  <1>5. /\ \A x : x \in DOMAIN js <=> x \in DOMAIN ids \/ x = order.id
        /\ \A x \in DOMAIN js :
             js[x] = IF x = order.id THEN Place(side, price) ELSE ids[x]
    BY DEF With
  <1> HIDE DEF side, price, queue, js
  <1>6. /\ QueueOK(Append(queue, order), side, price)
        /\ IdsOf(Append(queue, order)) = IdsOf(queue) \cup {order.id}
    BY <1>1, <1>2, <1>3, <1>4, Appended
  <1>7. levels' = Stored(levels, side, price, Append(queue, order))
    <2>1. Append(queue, order) # <<>>
      BY <1>6 DEF QueueOK
    <2> QED
      BY <1>1, <2>1 DEF Stored
  <1>8. Placed(Stored(levels, side, price, Append(queue, order)), js)
    <2>1. \A x : x \in DOMAIN js /\ js[x] = Place(side, price)
                   <=> x \in IdsOf(Append(queue, order))
      BY <1>2, <1>3, <1>5, <1>6
    <2>2. \A x : (x \in DOMAIN js /\ js[x] # Place(side, price))
                   <=> (x \in DOMAIN ids /\ ids[x] # Place(side, price))
      BY <1>2, <1>5
    <2>3. \A x \in DOMAIN js : js[x] # Place(side, price) => js[x] = ids[x]
      BY <1>5
    <2> QED
      BY <1>2, <1>6, <2>1, <2>2, <2>3, QueueChanges DEF RefInv, LeftOK
  <1>9. RefUncrossed'
    <2> DEFINE opp == opposite(side)
    <2>1. /\ opp \in Sides /\ opp # side
          /\ side = Buy <=> opp = Sell
      BY <1>2 DEF opposite, Sides, Buy, Sell
    <2>2. /\ levels'[opp] = levels[opp]
          /\ DOMAIN levels'[side] = DOMAIN levels[side] \cup {price}
      <3>1. levels = [s \in Sides |-> levels[s]]
        BY DEF RefInv, Placed
      <3> HIDE DEF opp
      <3> QED
        BY <1>1, <1>2, <2>1, <3>1 DEF With
    <2>3. DOMAIN levels[opp] \subseteq InputPrices
      BY <2>1 DEF RefInv, Placed
    <2>4. DOMAIN levels[opp] # {} =>
            ~crosses(side, price, BestOf(opp, DOMAIN levels[opp]))
      BY <1>1, <1>4 DEF RefCrossing
    <2> HIDE DEF opp
    <2>5. \A q \in DOMAIN levels[opp] : IF side = Buy THEN price < q ELSE q < price
      <3> DEFINE best == BestOf(opp, DOMAIN levels[opp])
      <3>1. SUFFICES ASSUME NEW q \in DOMAIN levels[opp]
                     PROVE  IF side = Buy THEN price < q ELSE q < price
        OBVIOUS
      <3>2. /\ best \in DOMAIN levels[opp]
            /\ IF opp = Buy THEN best >= q ELSE best <= q
        BY <2>1, <2>3, BestIsBest
      <3>3. ~crosses(side, price, best)
        BY <2>4
      <3>4. best \in Int /\ q \in Int /\ price \in Int
        BY <1>2, <2>3, <3>2, ReferenceAssumption
      <3> HIDE DEF best
      <3> QED
        BY <1>2, <2>1, <3>2, <3>3, <3>4 DEF crosses, Sides, Buy, Sell
    <2>6. CASE side = Buy
      BY <2>1, <2>2, <2>5, <2>6 DEF RefInv, RefUncrossed
    <2>7. CASE side = Sell
      <3>1. opp = Buy
        BY <1>2, <2>1, <2>7 DEF Sides, Buy, Sell
      <3> QED
        BY <2>1, <2>2, <2>5, <2>7, <3>1 DEF RefInv, RefUncrossed, Buy, Sell
    <2> QED
      BY <1>2, <2>6, <2>7 DEF Sides
  <1> QED
    BY <1>1, <1>7, <1>8, <1>9 DEF RefInv, RefIdle

LEMMA CancelledKeeps ==
  ASSUME RefInv, NEW id, RefCancelled(id)
  PROVE  RefInv'
  <1>1. id \in DOMAIN ids /\ RefIdle
    BY DEF RefCancelled
  <1>2. PICK side \in Sides : \E p \in DOMAIN levels[side] : ids[id] = Place(side, p)
    BY <1>1 DEF RefInv, Placed
  <1>3. PICK price \in DOMAIN levels[side] : ids[id] = Place(side, price)
    BY <1>2
  <1> DEFINE queue == levels[side][price]
             left == EraseOrder(queue, id)
             js == Without(ids, {id})
  <1>4. /\ price \in InputPrices /\ QueueOK(queue, side, price)
        /\ \A x : x \in IdsOf(queue) <=> x \in DOMAIN ids /\ ids[x] = Place(side, price)
    BY DEF RefInv, Placed
  <1>5. /\ levels' = [levels EXCEPT ![side] = StoreLevel(side, price, left)]
        /\ ids' = js /\ order' = order
    BY <1>3 DEF RefCancelled, Place
  <1>6. LeftOK(left, side, price) /\ IdsOf(left) = IdsOf(queue) \ {id}
    <2> HIDE DEF queue
    <2> QED
      BY <1>1, <1>3, <1>4, OrderErased
  <1>7. \A x : x \in DOMAIN js <=> x \in DOMAIN ids /\ x # id
    BY DEF Without
  <1>8. \A x \in DOMAIN js : js[x] = ids[x]
    BY DEF Without
  <1> HIDE DEF queue, left, js
  <1>9. Placed(Stored(levels, side, price, left), js)
    <2>1. \A x : x \in DOMAIN js /\ js[x] = Place(side, price) <=> x \in IdsOf(left)
      BY <1>4, <1>6, <1>7, <1>8
    <2>2. \A x : (x \in DOMAIN js /\ js[x] # Place(side, price))
                   <=> (x \in DOMAIN ids /\ ids[x] # Place(side, price))
      BY <1>3, <1>7, <1>8
    <2> QED
      BY <1>4, <1>6, <1>8, <2>1, <2>2, QueueChanges DEF RefInv
  <1>10. levels' = Stored(levels, side, price, left)
    BY <1>5, StoredLevels
  <1>11. RefUncrossed'
    BY <1>5, StoredLevels, FewerLevels DEF RefInv
  <1> QED
    BY <1>1, <1>5, <1>9, <1>10, <1>11 DEF RefInv, RefIdle

-----------------------------------------------------------------------------

LEMMA InitKeeps ==
  ASSUME RefInit
  PROVE  RefInv
  <1>1. \A side \in Sides : levels[side] = <<>> /\ DOMAIN levels[side] = {}
    BY DEF RefInit
  <1>2. DOMAIN ids = {} /\ order = NoCall
    BY DEF RefInit
  <1>3. Placed(levels, ids)
    BY <1>1, <1>2 DEF RefInit, Placed
  <1>4. RefUncrossed
    BY <1>1 DEF RefUncrossed, Sides
  <1> QED
    BY <1>2, <1>3, <1>4 DEF RefInv, RefIdle

LEMMA StepKeeps ==
  ASSUME RefInv, [RefNext]_refVars
  PROVE  RefInv'
  <1>1. ASSUME NEW in \in Orders, RefSubmitRefused(in)
        PROVE  RefInv'
    BY <1>1 DEF RefSubmitRefused, RefInv, RefIdle, RefUncrossed
  <1>2. ASSUME NEW in \in Orders, RefSubmitStarts(in)
        PROVE  RefInv'
    BY <1>2 DEF RefSubmitStarts, RefInv, RefIdle, RefUncrossed
  <1>3. CASE RefMatching
    <2>1. CASE RefFilled
      BY <2>1 DEF RefFilled, RefInv, RefIdle, RefUncrossed
    <2> QED
      BY <1>3, <2>1, TradeKeeps, RestsKeeps DEF RefMatching
  <1>4. ASSUME NEW id \in OrderIds, RefCancelMissed(id) \/ RefCancelled(id)
        PROVE  RefInv'
    <2>1. CASE RefCancelMissed(id)
      BY <2>1 DEF RefCancelMissed, RefInv, RefIdle, RefUncrossed
    <2> QED
      BY <1>4, <2>1, CancelledKeeps
  <1>5. CASE UNCHANGED refVars
    BY <1>5 DEF refVars, RefInv, RefIdle, RefUncrossed
  <1> QED
    BY <1>1, <1>2, <1>3, <1>4, <1>5 DEF RefNext

(* The levels and the index agree and the book is not crossed, in every     *)
(* state the reference reaches.                                             *)
THEOREM RefInvariant == RefSpec => []RefInv
  <1>1. RefInit => RefInv
    BY InitKeeps
  <1>2. RefInv /\ [RefNext]_refVars => RefInv'
    BY StepKeeps
  <1> QED
    BY <1>1, <1>2, PTL DEF RefSpec

(* The queues hold orders of callers and no level is empty (RefTypeOK).     *)
THEOREM RefTypes == RefSpec => []RefTypeOK
  <1>1. RefInv => RefTypeOK
    <2> SUFFICES ASSUME RefInv
                 PROVE  RefTypeOK
      OBVIOUS
    <2>1. \A side \in Sides : \A price \in DOMAIN levels[side] :
            /\ price \in InputPrices
            /\ levels[side][price] \in Seq(Orders) \ {<<>>}
      BY DEF RefInv, Placed, QueueOK
    <2>2. ASSUME NEW id \in DOMAIN ids
          PROVE  id \in OrderIds
      <3>1. PICK side \in Sides :
              \E price \in DOMAIN levels[side] : ids[id] = Place(side, price)
        BY DEF RefInv, Placed
      <3>2. PICK price \in DOMAIN levels[side] : ids[id] = Place(side, price)
        BY <3>1
      <3>3. id \in IdsOf(levels[side][price])
        BY <3>2 DEF RefInv, Placed
      <3>4. PICK k \in DOMAIN levels[side][price] : levels[side][price][k].id = id
        BY <3>3 DEF IdsOf
      <3>5. levels[side][price][k] \in Orders
        BY <2>1
      <3> QED
        BY <3>4, <3>5 DEF Orders
    <2> QED
      BY <2>1, <2>2 DEF RefInv, RefTypeOK
  <1> QED
    BY <1>1, RefInvariant, PTL

(* The highest bid stays below the lowest ask, between two trades of a      *)
(* submit too (RefUncrossed).                                               *)
THEOREM RefNeverCrossed == RefSpec => []RefUncrossed
  <1>1. RefInv => RefUncrossed
    BY DEF RefInv
  <1> QED
    BY <1>1, RefInvariant, PTL

(* Every id of the index stands once, where its entry says, and nothing     *)
(* stands without an entry: the search of cancel() ends at its order        *)
(* (RefIndexExact).                                                         *)
THEOREM RefIndexed == RefSpec => []RefIndexExact
  <1>1. RefInv => RefIndexExact
    <2> SUFFICES ASSUME RefInv
                 PROVE  RefIndexExact
      OBVIOUS
    <2>1. ASSUME NEW side \in Sides, NEW price \in DOMAIN levels[side],
                 NEW k \in DOMAIN levels[side][price]
          PROVE  LET o == levels[side][price][k]
                 IN /\ o.id \in DOMAIN ids
                    /\ ids[o.id] = [side |-> side, price |-> price]
                    /\ o.side = side /\ o.price = price /\ o.quantity > 0
                    /\ \A j \in DOMAIN levels[side][price] :
                         levels[side][price][j].id = o.id => j = k
      <3> DEFINE queue == levels[side][price]
      <3>1. /\ QueueOK(queue, side, price)
            /\ \A x : x \in IdsOf(queue) <=> x \in DOMAIN ids /\ ids[x] = Place(side, price)
        BY DEF RefInv, Placed
      <3>2. queue[k].id \in IdsOf(queue)
        BY DEF IdsOf
      <3> HIDE DEF queue
      <3>3. queue[k].id \in DOMAIN ids /\ ids[queue[k].id] = Place(side, price)
        BY <3>1, <3>2
      <3> QED
        BY <3>1, <3>3 DEF QueueOK, Place, queue
    <2>2. ASSUME NEW id \in DOMAIN ids
          PROVE  /\ ids[id].price \in DOMAIN levels[ids[id].side]
                 /\ \E k \in DOMAIN levels[ids[id].side][ids[id].price] :
                      levels[ids[id].side][ids[id].price][k].id = id
      <3>1. PICK side \in Sides :
              \E price \in DOMAIN levels[side] : ids[id] = Place(side, price)
        BY DEF RefInv, Placed
      <3>2. PICK price \in DOMAIN levels[side] : ids[id] = Place(side, price)
        BY <3>1
      <3>3. id \in IdsOf(levels[side][price])
        BY <3>2 DEF RefInv, Placed
      <3>4. ids[id].side = side /\ ids[id].price = price
        BY <3>2 DEF Place
      <3> QED
        BY <3>3, <3>4 DEF IdsOf
    <2> QED
      BY <2>1, <2>2 DEF RefIndexExact
  <1> QED
    BY <1>1, RefInvariant, PTL

=============================================================================
