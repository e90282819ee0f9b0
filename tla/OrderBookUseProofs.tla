------------------------ MODULE OrderBookUseProofs ------------------------
(***************************************************************************)
(* What the callers of the runtime book rely on, proved on top of the      *)
(* invariants of OrderBookProofs: the book implements its contract, and it *)
(* stays sound while sinks call back into it.                              *)
(***************************************************************************)
EXTENDS OrderBookRefinement, ReentrantBook, OrderBookProofs, SequenceTheorems

-----------------------------------------------------------------------------
(***************************************************************************)
(* The runtime book implements its contract, for every capacity, price     *)
(* range, set of ids and largest quantity.  The queue of a level is the    *)
(* one sequence its links spell out; a call changes the links of one level *)
(* at most, and what it does to them is what the contract does to a queue. *)
(* That the structures agree (StructInv, before and after a step) is       *)
(* proved already and does the rest.                                       *)
(***************************************************************************)

(* A set of indices has a least one.                                        *)
LEMMA LeastPlace ==
  ASSUME NEW n \in Nat, NEW T \in SUBSET (1 .. n), T # {}
  PROVE  \E k \in T : \A j \in T : k <= j
  <1> DEFINE Below(b) == {c \in T : c < b}
             F == {Below(b) : b \in T}
             R == StrictSubsetOrdering(1 .. n)
  <1>1. T \subseteq Int /\ IsFiniteSet(1 .. n)
    BY FS_Interval
  <1>2. /\ IsWellFoundedOn(R, FiniteSubsetsOf(1 .. n))
        /\ FiniteSubsetsOf(1 .. n) = SUBSET (1 .. n)
    BY <1>1, FS_StrictSubsetOrderingWellFounded, FS_FiniteSubsetsOfFinite
  <1>3. F \subseteq SUBSET (1 .. n) /\ F # {}
    OBVIOUS
  <1> HIDE DEF R, F
  <1>4. PICK A \in F : \A B \in F : ~(<<B, A>> \in R)
    BY <1>2, <1>3, WFMin
  <1>5. PICK k \in T : A = Below(k)
    BY DEF F
  <1>6. ASSUME NEW j \in T, j < k
        PROVE  FALSE
    <2>1. Below(j) \in F
      BY DEF F
    <2>2. j \in Below(k) /\ j \notin Below(j) /\ Below(j) \subseteq Below(k)
      <3>1. j \in Int /\ k \in Int /\ \A c \in T : c \in Int
        BY <1>1
      <3>2. ~(j < j) /\ \A c \in T : c < j => c < k
        BY <1>6, <3>1
      <3> QED
        BY <1>6, <3>2
    <2>3. <<Below(j), Below(k)>> \in R
      BY <1>1, <2>2 DEF R, StrictSubsetOrdering
    <2> QED
      BY <1>4, <1>5, <2>1, <2>3
  <1> QED
    BY <1>1, <1>6

(* The links of a level spell out one sequence: two that start at its head  *)
(* and follow next agree from node to node.                                 *)
LEMMA QueueFollows ==
  ASSUME NEW n \in Nat, NEW q \in [1 .. n -> Slots],
         NEW m \in Nat, NEW r \in [1 .. m -> Slots],
         NEW level, NEW nexts, NEW prevs,
         IsQueue(q, n, level, nexts, prevs), IsQueue(r, m, level, nexts, prevs)
  PROVE  n <= m /\ \A k \in 1 .. n : q[k] = r[k]
  <1> DEFINE Agree(k) == k <= m /\ q[k] = r[k]
             T == {k \in 1 .. n : ~Agree(k)}
  <1>1. T = {}
    <2>1. SUFFICES ASSUME T # {}
                   PROVE  FALSE
      OBVIOUS
    <2>2. PICK k \in T : \A j \in T : k <= j
      BY <2>1, LeastPlace
    <2>3. k \in 1 .. n /\ ~Agree(k)
      OBVIOUS
    <2>4. CASE k = 1
      <3>1. level.head = q[1] /\ q[1] \in Slots /\ q[1] # npos
        BY <2>3, <2>4, NposIsNoSlot DEF IsQueue
      <3>2. m # 0 /\ level.head = r[1]
        BY <3>1 DEF IsQueue
      <3> QED
        BY <2>3, <2>4, <3>1, <3>2
    <2>5. CASE k # 1
      <3>1. k - 1 \in 1 .. n /\ k - 1 # n
        BY <2>3, <2>5
      <3>2. k - 1 \notin T
        BY <2>2, <3>1
      <3>3. Agree(k - 1)
        BY <3>1, <3>2
      <3>4. k - 1 \in 1 .. m
        BY <3>1, <3>3
      <3>5. nexts[q[k - 1]] = q[k] /\ q[k] # npos
        BY <2>3, <3>1, NposIsNoSlot DEF IsQueue
      <3>6. nexts[r[k - 1]] = IF k - 1 = m THEN npos ELSE r[k]
        BY <3>4 DEF IsQueue
      <3>7. k - 1 # m /\ q[k] = r[k]
        BY <3>3, <3>5, <3>6
      <3> QED
        BY <2>3, <3>4, <3>7
    <2> QED
      BY <2>4, <2>5
  <1>2. \A k \in 1 .. n : k <= m /\ q[k] = r[k]
    BY <1>1
  <1>3. n <= m
    BY <1>2
  <1> QED
    BY <1>2, <1>3

(* So ListOf is that sequence.                                              *)
LEMMA ListIs ==
  ASSUME NEW n \in 0 .. MaxOrders, NEW q \in [1 .. n -> Slots],
         NEW level, NEW nexts, NEW prevs,
         IsQueue(q, n, level, nexts, prevs)
  PROVE  ListOf(level, nexts, prevs) = q
  <1> DEFINE r == ListOf(level, nexts, prevs)
  <1>1. q \in NodeSequences
    BY DEF NodeSequences
  <1>2. ASSUME NEW s \in NodeSequences
        PROVE  Len(s) \in Nat /\ s \in [1 .. Len(s) -> Slots]
    <2>1. PICK m \in 0 .. MaxOrders : s \in [1 .. m -> Slots]
      BY DEF NodeSequences
    <2>2. m \in Nat
      BY MaxOrdersAssumption
    <2>3. s \in Seq(Slots) /\ Len(s) = m
      BY <2>1, <2>2
    <2> QED
      BY <2>1, <2>2, <2>3
  <1>3. Len(q) = n
    <2>1. n \in Nat
      BY MaxOrdersAssumption
    <2> QED
      BY <2>1
  <1>4. r \in NodeSequences /\ IsQueue(r, Len(r), level, nexts, prevs)
    BY <1>1, <1>3 DEF ListOf
  <1> HIDE DEF r
  <1>5. /\ n <= Len(r) /\ Len(r) <= n
        /\ \A k \in 1 .. n : q[k] = r[k]
    BY <1>1, <1>2, <1>3, <1>4, QueueFollows
  <1>6. r = q
    BY <1>2, <1>3, <1>4, <1>5
  <1> QED
    BY <1>6 DEF r

-----------------------------------------------------------------------------

(* What Lists says, with the sequence ListOf picks.                         *)
LEMMA ListedQueue ==
  ASSUME NEW level, NEW S \in SUBSET Slots, NEW nexts, NEW prevs,
         Lists(level, S, nexts, prevs)
  PROVE  \E n \in Nat : \E q \in [1 .. n -> Slots] :
           /\ n <= MaxOrders /\ IsQueue(q, n, level, nexts, prevs)
           /\ S = Listed(q, n) /\ ListOf(level, nexts, prevs) = q
  <1>0. PICK n \in 0 .. MaxOrders : \E q \in [1 .. n -> S] :
          IsQueue(q, n, level, nexts, prevs) /\ S = Listed(q, n)
    BY DEF Lists
  <1>1. PICK q \in [1 .. n -> S] :
          IsQueue(q, n, level, nexts, prevs) /\ S = Listed(q, n)
    BY <1>0
  <1>2. q \in [1 .. n -> Slots] /\ n \in Nat /\ n <= MaxOrders
    BY MaxOrdersAssumption
  <1>3. ListOf(level, nexts, prevs) = q
    BY <1>1, <1>2, ListIs
  <1> QED
    BY <1>1, <1>2, <1>3

(* The orders in a sequence of nodes, for any orders.                       *)
OrdersIn(q, orders) == [k \in DOMAIN q |-> orders[q[k]]]

QueueAt(level, nexts, prevs, orders) ==
  OrdersIn(ListOf(level, nexts, prevs), orders)

(* A level whose ends, links and orders are kept.                           *)
LEMMA QueueKept ==
  ASSUME NEW level, NEW newLevel, NEW S \in SUBSET Slots,
         NEW nexts, NEW prevs, NEW newNexts, NEW newPrevs,
         NEW orders, NEW newOrders,
         Lists(level, S, nexts, prevs),
         newLevel.head = level.head, newLevel.tail = level.tail,
         \A i \in S : /\ newNexts[i] = nexts[i] /\ newPrevs[i] = prevs[i]
                      /\ newOrders[i] = orders[i]
  PROVE  QueueAt(newLevel, newNexts, newPrevs, newOrders)
           = QueueAt(level, nexts, prevs, orders)
  <1>0. PICK n \in Nat : \E q \in [1 .. n -> Slots] :
           /\ n <= MaxOrders /\ IsQueue(q, n, level, nexts, prevs)
           /\ S = Listed(q, n) /\ ListOf(level, nexts, prevs) = q
    BY ListedQueue
  <1>1. PICK q \in [1 .. n -> Slots] :
           /\ n <= MaxOrders /\ IsQueue(q, n, level, nexts, prevs)
           /\ S = Listed(q, n) /\ ListOf(level, nexts, prevs) = q
    BY <1>0
  <1>2. \A k \in 1 .. n : q[k] \in S
    BY <1>1 DEF Listed
  <1>3. IsQueue(q, n, newLevel, newNexts, newPrevs)
    BY <1>1, <1>2, KeptQueue
  <1>4. n \in 0 .. MaxOrders
    BY <1>1, MaxOrdersAssumption
  <1>5. ListOf(newLevel, newNexts, newPrevs) = q
    BY <1>3, <1>4, ListIs
  <1>6. OrdersIn(q, newOrders) = OrdersIn(q, orders)
    BY <1>2 DEF OrdersIn
  <1> QED
    BY <1>1, <1>5, <1>6 DEF QueueAt

-----------------------------------------------------------------------------

(* The queues of all levels, the empty ones too.                            *)
BookQueues ==
  [side \in Sides |-> [l \in Levels |-> QueuedOrders(ladder[side][l])]]

(* The contract's map of the levels that hold orders.                       *)
MapOf(queues) ==
  [side \in Sides |->
     [price \in {p \in Prices : queues[side][price_to_index(p)] # <<>>} |->
        queues[side][price_to_index(price)]]]

(* One side of the map with the queue at a price replaced.                  *)
Stored(map, price, queue) ==
  IF queue = <<>>
  THEN [p \in DOMAIN map \ {price} |-> map[p]]
  ELSE [p \in DOMAIN map \cup {price} |-> IF p = price THEN queue ELSE map[p]]

StoredAt(map, side, price, queue) ==
  [map EXCEPT ![side] = Stored(map[side], price, queue)]

LEMMA PriceOfLevel ==
  /\ \A p \in Prices : price_to_index(p) \in Levels
  /\ \A p, q \in Prices : price_to_index(p) = price_to_index(q) => p = q
  /\ \A l \in Levels : index_to_price(l) \in Prices
                        /\ price_to_index(index_to_price(l)) = l
  /\ \A p \in Prices : index_to_price(price_to_index(p)) = p
  BY PriceAssumption DEF Prices, Levels, num_levels, price_to_index, index_to_price

(* Only the queue of one level differs.                                     *)
Replaced(queues, newQueues, side, l, queue) ==
  \A s \in Sides, m \in Levels :
    newQueues[s][m] = IF s = side /\ m = l THEN queue ELSE queues[s][m]

(* Replacing one queue replaces one entry of the map.                       *)
LEMMA MapStored ==
  ASSUME NEW queues, NEW newQueues, NEW side \in Sides, NEW price \in Prices,
         NEW queue, Replaced(queues, newQueues, side, price_to_index(price), queue)
  PROVE  MapOf(newQueues) = StoredAt(MapOf(queues), side, price, queue)
  <1> DEFINE old == MapOf(queues)
             new == MapOf(newQueues)
             Shown(s) == {p \in Prices : queues[s][price_to_index(p)] # <<>>}
             NewShown(s) == {p \in Prices : newQueues[s][price_to_index(p)] # <<>>}
  <1>1. \A s \in Sides, p \in Prices :
          newQueues[s][price_to_index(p)]
            = IF s = side /\ p = price THEN queue
              ELSE queues[s][price_to_index(p)]
    BY PriceOfLevel DEF Replaced
  <1>2. /\ \A s \in Sides : old[s] =
             [p \in Shown(s) |-> queues[s][price_to_index(p)]]
        /\ \A s \in Sides : new[s] =
             [p \in NewShown(s) |-> newQueues[s][price_to_index(p)]]
    BY DEF MapOf
  <1>3. /\ old = [s \in Sides |-> old[s]] /\ new = [s \in Sides |-> new[s]]
    BY DEF MapOf
  <1> HIDE DEF old, new
  <1>4. ASSUME NEW s \in Sides, s # side
        PROVE  new[s] = old[s]
    <2>1. \A p \in Prices :
            newQueues[s][price_to_index(p)] = queues[s][price_to_index(p)]
      BY <1>1, <1>4
    <2>2. NewShown(s) = Shown(s)
      BY <2>1
    <2>3. [p \in NewShown(s) |-> newQueues[s][price_to_index(p)]]
            = [p \in Shown(s) |-> queues[s][price_to_index(p)]]
      BY <2>1, <2>2
    <2> QED
      BY <1>2, <2>3
  <1>5. new[side] = Stored(old[side], price, queue)
    <2>1. /\ DOMAIN old[side] = Shown(side)
          /\ \A p \in Shown(side) :
               old[side][p] = queues[side][price_to_index(p)]
          /\ new[side] = [p \in NewShown(side) |-> new[side][p]]
          /\ \A p \in NewShown(side) :
               new[side][p] = newQueues[side][price_to_index(p)]
      <3>1. old[side] = [p \in Shown(side) |-> queues[side][price_to_index(p)]]
        BY <1>2
      <3>2. new[side] =
              [p \in NewShown(side) |-> newQueues[side][price_to_index(p)]]
        BY <1>2
      <3> HIDE DEF Shown, NewShown
      <3> QED
        BY <3>1, <3>2
    <2>2. CASE queue = <<>>
      <3>1. NewShown(side) = Shown(side) \ {price}
        BY <1>1, <2>2
      <3>2. Stored(old[side], price, queue)
              = [p \in Shown(side) \ {price} |-> old[side][p]]
        BY <2>1, <2>2 DEF Stored
      <3>3. \A p \in NewShown(side) :
              new[side][p] = old[side][p]
        BY <1>1, <2>1, <2>2, <3>1
      <3> HIDE DEF Shown, NewShown
      <3> QED
        BY <2>1, <3>1, <3>2, <3>3
    <2>3. CASE queue # <<>>
      <3>1. NewShown(side) = Shown(side) \cup {price}
        BY <1>1, <2>3
      <3>2. Stored(old[side], price, queue)
              = [p \in Shown(side) \cup {price} |->
                   IF p = price THEN queue ELSE old[side][p]]
        BY <2>1, <2>3 DEF Stored
      <3>3. \A p \in NewShown(side) :
              new[side][p] = IF p = price THEN queue ELSE old[side][p]
        BY <1>1, <2>1, <2>3, <3>1
      <3> HIDE DEF Shown, NewShown
      <3> QED
        BY <2>1, <3>1, <3>2, <3>3
    <2> QED
      BY <2>2, <2>3
  <1>6. new = [old EXCEPT ![side] = Stored(old[side], price, queue)]
    BY <1>3, <1>4, <1>5
  <1> QED
    BY <1>6 DEF old, new, StoredAt

(* A level is empty exactly when its queue is: so the map of the book is    *)
(* that of its queues.                                                      *)
LEMMA EmptyQueue ==
  ASSUME NEW level, NEW S \in SUBSET Slots, NEW nexts, NEW prevs, NEW orders,
         Lists(level, S, nexts, prevs)
  PROVE  /\ isEmpty(level) <=> QueueAt(level, nexts, prevs, orders) = <<>>
         /\ isEmpty(level) <=> S = {}
  <1>0. PICK n \in Nat : \E q \in [1 .. n -> Slots] :
           /\ n <= MaxOrders /\ IsQueue(q, n, level, nexts, prevs)
           /\ S = Listed(q, n) /\ ListOf(level, nexts, prevs) = q
    BY ListedQueue
  <1>1. PICK q \in [1 .. n -> Slots] :
           /\ n <= MaxOrders /\ IsQueue(q, n, level, nexts, prevs)
           /\ S = Listed(q, n) /\ ListOf(level, nexts, prevs) = q
    BY <1>0
  <1>2. isEmpty(level) <=> n = 0
    <2>1. n # 0 => 1 \in 1 .. n
      OBVIOUS
    <2> QED
      BY <1>1, <2>1, NposIsNoSlot DEF IsQueue, isEmpty
  <1>3. QueueAt(level, nexts, prevs, orders) = [k \in 1 .. n |-> orders[q[k]]]
    BY <1>1 DEF QueueAt, OrdersIn
  <1>4. [k \in 1 .. n |-> orders[q[k]]] = <<>> <=> n = 0
    <2> DEFINE o == [k \in 1 .. n |-> orders[q[k]]]
    <2>1. n = 0 => o = <<>>
      OBVIOUS
    <2>2. n # 0 => 1 \in DOMAIN o
      OBVIOUS
    <2>3. DOMAIN <<>> = {}
      OBVIOUS
    <2> QED
      BY <2>1, <2>2, <2>3
  <1>5. S = {} <=> isEmpty(level)
    BY ListedLinks DEF isEmpty
  <1> QED
    BY <1>2, <1>3, <1>4, <1>5

LEMMA RuntimeMap == StructInv => RuntimeLevels = MapOf(BookQueues)
  <1> SUFFICES ASSUME StructInv PROVE RuntimeLevels = MapOf(BookQueues)
    OBVIOUS
  <1>1. AllListed(Resting, node, ladder, next, prev)
    BY ListsAndBits DEF StructInv
  <1>2. \A side \in Sides, l \in Levels :
          Placed(Resting, node, side, l) \in SUBSET Slots
    BY DEF Placed, Resting, Used
  <1>3. \A side \in Sides, l \in Levels :
          isEmpty(ladder[side][l]) <=> QueuedOrders(ladder[side][l]) = <<>>
    BY <1>1, <1>2, EmptyQueue DEF AllListed, QueueAt, QueuedOrders, OrdersIn, OrdersAt
  <1>4. \A side \in Sides, p \in Prices :
          /\ BookQueues[side][price_to_index(p)] = QueuedOrders(LevelOf(side, p))
          /\ isEmpty(LevelOf(side, p)) <=> BookQueues[side][price_to_index(p)] = <<>>
    BY <1>3, PriceOfLevel DEF BookQueues, LevelOf
  <1>5. \A side \in Sides :
          {p \in Prices : ~isEmpty(LevelOf(side, p))}
            = {p \in Prices : BookQueues[side][price_to_index(p)] # <<>>}
    BY <1>4
  <1> QED
    BY <1>4, <1>5 DEF RuntimeLevels, MapOf

-----------------------------------------------------------------------------

(* A step that leaves all levels but one with their ends, links and orders. *)
OtherLevelsKept(side, l) ==
  /\ \A s \in Sides, m \in Levels :
       ~(s = side /\ m = l) => /\ ladder'[s][m].head = ladder[s][m].head
                              /\ ladder'[s][m].tail = ladder[s][m].tail
  /\ \A j \in Resting \ Placed(Resting, node, side, l) :
       next'[j] = next[j] /\ prev'[j] = prev[j] /\ node'[j] = node[j]

LEMMA OtherQueues ==
  ASSUME StructInv, NEW side \in Sides, NEW l \in Levels, OtherLevelsKept(side, l)
  PROVE  \A s \in Sides, m \in Levels :
           ~(s = side /\ m = l) => BookQueues'[s][m] = BookQueues[s][m]
  <1> SUFFICES ASSUME NEW s \in Sides, NEW m \in Levels, ~(s = side /\ m = l)
               PROVE  BookQueues'[s][m] = BookQueues[s][m]
    OBVIOUS
  <1> DEFINE S == Placed(Resting, node, s, m)
  <1>1. S \in SUBSET Slots
    BY DEF Placed, Resting, Used
  <1>2. \A j \in S : next'[j] = next[j] /\ prev'[j] = prev[j] /\ node'[j] = node[j]
    BY DEF Placed, OtherLevelsKept
  <1>3. Lists(ladder[s][m], S, next, prev)
    BY ListsAndBits DEF StructInv, AllListed
  <1>0. ladder'[s][m].head = ladder[s][m].head /\ ladder'[s][m].tail = ladder[s][m].tail
    BY DEF OtherLevelsKept
  <1> HIDE DEF S
  <1>4. QueueAt(ladder'[s][m], next', prev', node')
          = QueueAt(ladder[s][m], next, prev, node)
    BY <1>0, <1>1, <1>2, <1>3, QueueKept
  <1> QED
    BY <1>4 DEF BookQueues, QueuedOrders, OrdersAt, QueueAt, OrdersIn

LEMMA RuntimeMapNext == StructInv' => RuntimeLevels' = MapOf(BookQueues')
  <1>1. (StructInv => RuntimeLevels = MapOf(BookQueues))'
    BY RuntimeMap, PTL
  <1> QED
    BY <1>1 DEF MapOf

(* So the map changes in one entry, or not at all.                          *)
LEMMA LevelStored ==
  ASSUME StructInv, StructInv', NEW side \in Sides, NEW price \in Prices,
         NEW l, l = price_to_index(price), OtherLevelsKept(side, l), NEW queue, BookQueues'[side][l] = queue
  PROVE  RuntimeLevels' = StoredAt(RuntimeLevels, side, price, queue)
  <1>1. l \in Levels
    BY PriceOfLevel
  <1>2. \A s \in Sides, m \in Levels :
          BookQueues'[s][m] = IF s = side /\ m = price_to_index(price)
                              THEN queue ELSE BookQueues[s][m]
    BY <1>1, OtherQueues
  <1>3. /\ RuntimeLevels = MapOf(BookQueues)
        /\ RuntimeLevels' = MapOf(BookQueues')
    BY RuntimeMap, RuntimeMapNext
  <1>4. MapOf(BookQueues') = StoredAt(MapOf(BookQueues), side, price, queue)
    <2>1. Replaced(BookQueues, BookQueues', side, price_to_index(price), queue)
      BY <1>2 DEF Replaced
    <2> QED
      BY <2>1, MapStored
  <1> QED
    BY <1>3, <1>4

LEMMA LevelsKept ==
  ASSUME StructInv, StructInv',
         \A s \in Sides, m \in Levels :
           /\ ladder'[s][m].head = ladder[s][m].head
           /\ ladder'[s][m].tail = ladder[s][m].tail,
         \A j \in Resting :
           next'[j] = next[j] /\ prev'[j] = prev[j] /\ node'[j] = node[j]
  PROVE  RuntimeLevels' = RuntimeLevels
  <1>1. ASSUME NEW s \in Sides, NEW m \in Levels
        PROVE  BookQueues'[s][m] = BookQueues[s][m]
    <2> DEFINE S == Placed(Resting, node, s, m)
    <2>1. S \in SUBSET Slots /\ S \subseteq Resting
      BY DEF Placed, Resting, Used
    <2>2. Lists(ladder[s][m], S, next, prev)
      BY ListsAndBits DEF StructInv, AllListed
    <2> HIDE DEF S
    <2>3. QueueAt(ladder'[s][m], next', prev', node')
            = QueueAt(ladder[s][m], next, prev, node)
      BY <2>1, <2>2, QueueKept
    <2> QED
      BY <2>3 DEF BookQueues, QueuedOrders, OrdersAt, QueueAt, OrdersIn
  <1>2. BookQueues' = BookQueues
    BY <1>1 DEF BookQueues
  <1> QED
    BY <1>2, RuntimeMap, RuntimeMapNext

-----------------------------------------------------------------------------

(* The orders of a queue that a node has joined, or left.                   *)
LEMMA OrdersAppended ==
  ASSUME NEW n \in Nat, NEW q \in [1 .. n -> Slots], NEW i \in Slots,
         NEW orders, NEW newOrders,
         \A k \in 1 .. n : newOrders[q[k]] = orders[q[k]]
  PROVE  OrdersIn(Appended(q, n, i), newOrders)
           = Appended(OrdersIn(q, orders), n, newOrders[i])
  <1>1. \A k \in 1 .. n + 1 : k # n + 1 => k \in 1 .. n
    OBVIOUS
  <1> QED
    BY <1>1 DEF OrdersIn, Appended

LEMMA OrdersDropped ==
  ASSUME NEW n \in Nat, NEW q \in [1 .. n -> Slots], NEW m \in 1 .. n,
         NEW orders, NEW newOrders,
         \A k \in 1 .. n : k # m => newOrders[q[k]] = orders[q[k]]
  PROVE  OrdersIn(Dropped(q, n, m), newOrders)
           = Dropped(OrdersIn(q, orders), n, m)
  <1>1. \A j \in 1 .. n - 1 : /\ j \in 1 .. n /\ j + 1 \in 1 .. n
                              /\ j < m => j # m
                              /\ ~(j < m) => j + 1 # m
    OBVIOUS
  <1> QED
    BY <1>1 DEF OrdersIn, Dropped

(* What unlink_from_level leaves on the level is the queue without the node.*)
LEMMA UnlinkedQueue ==
  ASSUME NEW n \in Nat, NEW q \in [1 .. n -> Slots], NEW m \in 1 .. n,
         NEW level, NEW i, i = q[m], NEW quantity,
         next \in [Slots -> Slots \cup {npos}],
         prev \in [Slots -> Slots \cup {npos}],
         IsQueue(q, n, level, next, prev), UnlinkNeighbours(i)
  PROVE  IsQueue(Dropped(q, n, m), n - 1, UnlinkedLevel(level, i, quantity),
                 next', prev')
  <1> DEFINE head == IF prev[i] = npos THEN next[i] ELSE level.head
             tail == IF next[i] = npos THEN prev[i] ELSE level.tail
             ends == [head |-> head, tail |-> tail]
             left == UnlinkedLevel(level, i, quantity)
             d == Dropped(q, n, m)
  <1>1. IsQueue(d, n - 1, ends, next', prev')
    <2>1. ends.head = head /\ ends.tail = tail
      OBVIOUS
    <2> HIDE DEF ends
    <2> QED
      BY <2>1, DroppedQueued DEF UnlinkNeighbours
  <1>2. d \in [1 .. n - 1 -> Slots]
    <2>1. \A j, k \in 1 .. n : q[j] = q[k] => j = k
      BY DEF IsQueue
    <2>2. d \in [1 .. n - 1 -> Listed(q, n) \ {q[m]}]
      BY <2>1, DroppedNodes
    <2>3. Listed(q, n) \subseteq Slots
      BY DEF Listed
    <2> HIDE DEF d
    <2> QED
      BY <2>2, <2>3
  <1>3. CASE head = npos
    <2>1. n - 1 = 0
      <3>1. n - 1 # 0 => 1 \in 1 .. n - 1
        OBVIOUS
      <3> HIDE DEF d
      <3>2. n - 1 # 0 => ends.head \in Slots
        BY <1>1, <1>2, <3>1 DEF IsQueue
      <3> QED
        BY <1>3, <3>2, NposIsNoSlot
    <2>2. left = EmptyLevel
      BY <1>3 DEF UnlinkedLevel
    <2>3. left.head = npos /\ left.tail = npos
      BY <2>2 DEF EmptyLevel
    <2> HIDE DEF left, d
    <2>4. IsQueue(d, n - 1, left, next', prev')
      BY <2>1, <2>3 DEF IsQueue
    <2> QED
      BY <2>4 DEF left, d
  <1>4. CASE head # npos
    <2>1. left.head = head /\ left.tail = tail
      BY <1>4 DEF UnlinkedLevel
    <2>2. ends.head = head /\ ends.tail = tail
      OBVIOUS
    <2> HIDE DEF left, head, tail, ends, d
    <2>3. IsQueue(d, n - 1, left, next', prev')
      BY <1>1, <2>1, <2>2 DEF IsQueue
    <2> QED
      BY <2>3 DEF left, d
  <1> QED
    BY <1>3, <1>4

(* What append_to_level leaves on the level is the queue and the node.      *)
LEMMA AppendedQueue ==
  ASSUME NEW n \in Nat, NEW q \in [1 .. n -> Slots],
         NEW side \in Sides, NEW l \in Levels, NEW i \in Slots, NEW quantity,
         \A k \in 1 .. n : q[k] # i,
         ladder \in [Sides -> [Levels -> PriceLevel]],
         next \in [Slots -> Slots \cup {npos}],
         prev \in [Slots -> Slots \cup {npos}],
         next[i] = npos, prev[i] = npos,
         IsQueue(q, n, ladder[side][l], next, prev),
         AppendToLevel(side, l, i, quantity)
  PROVE  IsQueue(Appended(q, n, i), n + 1, ladder'[side][l], next', prev')
  <1> DEFINE level == ladder[side][l]
             total == (level.total_quantity + quantity) % QtyModulus
  <1>1. level.head = npos <=> n = 0
    <2>1. n # 0 => 1 \in 1 .. n
      OBVIOUS
    <2> QED
      BY <2>1, NposIsNoSlot DEF IsQueue
  <1>2. CASE isEmpty(level)
    <2>1. ladder' = [ladder EXCEPT ![side][l] =
                       [head |-> i, tail |-> i, total_quantity |-> total]]
      BY <1>2 DEF AppendToLevel
    <2>2. ladder'[side][l] = [head |-> i, tail |-> i, total_quantity |-> total]
      BY <2>1
    <2>3. ladder'[side][l].head = i /\ ladder'[side][l].tail = i
      BY <2>2
    <2>4. next'[i] = npos /\ prev'[i] = npos
      BY <1>2 DEF AppendToLevel
    <2>5. n = 0
      BY <1>1, <1>2 DEF isEmpty
    <2> QED
      BY <2>3, <2>4, <2>5, FirstQueued
  <1>3. CASE ~isEmpty(level)
    <2>1. ladder' = [ladder EXCEPT ![side][l] =
                       [level EXCEPT !.tail = i, !.total_quantity = total]]
      BY <1>3 DEF AppendToLevel
    <2>2. ladder'[side][l] = [level EXCEPT !.tail = i, !.total_quantity = total]
      BY <2>1
    <2>3. ladder'[side][l].head = level.head /\ ladder'[side][l].tail = i
      BY <2>2 DEF PriceLevel
    <2>4. /\ next' = [next EXCEPT ![level.tail] = i]
          /\ prev' = [prev EXCEPT ![i] = level.tail]
      BY <1>3 DEF AppendToLevel
    <2>5. n \in Nat \ {0}
      BY <1>1, <1>3 DEF isEmpty
    <2> QED
      BY <2>3, <2>4, <2>5, LastQueued
  <1> QED
    BY <1>2, <1>3

-----------------------------------------------------------------------------

(* The prices that have a level are those of the bits, so the best one and  *)
(* the test of the matching loop are the same.                              *)
LEMMA PricesShown ==
  ASSUME StructInv, NEW side \in Sides
  PROVE  DOMAIN RuntimeLevels[side] = {index_to_price(l) : l \in bits[side]}
  <1>1. AllListed(Resting, node, ladder, next, prev) /\ AllTold(Resting, node, bits)
    BY ListsAndBits DEF StructInv
  <1>2. \A l \in Levels : Placed(Resting, node, side, l) \in SUBSET Slots
    BY DEF Placed, Resting, Used
  <1>3. \A l \in Levels : ~isEmpty(ladder[side][l]) <=> l \in bits[side]
    BY <1>1, <1>2, EmptyQueue DEF AllListed, AllTold
  <1>4. DOMAIN RuntimeLevels[side] = {p \in Prices : ~isEmpty(LevelOf(side, p))}
    BY DEF RuntimeLevels
  <1>5. \A p \in Prices :
          ~isEmpty(LevelOf(side, p)) <=> price_to_index(p) \in bits[side]
    BY <1>3, PriceOfLevel DEF LevelOf
  <1>6. bits[side] \subseteq Levels
    BY DEF StructInv, BookInv, BookTypeOK
  <1>7. {p \in Prices : ~isEmpty(LevelOf(side, p))}
          \subseteq {index_to_price(l) : l \in bits[side]}
    BY <1>5, PriceOfLevel
  <1>8. {index_to_price(l) : l \in bits[side]}
          \subseteq {p \in Prices : ~isEmpty(LevelOf(side, p))}
    BY <1>5, <1>6, PriceOfLevel
  <1> QED
    BY <1>4, <1>7, <1>8

LEMMA BestShown ==
  ASSUME StructInv, NEW side \in Sides
  PROVE  /\ DOMAIN RuntimeLevels[side] = {} <=> bits[side] = {}
         /\ Contract!BestOf(side, DOMAIN RuntimeLevels[side]) = best_price(side)
  <1>1. DOMAIN RuntimeLevels[side] = {index_to_price(l) : l \in bits[side]}
    BY PricesShown
  <1>2. Contract!BestOf(side, {index_to_price(l) : l \in bits[side]})
          = BestOf(side, {index_to_price(l) : l \in bits[side]})
    BY DEF Contract!BestOf, BestOf, Contract!Buy, Buy
  <1> QED
    BY <1>1, <1>2 DEF best_price

(* The order of the running submit.                                         *)
LEMMA RunningOrder ==
  ASSUME StructInv
  PROVE  /\ Contract!RefIdle <=> Idle
         /\ ~Idle => /\ RuntimeOrder \in Orders
                     /\ RuntimeOrder.id = frame.id
                     /\ RuntimeOrder.side = frame.side
                     /\ RuntimeOrder.price = frame.price
                     /\ RuntimeOrder.quantity = frame.remaining
                     /\ frame.side \in Sides /\ frame.price \in Prices
                     /\ frame.id \in OrderIds /\ frame.remaining \in Int
  <1>1. Idle => RuntimeOrder = NoCall
    BY DEF RuntimeOrder
  <1>2. ASSUME ~Idle
        PROVE  /\ RuntimeOrder \in Orders
               /\ RuntimeOrder.id = frame.id
               /\ RuntimeOrder.side = frame.side
               /\ RuntimeOrder.price = frame.price
               /\ RuntimeOrder.quantity = frame.remaining
               /\ frame.side \in Sides /\ frame.price \in Prices
               /\ frame.id \in OrderIds /\ frame.remaining \in Int
    <2>1. /\ frame \in Frames /\ node[frame.slot] \in Orders
          /\ node[frame.slot].price = frame.price
      BY <1>2 DEF StructInv, BookInv, BookTypeOK, Idle, FrameExact
    <2>2. frame.price \in InputPrices
      BY <2>1 DEF Orders
    <2>3. frame.remaining \in Int
      BY <2>1, InputAssumption DEF Frames, Quantities
    <2> QED
      BY <1>2, <2>1, <2>2, <2>3 DEF RuntimeOrder, Orders, Frames
  <1>3. Contract!RefIdle <=> RuntimeOrder = NoCall
    BY DEF Contract!RefIdle
  <1> QED
    BY <1>1, <1>2, <1>3, NoOrderAssumption

LEMMA CrossingAgrees ==
  ASSUME StructInv, ~Idle
  PROVE  Contract!RefCrossing <=> Crossing
  <1> DEFINE opp == opposite(frame.side)
  <1>1. opp \in Sides
    BY RunningOrder DEF opposite, Sides
  <1>2. Contract!opposite(RuntimeOrder.side) = opp
    BY RunningOrder DEF Contract!opposite, opposite, Contract!Buy, Contract!Sell,
                        Buy, Sell
  <1>3. \A side, a, b : Contract!crosses(side, a, b) <=> crosses(side, a, b)
    BY DEF Contract!crosses, crosses, Contract!Buy, Buy
  <1> HIDE DEF opp
  <1>4. Contract!RefCrossing <=>
          /\ RuntimeOrder.quantity > 0
          /\ DOMAIN RuntimeLevels[opp] # {}
          /\ crosses(RuntimeOrder.side, RuntimeOrder.price,
                     Contract!BestOf(opp, DOMAIN RuntimeLevels[opp]))
    BY <1>2, <1>3 DEF Contract!RefCrossing
  <1> QED
    BY <1>1, <1>4, BestShown, RunningOrder DEF Crossing, opp

-----------------------------------------------------------------------------

LEMMA IdsShown ==
  /\ DOMAIN RuntimeIds =
       {x \in OrderIds : index[x] # npos /\ (Idle \/ x # frame.id)}
  /\ \A id \in DOMAIN RuntimeIds :
       RuntimeIds[id] = [side |-> node[index[id]].side,
                         price |-> node[index[id]].price]
  BY DEF RuntimeIds

(* Neither the entries nor the running submit change, nor the sides and     *)
(* prices of the nodes they name.                                           *)
LEMMA IdsKept ==
  ASSUME StructInv, index' = index,
         Idle' <=> Idle, ~Idle => frame'.id = frame.id,
         \A j \in Resting : /\ node'[j].side = node[j].side
                            /\ node'[j].price = node[j].price
  PROVE  RuntimeIds' = RuntimeIds
  <1> DEFINE T == {x \in OrderIds : index[x] # npos /\ (Idle \/ x # frame.id)}
  <1>1. {x \in OrderIds : index'[x] # npos /\ (Idle' \/ x # frame'.id)} = T
    OBVIOUS
  <1>2. \A id \in T : index[id] \in Resting
    BY DEF StructInv, IndexExact, FrameExact, Resting
  <1>3. \A id \in T : [side |-> node'[index'[id]].side,
                       price |-> node'[index'[id]].price]
                     = [side |-> node[index[id]].side,
                        price |-> node[index[id]].price]
    BY <1>2
  <1>4. RuntimeIds' = [id \in T |-> [side |-> node'[index'[id]].side,
                                     price |-> node'[index'[id]].price]]
    BY <1>1 DEF RuntimeIds
  <1>5. RuntimeIds = [id \in T |-> [side |-> node[index[id]].side,
                                    price |-> node[index[id]].price]]
    BY DEF RuntimeIds
  <1> HIDE DEF T
  <1> QED
    BY <1>3, <1>4, <1>5

(* One entry is erased.                                                     *)
LEMMA IdsErased ==
  ASSUME StructInv, NEW id \in OrderIds, index' = [index EXCEPT ![id] = npos],
         Idle' <=> Idle, ~Idle => frame'.id = frame.id,
         \A j \in Resting : /\ node'[j].side = node[j].side
                            /\ node'[j].price = node[j].price
  PROVE  RuntimeIds' = Contract!Without(RuntimeIds, {id})
  <1> DEFINE T == {x \in OrderIds : index[x] # npos /\ (Idle \/ x # frame.id)}
             U == {x \in OrderIds : index'[x] # npos /\ (Idle' \/ x # frame'.id)}
             Placing(x) == [side |-> node[index[x]].side,
                            price |-> node[index[x]].price]
             Placing2(x) == [side |-> node'[index'[x]].side,
                             price |-> node'[index'[x]].price]
  <1>1. index \in [OrderIds -> Slots \cup {npos}]
    BY DEF StructInv, BookInv, BookTypeOK
  <1>2. U = T \ {id}
    BY <1>1
  <1>3. \A x \in U : index'[x] = index[x] /\ index[x] \in Resting
    BY <1>1, <1>2 DEF StructInv, IndexExact, FrameExact, Resting
  <1>4. \A x \in U : Placing2(x) = Placing(x)
    BY <1>3
  <1>5. RuntimeIds' = [x \in U |-> Placing2(x)]
    BY DEF RuntimeIds
  <1>6. RuntimeIds = [x \in T |-> Placing(x)]
    BY DEF RuntimeIds
  <1> HIDE DEF T, U, Placing, Placing2
  <1>7. RuntimeIds' = [x \in T \ {id} |-> Placing(x)]
    BY <1>2, <1>4, <1>5
  <1>8. Contract!Without(RuntimeIds, {id}) = [x \in T \ {id} |-> Placing(x)]
    BY <1>6 DEF Contract!Without
  <1> QED
    BY <1>7, <1>8

(* The contract stores a queue in the same way.                             *)
LEMMA ContractStores ==
  ASSUME NEW side, NEW price, NEW queue
  PROVE  Contract!StoreLevel(side, price, queue)
           = Stored(RuntimeLevels[side], price, queue)
  BY DEF Contract!StoreLevel, Contract!Without, Contract!With, Stored

-----------------------------------------------------------------------------

(* The queue of a level that holds the node i, and where i stands in it.    *)
LEMMA QueueOf ==
  ASSUME StructInv, NEW side \in Sides, NEW l \in Levels,
         NEW i \in Placed(Resting, node, side, l)
  PROVE  \E n \in Nat \ {0} : \E q \in [1 .. n -> Slots] : \E m \in 1 .. n :
           /\ n <= MaxOrders /\ IsQueue(q, n, ladder[side][l], next, prev)
           /\ Placed(Resting, node, side, l) = Listed(q, n)
           /\ BookQueues[side][l] = OrdersIn(q, node)
           /\ q[m] = i
  <1> DEFINE S == Placed(Resting, node, side, l)
  <1>1. S \in SUBSET Slots
    BY DEF Placed, Resting, Used
  <1>2. Lists(ladder[side][l], S, next, prev)
    BY ListsAndBits DEF StructInv, AllListed
  <1> HIDE DEF S
  <1>3. PICK n \in Nat : \E q \in [1 .. n -> Slots] :
           /\ n <= MaxOrders /\ IsQueue(q, n, ladder[side][l], next, prev)
           /\ S = Listed(q, n) /\ ListOf(ladder[side][l], next, prev) = q
    BY <1>1, <1>2, ListedQueue
  <1>4. PICK q \in [1 .. n -> Slots] :
           /\ n <= MaxOrders /\ IsQueue(q, n, ladder[side][l], next, prev)
           /\ S = Listed(q, n) /\ ListOf(ladder[side][l], next, prev) = q
    BY <1>3
  <1>5. PICK m \in 1 .. n : q[m] = i
    BY <1>4 DEF Listed, S
  <1>6. n \in Nat \ {0}
    OBVIOUS
  <1>7. BookQueues[side][l] = OrdersIn(q, node)
    BY <1>4 DEF BookQueues, QueuedOrders, OrdersAt, OrdersIn
  <1> QED
    BY <1>4, <1>5, <1>6, <1>7 DEF S

(* The queue a level has once its links spell out r.                        *)
LEMMA QueueNow ==
  ASSUME NEW side \in Sides, NEW l \in Levels,
         NEW n \in 0 .. MaxOrders, NEW r \in [1 .. n -> Slots],
         IsQueue(r, n, ladder'[side][l], next', prev')
  PROVE  BookQueues'[side][l] = OrdersIn(r, node')
  <1>1. ListOf(ladder'[side][l], next', prev') = r
    BY ListIs
  <1> QED
    BY <1>1 DEF BookQueues, QueuedOrders, OrdersAt, OrdersIn

(* The level that lost node i, and the others, after unlink_from_level.     *)
LEMMA QueueDropped ==
  ASSUME StructInv, NEW side \in Sides, NEW l \in Levels,
         NEW n \in Nat, NEW q \in [1 .. n -> Slots], NEW m \in 1 .. n,
         n <= MaxOrders, NEW i, i = q[m],
         IsQueue(q, n, ladder[side][l], next, prev),
         Placed(Resting, node, side, l) = Listed(q, n),
         BookQueues[side][l] = OrdersIn(q, node),
         \A j \in Resting \ {i} : node'[j] = node[j],
         NEW level, level.head = ladder[side][l].head,
         level.tail = ladder[side][l].tail,
         NEW quantity, UnlinkNeighbours(i),
         ladder' = [ladder EXCEPT ![side][l] = UnlinkedLevel(level, i, quantity)]
  PROVE  /\ BookQueues'[side][l] = Dropped(BookQueues[side][l], n, m)
         /\ OtherLevelsKept(side, l)
  <1> DEFINE d == Dropped(q, n, m)
             S == Placed(Resting, node, side, l)
  <1>1. BookTypeOK
    BY DEF StructInv, BookInv
  <1>2. /\ next \in [Slots -> Slots \cup {npos}]
        /\ prev \in [Slots -> Slots \cup {npos}]
    BY <1>1 DEF BookTypeOK
  <1>3. IsQueue(q, n, level, next, prev)
    BY KeptQueue
  <1>4. IsQueue(d, n - 1, UnlinkedLevel(level, i, quantity), next', prev')
    BY <1>2, <1>3, UnlinkedQueue
  <1>5. \A s \in Sides, k \in Levels :
          ladder'[s][k] = IF s = side /\ k = l THEN UnlinkedLevel(level, i, quantity)
                          ELSE ladder[s][k]
    BY <1>1 DEF BookTypeOK
  <1>6. d \in [1 .. n - 1 -> Slots]
    <2>1. \A j, k \in 1 .. n : q[j] = q[k] => j = k
      BY DEF IsQueue
    <2>2. d \in [1 .. n - 1 -> Listed(q, n) \ {q[m]}]
      BY <2>1, DroppedNodes
    <2>3. Listed(q, n) \subseteq Slots
      BY DEF Listed
    <2> HIDE DEF d
    <2> QED
      BY <2>2, <2>3
  <1>7. n - 1 \in 0 .. MaxOrders
    BY MaxOrdersAssumption
  <1> HIDE DEF d
  <1>8. BookQueues'[side][l] = OrdersIn(d, node')
    BY <1>4, <1>5, <1>6, <1>7, QueueNow
  <1>9. i \in S /\ S \in SUBSET Slots /\ Lists(ladder[side][l], S, next, prev)
    <2>1. i \in S
      BY DEF Listed
    <2>2. S \in SUBSET Slots
      BY DEF Placed, Resting, Used
    <2>3. Lists(ladder[side][l], S, next, prev)
      BY ListsAndBits DEF StructInv, AllListed
    <2> QED
      BY <2>1, <2>2, <2>3
  <1> HIDE DEF S
  <1>10. next[i] \in S \cup {npos} /\ prev[i] \in S \cup {npos}
    BY <1>9, ListedLinks
  <1>11. \A j \in Slots \ S : next'[j] = next[j] /\ prev'[j] = prev[j]
    BY <1>2, <1>10 DEF UnlinkNeighbours
  <1>12. Resting \subseteq Slots
    BY DEF Resting, Used
  <1>13. OtherLevelsKept(side, l)
    BY <1>5, <1>9, <1>11, <1>12 DEF OtherLevelsKept, S
  <1>14. OrdersIn(d, node') = Dropped(OrdersIn(q, node), n, m)
    <2>1. \A k \in 1 .. n : k # m => node'[q[k]] = node[q[k]]
      <3>1. \A k \in 1 .. n : q[k] \in Resting
        BY DEF Listed, Placed
      <3>2. \A k \in 1 .. n : k # m => q[k] # i
        BY DEF IsQueue
      <3> QED
        BY <3>1, <3>2
    <2>2. n \in Nat /\ q \in [1 .. n -> Slots] /\ m \in 1 .. n
      OBVIOUS
    <2>3. OrdersIn(Dropped(q, n, m), node') = Dropped(OrdersIn(q, node), n, m)
      BY ONLY <2>1, <2>2, OrdersDropped
    <2> QED
      BY <2>3 DEF d
  <1> QED
    BY <1>8, <1>13, <1>14

-----------------------------------------------------------------------------

(* The map at the price of a level that has orders.                         *)
LEMMA LevelShown ==
  ASSUME StructInv, NEW side \in Sides, NEW price \in Prices
  PROVE  /\ price \in DOMAIN RuntimeLevels[side]
              <=> BookQueues[side][price_to_index(price)] # <<>>
         /\ price \in DOMAIN RuntimeLevels[side] =>
              RuntimeLevels[side][price] = BookQueues[side][price_to_index(price)]
  <1>1. RuntimeLevels[side] =
          [p \in {x \in Prices : BookQueues[side][price_to_index(x)] # <<>>} |->
             BookQueues[side][price_to_index(p)]]
    BY RuntimeMap DEF MapOf
  <1> QED
    BY <1>1

(* What a turn of the loop meets: the head of the queue at the best price   *)
(* is the node at the head of the level.                                    *)
LEMMA BestQueue ==
  ASSUME StructInv, ~Idle, Crossing, NEW opp, opp = opposite(frame.side),
         NEW price, price = best_price(opp), NEW l, l = price_to_index(price),
         NEW i, i = ladder[opp][l].head
  PROVE  /\ opp \in Sides /\ price \in Prices /\ l \in Levels
         /\ i \in Resting /\ i \in Placed(Resting, node, opp, l)
         /\ node[i].price = price
         /\ Contract!opposite(RuntimeOrder.side) = opp
         /\ Contract!BestOf(opp, DOMAIN RuntimeLevels[opp]) = price
         /\ RuntimeLevels[opp][price] = BookQueues[opp][l]
         /\ \E n \in Nat \ {0} : \E q \in [1 .. n -> Slots] :
              /\ n <= MaxOrders /\ IsQueue(q, n, ladder[opp][l], next, prev)
              /\ Placed(Resting, node, opp, l) = Listed(q, n)
              /\ BookQueues[opp][l] = OrdersIn(q, node)
              /\ q[1] = i
  <1>1. /\ opp \in Sides /\ l \in Levels /\ i \in Resting
        /\ node[i].side = opp /\ price_to_index(node[i].price) = l
    BY HeadRests
  <1>2. price \in Prices
    BY <1>1, BestPriceIsSet DEF Crossing, StructInv, BookInv
  <1>3. i \in Placed(Resting, node, opp, l)
    BY <1>1 DEF Placed
  <1>4. node[i].price = price
    <2>1. node[i].price \in Prices
      BY <1>1 DEF StructInv, UsedValid, Resting
    <2> QED
      BY <1>1, <1>2, <2>1, PriceOfLevel
  <1>5. PICK n \in Nat \ {0} : \E q \in [1 .. n -> Slots] : \E m \in 1 .. n :
           /\ n <= MaxOrders /\ IsQueue(q, n, ladder[opp][l], next, prev)
           /\ Placed(Resting, node, opp, l) = Listed(q, n)
           /\ BookQueues[opp][l] = OrdersIn(q, node)
           /\ q[m] = i
    BY <1>1, <1>3, QueueOf
  <1>6. PICK q \in [1 .. n -> Slots] :
           /\ n <= MaxOrders /\ IsQueue(q, n, ladder[opp][l], next, prev)
           /\ Placed(Resting, node, opp, l) = Listed(q, n)
           /\ BookQueues[opp][l] = OrdersIn(q, node)
    BY <1>5
  <1>7. q[1] = i
    BY <1>6 DEF IsQueue
  <1>8. Contract!opposite(RuntimeOrder.side) = opp
    BY RunningOrder DEF Contract!opposite, opposite, Contract!Buy, Contract!Sell,
                        Buy, Sell
  <1>9. RuntimeLevels[opp][price] = BookQueues[opp][l]
    <2>1. BookQueues[opp][l] # <<>>
      <3>1. 1 \in DOMAIN BookQueues[opp][l]
        BY <1>6 DEF OrdersIn
      <3> QED
        BY <3>1
    <2> QED
      BY <1>1, <1>2, <2>1, LevelShown
  <1> QED
    BY <1>1, <1>2, <1>3, <1>4, <1>6, <1>7, <1>8, <1>9, BestShown

(* A turn of the matching loop is a trade of the contract.                  *)
LEMMA TradeStep ==
  ASSUME StructInv, StructInv', MatchStep
  PROVE  Contract!RefTrade
  <1> DEFINE opp == opposite(frame.side)
             price == best_price(opp)
             l == price_to_index(price)
             i == ladder[opp][l].head
             quantity == IF frame.remaining < node[i].quantity
                         THEN frame.remaining ELSE node[i].quantity
             queue == BookQueues[opp][l]
             filled == node[i].quantity <= frame.remaining
             left == IF filled THEN Tail(queue)
                     ELSE [queue EXCEPT ![1].quantity = @ - quantity]
             S == Placed(Resting, node, opp, l)
  <1>1. ~Idle /\ Crossing
    BY DEF MatchStep
  <1>2. /\ opp \in Sides /\ price \in Prices /\ l \in Levels
        /\ i \in Resting /\ i \in S /\ node[i].price = price
        /\ Contract!opposite(RuntimeOrder.side) = opp
        /\ Contract!BestOf(opp, DOMAIN RuntimeLevels[opp]) = price
        /\ RuntimeLevels[opp][price] = queue
        /\ \E n \in Nat \ {0} : \E q \in [1 .. n -> Slots] :
             /\ n <= MaxOrders /\ IsQueue(q, n, ladder[opp][l], next, prev)
             /\ S = Listed(q, n) /\ queue = OrdersIn(q, node) /\ q[1] = i
    <2> HIDE DEF i, l, price, opp
    <2> QED
      BY <1>1, BestQueue DEF i, l, price, opp
  <1>3. /\ i # npos /\ i \in Used /\ i \in Slots /\ node[i] \in Orders
        /\ node[i].quantity \in Int
    BY <1>2, NposIsNoSlot, UsedPlaced, InputAssumption
       DEF Resting, Used, StructInv, Orders, Quantities
  <1>4. /\ out' = Traded(Trade(frame.id, node[i].id, node[i].price, quantity))
        /\ frame' = [frame EXCEPT !.remaining = @ - quantity]
        /\ IF quantity < node[i].quantity
           THEN FillPart(opp, l, i, quantity)
           ELSE FillWhole(opp, l, i, quantity)
    BY <1>3 DEF MatchStep
  <1>5. /\ RuntimeOrder \in Orders /\ RuntimeOrder.id = frame.id
        /\ RuntimeOrder.side = frame.side /\ RuntimeOrder.price = frame.price
        /\ RuntimeOrder.quantity = frame.remaining /\ frame.remaining \in Int
    BY <1>1, RunningOrder
  <1>6. /\ quantity = IF filled THEN node[i].quantity ELSE frame.remaining
        /\ quantity < node[i].quantity <=> ~filled
        /\ quantity \in Int
    BY <1>3, <1>5
  <1>7. /\ frame'.id = frame.id /\ frame'.side = frame.side
        /\ frame'.price = frame.price
        /\ frame'.remaining = frame.remaining - quantity /\ ~Idle'
    <2>1. frame \in Frames /\ node[i].quantity \in Quantities
      BY <1>1, <1>3 DEF StructInv, BookInv, BookTypeOK, Idle, Orders
    <2>2. frame.remaining - quantity \in Quantities
      BY <1>6, <2>1, InputAssumption DEF Frames, Quantities
    <2> HIDE DEF quantity
    <2>3. /\ frame' \in Frames /\ frame'.remaining = frame.remaining - quantity
          /\ frame'.id = frame.id /\ frame'.side = frame.side
          /\ frame'.price = frame.price
      BY <1>4, <2>1, <2>2 DEF Frames
    <2> QED
      BY <2>3, NoCallAssumption DEF Idle
  <1>8. RuntimeOrder' = [RuntimeOrder EXCEPT !.quantity = @ - quantity]
    BY <1>1, <1>5, <1>7 DEF RuntimeOrder
  <1>9. PICK n \in Nat \ {0} : \E q \in [1 .. n -> Slots] :
             /\ n <= MaxOrders /\ IsQueue(q, n, ladder[opp][l], next, prev)
             /\ S = Listed(q, n) /\ queue = OrdersIn(q, node) /\ q[1] = i
    BY <1>2
  <1>10. PICK q \in [1 .. n -> Slots] :
             /\ n <= MaxOrders /\ IsQueue(q, n, ladder[opp][l], next, prev)
             /\ S = Listed(q, n) /\ queue = OrdersIn(q, node) /\ q[1] = i
    BY <1>9
  <1>11. /\ 1 \in 1 .. n /\ queue = [k \in 1 .. n |-> node[q[k]]]
         /\ Head(queue) = node[i]
    BY <1>10 DEF OrdersIn
  <1> DEFINE Stores == /\ RuntimeLevels' = StoredAt(RuntimeLevels, opp, price, left)
                       /\ RuntimeIds' = IF filled
                                       THEN Contract!Without(RuntimeIds, {node[i].id})
                                       ELSE RuntimeIds
  <1>12. ASSUME ~filled
         PROVE  Stores
    <2>1. FillPart(opp, l, i, quantity)
      BY <1>4, <1>6, <1>12
    <2> HIDE DEF quantity
    <2>2. /\ ladder' = [ladder EXCEPT ![opp][l].total_quantity =
                          (@ - quantity) % QtyModulus]
          /\ node' = [node EXCEPT ![i].quantity = @ - quantity]
          /\ next' = next /\ prev' = prev /\ index' = index
      BY <2>1 DEF FillPart
    <2>3. SameEnds(ladder, ladder')
      <3> DEFINE less == [ladder[opp][l] EXCEPT !.total_quantity =
                            (@ - quantity) % QtyModulus]
      <3>1. ladder \in [Sides -> [Levels -> PriceLevel]]
        BY DEF StructInv, BookInv, BookTypeOK
      <3>2. ladder' = [ladder EXCEPT ![opp][l] = less]
        BY <1>2, <2>2, <3>1
      <3>3. less.head = ladder[opp][l].head /\ less.tail = ladder[opp][l].tail
        BY <1>2, <3>1 DEF PriceLevel
      <3> HIDE DEF less, opp, l
      <3> QED
        BY <1>2, <3>1, <3>2, <3>3 DEF SameEnds
    <2>4. /\ \A j \in Slots : /\ node'[j].side = node[j].side
                              /\ node'[j].price = node[j].price
          /\ \A j \in Slots \ {i} : node'[j] = node[j]
          /\ node'[i] = [node[i] EXCEPT !.quantity = @ - quantity]
      <3>1. node \in [Slots -> Orders \cup {FreshOrder}] /\ UsedValid
        BY DEF StructInv, BookInv, BookTypeOK
      <3> HIDE DEF i
      <3> QED
        BY <1>3, <2>2, <3>1, NodeReduced
    <2>5. BookQueues'[opp][l] = left
      <3>1. IsQueue(q, n, ladder'[opp][l], next', prev')
        <4> HIDE DEF opp, l
        <4>1. /\ ladder'[opp][l].head = ladder[opp][l].head
              /\ ladder'[opp][l].tail = ladder[opp][l].tail
          BY <1>2, <2>3 DEF SameEnds
        <4>2. \A k \in 1 .. n : next'[q[k]] = next[q[k]] /\ prev'[q[k]] = prev[q[k]]
          BY <2>2
        <4>3. n \in Nat /\ IsQueue(q, n, ladder[opp][l], next, prev)
          BY <1>10
        <4> QED
          BY <4>1, <4>2, <4>3, KeptQueue
      <3>2. n \in 0 .. MaxOrders
        BY <1>10, MaxOrdersAssumption
      <3> HIDE DEF opp, l, S, queue, i
      <3>3. BookQueues'[opp][l] = [k \in 1 .. n |-> node'[q[k]]]
        BY <1>2, <3>1, <3>2, QueueNow DEF OrdersIn
      <3>4. \A k \in 1 .. n : k # 1 => node'[q[k]] = node[q[k]]
        BY <1>10, <1>11, <2>4 DEF IsQueue
      <3>5. left = [k \in 1 .. n |-> IF k = 1 THEN node'[i] ELSE node[q[k]]]
        BY <1>11, <1>12, <2>4, <1>10 DEF left
      <3> HIDE DEF left
      <3> QED
        BY <1>10, <3>3, <3>4, <3>5
    <2>6. OtherLevelsKept(opp, l)
      <3> HIDE DEF i, l, opp
      <3> QED
        BY <1>2, <2>2, <2>3, <2>4 DEF OtherLevelsKept, SameEnds, Resting, Used
    <2>7. RuntimeLevels' = StoredAt(RuntimeLevels, opp, price, left)
      <3>1. l = price_to_index(price)
        OBVIOUS
      <3> HIDE DEF opp, l, price, queue, left, i
      <3> QED
        BY <1>2, <2>5, <2>6, <3>1, LevelStored
    <2>8. RuntimeIds' = RuntimeIds
      BY <1>1, <1>7, <2>2, <2>4, IdsKept DEF Resting, Used
    <2> QED
      BY <1>12, <2>7, <2>8
  <1>13. ASSUME filled
         PROVE  Stores
    <2> DEFINE level == [ladder[opp][l] EXCEPT !.total_quantity =
                           (@ - quantity) % QtyModulus]
    <2>1. FillWhole(opp, l, i, quantity)
      BY <1>4, <1>6, <1>13
    <2> HIDE DEF quantity
    <2>2. /\ node' = [node EXCEPT ![i].quantity = @ - quantity]
          /\ UnlinkNeighbours(i)
          /\ ladder' = [ladder EXCEPT ![opp][l] = UnlinkedLevel(level, i, quantity)]
          /\ index' = [index EXCEPT ![node[i].id] = npos]
      BY <2>1 DEF FillWhole
    <2>3. /\ \A j \in Slots : /\ node'[j].side = node[j].side
                              /\ node'[j].price = node[j].price
          /\ \A j \in Slots \ {i} : node'[j] = node[j]
      <3>1. node \in [Slots -> Orders \cup {FreshOrder}] /\ UsedValid
        BY DEF StructInv, BookInv, BookTypeOK
      <3> HIDE DEF i
      <3> QED
        BY <1>3, <2>2, <3>1, NodeReduced
    <2>4. level.head = ladder[opp][l].head /\ level.tail = ladder[opp][l].tail
      BY <1>2 DEF StructInv, BookInv, BookTypeOK, PriceLevel
    <2>5. BookQueues'[opp][l] = Dropped(queue, n, 1) /\ OtherLevelsKept(opp, l)
      <3>1. /\ i = q[1] /\ 1 \in 1 .. n /\ n \in Nat /\ n <= MaxOrders
            /\ IsQueue(q, n, ladder[opp][l], next, prev)
            /\ Placed(Resting, node, opp, l) = Listed(q, n)
            /\ BookQueues[opp][l] = OrdersIn(q, node)
        BY <1>10, <1>11
      <3>2. \A j \in Resting \ {i} : node'[j] = node[j]
        BY <2>3 DEF Resting, Used
      <3> HIDE DEF level, opp, l, i
      <3> QED
        BY <1>2, <2>2, <2>4, <3>1, <3>2, QueueDropped
    <2>6. BookQueues'[opp][l] = left
      <3> HIDE DEF opp, l, queue, i
      <3>1. Dropped(queue, n, 1) = Tail(queue)
        BY <1>11 DEF Dropped
      <3>2. left = Tail(queue)
        BY <1>13 DEF left
      <3> QED
        BY <2>5, <3>1, <3>2
    <2>8. RuntimeLevels' = StoredAt(RuntimeLevels, opp, price, left)
      <3>1. l = price_to_index(price)
        OBVIOUS
      <3> HIDE DEF opp, l, price, queue, left, i
      <3> QED
        BY <1>2, <2>5, <2>6, <3>1, LevelStored
    <2>9. RuntimeIds' = Contract!Without(RuntimeIds, {node[i].id})
      <3>1. node[i].id \in OrderIds
        BY <1>3 DEF Orders
      <3> QED
        BY <1>1, <1>7, <2>2, <2>3, <3>1, IdsErased DEF Resting, Used
    <2> QED
      BY <1>13, <2>8, <2>9
  <1>14. Stores
    BY <1>12, <1>13
  <1> HIDE DEF queue, S, quantity, i, l, price, opp, left
  <1>15. RuntimeLevels' =
           [RuntimeLevels EXCEPT ![opp] = Contract!StoreLevel(opp, price, left)]
    BY <1>14, ContractStores DEF StoredAt
  <1>16. out' = Contract!Traded(Contract!Trade(RuntimeOrder.id, node[i].id,
                                               node[i].price, quantity))
    BY <1>4, <1>5 DEF Contract!Traded, Contract!Trade, Traded, Trade
  <1>17. ~Contract!RefIdle /\ Contract!RefCrossing
    BY <1>1, RunningOrder, CrossingAgrees
  <1>18. left = IF filled THEN Tail(queue)
                ELSE [queue EXCEPT ![1].quantity = @ - quantity]
    BY DEF left
  <1>19. filled <=> node[i].quantity <= RuntimeOrder.quantity
    BY <1>5
  <1> HIDE DEF filled
  <1> QED
    BY <1>2, <1>5, <1>6, <1>8, <1>11, <1>14, <1>15, <1>16, <1>17, <1>18, <1>19
       DEF Contract!RefTrade

(* The running order joins the end of its level.                            *)
LEMMA RestsStep ==
  ASSUME StructInv, StructInv', MatchRests
  PROVE  Contract!RefRests
  <1> DEFINE i == frame.slot
             side == frame.side
             price == frame.price
             l == price_to_index(price)
             S == Placed(Resting, node, side, l)
             queue == BookQueues[side][l]
  <1>1. /\ ~Idle /\ frame.remaining > 0 /\ ~Crossing
        /\ node' = [node EXCEPT ![i].quantity = frame.remaining]
        /\ AppendToLevel(side, l, i, frame.remaining)
        /\ frame' = NoCall /\ index' = index /\ out' = Accepted(frame.id)
    BY DEF MatchRests
  <1>2. /\ i \in Used /\ i \in Slots /\ node[i] \in Orders
        /\ node[i].id = frame.id /\ node[i].side = side /\ node[i].price = price
        /\ next[i] = npos /\ prev[i] = npos /\ i \notin Resting
        /\ index[frame.id] = i
    BY <1>1, UsedPlaced DEF StructInv, FrameExact, IndexExact, Resting
  <1>3. /\ RuntimeOrder \in Orders /\ RuntimeOrder.id = frame.id
        /\ RuntimeOrder.side = side /\ RuntimeOrder.price = price
        /\ RuntimeOrder.quantity = frame.remaining
        /\ side \in Sides /\ price \in Prices /\ frame.id \in OrderIds
    BY <1>1, RunningOrder
  <1>4. BookTypeOK /\ l \in Levels
    BY <1>3, PriceOfLevel DEF StructInv, BookInv
  <1>5. /\ \A j \in Slots \ {i} : node'[j] = node[j]
        /\ node'[i] = RuntimeOrder
        /\ \A j \in Slots : /\ node'[j].side = node[j].side
                            /\ node'[j].price = node[j].price
    <2> DEFINE put == [node[i] EXCEPT !.quantity = frame.remaining]
    <2>1. node' = [node EXCEPT ![i] = put]
      BY <1>1
    <2>2. put = RuntimeOrder
      BY <1>2, <1>3 DEF Orders
    <2> HIDE DEF put
    <2> QED
      BY <1>2, <1>3, <1>4, <2>1, <2>2 DEF BookTypeOK
  <1>6. S \in SUBSET Slots /\ S \subseteq Resting /\ Resting \subseteq Slots
    BY DEF Placed, Resting, Used
  <1>7. Lists(ladder[side][l], S, next, prev)
    BY <1>3, <1>4, ListsAndBits DEF StructInv, AllListed
  <1> HIDE DEF S
  <1>8. PICK n \in Nat : \E q \in [1 .. n -> Slots] :
           /\ n <= MaxOrders /\ IsQueue(q, n, ladder[side][l], next, prev)
           /\ S = Listed(q, n) /\ ListOf(ladder[side][l], next, prev) = q
    BY <1>6, <1>7, ListedQueue
  <1>9. PICK q \in [1 .. n -> Slots] :
           /\ n <= MaxOrders /\ IsQueue(q, n, ladder[side][l], next, prev)
           /\ S = Listed(q, n) /\ ListOf(ladder[side][l], next, prev) = q
    BY <1>8
  <1>10. \A k \in 1 .. n : q[k] \in S /\ q[k] # i
    BY <1>2, <1>6, <1>9 DEF Listed
  <1>11. queue = OrdersIn(q, node)
    BY <1>3, <1>4, <1>9 DEF BookQueues, QueuedOrders, OrdersAt, OrdersIn
  <1> HIDE DEF i, side, price, l, queue
  <1>12. IsQueue(Appended(q, n, i), n + 1, ladder'[side][l], next', prev')
    BY <1>1, <1>2, <1>3, <1>4, <1>9, <1>10, AppendedQueue DEF BookTypeOK
  <1>13. BookQueues'[side][l] = Appended(queue, n, RuntimeOrder)
    <2>1. \A j, k \in 1 .. n : q[j] = q[k] => j = k
      BY <1>9 DEF IsQueue
    <2>2. n + 1 \in 0 .. MaxOrders
      BY <1>2, <1>10, <2>1, RoomForOne
    <2>3. Appended(q, n, i) \in [1 .. n + 1 -> Slots]
      BY <1>2, AppendedNodes
    <2>4. BookQueues'[side][l] = OrdersIn(Appended(q, n, i), node')
      BY <1>3, <1>4, <1>12, <2>2, <2>3, QueueNow
    <2>5. \A k \in 1 .. n : node'[q[k]] = node[q[k]]
      BY <1>5, <1>10
    <2>6. n \in Nat /\ q \in [1 .. n -> Slots] /\ i \in Slots
      BY <1>2
    <2>7. OrdersIn(Appended(q, n, i), node')
            = Appended(OrdersIn(q, node), n, node'[i])
      BY ONLY <2>5, <2>6, OrdersAppended
    <2> QED
      BY <1>5, <1>11, <2>4, <2>7
  <1>14. OtherLevelsKept(side, l)
    <2>1. ladder[side][l].head = npos \/ ladder[side][l].tail \in S
      BY <1>6, <1>7, ListedLinks
    <2>2. \A j \in Slots \ (S \cup {i}) : next'[j] = next[j] /\ prev'[j] = prev[j]
      BY <1>1, <1>4, <2>1 DEF AppendToLevel, isEmpty, BookTypeOK
    <2>3. \A s \in Sides, m \in Levels :
            ~(s = side /\ m = l) => ladder'[s][m] = ladder[s][m]
      BY <1>1, <1>4 DEF AppendToLevel, BookTypeOK
    <2> QED
      BY <1>2, <1>5, <1>6, <2>2, <2>3 DEF OtherLevelsKept, S
  <1> DEFINE longer == Append(queue, RuntimeOrder)
  <1>15. longer = Appended(queue, n, RuntimeOrder) /\ longer # <<>>
    <2> HIDE DEF RuntimeOrder
    <2>1. queue = [k \in 1 .. n |-> node[q[k]]]
      BY <1>11 DEF OrdersIn
    <2>2. longer = Appended(queue, n, RuntimeOrder)
      BY <2>1 DEF Appended
    <2>3. 1 \in DOMAIN Appended(queue, n, RuntimeOrder)
      BY DEF Appended
    <2>4. Appended(queue, n, RuntimeOrder) # <<>>
      BY <2>3
    <2> QED
      BY <2>2, <2>4
  <1> HIDE DEF longer
  <1>16. RuntimeLevels' = StoredAt(RuntimeLevels, side, price, longer)
    BY <1>3, <1>13, <1>14, <1>15, LevelStored DEF l
  <1>17. RuntimeLevels' =
           [RuntimeLevels EXCEPT ![side] = Contract!With(@, price, longer)]
    BY <1>15, <1>16 DEF StoredAt, Stored, Contract!With
  <1>18. queue = IF price \in DOMAIN RuntimeLevels[side]
                 THEN RuntimeLevels[side][price] ELSE <<>>
    BY <1>3, LevelShown DEF queue, l
  <1>19. RuntimeIds' = Contract!With(RuntimeIds, frame.id,
                                     [side |-> side, price |-> price])
    <2> DEFINE T == {x \in OrderIds : index[x] # npos /\ x # frame.id}
               U == {x \in OrderIds : index[x] # npos}
               Placing(x) == [side |-> node[index[x]].side,
                              price |-> node[index[x]].price]
               Placing2(x) == [side |-> node'[index[x]].side,
                               price |-> node'[index[x]].price]
               here == [side |-> side, price |-> price]
    <2>1. RuntimeIds = [x \in T |-> Placing(x)]
      BY <1>1 DEF RuntimeIds
    <2>2. RuntimeIds' = [x \in U |-> Placing2(x)]
      BY <1>1 DEF RuntimeIds, Idle
    <2>3. U = T \cup {frame.id}
      BY <1>2, <1>3, NposIsNoSlot
    <2>4. \A x \in U : index[x] \in Slots
      BY DEF StructInv, IndexExact, Used
    <2>5. \A x \in U : Placing2(x) = IF x = frame.id THEN here ELSE Placing(x)
      BY <1>2, <1>5, <2>4 DEF i, side, price
    <2> HIDE DEF T, U, Placing, Placing2, here
    <2>6. Contract!With(RuntimeIds, frame.id, here)
            = [x \in T \cup {frame.id} |-> IF x = frame.id THEN here
                                           ELSE RuntimeIds[x]]
      BY <2>1 DEF Contract!With
    <2>7. \A x \in T \cup {frame.id} :
            (IF x = frame.id THEN here ELSE RuntimeIds[x])
              = IF x = frame.id THEN here ELSE Placing(x)
      BY <2>1
    <2> QED
      BY <2>2, <2>3, <2>5, <2>6, <2>7 DEF here
  <1>20. RuntimeOrder' = NoCall
    BY <1>1 DEF RuntimeOrder, Idle
  <1>21. out' = Contract!Accepted(RuntimeOrder.id)
    BY <1>1, <1>3 DEF Contract!Accepted, Accepted
  <1>22. ~Contract!RefIdle /\ ~Contract!RefCrossing
    BY <1>1, RunningOrder, CrossingAgrees
  <1> HIDE DEF RuntimeOrder
  <1> QED
    BY <1>1, <1>3, <1>17, <1>18, <1>19, <1>20, <1>21, <1>22
       DEF Contract!RefRests, longer

(* The running order has been spent.                                        *)
LEMMA FilledStep ==
  ASSUME StructInv, StructInv', MatchFilled
  PROVE  Contract!RefFilled
  <1>1. /\ ~Idle /\ frame.remaining = 0 /\ out' = Accepted(frame.id)
        /\ index' = [index EXCEPT ![frame.id] = npos] /\ frame' = NoCall
        /\ UNCHANGED <<ladderVars, node, bits>>
    BY DEF MatchFilled
  <1>2. /\ RuntimeOrder.id = frame.id /\ RuntimeOrder.quantity = frame.remaining
        /\ frame.id \in OrderIds
    BY <1>1, RunningOrder
  <1>3. RuntimeLevels' = RuntimeLevels
    BY <1>1, LevelsKept DEF ladderVars
  <1>4. RuntimeIds' = RuntimeIds
    <2>1. index \in [OrderIds -> Slots \cup {npos}]
      BY DEF StructInv, BookInv, BookTypeOK
    <2> DEFINE T == {x \in OrderIds : index[x] # npos /\ (Idle \/ x # frame.id)}
               U == {x \in OrderIds : index'[x] # npos /\ (Idle' \/ x # frame'.id)}
    <2>2. U = T /\ \A x \in T : index'[x] = index[x]
      BY <1>1, <2>1 DEF Idle
    <2>3. RuntimeIds = [x \in T |-> [side |-> node[index[x]].side,
                                     price |-> node[index[x]].price]]
      BY DEF RuntimeIds
    <2>4. RuntimeIds' = [x \in U |-> [side |-> node'[index'[x]].side,
                                      price |-> node'[index'[x]].price]]
      BY DEF RuntimeIds
    <2>5. node' = node
      BY <1>1
    <2> HIDE DEF T, U
    <2> QED
      BY <2>2, <2>3, <2>4, <2>5
  <1>5. RuntimeOrder' = NoCall
    BY <1>1 DEF RuntimeOrder, Idle
  <1>6. out' = Contract!Accepted(RuntimeOrder.id)
    BY <1>1, <1>2 DEF Contract!Accepted, Accepted
  <1>7. ~Contract!RefIdle
    BY <1>1, RunningOrder
  <1> HIDE DEF RuntimeOrder
  <1> QED
    BY <1>1, <1>2, <1>3, <1>4, <1>5, <1>6, <1>7 DEF Contract!RefFilled

-----------------------------------------------------------------------------

(* An order without the node that carries it is erased from its queue.      *)
LEMMA EraseDrops ==
  ASSUME NEW n \in Nat, NEW m \in 1 .. n, NEW queue, NEW id,
         queue = [k \in 1 .. n |-> queue[k]],
         \A k \in 1 .. n : queue[k].id = id <=> k = m
  PROVE  Contract!EraseOrder(queue, id) = Dropped(queue, n, m)
  <1> DEFINE places == {k \in DOMAIN queue : queue[k].id = id}
             first == CHOOSE k \in places : \A j \in places : k <= j
  <1>1. DOMAIN queue = 1 .. n /\ Len(queue) = n
    OBVIOUS
  <1>2. places = {m}
    BY <1>1
  <1>3. first = m
    BY <1>2
  <1>4. Contract!EraseOrder(queue, id)
          = [j \in 1 .. Len(queue) - 1 |->
               queue[IF j < first THEN j ELSE j + 1]]
    BY <1>2 DEF Contract!EraseOrder
  <1> HIDE DEF places, first
  <1> QED
    BY <1>1, <1>3, <1>4 DEF Dropped

(* cancel() finds its order and erases it.                                  *)
LEMMA CancelStep ==
  ASSUME StructInv, StructInv', NEW id \in OrderIds, Cancelled(id)
  PROVE  Contract!RefCancelled(id)
  <1> DEFINE i == index[id]
             side == node[i].side
             price == node[i].price
             l == price_to_index(price)
             S == Placed(Resting, node, side, l)
             queue == BookQueues[side][l]
             level == ladder[side][l]
             quantity == node[i].quantity
  <1>1. /\ Idle /\ i # npos /\ out' = CancelReturns(id, TRUE)
        /\ ladder' = [ladder EXCEPT ![side][l] = UnlinkedLevel(level, i, quantity)]
        /\ UnlinkNeighbours(i) /\ index' = [index EXCEPT ![id] = npos]
        /\ node' = node /\ frame' = frame
    BY DEF Cancelled
  <1>2. /\ i \in Used /\ i \in Slots /\ node[i] \in Orders /\ node[i].id = id
        /\ side \in Sides /\ price \in Prices /\ l \in Levels
    BY <1>1, UsedPlaced DEF StructInv, IndexExact, UsedValid
  <1>3. i \in Resting /\ i \in S
    BY <1>1, <1>2 DEF Resting, Placed
  <1>4. id \in DOMAIN RuntimeIds /\ RuntimeIds[id] = [side |-> side, price |-> price]
    BY <1>1, IdsShown
  <1> HIDE DEF i, side, price, l
  <1>5. PICK n \in Nat \ {0} : \E q \in [1 .. n -> Slots] : \E m \in 1 .. n :
           /\ n <= MaxOrders /\ IsQueue(q, n, level, next, prev)
           /\ S = Listed(q, n) /\ queue = OrdersIn(q, node) /\ q[m] = i
    <2>1. i \in Placed(Resting, node, side, l)
      BY <1>3
    <2> HIDE DEF S
    <2> QED
      BY <1>2, <2>1, QueueOf DEF S
  <1>6. PICK q \in [1 .. n -> Slots] : \E m \in 1 .. n :
           /\ n <= MaxOrders /\ IsQueue(q, n, level, next, prev)
           /\ S = Listed(q, n) /\ queue = OrdersIn(q, node) /\ q[m] = i
    BY <1>5
  <1>7. PICK m \in 1 .. n :
           /\ n <= MaxOrders /\ IsQueue(q, n, level, next, prev)
           /\ S = Listed(q, n) /\ queue = OrdersIn(q, node) /\ q[m] = i
    BY <1>6
  <1>8. BookQueues'[side][l] = Dropped(queue, n, m) /\ OtherLevelsKept(side, l)
    <2>1. n \in Nat /\ i = q[m] /\ level.head = ladder[side][l].head
          /\ level.tail = ladder[side][l].tail
          /\ IsQueue(q, n, ladder[side][l], next, prev)
          /\ Placed(Resting, node, side, l) = Listed(q, n)
          /\ BookQueues[side][l] = OrdersIn(q, node)
      BY <1>7
    <2>2. \A j \in Resting \ {i} : node'[j] = node[j]
      BY <1>1
    <2> HIDE DEF level, quantity
    <2> QED
      BY <1>1, <1>2, <1>7, <2>1, <2>2, QueueDropped
  <1>9. queue = [k \in 1 .. n |-> node[q[k]]]
    BY <1>7 DEF OrdersIn
  <1> HIDE DEF queue, level, quantity
  <1>10. \A k \in 1 .. n : queue[k].id = id <=> k = m
    <2>1. \A k \in 1 .. n : q[k] \in Used
      BY <1>7 DEF Listed, S, Placed, Resting
    <2>2. \A k \in 1 .. n : node[q[k]].id = id => q[k] = i
      BY <2>1, <1>2 DEF StructInv, IndexExact
    <2> QED
      BY <1>2, <1>7, <1>9, <2>2 DEF IsQueue
  <1>11. Contract!EraseOrder(queue, id) = Dropped(queue, n, m)
    <2>1. queue = [k \in 1 .. n |-> queue[k]] /\ n \in Nat
      BY <1>9
    <2> QED
      BY <1>10, <2>1, EraseDrops
  <1>12. RuntimeLevels[side][price] = queue
    <2>1. queue # <<>>
      <3>1. m \in DOMAIN queue
        BY <1>9
      <3> QED
        BY <3>1
    <2> QED
      BY <1>2, <2>1, LevelShown DEF queue, l
  <1>13. RuntimeLevels' =
           [RuntimeLevels EXCEPT ![side] =
              Contract!StoreLevel(side, price, Contract!EraseOrder(queue, id))]
    <2>1. RuntimeLevels' = StoredAt(RuntimeLevels, side, price, Dropped(queue, n, m))
      BY <1>2, <1>8, LevelStored DEF l
    <2> QED
      BY <1>11, <2>1, ContractStores DEF StoredAt
  <1>14. RuntimeIds' = Contract!Without(RuntimeIds, {id})
    BY <1>1, IdsErased DEF Idle
  <1>15. RuntimeOrder' = RuntimeOrder
    BY <1>1 DEF RuntimeOrder, Idle
  <1>16. out' = Contract!CancelReturns(id, TRUE)
    BY <1>1 DEF Contract!CancelReturns, CancelReturns
  <1>17. Contract!RefIdle
    BY <1>1, RunningOrder
  <1>18. RuntimeIds[id].side = side /\ RuntimeIds[id].price = price
    BY <1>4
  <1> HIDE DEF RuntimeOrder
  <1> QED
    BY <1>4, <1>18, <1>12, <1>13, <1>14, <1>15, <1>16, <1>17 DEF Contract!RefCancelled

-----------------------------------------------------------------------------

(* What the contract shows of a book whose structures do not change.        *)
LEMMA NothingShown ==
  ASSUME UNCHANGED <<ladderVars, node, index, frame>>
  PROVE  /\ RuntimeLevels' = RuntimeLevels
         /\ RuntimeIds' = RuntimeIds
         /\ RuntimeOrder' = RuntimeOrder
  <1>1. RuntimeLevels' = RuntimeLevels
    BY DEF ladderVars, RuntimeLevels, LevelOf, QueuedOrders, OrdersAt
  <1>2. RuntimeIds' = RuntimeIds
    BY DEF RuntimeIds, Idle
  <1>3. RuntimeOrder' = RuntimeOrder
    BY DEF RuntimeOrder, Idle
  <1> QED
    BY <1>1, <1>2, <1>3

(* The pool is full when the contract counts as many ids as it has room for:*)
(* between two calls each id of the index has a node of its own, and each   *)
(* active node an id.                                                       *)
LEMMA FullAgrees ==
  ASSUME StructInv, Idle
  PROVE  full <=> Cardinality(DOMAIN RuntimeIds) = MaxOrders
  <1> DEFINE D == DOMAIN RuntimeIds
             f == [id \in D |-> index[id]]
  <1>1. D = {x \in OrderIds : index[x] # npos}
    BY IdsShown
  <1>2. /\ \A id \in D : index[id] \in Used /\ node[index[id]].id = id
        /\ \A i \in Used : node[i].id \in OrderIds /\ index[node[i].id] = i
    BY <1>1 DEF StructInv, IndexExact
  <1>3. \A i \in Used : i # npos
    BY NposIsNoSlot DEF Used
  <1>4. \A i \in Used : node[i].id \in D
    BY <1>1, <1>2, <1>3
  <1> HIDE DEF D
  <1>5. f \in Bijection(D, Used)
    BY <1>2, <1>4 DEF Bijection, Injection, Surjection, IsInjective
  <1>6. IsFiniteSet(Slots) /\ Cardinality(Slots) = MaxOrders /\ Used \in SUBSET Slots
    BY SlotsFinite DEF Used
  <1>7. IsFiniteSet(D) /\ Cardinality(D) = Cardinality(Used)
    <2>1. IsFiniteSet(Used)
      BY <1>6, FS_Subset
    <2>2. f \in Injection(D, Used) /\ f \in Surjection(D, Used)
      BY <1>5 DEF Bijection
    <2> HIDE DEF f
    <2>3. IsFiniteSet(D)
      BY <2>1, <2>2, FS_Injection
    <2>4. ExistsBijection(D, Used)
      BY <1>5 DEF ExistsBijection
    <2> QED
      BY <2>3, <2>4, FS_Bijection
  <1>8. Cardinality(Used) = MaxOrders <=> Used = Slots
    BY <1>6, FS_Subset
  <1>9. full <=> Free = {}
    BY CountersFollow DEF StructInv, CountersExact
  <1>10. Used = Slots \ Free /\ Free \subseteq Slots
    BY FreeOrUsed DEF StructInv, PoolInv, Free
  <1> QED
    BY <1>7, <1>8, <1>9, <1>10 DEF D

(* What submit_order tests before it takes a node is what the contract      *)
(* tests.                                                                   *)
LEMMA RefusalAgrees ==
  ASSUME StructInv, Idle, NEW in \in Orders
  PROVE  /\ in \in Contract!Orders
         /\ Contract!valid_quantity(in.quantity) <=> valid_quantity(in.quantity)
         /\ Contract!Refuses(in) <=> ~valid_price(in.price) \/ full
         /\ in.id \in DOMAIN RuntimeIds <=> index[in.id] # npos
         /\ Contract!Refused(in) = Refused(in)
  <1>1. in \in Contract!Orders
    BY DEF Contract!Orders, Orders, Contract!Sides, Sides, Contract!Buy,
           Contract!Sell, Buy, Sell, Quantities
  <1>2. Contract!valid_quantity(in.quantity) <=> valid_quantity(in.quantity)
    BY DEF Contract!valid_quantity, valid_quantity
  <1>3. in.price \notin MinPrice .. MaxPrice <=> ~valid_price(in.price)
    <2>1. in.price \in Int
      BY InputAssumption DEF Orders
    <2> QED
      BY <2>1, PriceAssumption DEF valid_price
  <1>4. Contract!Refuses(in) <=> ~valid_price(in.price) \/ full
    <2>1. Contract!Refuses(in) <=>
            \/ in.price \notin MinPrice .. MaxPrice
            \/ Contract!Cardinality(DOMAIN RuntimeIds) = MaxOrders
      BY DEF Contract!Refuses
    <2>2. \A S : Contract!Cardinality(S) = Cardinality(S)
      BY DEF Contract!Cardinality, Cardinality
    <2> QED
      BY <1>3, <2>1, <2>2, FullAgrees
  <1>5. in.id \in DOMAIN RuntimeIds <=> index[in.id] # npos
    BY IdsShown DEF Orders
  <1>6. Contract!Refused(in) = Refused(in)
    BY DEF Contract!Refused, Refused
  <1> QED
    BY <1>1, <1>2, <1>4, <1>5, <1>6

(* A submit refused for its price, its quantity or for want of a node.      *)
LEMMA RefusedStep ==
  ASSUME StructInv, NEW in \in Orders, SubmitRefused(in)
  PROVE  Contract!ContractRefused(in) \/ Contract!RefSubmitRefused(in)
  <1>1. /\ Idle /\ out' = Refused(in)
        /\ ~valid_price(in.price) \/ ~valid_quantity(in.quantity) \/ full
        /\ UNCHANGED <<ladderVars, node, index, frame>>
    BY DEF SubmitRefused
  <1>2. UNCHANGED <<RuntimeLevels, RuntimeIds, RuntimeOrder>>
    BY <1>1, NothingShown
  <1>3. Contract!RefIdle
    BY <1>1, RunningOrder
  <1>4. CASE ~valid_quantity(in.quantity)
    BY <1>1, <1>2, <1>3, <1>4, RefusalAgrees DEF Contract!RefSubmitRefused
  <1>5. CASE valid_quantity(in.quantity)
    BY <1>1, <1>2, <1>3, <1>5, RefusalAgrees DEF Contract!ContractRefused
  <1> QED
    BY <1>4, <1>5

(* A submit of an id that rests: the node it wrote is on no level.          *)
LEMMA DuplicateStep ==
  ASSUME StructInv, StructInv', NEW in \in Orders, SubmitDuplicate(in)
  PROVE  Contract!RefSubmitRefused(in)
  <1>1. /\ Idle /\ out' = Refused(in) /\ index[in.id] # npos
        /\ FillNode(freeHead, in) /\ index' = index /\ frame' = frame
        /\ freeHead \in Slots /\ freeHead \notin Used
    BY HeadIsFree DEF SubmitDuplicate, StructInv
  <1>2. \A j \in Resting :
          next'[j] = next[j] /\ prev'[j] = prev[j] /\ node'[j] = node[j]
    BY <1>1 DEF FillNode, StructInv, BookInv, BookTypeOK, Resting, Used
  <1>3. ladder' = ladder
    BY <1>1 DEF FillNode
  <1>4. RuntimeLevels' = RuntimeLevels
    BY <1>2, <1>3, LevelsKept
  <1>5. RuntimeIds' = RuntimeIds
    BY <1>1, <1>2, IdsKept DEF Idle
  <1>6. RuntimeOrder' = RuntimeOrder
    BY <1>1 DEF RuntimeOrder, Idle
  <1>7. Contract!RefIdle
    BY <1>1, RunningOrder
  <1>8. in.id \in DOMAIN RuntimeIds /\ Contract!Refused(in) = Refused(in)
    BY <1>1, RefusalAgrees
  <1> HIDE DEF RuntimeOrder
  <1> QED
    BY <1>1, <1>4, <1>5, <1>6, <1>7, <1>8 DEF Contract!RefSubmitRefused

(* An accepted order is in the index but rests nowhere yet: the contract    *)
(* sees the running submit alone.                                           *)
LEMMA AcceptedStep ==
  ASSUME StructInv, StructInv', NEW in \in Orders, SubmitAccepted(in)
  PROVE  Contract!RefSubmitStarts(in) /\ ~Contract!Refuses(in)
  <1>1. /\ Idle /\ out' = Silent /\ index[in.id] = npos
        /\ valid_price(in.price) /\ valid_quantity(in.quantity) /\ ~full
        /\ FillNode(freeHead, in)
        /\ index' = [index EXCEPT ![in.id] = freeHead]
        /\ frame' = [id |-> in.id, side |-> in.side, price |-> in.price,
                     slot |-> freeHead, remaining |-> in.quantity]
        /\ freeHead \in Slots /\ freeHead \notin Used
    BY HeadIsFree DEF SubmitAccepted, StructInv
  <1>2. ~Idle'
    <2>1. in.price \in Prices
      <3>1. in.price \in Int
        BY InputAssumption DEF Orders
      <3> QED
        BY <1>1, <3>1, PriceAssumption DEF valid_price, Prices
    <2>2. frame' \in Frames
      BY <1>1, <2>1 DEF Frames, Orders
    <2> QED
      BY <2>2, NoCallAssumption DEF Idle
  <1>3. \A j \in Resting :
          next'[j] = next[j] /\ prev'[j] = prev[j] /\ node'[j] = node[j]
    BY <1>1 DEF FillNode, StructInv, BookInv, BookTypeOK, Resting, Used
  <1>4. RuntimeLevels' = RuntimeLevels
    <2>1. ladder' = ladder
      BY <1>1 DEF FillNode
    <2> QED
      BY <1>3, <2>1, LevelsKept
  <1>5. RuntimeIds' = RuntimeIds
    <2> DEFINE T == {x \in OrderIds : index[x] # npos /\ (Idle \/ x # frame.id)}
               U == {x \in OrderIds : index'[x] # npos /\ (Idle' \/ x # frame'.id)}
    <2>1. index \in [OrderIds -> Slots \cup {npos}] /\ in.id \in OrderIds
      BY DEF StructInv, BookInv, BookTypeOK, Orders
    <2>2. U = T
      BY <1>1, <1>2, <2>1
    <2>3. \A x \in T : index'[x] = index[x] /\ index[x] \in Resting
      BY <1>1, <2>1 DEF StructInv, IndexExact, Resting
    <2>4. RuntimeIds = [x \in T |-> [side |-> node[index[x]].side,
                                     price |-> node[index[x]].price]]
      BY DEF RuntimeIds
    <2>5. RuntimeIds' = [x \in U |-> [side |-> node'[index'[x]].side,
                                      price |-> node'[index'[x]].price]]
      BY DEF RuntimeIds
    <2> HIDE DEF T, U
    <2> QED
      BY <1>3, <2>2, <2>3, <2>4, <2>5
  <1>6. RuntimeOrder' = in
    BY <1>1, <1>2 DEF RuntimeOrder, Orders
  <1>7. Contract!RefIdle
    BY <1>1, RunningOrder
  <1>8. out' = Contract!Silent
    BY <1>1 DEF Silent, Contract!Silent
  <1> HIDE DEF RuntimeOrder
  <1> QED
    BY <1>1, <1>4, <1>5, <1>6, <1>7, <1>8, RefusalAgrees DEF Contract!RefSubmitStarts

(* cancel() of an id that does not rest.                                    *)
LEMMA CancelMissedStep ==
  ASSUME StructInv, NEW id \in OrderIds, CancelMissed(id)
  PROVE  Contract!RefCancelMissed(id)
  <1>1. /\ Idle /\ out' = CancelReturns(id, FALSE) /\ index[id] = npos
        /\ UNCHANGED <<ladderVars, node, index, frame>>
    BY DEF CancelMissed
  <1>2. UNCHANGED <<RuntimeLevels, RuntimeIds, RuntimeOrder>>
    BY <1>1, NothingShown
  <1>3. Contract!RefIdle
    BY <1>1, RunningOrder
  <1>4. id \notin DOMAIN RuntimeIds
    BY <1>1, IdsShown
  <1>5. out' = Contract!CancelReturns(id, FALSE)
    BY <1>1 DEF CancelReturns, Contract!CancelReturns
  <1> QED
    BY <1>2, <1>3, <1>4, <1>5 DEF Contract!RefCancelMissed

(* A book without levels and ids is the empty book of the contract.         *)
EmptyBook ==
  /\ ladder = [side \in Sides |-> [l \in Levels |-> EmptyLevel]]
  /\ index = [id \in OrderIds |-> npos]

ShowsNothing ==
  /\ RuntimeLevels = [side \in Contract!Sides |-> <<>>]
  /\ RuntimeIds = <<>>

LEMMA EmptyShown == EmptyBook => ShowsNothing
  <1> SUFFICES ASSUME EmptyBook PROVE ShowsNothing
    OBVIOUS
  <1> USE DEF EmptyBook
  <1>1. \A side \in Sides, p \in Prices : isEmpty(LevelOf(side, p))
    BY PriceOfLevel DEF LevelOf, EmptyLevel, isEmpty
  <1>2. \A side \in Sides : {p \in Prices : ~isEmpty(LevelOf(side, p))} = {}
    BY <1>1
  <1>3. \A side \in Sides : RuntimeLevels[side] = <<>>
    BY <1>2 DEF RuntimeLevels
  <1>4. Contract!Sides = Sides
    BY DEF Contract!Sides, Sides, Contract!Buy, Contract!Sell, Buy, Sell
  <1>5. RuntimeLevels = [side \in Sides |-> RuntimeLevels[side]]
    BY DEF RuntimeLevels
  <1>6. {x \in OrderIds : index[x] # npos /\ (Idle \/ x # frame.id)} = {}
    OBVIOUS
  <1>7. RuntimeIds = <<>>
    BY <1>6 DEF RuntimeIds
  <1> QED
    BY <1>3, <1>4, <1>5, <1>7 DEF ShowsNothing

LEMMA InitShown == Init => Contract!RefInit
  BY EmptyShown
     DEF Init, LadderInit, EmptyBook, ShowsNothing, Contract!RefInit,
         RuntimeOrder, Idle, Silent, Contract!Silent

LEMMA ClearStep ==
  ASSUME StructInv, Clear
  PROVE  Contract!ContractCleared
  <1>1. /\ Idle /\ out' = Silent /\ frame' = frame
        /\ ladder' = [side \in Sides |-> [l \in Levels |-> EmptyLevel]]
        /\ index' = [id \in OrderIds |-> npos]
    BY DEF Clear, LadderClear
  <1>2. (EmptyBook => ShowsNothing)'
    BY EmptyShown, PTL
  <1>3. /\ RuntimeLevels' = [side \in Contract!Sides |-> <<>>]
        /\ RuntimeIds' = <<>>
    BY <1>1, <1>2 DEF EmptyBook, ShowsNothing
  <1>4. RuntimeOrder' = RuntimeOrder
    BY <1>1 DEF RuntimeOrder, Idle
  <1>5. Contract!RefIdle /\ out' = Contract!Silent
    BY <1>1, RunningOrder DEF Silent, Contract!Silent
  <1> HIDE DEF RuntimeOrder
  <1> QED
    BY <1>3, <1>4, <1>5 DEF Contract!ContractCleared

-----------------------------------------------------------------------------

(* Every step of the runtime book is a step of its contract.                *)
LEMMA StepImplements ==
  ASSUME StructInv, StructInv', [Next]_vars
  PROVE  [Contract!ContractNext]_(Contract!refVars)
  <1>0. Contract!Orders = Orders
    BY DEF Contract!Orders, Orders, Contract!Sides, Sides, Contract!Buy,
           Contract!Sell, Buy, Sell, Quantities
  <1>1. ASSUME NEW in \in Orders, SubmitRefused(in)
        PROVE  Contract!ContractNext
    BY <1>0, <1>1, RefusedStep DEF Contract!ContractNext
  <1>2. ASSUME NEW in \in Orders, SubmitDuplicate(in)
        PROVE  Contract!ContractNext
    BY <1>0, <1>2, DuplicateStep DEF Contract!ContractNext
  <1>3. ASSUME NEW in \in Orders, SubmitAccepted(in)
        PROVE  Contract!ContractNext
    BY <1>0, <1>3, AcceptedStep DEF Contract!ContractNext
  <1>4. CASE MatchStep
    BY <1>4, TradeStep DEF Contract!ContractNext, Contract!RefMatching
  <1>5. CASE MatchRests
    BY <1>5, RestsStep DEF Contract!ContractNext, Contract!RefMatching
  <1>6. CASE MatchFilled
    BY <1>6, FilledStep DEF Contract!ContractNext, Contract!RefMatching
  <1>7. ASSUME NEW id \in OrderIds, CancelMissed(id)
        PROVE  Contract!ContractNext
    BY <1>7, CancelMissedStep DEF Contract!ContractNext
  <1>8. ASSUME NEW id \in OrderIds, Cancelled(id)
        PROVE  Contract!ContractNext
    BY <1>8, CancelStep DEF Contract!ContractNext
  <1>9. CASE Clear
    BY <1>9, ClearStep DEF Contract!ContractNext
  <1>10. CASE UNCHANGED vars
    <2>1. UNCHANGED <<ladderVars, node, index, frame, out>>
      BY <1>10 DEF vars, bookVars
    <2> QED
      BY <2>1, NothingShown DEF Contract!refVars
  <1> QED
    BY <1>1, <1>2, <1>3, <1>4, <1>5, <1>6, <1>7, <1>8, <1>9, <1>10
       DEF Next, Matching

(* Whatever calls are made, submit, cancel and clear of the runtime book    *)
(* (side.hpp, order_book.hpp) return and trade as the reference book of the *)
(* tests does, but for the capacity and the price range: price-time         *)
(* priority, trades at the resting price, ids that come back once free.     *)
THEOREM BookImplementsContract == Spec => ImplementsContract
  <1>1. Init => Contract!RefInit
    BY InitShown
  <1>2. StructInv /\ StructInv' /\ [Next]_vars
          => [Contract!ContractNext]_(Contract!refVars)
    BY StepImplements
  <1> QED
    BY <1>1, <1>2, BookStructure, PTL DEF Spec, ImplementsContract, Contract!ContractSpec

-----------------------------------------------------------------------------
(***************************************************************************)
(* Proofs about ReentrantBook, for any number of suspended activations:    *)
(* whatever a sink does that keeps to its rules, the activations that wait *)
(* for their sinks find what they read before the call.                    *)
(*                                                                         *)
(* What match() reads before the call stays true because of three facts    *)
(* together.  The node of an activation is on no level, so nothing that    *)
(* happens to the lists reaches it.  A resting order of a trade under way  *)
(* is the head of its level, and only a cancel of that order or a trade on *)
(* its side could take it off; the sink makes neither.  And two            *)
(* activations wait on different sides, which holds only because a submit  *)
(* that could trade on a side with a trade under way is never opened.      *)
(***************************************************************************)

(* The activations that wait, in any order.                                 *)
Waiting == {stack[k] : k \in DOMAIN stack}

(* The node of a call, suspended or running: active, with the order it was  *)
(* filled with, and linked to nothing.                                      *)
InHand(call) ==
  /\ call.slot \in Used
  /\ node[call.slot].id = call.id
  /\ node[call.slot].side = call.side
  /\ node[call.slot].price = call.price
  /\ prev[call.slot] = npos /\ next[call.slot] = npos

(* The trade of a suspended activation: its order is still the head of its  *)
(* level, and the quantity is still what the two orders can trade.          *)
HeldTrade(s) ==
  /\ s.opp = opposite(s.call.side)
  /\ s.resting \in OnLevels
  /\ node[s.resting].side = s.opp
  /\ price_to_index(node[s.resting].price) = s.level
  /\ ladder[s.opp][s.level].head = s.resting
  /\ s.quantity = IF s.call.remaining < node[s.resting].quantity
                  THEN s.call.remaining ELSE node[s.resting].quantity
  /\ s.quantity > 0

(* The parts that agree whoever runs.                                       *)
BooksInv ==
  /\ BookInv /\ Uncrossed /\ PoolInv
  /\ UsedValid /\ IndexExact

LinesInv ==
  /\ QueuesList(OnLevels) /\ BitsTell(OnLevels)
  /\ \A i \in OnLevels : node[i].quantity > 0

(* The activations that wait, on different sides and with their own nodes.  *)
StackInv ==
  /\ stack \in Seq(Suspended)
  /\ \A j, k \in DOMAIN stack : stack[j].opp = stack[k].opp => j = k
  /\ \A s, t \in Waiting : s.call.slot = t.call.slot => s = t
  /\ \A s \in Waiting : InHand(s.call) /\ HeldTrade(s)

(* The activation that runs: it never trades where another one waits.       *)
RunningInv ==
  ~Idle => /\ InHand(frame)
           /\ \A s \in Waiting : s.call.slot # frame.slot
           /\ Crossing => \A s \in Waiting : s.opp # opposite(frame.side)

ReentrantInv == BooksInv /\ LinesInv /\ StackInv /\ RunningInv

-----------------------------------------------------------------------------

LEMMA OnLevelsIs ==
  /\ OnLevels = {i \in Used : (Idle \/ i # frame.slot)
                              /\ \A s \in Waiting : i # s.call.slot}
  /\ OnLevels' = {i \in Used' : (Idle' \/ i # frame'.slot)
                                /\ \A s \in Waiting' : i # s.call.slot}
  BY DEF OnLevels, Waiting

LEMMA OnLevelsUsed ==
  OnLevels \subseteq Used /\ OnLevels \in SUBSET Slots
  BY DEF OnLevels, Used

(* LinesInv in the form in which the lemmas about places are stated.        *)
LEMMA LinesInvAre ==
  /\ LinesInv <=> /\ AllListed(OnLevels, node, ladder, next, prev)
                  /\ AllTold(OnLevels, node, bits)
                  /\ \A i \in OnLevels : node[i].quantity > 0
  /\ LinesInv' <=> /\ AllListed(OnLevels', node', ladder', next', prev')
                   /\ AllTold(OnLevels', node', bits')
                   /\ \A i \in OnLevels' : node'[i].quantity > 0
  <1>1. QueuesList(OnLevels) <=> AllListed(OnLevels, node, ladder, next, prev)
    BY DEF QueuesList, At, AllListed, Placed
  <1>2. BitsTell(OnLevels) <=> AllTold(OnLevels, node, bits)
    BY DEF At, Placed, BitsTell, AllTold
  <1>3. QueuesList(OnLevels)' <=> AllListed(OnLevels', node', ladder', next', prev')
    BY DEF QueuesList, At, AllListed, Placed
  <1>4. BitsTell(OnLevels)' <=> AllTold(OnLevels', node', bits')
    BY DEF At, Placed, BitsTell, AllTold
  <1> QED
    BY <1>1, <1>2, <1>3, <1>4 DEF LinesInv

(* What an activation that waits is made of.                                *)
LEMMA WaitingTypes ==
  ASSUME StackInv, NEW s \in Waiting
  PROVE  /\ s \in Suspended
         /\ s.call \in Frames /\ s.opp \in Sides /\ s.level \in Levels
         /\ s.resting \in Slots /\ s.quantity \in Quantities
  <1>1. DOMAIN stack = 1 .. Len(stack) /\ stack \in Seq(Suspended)
    BY LenProperties DEF StackInv
  <1>2. s \in Suspended
    BY <1>1, ElementOfSeq DEF Waiting
  <1> QED
    BY <1>2 DEF Suspended

(* Two activations never wait on one side.                                  *)
LEMMA WaitingApart ==
  ASSUME StackInv, NEW s \in Waiting, NEW t \in Waiting, s.opp = t.opp
  PROVE  s = t
  BY DEF StackInv, Waiting

(* One more activation waits.                                               *)
LEMMA StackPushed ==
  ASSUME stack \in Seq(Suspended), NEW s \in Suspended,
         stack' = Append(stack, s),
         \A j, k \in DOMAIN stack : stack[j].opp = stack[k].opp => j = k,
         \A t \in Waiting : t.opp # s.opp
  PROVE  /\ stack' \in Seq(Suspended)
         /\ Waiting' = Waiting \cup {s}
         /\ \A j, k \in DOMAIN stack' : stack'[j].opp = stack'[k].opp => j = k
  <1> DEFINE n == Len(stack)
  <1>1. n \in Nat /\ DOMAIN stack = 1 .. n
    BY LenProperties
  <1>2. /\ stack' \in Seq(Suspended) /\ DOMAIN stack' = 1 .. n + 1
        /\ stack'[n + 1] = s
        /\ \A k \in 1 .. n : stack'[k] = stack[k]
    BY <1>1, AppendProperties
  <1>3. 1 .. n + 1 = (1 .. n) \cup {n + 1} /\ n + 1 \notin 1 .. n
    BY <1>1
  <1> HIDE DEF n
  <1>4. \A k \in 1 .. n : stack[k] \in Waiting
    BY <1>1 DEF Waiting
  <1>5. Waiting' = Waiting \cup {s}
    BY <1>1, <1>2, <1>3 DEF Waiting
  <1> QED
    BY <1>1, <1>2, <1>3, <1>4, <1>5

(* The last activation waits no more.                                       *)
LEMMA StackPopped ==
  ASSUME stack \in Seq(Suspended), stack # <<>>,
         stack' = SubSeq(stack, 1, Len(stack) - 1),
         \A j, k \in DOMAIN stack : stack[j].opp = stack[k].opp => j = k
  PROVE  /\ stack' \in Seq(Suspended)
         /\ stack[Len(stack)] \in Waiting
         /\ Waiting' = Waiting \ {stack[Len(stack)]}
         /\ \A j, k \in DOMAIN stack' : stack'[j].opp = stack'[k].opp => j = k
  <1> DEFINE n == Len(stack)
  <1>1. n \in Nat \ {0} /\ DOMAIN stack = 1 .. n
    BY LenProperties, EmptySeq
  <1>2. /\ stack' \in Seq(Suspended) /\ Len(stack') = n - 1
        /\ \A k \in 1 .. n - 1 : stack'[k] = stack[k]
    <2>1. \A k \in 1 .. n - 1 : stack[k] \in Suspended
      BY <1>1
    <2> QED
      BY <1>1, <2>1, SubSeqProperties
  <1>3. DOMAIN stack' = 1 .. n - 1
    BY <1>2, LenProperties
  <1>4. 1 .. n = (1 .. n - 1) \cup {n} /\ n \notin 1 .. n - 1
    BY <1>1
  <1> HIDE DEF n
  <1>5. \A k \in 1 .. n - 1 : stack[k] # stack[n]
    BY <1>1, <1>4
  <1>6. Waiting' = Waiting \ {stack[n]} /\ stack[n] \in Waiting
    BY <1>1, <1>2, <1>3, <1>4, <1>5 DEF Waiting
  <1>7. \A j, k \in 1 .. n - 1 : stack'[j].opp = stack'[k].opp => j = k
    BY <1>1, <1>2, <1>4
  <1> QED
    BY <1>2, <1>3, <1>6, <1>7 DEF n

-----------------------------------------------------------------------------

(* The activations that wait find what they read if the nodes of the calls  *)
(* and the held orders are as they were.                                    *)
SameCalls ==
  \A s \in Waiting :
    /\ s.call.slot \in Used'
    /\ node'[s.call.slot].id = node[s.call.slot].id
    /\ node'[s.call.slot].side = node[s.call.slot].side
    /\ node'[s.call.slot].price = node[s.call.slot].price
    /\ prev'[s.call.slot] = prev[s.call.slot]
    /\ next'[s.call.slot] = next[s.call.slot]

SameTrades ==
  \A s \in Waiting :
    /\ s.resting \in OnLevels'
    /\ node'[s.resting] = node[s.resting]
    /\ ladder'[s.opp][s.level].head = ladder[s.opp][s.level].head

LEMMA StackKept ==
  ASSUME StackInv, stack' = stack, SameCalls, SameTrades
  PROVE  StackInv' /\ Waiting' = Waiting
  <1>1. Waiting' = Waiting
    BY DEF Waiting
  <1>2. ASSUME NEW s \in Waiting
        PROVE  InHand(s.call)' /\ HeldTrade(s)'
    BY DEF StackInv, InHand, HeldTrade, SameCalls, SameTrades
  <1> QED
    BY <1>1, <1>2 DEF StackInv

(* The first order of a level whose bit is set is there to trade with.      *)
LEMMA HeadOnLevel ==
  ASSUME BookTypeOK, NEW N \in SUBSET Slots, NEW opp \in Sides, bits[opp] # {},
         AllListed(N, node, ladder, next, prev), AllTold(N, node, bits),
         NEW l, l = price_to_index(best_price(opp))
  PROVE  /\ l \in Levels
         /\ ladder[opp][l].head \in N
         /\ node[ladder[opp][l].head].side = opp
         /\ price_to_index(node[ladder[opp][l].head].price) = l
  <1> DEFINE S == Placed(N, node, opp, l)
  <1>1. l \in bits[opp] /\ l \in Levels
    BY BestPriceIsSet DEF BookTypeOK
  <1>2. S # {} /\ Lists(ladder[opp][l], S, next, prev)
    BY <1>1 DEF AllTold, AllListed
  <1>3. S \in SUBSET Slots
    BY DEF Placed
  <1>4. ladder[opp][l].head \in S
    <2> HIDE DEF S
    <2> QED
      BY <1>2, <1>3, ListedLinks
  <1> QED
    BY <1>1, <1>4 DEF Placed

(* Unlinking a node of a level touches no node that is on no level, and     *)
(* leaves the head of that level in its place unless it is the head.        *)
LEMMA OthersKept ==
  ASSUME BookTypeOK, NEW N \in SUBSET Slots,
         AllListed(N, node, ladder, next, prev), NEW i \in N,
         NEW side \in Sides, NEW l \in Levels, NEW level, NEW quantity,
         node[i].side = side, price_to_index(node[i].price) = l,
         level.head = ladder[side][l].head,
         TakenOff(side, l, level, i, quantity)
  PROVE  /\ \A j \in Slots \ N : next'[j] = next[j] /\ prev'[j] = prev[j]
         /\ \A s \in Sides, m \in Levels :
              ~(s = side /\ m = l) => ladder'[s][m] = ladder[s][m]
         /\ ladder[side][l].head # i => ladder'[side][l].head = ladder[side][l].head
  <1> DEFINE S == Placed(N, node, side, l)
             left == UnlinkedLevel(level, i, quantity)
  <1>1. /\ UnlinkNeighbours(i)
        /\ ladder' = [ladder EXCEPT ![side][l] = left]
    BY DEF TakenOff
  <1>2. S \in SUBSET Slots /\ S \subseteq N /\ i \in S
    BY DEF Placed
  <1>3. Lists(ladder[side][l], S, next, prev)
    BY DEF AllListed
  <1>4. /\ next[i] \in S \cup {npos} /\ prev[i] \in S \cup {npos}
        /\ prev[i] = npos => i = ladder[side][l].head
        /\ ladder[side][l].head \in S
    <2> DEFINE entry == ladder[side][l]
    <2>1. Lists(entry, S, next, prev)
      BY <1>3
    <2> HIDE DEF S, entry
    <2>2. /\ next[i] \in S \cup {npos} /\ prev[i] \in S \cup {npos}
          /\ entry.head \in S
      BY <1>2, <2>1, ListedLinks
    <2>3. prev[i] = npos => i = entry.head
      BY <1>2, <2>1, NoneBefore
    <2> QED
      BY <2>2, <2>3 DEF entry
  <1>5. \A j \in Slots \ N : next'[j] = next[j] /\ prev'[j] = prev[j]
    BY <1>1, <1>2, <1>4 DEF UnlinkNeighbours, BookTypeOK
  <1> HIDE DEF S
  <1>6. ASSUME ladder[side][l].head # i
        PROVE  left.head = ladder[side][l].head
    <2>1. prev[i] # npos /\ ladder[side][l].head # npos
      BY <1>2, <1>4, <1>6, NposIsNoSlot
    <2> QED
      BY <2>1 DEF UnlinkedLevel
  <1> HIDE DEF left
  <1> QED
    BY <1>1, <1>5, <1>6 DEF BookTypeOK

(* A node that joins a level touches no node that is on no level but its    *)
(* own, and takes the head of no other order.                               *)
LEMMA OthersKeptBehind ==
  ASSUME BookTypeOK, NEW N \in SUBSET Slots,
         AllListed(N, node, ladder, next, prev), NEW i \in Slots,
         NEW side \in Sides, NEW l \in Levels, NEW quantity,
         AppendToLevel(side, l, i, quantity)
  PROVE  /\ \A j \in Slots \ (N \cup {i}) : next'[j] = next[j] /\ prev'[j] = prev[j]
         /\ \A s \in Sides, m \in Levels :
              ladder[s][m].head # npos => ladder'[s][m].head = ladder[s][m].head
  <1> DEFINE S == Placed(N, node, side, l)
             level == ladder[side][l]
             total == (level.total_quantity + quantity) % QtyModulus
  <1>1. S \in SUBSET Slots /\ S \subseteq N
    BY DEF Placed
  <1>2. Lists(level, S, next, prev)
    BY DEF AllListed
  <1>3. level.head # npos => level.tail \in S
    <2> HIDE DEF S
    <2> QED
      BY <1>1, <1>2, ListedLinks
  <1>4. CASE isEmpty(level)
    <2>1. /\ ladder' = [ladder EXCEPT ![side][l] =
                          [head |-> i, tail |-> i, total_quantity |-> total]]
          /\ UNCHANGED <<prev, next>>
      BY <1>4 DEF AppendToLevel
    <2>2. ladder[side][l].head = npos
      BY <1>4 DEF isEmpty
    <2> HIDE DEF total
    <2> QED
      BY <2>1, <2>2 DEF BookTypeOK
  <1>5. CASE ~isEmpty(level)
    <2> DEFINE filled == [level EXCEPT !.tail = i, !.total_quantity = total]
    <2>1. /\ ladder' = [ladder EXCEPT ![side][l] = filled]
          /\ next' = [next EXCEPT ![level.tail] = i]
          /\ prev' = [prev EXCEPT ![i] = level.tail]
      BY <1>5 DEF AppendToLevel
    <2>2. filled.head = ladder[side][l].head
      BY DEF BookTypeOK, PriceLevel
    <2>3. level.tail \in S
      BY <1>3, <1>5 DEF isEmpty
    <2> HIDE DEF filled, level, S
    <2>4. \A j \in Slots \ (N \cup {i}) : next'[j] = next[j] /\ prev'[j] = prev[j]
      BY <1>1, <2>1, <2>3 DEF BookTypeOK
    <2> QED
      BY <2>1, <2>2, <2>4 DEF BookTypeOK
  <1> QED
    BY <1>4, <1>5


-----------------------------------------------------------------------------

LEMMA InitReentrant == ReentrantInit => ReentrantInv
  <1> SUFFICES ASSUME ReentrantInit PROVE ReentrantInv
    OBVIOUS
  <1>1. Init /\ stack = <<>> /\ Waiting = {} /\ Idle
    BY DEF ReentrantInit, Waiting, Init, Idle
  <1>2. StructInv /\ BookInv /\ Uncrossed
    BY <1>1, InitStruct, InitBook
  <1>3. OnLevels = Resting
    BY <1>1 DEF OnLevels, Resting
  <1>4. BooksInv /\ LinesInv
    BY <1>2, <1>3
       DEF BooksInv, LinesInv, StructInv, LevelChains, BitmapExact, RestingPositive
  <1>5. StackInv /\ RunningInv
    BY <1>1, EmptySeq DEF StackInv, RunningInv
  <1> QED
    BY <1>4, <1>5 DEF ReentrantInv

(* A call that changes nothing, and the stuttering step.                    *)
LEMMA NothingChanges ==
  ASSUME ReentrantInv, stack' = stack,
         UNCHANGED <<poolVars, ladderVars, node, bits, index, frame>>
  PROVE  ReentrantInv'
  <1> USE DEF poolVars, ladderVars
  <1>1. Waiting' = Waiting /\ Used' = Used /\ OnLevels' = OnLevels
    BY DEF Waiting, Used, OnLevels, Idle
  <1>2. BookInv' /\ Uncrossed'
    BY DEF ReentrantInv, BooksInv, BookInv, BookTypeOK, Idle, Uncrossed
  <1>3. PoolInv' /\ UsedValid' /\ IndexExact'
    BY <1>1 DEF ReentrantInv, BooksInv, PoolInv, PoolTypeOK, FreeListExact, Free,
                UsedValid, IndexExact
  <1>4. LinesInv'
    BY <1>1, LinesInvAre DEF ReentrantInv
  <1>5. StackInv'
    BY <1>1, StackKept DEF ReentrantInv, StackInv, InHand, HeldTrade,
                           SameCalls, SameTrades
  <1>6. RunningInv'
    BY <1>1 DEF ReentrantInv, RunningInv, InHand, Idle, Crossing, best_price
  <1> QED
    BY <1>2, <1>3, <1>4, <1>5, <1>6 DEF ReentrantInv, BooksInv

(* A refused duplicate has written in a free node only.                     *)
LEMMA DuplicateReentrant ==
  ASSUME ReentrantInv, NEW order \in Orders, SubmitDuplicate(order),
         stack' = stack
  PROVE  ReentrantInv'
  <1> USE DEF ReentrantInv, BooksInv
  <1>1. /\ Idle /\ FillNode(freeHead, order)
        /\ UNCHANGED <<poolVars, bits, index, frame>>
        /\ freeHead \in Slots /\ freeHead \notin Used
    BY HeadIsFree DEF SubmitDuplicate
  <1>2. BookInv' /\ Uncrossed'
    BY <1>1, DuplicateKeeps DEF Uncrossed
  <1>3. PoolInv'
    BY <1>1 DEF PoolInv, PoolTypeOK, FreeListExact, Free, poolVars
  <1>4. Used' = Used /\ Idle' /\ OnLevels' = OnLevels
    BY <1>1 DEF Used, OnLevels, Idle, poolVars
  <1>5. /\ ladder' = ladder
        /\ \A i \in Used : /\ node'[i] = node[i]
                           /\ next'[i] = next[i] /\ prev'[i] = prev[i]
    BY <1>1 DEF FillNode, BookInv, BookTypeOK, Used
  <1>6. UsedValid' /\ IndexExact'
    BY <1>1, <1>4, <1>5 DEF UsedValid, IndexExact
  <1>7. LinesInv'
    <2>1. SameEnds(ladder, ladder') /\ bits' = bits
      BY <1>1, <1>5 DEF SameEnds
    <2>2. SamePlaces(OnLevels, node, node', next, next', prev, prev')
      BY <1>5, OnLevelsUsed DEF SamePlaces
    <2>3. /\ AllListed(OnLevels, node', ladder', next', prev')
          /\ AllTold(OnLevels, node', bits)
      BY <2>1, <2>2, LinesInvAre, OnLevelsUsed, PlacesKept
    <2>4. \A i \in OnLevels : node'[i].quantity > 0
      BY <1>5, OnLevelsUsed, LinesInvAre
    <2> QED
      BY <1>4, <2>1, <2>3, <2>4, LinesInvAre
  <1>8. SameCalls /\ SameTrades
    BY <1>4, <1>5, OnLevelsUsed
       DEF StackInv, InHand, HeldTrade, SameCalls, SameTrades
  <1>9. StackInv' /\ RunningInv'
    BY <1>4, <1>8, StackKept DEF RunningInv
  <1> QED
    BY <1>2, <1>3, <1>6, <1>7, <1>9

(* A submit the sink may make opens an activation with a node of its own,   *)
(* which does not trade on a side where another one waits.                  *)
LEMMA AcceptedReentrant ==
  ASSUME ReentrantInv, NEW order \in Orders, SubmitAccepted(order),
         SinkMaySubmit(order), stack' = stack
  PROVE  ReentrantInv'
  <1> USE DEF ReentrantInv, BooksInv
  <1>1. /\ BookInv' /\ PoolInv' /\ UsedValid' /\ IndexExact'
        /\ freeHead \in Slots /\ freeHead \notin Used
        /\ Used' = Used \cup {freeHead}
        /\ Idle /\ ~Idle'
        /\ frame' = [id |-> order.id, side |-> order.side,
                     price |-> order.price, slot |-> freeHead,
                     remaining |-> order.quantity]
        /\ node'[freeHead] = order
        /\ next'[freeHead] = npos /\ prev'[freeHead] = npos
        /\ \A i \in Used : /\ node'[i] = node[i]
                           /\ next'[i] = next[i] /\ prev'[i] = prev[i]
        /\ ladder' = ladder /\ bits' = bits
    BY AcceptedNodes
  <1>2. Uncrossed'
    BY <1>1 DEF Uncrossed
  <1>3. Waiting' = Waiting /\ OnLevels' = OnLevels
    <2>1. \A s \in Waiting : s.call.slot # freeHead
      BY <1>1 DEF StackInv, InHand
    <2>2. Waiting' = Waiting
      BY DEF Waiting
    <2>3. frame'.slot = freeHead
      BY <1>1
    <2> QED
      BY <1>1, <2>1, <2>2, <2>3, OnLevelsIs
  <1>4. LinesInv'
    <2>1. SameEnds(ladder, ladder')
      BY <1>1 DEF SameEnds
    <2>2. SamePlaces(OnLevels, node, node', next, next', prev, prev')
      BY <1>1, OnLevelsUsed DEF SamePlaces
    <2>3. /\ AllListed(OnLevels, node', ladder', next', prev')
          /\ AllTold(OnLevels, node', bits)
      BY <2>1, <2>2, LinesInvAre, OnLevelsUsed, PlacesKept
    <2>4. \A i \in OnLevels : node'[i].quantity > 0
      BY <1>1, OnLevelsUsed, LinesInvAre
    <2> QED
      BY <1>1, <1>3, <2>3, <2>4, LinesInvAre
  <1>5. SameCalls /\ SameTrades
    BY <1>1, <1>3, OnLevelsUsed
       DEF StackInv, InHand, HeldTrade, SameCalls, SameTrades
  <1>6. StackInv'
    BY <1>5, StackKept
  <1>7. RunningInv'
    <2>1. InHand(frame)'
      BY <1>1 DEF InHand
    <2>2. \A s \in Waiting' : s.call.slot # frame'.slot
      BY <1>1, <1>3 DEF StackInv, InHand
    <2>3. ASSUME Crossing'
          PROVE  \A s \in Waiting' : s.opp # opposite(frame'.side)
      <3> DEFINE opp == opposite(order.side)
      <3>1. frame'.side = order.side /\ frame'.price = order.price
        BY <1>1
      <3>2. bits[opp] # {} /\ crosses(order.side, order.price, best_price(opp))
        BY <1>1, <2>3, <3>1 DEF Crossing, best_price
      <3>3. \A k \in DOMAIN stack : stack[k].opp # opp
        BY <3>2 DEF SinkMaySubmit
      <3> QED
        BY <1>3, <3>1, <3>3 DEF Waiting
    <2> QED
      BY <2>1, <2>2, <2>3 DEF RunningInv
  <1> QED
    BY <1>1, <1>2, <1>4, <1>6, <1>7


-----------------------------------------------------------------------------

(* The activation that runs announces a trade and waits for its sink.       *)
LEMMA CallSinkReentrant ==
  ASSUME ReentrantInv, CallSink
  PROVE  ReentrantInv'
  <1> USE DEF ReentrantInv, BooksInv
  <1> DEFINE opp == opposite(frame.side)
             l == price_to_index(best_price(opp))
             i == ladder[opp][l].head
             quantity == IF frame.remaining < node[i].quantity
                         THEN frame.remaining ELSE node[i].quantity
             s == [call |-> frame, opp |-> opp, level |-> l, resting |-> i,
                   quantity |-> quantity]
  <1>1. ~Idle /\ Crossing /\ frame \in Frames /\ frame.side \in Sides
        /\ opp \in Sides /\ bits[opp] # {} /\ frame.remaining > 0
    BY DEF CallSink, Crossing, BookInv, BookTypeOK, Idle, Frames, opposite, Sides
  <1>2. BookTypeOK
    BY DEF BookInv
  <1>3. /\ l \in Levels /\ i \in OnLevels /\ node[i].side = opp
        /\ price_to_index(node[i].price) = l
    <2> HIDE DEF opp
    <2> QED
      BY <1>1, <1>2, OnLevelsUsed, LinesInvAre, HeadOnLevel
  <1>4. i \in Used /\ i \in Slots /\ i # npos /\ node[i] \in Orders
    BY <1>3, OnLevelsUsed, NposIsNoSlot, UsedPlaced
  <1>5. /\ stack' = Append(stack, s) /\ frame' = NoCall
        /\ UNCHANGED <<poolVars, ladderVars, node, bits, index>>
    BY <1>4 DEF CallSink
  <1>6. quantity \in Quantities /\ quantity > 0
    <2>1. /\ frame.remaining \in Quantities /\ node[i].quantity \in Quantities
          /\ node[i].quantity > 0
      BY <1>1, <1>3, <1>4 DEF Frames, Orders, LinesInv
    <2> QED
      BY <1>1, <2>1
  <1>7. s \in Suspended
    BY <1>1, <1>3, <1>4, <1>6 DEF Suspended
  <1>8. /\ s.call = frame /\ s.opp = opp /\ s.level = l /\ s.resting = i
        /\ s.quantity = quantity
    OBVIOUS
  <1> HIDE DEF s
  <1>9. /\ stack' \in Seq(Suspended) /\ Waiting' = Waiting \cup {s}
        /\ \A j, k \in DOMAIN stack' : stack'[j].opp = stack'[k].opp => j = k
    <2>1. \A t \in Waiting : t.opp # s.opp
      BY <1>1, <1>8 DEF RunningInv
    <2> QED
      BY <1>5, <1>7, <2>1, StackPushed DEF StackInv
  <1>10. Used' = Used /\ Idle'
    BY <1>5 DEF Used, Idle, poolVars
  <1>11. OnLevels' = OnLevels
    BY <1>1, <1>8, <1>9, <1>10, OnLevelsIs
  <1>12. BookInv' /\ Uncrossed'
    BY <1>5, <1>10 DEF BookInv, BookTypeOK, Uncrossed, poolVars, ladderVars, Idle
  <1>13. PoolInv' /\ UsedValid' /\ IndexExact'
    BY <1>5, <1>10 DEF PoolInv, PoolTypeOK, FreeListExact, Free, poolVars,
                       UsedValid, IndexExact
  <1>14. LinesInv'
    BY <1>5, <1>11, LinesInvAre DEF ladderVars
  <1>15. InHand(s.call) /\ HeldTrade(s)
    BY <1>1, <1>3, <1>6, <1>8 DEF RunningInv, HeldTrade
  <1>16. \A t \in Waiting' : InHand(t.call)' /\ HeldTrade(t)'
    BY <1>5, <1>9, <1>10, <1>11, <1>15
       DEF StackInv, InHand, HeldTrade, ladderVars
  <1>17. \A t, u \in Waiting' : t.call.slot = u.call.slot => t = u
    BY <1>1, <1>8, <1>9 DEF StackInv, RunningInv
  <1>18. StackInv'
    BY <1>9, <1>16, <1>17 DEF StackInv
  <1> QED
    BY <1>10, <1>12, <1>13, <1>14, <1>18 DEF RunningInv

(* An order that rests joins its level behind the heads of the trades under *)
(* way.                                                                     *)
LEMMA RestsReentrant ==
  ASSUME ReentrantInv, MatchRests, stack' = stack
  PROVE  ReentrantInv'
  <1> USE DEF ReentrantInv, BooksInv
  <1> DEFINE i == frame.slot
             l == price_to_index(frame.price)
  <1>1. /\ ~Idle /\ AppendToLevel(frame.side, l, i, frame.remaining)
        /\ bits' = [bits EXCEPT ![frame.side] = @ \cup {l}]
        /\ InHand(frame) /\ i \in Used
    BY DEF MatchRests, RunningInv, InHand
  <1>2. /\ BookInv' /\ PoolInv' /\ UsedValid' /\ IndexExact'
        /\ Used' = Used /\ Idle'
        /\ \A j \in Slots : /\ node'[j].id = node[j].id
                            /\ node'[j].side = node[j].side
                            /\ node'[j].price = node[j].price
        /\ \A j \in Slots \ {i} : node'[j] = node[j]
        /\ node'[i].quantity > 0
    BY <1>1, RestsNodes
  <1>3. Uncrossed'
    BY RestsUncrossed
  <1>4. Waiting' = Waiting /\ OnLevels' = OnLevels \cup {i} /\ i \notin OnLevels
    <2>1. \A s \in Waiting : s.call.slot # i
      BY <1>1 DEF RunningInv
    <2>2. Waiting' = Waiting
      BY DEF Waiting
    <2> QED
      BY <1>1, <1>2, <2>1, <2>2, OnLevelsIs
  <1>5. /\ i \in Slots /\ frame.side \in Sides
        /\ l \in Levels /\ node[i].side = frame.side
        /\ node[i].price = frame.price /\ next[i] = npos /\ prev[i] = npos
    BY <1>1, UsedPlaced DEF InHand
  <1>6. BookTypeOK /\ OnLevels \in SUBSET Slots /\ i \in Slots \ OnLevels
    BY <1>4, <1>5, OnLevelsUsed DEF BookInv
  <1>7. AllListed(OnLevels, node, ladder, next, prev) /\ AllTold(OnLevels, node, bits)
    BY LinesInvAre
  <1>8. LinesInv'
    <2>1. node'[i].side = frame.side /\ price_to_index(node'[i].price) = l
      BY <1>2, <1>5
    <2>2. \A j \in OnLevels : /\ node'[j].side = node[j].side
                              /\ node'[j].price = node[j].price
      BY <1>2, <1>6
    <2>3. /\ AllListed(OnLevels \cup {i}, node', ladder', next', prev')
          /\ AllTold(OnLevels \cup {i}, node', bits')
      <3> HIDE DEF i, l
      <3> QED
        BY <1>1, <1>5, <1>6, <1>7, <2>1, <2>2, PlaceTaken
    <2>4. \A j \in OnLevels \cup {i} : node'[j].quantity > 0
      BY <1>2, <1>6, LinesInvAre
    <2> QED
      BY <1>4, <2>3, <2>4, LinesInvAre
  <1>9. /\ \A j \in Slots \ (OnLevels \cup {i}) : next'[j] = next[j] /\ prev'[j] = prev[j]
        /\ \A s \in Sides, m \in Levels :
             ladder[s][m].head # npos => ladder'[s][m].head = ladder[s][m].head
    <2> HIDE DEF i, l
    <2> QED
      BY <1>1, <1>5, <1>6, <1>7, OthersKeptBehind
  <1>10. SameCalls
    <2> SUFFICES ASSUME NEW s \in Waiting
                 PROVE  /\ s.call.slot \in Used'
                        /\ node'[s.call.slot].id = node[s.call.slot].id
                        /\ node'[s.call.slot].side = node[s.call.slot].side
                        /\ node'[s.call.slot].price = node[s.call.slot].price
                        /\ prev'[s.call.slot] = prev[s.call.slot]
                        /\ next'[s.call.slot] = next[s.call.slot]
      BY DEF SameCalls
    <2>1. s.call.slot \in Used /\ s.call.slot \in Slots /\ s.call.slot # i
      BY <1>1 DEF StackInv, InHand, RunningInv, Used
    <2>2. s.call.slot \notin OnLevels
      BY OnLevelsIs
    <2> QED
      BY <1>2, <1>9, <2>1, <2>2
  <1>11. SameTrades
    <2> SUFFICES ASSUME NEW s \in Waiting
                 PROVE  /\ s.resting \in OnLevels'
                        /\ node'[s.resting] = node[s.resting]
                        /\ ladder'[s.opp][s.level].head = ladder[s.opp][s.level].head
      BY DEF SameTrades
    <2>1. s.resting \in OnLevels /\ s.opp \in Sides /\ s.level \in Levels
          /\ ladder[s.opp][s.level].head = s.resting
      BY WaitingTypes DEF StackInv, HeldTrade
    <2>2. s.resting \in Slots /\ s.resting # i /\ s.resting # npos
      BY <1>4, <1>6, <2>1, NposIsNoSlot
    <2> QED
      BY <1>2, <1>4, <1>9, <2>1, <2>2
  <1> QED
    BY <1>2, <1>3, <1>8, <1>10, <1>11, StackKept DEF RunningInv

(* A spent submit gives its node back, which was on no level and is of no   *)
(* other activation.                                                        *)
LEMMA FilledReentrant ==
  ASSUME ReentrantInv, MatchFilled, stack' = stack
  PROVE  ReentrantInv'
  <1> USE DEF ReentrantInv, BooksInv
  <1> DEFINE i == frame.slot
  <1>1. /\ ~Idle /\ Deallocate(i) /\ frame' = NoCall
        /\ index' = [index EXCEPT ![frame.id] = npos]
        /\ UNCHANGED <<ladderVars, node, bits>>
    BY DEF MatchFilled
  <1>2. i \in Used /\ node[i].id = frame.id
    BY <1>1 DEF RunningInv, InHand
  <1>3. BookInv' /\ Uncrossed'
    BY <1>1, FilledKeeps DEF Uncrossed
  <1>4. PoolInv' /\ Used' = Used \ {i} /\ UsedValid' /\ IndexExact'
    <2>1. index' = [index EXCEPT ![node[i].id] = npos]
      BY <1>1, <1>2
    <2> HIDE DEF i
    <2> QED
      BY <1>1, <1>2, <2>1, NodeLeft
  <1>5. \A s \in Waiting : s.call.slot # i
    BY <1>1 DEF RunningInv
  <1>6. Idle' /\ Waiting' = Waiting /\ OnLevels' = OnLevels
    <2>1. Idle' /\ Waiting' = Waiting
      BY <1>1 DEF Idle, Waiting
    <2> QED
      BY <1>1, <1>4, <1>5, <2>1, OnLevelsIs
  <1>7. LinesInv'
    BY <1>1, <1>6, LinesInvAre DEF ladderVars
  <1>8. SameCalls /\ SameTrades
    BY <1>1, <1>4, <1>5, <1>6
       DEF StackInv, InHand, HeldTrade, SameCalls, SameTrades, ladderVars
  <1> QED
    BY <1>3, <1>4, <1>6, <1>7, <1>8, StackKept DEF RunningInv


-----------------------------------------------------------------------------

(* The trades under way but those of node i find what they read.            *)
OtherTrades(i) ==
  \A s \in Waiting : s.resting # i =>
    /\ s.resting \in OnLevels'
    /\ node'[s.resting] = node[s.resting]
    /\ ladder'[s.opp][s.level].head = ladder[s.opp][s.level].head

(* Node i leaves its level, the pool and the index, by a fill or a cancel.  *)
LEMMA OneLeaves ==
  ASSUME BooksInv, LinesInv, StackInv, NEW i \in OnLevels,
         NEW side, NEW l, NEW level, NEW quantity,
         side = node[i].side, l = price_to_index(node[i].price),
         level.head = ladder[side][l].head, level.tail = ladder[side][l].tail,
         TakenOff(side, l, level, i, quantity), Deallocate(i),
         index' = [index EXCEPT ![node[i].id] = npos],
         \A j \in Slots : /\ node'[j].id = node[j].id
                          /\ node'[j].side = node[j].side
                          /\ node'[j].price = node[j].price,
         \A j \in Slots \ {i} : node'[j] = node[j],
         OnLevels' = OnLevels \cap Used'
  PROVE  /\ PoolInv' /\ UsedValid' /\ IndexExact'
         /\ LinesInv' /\ SameCalls /\ OtherTrades(i)
  <1> USE DEF BooksInv
  <1>1. /\ OnLevels \in SUBSET Slots /\ i \in Used /\ i \in Slots
        /\ side \in Sides /\ l \in Levels
    BY OnLevelsUsed, UsedPlaced
  <1>2. PoolInv' /\ Used' = Used \ {i} /\ UsedValid' /\ IndexExact'
    BY <1>1, NodeLeft
  <1>3. OnLevels' = OnLevels \ {i}
    BY <1>2, OnLevelsUsed
  <1>4. BookTypeOK
    BY DEF BookInv
  <1>5. /\ AllListed(OnLevels, node, ladder, next, prev)
        /\ AllTold(OnLevels, node, bits)
        /\ \A j \in OnLevels : node[j].quantity > 0
    BY LinesInvAre
  <1>6. LinesInv'
    <2>1. \A j \in OnLevels : /\ node'[j].side = node[j].side
                              /\ node'[j].price = node[j].price
      BY <1>1
    <2>2. /\ AllListed(OnLevels \ {i}, node', ladder', next', prev')
          /\ AllTold(OnLevels \ {i}, node', bits')
      BY <1>1, <1>4, <1>5, <2>1, PlaceLeft
    <2>3. \A j \in OnLevels \ {i} : node'[j].quantity > 0
      BY <1>1, <1>5
    <2> QED
      BY <1>3, <2>2, <2>3, LinesInvAre
  <1>7. /\ \A j \in Slots \ OnLevels : next'[j] = next[j] /\ prev'[j] = prev[j]
        /\ \A s \in Sides, m \in Levels :
             ~(s = side /\ m = l) => ladder'[s][m] = ladder[s][m]
        /\ ladder[side][l].head # i => ladder'[side][l].head = ladder[side][l].head
    BY <1>1, <1>4, <1>5, OthersKept
  <1>8. SameCalls
    <2> SUFFICES ASSUME NEW s \in Waiting
                 PROVE  /\ s.call.slot \in Used'
                        /\ node'[s.call.slot].id = node[s.call.slot].id
                        /\ node'[s.call.slot].side = node[s.call.slot].side
                        /\ node'[s.call.slot].price = node[s.call.slot].price
                        /\ prev'[s.call.slot] = prev[s.call.slot]
                        /\ next'[s.call.slot] = next[s.call.slot]
      BY DEF SameCalls
    <2>1. s.call.slot \in Used /\ s.call.slot \in Slots
      BY DEF StackInv, InHand, Used
    <2>2. s.call.slot \notin OnLevels
      BY OnLevelsIs
    <2> QED
      BY <1>2, <1>7, <2>1, <2>2
  <1>9. OtherTrades(i)
    <2> SUFFICES ASSUME NEW s \in Waiting, s.resting # i
                 PROVE  /\ s.resting \in OnLevels'
                        /\ node'[s.resting] = node[s.resting]
                        /\ ladder'[s.opp][s.level].head = ladder[s.opp][s.level].head
      BY DEF OtherTrades
    <2>1. s.resting \in OnLevels /\ s.opp \in Sides /\ s.level \in Levels
          /\ ladder[s.opp][s.level].head = s.resting
      BY WaitingTypes DEF StackInv, HeldTrade
    <2>2. s.resting \in Slots
      BY <1>1, <2>1
    <2> QED
      BY <1>3, <1>7, <2>1, <2>2
  <1> QED
    BY <1>2, <1>6, <1>8, <1>9

(* A resting order that a returning sink leaves a part of.                  *)
LEMMA PartLeaves ==
  ASSUME BooksInv, LinesInv, StackInv, BookInv', NEW i \in OnLevels,
         NEW opp \in Sides, NEW l \in Levels, NEW quantity \in Int,
         quantity < node[i].quantity, FillPart(opp, l, i, quantity),
         OnLevels' = OnLevels \cap Used'
  PROVE  /\ PoolInv' /\ UsedValid' /\ IndexExact'
         /\ LinesInv' /\ SameCalls /\ OtherTrades(i)
  <1> USE DEF BooksInv
  <1>1. OnLevels \in SUBSET Slots /\ OnLevels \subseteq Used /\ i \in Used
    BY OnLevelsUsed
  <1>2. /\ PoolInv' /\ UsedValid' /\ IndexExact' /\ Used' = Used
        /\ \A j \in Slots : /\ node'[j].id = node[j].id
                            /\ node'[j].side = node[j].side
                            /\ node'[j].price = node[j].price
        /\ \A j \in Slots \ {i} : node'[j] = node[j]
        /\ node'[i].quantity > 0
        /\ SameEnds(ladder, ladder')
        /\ UNCHANGED <<prev, next, bits>>
    BY <1>1, FillPartNodes
  <1>3. OnLevels' = OnLevels
    BY <1>1, <1>2
  <1>4. /\ AllListed(OnLevels, node, ladder, next, prev)
        /\ AllTold(OnLevels, node, bits)
        /\ \A j \in OnLevels : node[j].quantity > 0
    BY LinesInvAre
  <1>5. LinesInv'
    <2>1. SamePlaces(OnLevels, node, node', next, next', prev, prev')
      BY <1>1, <1>2 DEF SamePlaces
    <2>2. /\ AllListed(OnLevels, node', ladder', next', prev')
          /\ AllTold(OnLevels, node', bits)
      BY <1>1, <1>2, <1>4, <2>1, PlacesKept
    <2>3. \A j \in OnLevels : node'[j].quantity > 0
      BY <1>1, <1>2, <1>4
    <2> QED
      BY <1>2, <1>3, <2>2, <2>3, LinesInvAre
  <1>6. SameCalls
    BY <1>2 DEF SameCalls, StackInv, InHand, Used
  <1>7. OtherTrades(i)
    <2> SUFFICES ASSUME NEW s \in Waiting, s.resting # i
                 PROVE  /\ s.resting \in OnLevels'
                        /\ node'[s.resting] = node[s.resting]
                        /\ ladder'[s.opp][s.level].head = ladder[s.opp][s.level].head
      BY DEF OtherTrades
    <2>1. s.resting \in OnLevels /\ s.opp \in Sides /\ s.level \in Levels
      BY WaitingTypes DEF StackInv, HeldTrade
    <2>2. s.resting \in Slots
      BY <1>1, <2>1
    <2> QED
      BY <1>2, <1>3, <2>1, <2>2 DEF SameEnds
  <1> QED
    BY <1>2, <1>5, <1>6, <1>7

(* A sink cancels an order that rests and is in no trade under way.         *)
LEMMA CancelledReentrant ==
  ASSUME ReentrantInv, NEW id \in OrderIds, Cancelled(id), SinkMayCancel(id),
         stack' = stack
  PROVE  ReentrantInv'
  <1> USE DEF ReentrantInv
  <1> DEFINE i == index[id]
             side == node[i].side
             l == price_to_index(node[i].price)
             level == ladder[side][l]
             quantity == node[i].quantity
  <1>1. /\ Idle /\ i # npos /\ Deallocate(i)
        /\ TakenOff(side, l, level, i, quantity)
        /\ index' = [index EXCEPT ![id] = npos]
        /\ node' = node /\ frame' = frame
    BY DEF Cancelled, TakenOff
  <1>2. i \in Used /\ node[i].id = id
    BY <1>1 DEF BooksInv, IndexExact
  <1>3. \A s \in Waiting : s.resting # i /\ s.call.slot # i
    BY DEF SinkMayCancel, HeldNodes, Waiting
  <1>4. i \in OnLevels
    BY <1>1, <1>2, <1>3, OnLevelsIs
  <1>5. Used' = Used \ {i}
    BY <1>1, <1>2, UsedDeallocated DEF BooksInv
  <1>6. Idle' /\ Waiting' = Waiting /\ OnLevels' = OnLevels \cap Used'
    <2>1. Idle' /\ Waiting' = Waiting
      BY <1>1 DEF Idle, Waiting
    <2> QED
      BY <1>1, <1>5, <2>1, OnLevelsIs
  <1>7. BookInv' /\ Uncrossed'
    BY CancelledKeeps, FewerBits DEF BooksInv
  <1>8. index' = [index EXCEPT ![node[i].id] = npos]
    BY <1>1, <1>2
  <1>9. /\ side = node[i].side /\ l = price_to_index(node[i].price)
        /\ level.head = ladder[side][l].head /\ level.tail = ladder[side][l].tail
    OBVIOUS
  <1> HIDE DEF i, side, l, level, quantity
  <1>10. /\ PoolInv' /\ UsedValid' /\ IndexExact'
         /\ LinesInv' /\ SameCalls /\ OtherTrades(i)
    BY <1>1, <1>4, <1>6, <1>8, <1>9, OneLeaves
  <1>11. SameTrades
    BY <1>3, <1>10 DEF OtherTrades, SameTrades
  <1> QED
    BY <1>6, <1>7, <1>10, <1>11, StackKept DEF RunningInv, BooksInv

(* The user of the book clears it, no activation waiting.                   *)
LEMMA ClearReentrant ==
  ASSUME ReentrantInv, Clear, stack = <<>>, stack' = stack
  PROVE  ReentrantInv'
  <1> USE DEF ReentrantInv, BooksInv
  <1>1. Waiting = {} /\ Waiting' = {} /\ Idle /\ Idle'
    BY DEF Waiting, Clear, Idle
  <1>2. OnLevels = Resting /\ OnLevels' = Resting' /\ Resting = Used
    BY <1>1, OnLevelsIs DEF Resting
  <1>3. StructInv
    BY <1>1, <1>2 DEF StructInv, FrameExact, RestingPositive, BitmapExact,
                      LevelChains, LinesInv
  <1>4. StructInv'
    BY <1>3, ClearStruct
  <1>5. LevelChains' /\ BitmapExact' /\ RestingPositive'
    BY <1>4 DEF StructInv
  <1>6. LinesInv'
    BY <1>2, <1>5, LinesInvAre, ListsAndBits DEF RestingPositive
  <1>7. Uncrossed' /\ BookInv'
    BY ClearKeeps DEF Uncrossed, Sides
  <1>8. StackInv' /\ RunningInv'
    BY <1>1, EmptySeq DEF StackInv, RunningInv
  <1> QED
    BY <1>4, <1>6, <1>7, <1>8 DEF StructInv


(* The types after a sink returns: what was announced is no more than what  *)
(* either order has.                                                        *)
LEMMA ReturnKeeps ==
  ASSUME BookInv, UsedValid, NEW call \in Frames, call.slot \in Used,
         NEW i \in Used, i # call.slot,
         NEW opp \in Sides, NEW l \in Levels, NEW quantity,
         quantity = IF call.remaining < node[i].quantity
                    THEN call.remaining ELSE node[i].quantity,
         frame' = [call EXCEPT !.remaining = @ - quantity],
         FillPart(opp, l, i, quantity) \/ FillWhole(opp, l, i, quantity)
  PROVE  /\ BookInv' /\ \A side \in Sides : bits'[side] \subseteq bits[side]
         /\ frame' \in Frames /\ ~Idle'
         /\ frame'.slot = call.slot /\ frame'.id = call.id
         /\ frame'.side = call.side /\ frame'.price = call.price
         /\ \A j \in Slots : /\ node'[j].id = node[j].id
                             /\ node'[j].side = node[j].side
                             /\ node'[j].price = node[j].price
         /\ \A j \in Slots \ {i} : node'[j] = node[j]
  <1>1. /\ i \in Slots /\ node[i] \in Orders /\ node[i].quantity \in Quantities
        /\ call.slot \in Slots /\ node[call.slot] \in Orders
        /\ call.remaining \in Quantities
    BY UsedPlaced DEF Orders, Frames
  <1>2. /\ quantity \in Nat
        /\ call.remaining - quantity \in Quantities
        /\ node[i].quantity - quantity \in Quantities
    BY <1>1, InputAssumption DEF Quantities
  <1>3. /\ frame' \in Frames
        /\ frame'.slot = call.slot /\ frame'.id = call.id
        /\ frame'.side = call.side /\ frame'.price = call.price
    BY <1>2 DEF Frames
  <1>4. ~Idle'
    BY <1>3, NoCallAssumption DEF Idle
  <1>5. node' = [node EXCEPT ![i].quantity = @ - quantity]
    BY DEF FillPart, FillWhole
  <1>6. /\ \A j \in Slots : /\ node'[j].id = node[j].id
                            /\ node'[j].side = node[j].side
                            /\ node'[j].price = node[j].price
        /\ \A j \in Slots \ {i} : node'[j] = node[j]
    BY <1>5, NodeReduced DEF BookInv, BookTypeOK
  <1>7. node' \in [Slots -> Orders \cup {FreshOrder}]
    <2>1. [node[i] EXCEPT !.quantity = @ - quantity] \in Orders
      BY <1>1, <1>2 DEF Orders
    <2>2. node' = [node EXCEPT ![i] = [node[i] EXCEPT !.quantity = @ - quantity]]
      BY <1>1, <1>5 DEF BookInv, BookTypeOK
    <2> QED
      BY <2>1, <2>2 DEF BookInv, BookTypeOK
  <1>8. node'[frame'.slot] \in Orders
    BY <1>1, <1>3, <1>6
  <1>9. CASE FillPart(opp, l, i, quantity)
    <2>1. /\ ladder' \in [Sides -> [Levels -> PriceLevel]]
          /\ UNCHANGED <<nextFree, freeHead, prev, next, bits, index>>
      BY <1>1, <1>2, <1>9, FillPartKeeps
    <2>2. BookInv'
      BY <1>3, <1>7, <1>8, <2>1 DEF BookInv, BookTypeOK
    <2> QED
      BY <1>3, <1>4, <1>6, <2>1, <2>2
  <1>10. CASE FillWhole(opp, l, i, quantity)
    <2>1. /\ ladder' \in [Sides -> [Levels -> PriceLevel]]
          /\ prev' \in [Slots -> Slots \cup {npos}]
          /\ next' \in [Slots -> Slots \cup {npos}]
          /\ bits' \in [Sides -> SUBSET Levels]
          /\ \A side \in Sides : bits'[side] \subseteq bits[side]
          /\ index' \in [OrderIds -> Slots \cup {npos}]
          /\ nextFree' \in [Slots -> Slots \cup {npos}]
          /\ freeHead' \in Slots \cup {npos}
      BY <1>1, <1>2, <1>10, FillWholeKeeps
    <2>2. BookInv'
      BY <1>3, <1>7, <1>8, <2>1 DEF BookInv, BookTypeOK
    <2> QED
      BY <1>3, <1>4, <1>6, <2>1, <2>2
  <1> QED
    BY <1>9, <1>10

(* The activation whose sink returns makes the trade it has announced and   *)
(* runs on: nobody waits on the side it goes on trading on.                 *)
LEMMA SinkReturnsReentrant ==
  ASSUME ReentrantInv, SinkReturns
  PROVE  ReentrantInv'
  <1> USE DEF ReentrantInv
  <1> DEFINE top == stack[Len(stack)]
             i == top.resting
             opp == top.opp
             l == top.level
             quantity == top.quantity
             level == [ladder[opp][l] EXCEPT !.total_quantity =
                         (@ - quantity) % QtyModulus]
  <1>1. /\ Idle /\ stack # <<>>
        /\ frame' = [top.call EXCEPT !.remaining = @ - quantity]
        /\ IF node[i].quantity # quantity
           THEN FillPart(opp, l, i, quantity)
           ELSE FillWhole(opp, l, i, quantity)
        /\ stack' = SubSeq(stack, 1, Len(stack) - 1)
    BY DEF SinkReturns
  <1>2. /\ stack' \in Seq(Suspended) /\ top \in Waiting
        /\ Waiting' = Waiting \ {top}
        /\ \A j, k \in DOMAIN stack' : stack'[j].opp = stack'[k].opp => j = k
    BY <1>1, StackPopped DEF StackInv
  <1> HIDE DEF top
  <1>3. /\ top.call \in Frames /\ opp \in Sides /\ l \in Levels
        /\ i \in OnLevels /\ i \in Used
        /\ node[i].side = opp /\ price_to_index(node[i].price) = l
        /\ quantity = IF top.call.remaining < node[i].quantity
                      THEN top.call.remaining ELSE node[i].quantity
        /\ opp = opposite(top.call.side)
        /\ InHand(top.call) /\ top.call.slot \in Used /\ i # top.call.slot
    <2>1. /\ top.call \in Frames /\ opp \in Sides /\ l \in Levels
      BY <1>2, WaitingTypes
    <2>2. HeldTrade(top) /\ InHand(top.call)
      BY <1>2 DEF StackInv
    <2>3. i \in OnLevels /\ i \in Used /\ i # top.call.slot
      BY <1>2, <2>2, OnLevelsIs DEF HeldTrade
    <2> QED
      BY <2>1, <2>2, <2>3 DEF HeldTrade, InHand
  <1>4. FillPart(opp, l, i, quantity) \/ FillWhole(opp, l, i, quantity)
    BY <1>1
  <1>5. level.head = ladder[opp][l].head /\ level.tail = ladder[opp][l].tail
    BY <1>3 DEF BooksInv, BookInv, BookTypeOK, PriceLevel
  <1>6. FillWhole(opp, l, i, quantity) =>
          /\ TakenOff(opp, l, level, i, quantity) /\ Deallocate(i)
          /\ index' = [index EXCEPT ![node[i].id] = npos]
    BY DEF FillWhole, TakenOff
  <1> HIDE DEF i, opp, l, quantity, level
  <1>7. /\ BookInv' /\ \A side \in Sides : bits'[side] \subseteq bits[side]
        /\ frame' \in Frames /\ ~Idle'
        /\ frame'.slot = top.call.slot /\ frame'.id = top.call.id
        /\ frame'.side = top.call.side /\ frame'.price = top.call.price
        /\ \A j \in Slots : /\ node'[j].id = node[j].id
                            /\ node'[j].side = node[j].side
                            /\ node'[j].price = node[j].price
        /\ \A j \in Slots \ {i} : node'[j] = node[j]
    BY <1>1, <1>3, <1>4, ReturnKeeps DEF BooksInv
  <1>8. Uncrossed'
    BY <1>7, FewerBits DEF BooksInv
  <1>9. Used' \subseteq Used
    BY <1>3, <1>4, UsedDeallocated
       DEF BooksInv, FillPart, FillWhole, Used, poolVars
  <1>10. OnLevels' = OnLevels \cap Used'
    BY <1>1, <1>2, <1>7, <1>9, OnLevelsIs
  <1>11. /\ PoolInv' /\ UsedValid' /\ IndexExact'
         /\ LinesInv' /\ SameCalls /\ OtherTrades(i)
    <2>1. CASE node[i].quantity # quantity
      <3>1. quantity \in Int /\ quantity < node[i].quantity
        <4>1. top.call.remaining \in Int /\ node[i].quantity \in Int
          BY <1>3, UsedPlaced, InputAssumption
             DEF BooksInv, Orders, Frames, Quantities
        <4> QED
          BY <1>3, <2>1, <4>1
      <3> QED
        BY <1>1, <1>3, <1>7, <1>10, <2>1, <3>1, PartLeaves DEF i, opp, l, quantity
    <2>2. CASE node[i].quantity = quantity
      <3>1. FillWhole(opp, l, i, quantity)
        BY <1>1, <2>2 DEF i, opp, l, quantity
      <3> QED
        BY <1>3, <1>5, <1>6, <1>7, <1>10, <3>1, OneLeaves
    <2> QED
      BY <2>1, <2>2
  <1>12. ASSUME NEW s \in Waiting \ {top}
         PROVE  s.opp # opp /\ s.resting # i
    <2>1. s.opp # opp
      BY <1>2, WaitingApart DEF opp
    <2>2. node[s.resting].side = s.opp
      BY DEF StackInv, HeldTrade
    <2> QED
      BY <1>3, <2>1, <2>2
  <1>13. ASSUME NEW s \in Waiting
         PROVE  InHand(s.call)'
    BY <1>11 DEF SameCalls, StackInv, InHand
  <1>14. ASSUME NEW s \in Waiting \ {top}
         PROVE  HeldTrade(s)'
    BY <1>11, <1>12 DEF OtherTrades, StackInv, HeldTrade
  <1>15. StackInv'
    BY <1>2, <1>13, <1>14 DEF StackInv
  <1>16. RunningInv'
    <2>1. InHand(frame)'
      BY <1>2, <1>7, <1>13 DEF InHand
    <2>2. \A s \in Waiting' : s.call.slot # frame'.slot
      BY <1>2, <1>7 DEF StackInv
    <2>3. \A s \in Waiting' : s.opp # opposite(frame'.side)
      BY <1>2, <1>3, <1>7, <1>12
    <2> QED
      BY <2>1, <2>2, <2>3 DEF RunningInv
  <1> QED
    BY <1>7, <1>8, <1>11, <1>15, <1>16 DEF BooksInv

-----------------------------------------------------------------------------

LEMMA ReentrantStep ==
  ASSUME ReentrantInv, [ReentrantNext]_reentrantVars
  PROVE  ReentrantInv'
  <1>1. ASSUME NEW order \in Orders, SubmitCalled(order)
        PROVE  ReentrantInv'
    <2>1. CASE SubmitRefused(order)
      BY <1>1, <2>1, NothingChanges DEF SubmitCalled, SubmitRefused
    <2>2. CASE SubmitDuplicate(order)
      BY <1>1, <2>2, DuplicateReentrant DEF SubmitCalled
    <2>3. CASE SinkMaySubmit(order) /\ SubmitAccepted(order)
      BY <1>1, <2>3, AcceptedReentrant DEF SubmitCalled
    <2> QED
      BY <1>1, <2>1, <2>2, <2>3 DEF SubmitCalled
  <1>2. CASE CallSink
    BY <1>2, CallSinkReentrant
  <1>3. CASE MatchReturns
    BY <1>3, RestsReentrant, FilledReentrant DEF MatchReturns
  <1>4. CASE SinkReturns
    BY <1>4, SinkReturnsReentrant
  <1>5. ASSUME NEW id \in OrderIds, CancelCalled(id)
        PROVE  ReentrantInv'
    <2>1. CASE CancelMissed(id)
      BY <1>5, <2>1, NothingChanges DEF CancelCalled, CancelMissed
    <2>2. CASE SinkMayCancel(id) /\ Cancelled(id)
      BY <1>5, <2>2, CancelledReentrant DEF CancelCalled
    <2> QED
      BY <1>5, <2>1, <2>2 DEF CancelCalled
  <1>6. CASE ClearCalled
    BY <1>6, ClearReentrant DEF ClearCalled
  <1>7. CASE UNCHANGED reentrantVars
    BY <1>7, NothingChanges DEF reentrantVars, vars, bookVars
  <1> QED
    BY <1>1, <1>2, <1>3, <1>4, <1>5, <1>6, <1>7 DEF ReentrantNext

(* A sink that keeps to its obligations leaves the steps of ReentrantNext.  *)
LEMMA SinkKeepsSteps ==
  ASSUME [AnySinkNext]_reentrantVars, [SinkKeeps]_reentrantVars
  PROVE  [ReentrantNext]_reentrantVars
  <1>1. ASSUME AnySinkNext, SinkKeeps
        PROVE  ReentrantNext
    <2>1. ASSUME NEW order \in Orders, UNCHANGED stack,
                 \/ SubmitRefused(order) \/ SubmitDuplicate(order)
                 \/ SubmitAccepted(order)
          PROVE  SubmitCalled(order)
      <3>1. SubmitAccepted(order) => SinkMaySubmit(order)
        BY <1>1 DEF SinkKeeps
      <3> QED
        BY <2>1, <3>1 DEF SubmitCalled
    <2>2. ASSUME NEW id \in OrderIds, UNCHANGED stack,
                 CancelMissed(id) \/ Cancelled(id)
          PROVE  CancelCalled(id)
      <3>1. Cancelled(id) => SinkMayCancel(id)
        BY <1>1 DEF SinkKeeps
      <3> QED
        BY <2>2, <3>1 DEF CancelCalled
    <2>3. Clear /\ UNCHANGED stack => ClearCalled
      BY <1>1 DEF SinkKeeps, ClearCalled
    <2> QED
      BY <1>1, <2>1, <2>2, <2>3 DEF AnySinkNext, ReentrantNext
  <1> QED
    BY <1>1

(* What an activation holds, from the invariant.                            *)
LEMMA InvHeldIntact == ReentrantInv => HeldIntact
  <1> SUFFICES ASSUME ReentrantInv
               PROVE  HeldIntact
    OBVIOUS
  <1> USE DEF ReentrantInv
  <1>1. ASSUME NEW s \in Waiting
        PROVE  /\ s.resting \in OnLevels
               /\ ladder[s.opp][s.level].head = s.resting
               /\ index[node[s.resting].id] = s.resting
               /\ s.quantity > 0 /\ s.quantity <= s.call.remaining
               /\ s.quantity <= node[s.resting].quantity
               /\ s.call.slot \in Used
               /\ index[s.call.id] = s.call.slot
    <2>1. HeldTrade(s) /\ InHand(s.call)
      BY DEF StackInv
    <2>2. s.resting \in Used /\ s.call.slot \in Used
      BY <2>1, OnLevelsUsed DEF HeldTrade, InHand
    <2>3. index[node[s.resting].id] = s.resting /\ index[s.call.id] = s.call.slot
      BY <2>1, <2>2 DEF InHand, BooksInv, IndexExact
    <2>4. s.call.remaining \in Int /\ node[s.resting].quantity \in Int
      BY <2>2, UsedPlaced, WaitingTypes, InputAssumption
         DEF BooksInv, Orders, Frames, Quantities
    <2> QED
      BY <2>1, <2>2, <2>3, <2>4 DEF HeldTrade
  <1>2. \A k \in DOMAIN stack : stack[k] \in Waiting
    BY DEF Waiting
  <1> QED
    BY <1>1, <1>2 DEF HeldIntact, StackInv

(* The inductive invariant of the book under a sink that calls back, for a  *)
(* sink that keeps to SinkKeeps.  The code admits any sink: without that    *)
(* assumption nothing of this is promised.  ReentrantSpec, which the model  *)
(* checker runs, has the obligations in its guards; its fairness plays no   *)
(* part.                                                                    *)
THEOREM ReentrantInvariant ==
  /\ AnySinkSpec /\ [][SinkKeeps]_reentrantVars => []ReentrantInv
  /\ ReentrantSpec => []ReentrantInv
  <1>1. ReentrantInv /\ [AnySinkNext]_reentrantVars /\ [SinkKeeps]_reentrantVars
        => ReentrantInv'
    BY SinkKeepsSteps, ReentrantStep
  <1>2. ReentrantInv /\ [ReentrantNext]_reentrantVars => ReentrantInv'
    BY ReentrantStep
  <1> QED
    BY <1>1, <1>2, InitReentrant, PTL DEF AnySinkSpec, ReentrantSpec

(* A suspended match() finds the level, the node and the quantity it read   *)
(* before the call (HeldIntact, side.hpp:117-141) when its sink returns,    *)
(* provided that the sink cancelled no order of a trade under way,          *)
(* submitted none that trades on a side where a trade is under way, and did *)
(* not clear the book (SinkKeeps).  The code enforces none of the three.    *)
THEOREM ReentrantHeldIntact ==
  /\ AnySinkSpec /\ [][SinkKeeps]_reentrantVars => []HeldIntact
  /\ ReentrantSpec => []HeldIntact
  BY ReentrantInvariant, InvHeldIntact, PTL

(* Two of the three cannot be spared: from any state of the invariant, a    *)
(* cancel of an order of a trade under way, and a clear() with a trade      *)
(* under way, break what a suspended match() goes on with; any other cancel *)
(* leaves it alone (side.hpp:158-178 and 188-193).                          *)
THEOREM SinkObligationsNeeded ==
  ASSUME ReentrantInv, stack' = stack
  PROVE  /\ \A id \in OrderIds :
              Cancelled(id) => (HeldIntact' <=> SinkMayCancel(id))
         /\ Clear => (HeldIntact' <=> stack = <<>>)
  <1>1. (ReentrantInv => HeldIntact)'
    BY InvHeldIntact, PTL
  <1>2. HeldIntact' => \A s \in Waiting : s.resting \in Used' /\ s.call.slot \in Used'
    BY OnLevelsIs DEF HeldIntact, Waiting
  <1>3. ASSUME NEW id \in OrderIds, Cancelled(id), HeldIntact'
        PROVE  SinkMayCancel(id)
    <2>1. index[id] \in Used /\ Deallocate(index[id])
      BY <1>3 DEF Cancelled, ReentrantInv, BooksInv, IndexExact
    <2>2. index[id] \notin Used'
      BY <2>1, UsedDeallocated DEF ReentrantInv, BooksInv
    <2> QED
      BY <1>2, <1>3, <2>2 DEF SinkMayCancel, HeldNodes, Waiting
  <1>4. ASSUME Clear, HeldIntact'
        PROVE  stack = <<>>
    <2>1. Used' = {}
      BY <1>4 DEF Clear, PoolClear, Used
    <2>2. DOMAIN stack = {}
      BY <1>2, <1>4, <2>1 DEF Waiting
    <2> QED
      BY <2>2, EmptySeq DEF ReentrantInv, StackInv
  <1>5. ASSUME NEW id \in OrderIds, Cancelled(id), SinkMayCancel(id)
        PROVE  HeldIntact'
    BY <1>1, <1>5, CancelledReentrant
  <1>6. ASSUME Clear, stack = <<>>
        PROVE  HeldIntact'
    BY <1>1, <1>6, ClearReentrant
  <1> QED
    BY <1>3, <1>4, <1>5, <1>6

(* Lists, bitmaps and index agree with the orders that are not being        *)
(* matched, under a sink that keeps to SinkKeeps (ReentrantConsistent).     *)
THEOREM ReentrantAgrees ==
  /\ AnySinkSpec /\ [][SinkKeeps]_reentrantVars => []ReentrantConsistent
  /\ ReentrantSpec => []ReentrantConsistent
  <1>1. ReentrantInv => ReentrantConsistent
    BY DEF ReentrantInv, LinesInv, BooksInv, ReentrantConsistent
  <1> QED
    BY <1>1, ReentrantInvariant, PTL

(* The book is not crossed while a sink that keeps to SinkKeeps has it at   *)
(* hand, nor ever after.                                                    *)
THEOREM ReentrantNotCrossed ==
  /\ AnySinkSpec /\ [][SinkKeeps]_reentrantVars => []NotCrossed
  /\ ReentrantSpec => []NotCrossed
  <1>1. ReentrantInv => NotCrossed
    BY ApartNotCrossed DEF ReentrantInv, BooksInv, BookInv
  <1> QED
    BY <1>1, ReentrantInvariant, PTL

=============================================================================
