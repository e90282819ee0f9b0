-------------------------- MODULE OrderBookProofs --------------------------
(***************************************************************************)
(* Proofs about OrderBook and the parts it is made of, for every capacity, *)
(* price range, set of ids and largest quantity.                           *)
(*                                                                         *)
(* First the lists that run through the nodes.  The pool (OrderPool): the  *)
(* inductive invariant is the type of the variables together with the free *)
(* list, a sequence without repetition that lists the free nodes.  The     *)
(* type alone is not inductive, since only the list says that allocate()   *)
(* finds a positive free_count_ and that deallocate() finds one below      *)
(* MaxOrders.  The levels (PriceLadder): a queue is given by the sequence  *)
(* q of its nodes (IsQueue).  append_to_level puts a node behind its last  *)
(* one, unlink_from_level takes any node out of it, and neither touches    *)
(* the links of a queue it has no node of.                                 *)
(*                                                                         *)
(* Then the book: the variables keep their types, and the book is never    *)
(* crossed.  The types hold as a whole only: that a level index is a level *)
(* needs the bits, that a quantity stays a quantity needs the node of the  *)
(* running submit to carry an order.                                       *)
(*                                                                         *)
(* Last, the parts of the book agree.  The lists of the levels, the        *)
(* bitmap, the index and the pool all know the same resting orders,        *)
(* between any two trades.  Each of these facts needs the others: a fill   *)
(* takes the head of a level for a resting order because the lists are     *)
(* exact, gives its node back because it is active, erases the id of that  *)
(* node because the index is exact.  So they are one inductive invariant.  *)
(***************************************************************************)
EXTENDS OrderBook, FiniteSetTheorems, TLAPS

-----------------------------------------------------------------------------
(* The pool                                                                 *)

(* The inductive invariant of the pool.                                     *)
PoolInv == PoolTypeOK /\ FreeListExact

-----------------------------------------------------------------------------

LEMMA SlotsFinite == IsFiniteSet(Slots) /\ Cardinality(Slots) = MaxOrders
  <1>1. MaxOrders \in Nat \ {0}
    BY MaxOrdersAssumption
  <1>2. 0 \in Int /\ MaxOrders - 1 \in Int /\ ~(0 > MaxOrders - 1)
    BY <1>1
  <1>3. /\ IsFiniteSet(0 .. MaxOrders - 1)
        /\ Cardinality(0 .. MaxOrders - 1) = (MaxOrders - 1) - 0 + 1
    BY <1>2, FS_Interval
  <1> QED
    BY <1>1, <1>3 DEF Slots

(* free_count_ is the number of free nodes.                                 *)
LEMMA FreeCounted ==
  ASSUME PoolInv
  PROVE  IsFiniteSet(Free) /\ Cardinality(Free) = freeCount
  <1>1. freeCount \in Nat
    BY MaxOrdersAssumption DEF PoolInv, PoolTypeOK
  <1>2. PICK s \in [1 .. freeCount -> Slots] :
          Threads(s, freeCount, freeHead, nextFree) /\ Free = Listed(s, freeCount)
    BY DEF PoolInv, FreeListExact
  <1>3. s \in [1 .. freeCount -> Free]
    BY <1>2 DEF Listed
  <1>4. s \in Bijection(1 .. freeCount, Free)
    BY <1>2, <1>3 DEF Listed, Threads, Bijection, Injection, Surjection, IsInjective
  <1>5. ExistsBijection(1 .. freeCount, Free)
    BY <1>4 DEF ExistsBijection
  <1>6. IsFiniteSet(1 .. freeCount) /\ Cardinality(1 .. freeCount) = freeCount
    BY <1>1, FS_Interval
  <1> QED
    BY <1>5, <1>6, FS_Bijection

(* Every node is free or active.                                            *)
LEMMA FreeOrUsed ==
  ASSUME PoolTypeOK
  PROVE  Used = Slots \ Free
  BY DEF PoolTypeOK, Used, Free

-----------------------------------------------------------------------------

LEMMA FreshListType == FreshList \in [Slots -> Slots \cup {npos}]
  <1>1. MaxOrders \in Nat \ {0}
    BY MaxOrdersAssumption
  <1>2. \A i \in Slots : i + 1 < MaxOrders => i + 1 \in Slots
    BY <1>1 DEF Slots
  <1> QED
    BY <1>2 DEF FreshList

(* The list the constructor and clear() build holds every node.             *)
LEMMA FreshPool ==
  ASSUME nextFree = FreshList, state = [i \in Slots |-> 0],
         freeHead = 0, freeCount = MaxOrders
  PROVE  PoolInv
  <1>1. MaxOrders \in Nat \ {0}
    BY MaxOrdersAssumption
  <1>2. PoolTypeOK
    BY <1>1, FreshListType DEF PoolTypeOK, Slots
  <1> DEFINE s == [i \in 1 .. MaxOrders |-> i - 1]
  <1>3. s \in [1 .. freeCount -> Slots]
    BY <1>1 DEF Slots
  <1>4. Threads(s, freeCount, freeHead, nextFree)
    <2>1. \A i, j \in 1 .. freeCount : s[i] = s[j] => i = j
      BY <1>1
    <2>2. freeHead = IF freeCount = 0 THEN npos ELSE s[1]
      BY <1>1
    <2>3. ASSUME NEW i \in 1 .. freeCount
          PROVE  nextFree[s[i]] = IF i = freeCount THEN npos ELSE s[i + 1]
      <3>1. i - 1 \in Slots /\ s[i] = i - 1 /\ i \in Int
        BY <1>1 DEF Slots
      <3>2. nextFree[i - 1] = IF (i - 1) + 1 < MaxOrders
                              THEN (i - 1) + 1 ELSE npos
        BY <3>1 DEF FreshList
      <3>3. i /= freeCount => s[i + 1] = i
        BY <1>1
      <3> QED
        BY <1>1, <3>1, <3>2, <3>3
    <2> QED
      BY <2>1, <2>2, <2>3 DEF Threads
  <1>5. Free = Listed(s, freeCount)
    <2>1. Free = Slots
      BY DEF Free
    <2>2. \A x \in Slots : x + 1 \in 1 .. freeCount /\ s[x + 1] = x
      BY <1>1 DEF Slots
    <2> QED
      BY <1>3, <2>1, <2>2 DEF Listed
  <1> QED
    BY <1>2, <1>3, <1>4, <1>5 DEF PoolInv, FreeListExact

-----------------------------------------------------------------------------

(* A list without its first node, and one with x put in front of it.         *)
Popped(s, n) == [i \in 1 .. n - 1 |-> s[i + 1]]
Pushed(x, s, n) == [i \in 1 .. n + 1 |-> IF i = 1 THEN x ELSE s[i - 1]]

(* Two link fields that agree on every node but x.                           *)
AgreeBut(x, links, newLinks) ==
  \A y \in Slots : y /= x => newLinks[y] = links[y]

(* Taking the first node off a threaded list.                               *)
LEMMA PopThread ==
  ASSUME NEW n \in Nat, n /= 0, NEW head, NEW links, NEW newLinks,
         NEW s \in [1 .. n -> Slots], Threads(s, n, head, links),
         AgreeBut(head, links, newLinks)
  PROVE  /\ head \in Slots
         /\ Popped(s, n) \in [1 .. n - 1 -> Slots]
         /\ Threads(Popped(s, n), n - 1, links[head], newLinks)
         /\ Listed(Popped(s, n), n - 1) = Listed(s, n) \ {head}
  <1> DEFINE t == Popped(s, n)
  <1>1. head = s[1] /\ 1 \in 1 .. n
    BY DEF Threads
  <1>2. \A i \in 1 .. n - 1 : i + 1 \in 1 .. n /\ i + 1 /= 1 /\ t[i] = s[i + 1]
    BY DEF Popped
  <1>3. \A i \in 1 .. n - 1 : t[i] /= head
    BY <1>1, <1>2 DEF Threads
  <1>4. t \in [1 .. n - 1 -> Slots]
    BY <1>2 DEF Popped
  <1> HIDE DEF t
  <1>5. ASSUME NEW i \in 1 .. n - 1, NEW j \in 1 .. n - 1, t[i] = t[j]
        PROVE  i = j
    <2>1. i + 1 = j + 1
      BY <1>2, <1>5 DEF Threads
    <2> QED
      BY <2>1
  <1>6. links[head] = IF n - 1 = 0 THEN npos ELSE t[1]
    <2>1. links[s[1]] = IF 1 = n THEN npos ELSE s[1 + 1]
      BY <1>1 DEF Threads
    <2>2. n /= 1 => 1 \in 1 .. n - 1
      OBVIOUS
    <2> QED
      BY <1>1, <1>2, <2>1, <2>2
  <1>7. ASSUME NEW i \in 1 .. n - 1
        PROVE  newLinks[t[i]] = IF i = n - 1 THEN npos ELSE t[i + 1]
    <2>1. newLinks[t[i]] = links[s[i + 1]]
      BY <1>2, <1>3 DEF AgreeBut
    <2>2. links[s[i + 1]] = IF i + 1 = n THEN npos ELSE s[(i + 1) + 1]
      BY <1>2 DEF Threads
    <2>3. i /= n - 1 => i + 1 \in 1 .. n - 1
      OBVIOUS
    <2> QED
      BY <1>2, <2>1, <2>2, <2>3
  <1>8. Listed(t, n - 1) = Listed(s, n) \ {head}
    <2>1. \A k \in 1 .. n : k = 1 \/ (k - 1 \in 1 .. n - 1 /\ (k - 1) + 1 = k)
      OBVIOUS
    <2>2. \A k \in 1 .. n : s[k] /= head =>
            k - 1 \in 1 .. n - 1 /\ t[k - 1] = s[k]
      BY <1>1, <1>2, <2>1
    <2> QED
      BY <1>2, <1>3, <2>2 DEF Listed
  <1>9. Threads(t, n - 1, links[head], newLinks)
    BY <1>5, <1>6, <1>7 DEF Threads
  <1> QED
    BY <1>1, <1>4, <1>8, <1>9 DEF t

(* Putting a node that is not in a threaded list in front of it.            *)
LEMMA PushThread ==
  ASSUME NEW n \in Nat, NEW head, NEW links, NEW newLinks,
         NEW s \in [1 .. n -> Slots], Threads(s, n, head, links),
         NEW x \in Slots, x \notin Listed(s, n),
         newLinks[x] = head, AgreeBut(x, links, newLinks)
  PROVE  /\ Pushed(x, s, n) \in [1 .. n + 1 -> Slots]
         /\ Threads(Pushed(x, s, n), n + 1, x, newLinks)
         /\ Listed(Pushed(x, s, n), n + 1) = Listed(s, n) \cup {x}
  <1> DEFINE t == Pushed(x, s, n)
  <1>1. \A i \in 1 .. n + 1 : i = 1 \/ i - 1 \in 1 .. n
    OBVIOUS
  <1>2. 1 \in 1 .. n + 1 /\ t[1] = x
    BY DEF Pushed
  <1>3. \A i \in 1 .. n + 1 : i /= 1 => t[i] = s[i - 1]
    BY DEF Pushed
  <1>4. t \in [1 .. n + 1 -> Slots]
    BY <1>1 DEF Pushed
  <1>5. \A k \in 1 .. n : s[k] /= x /\ s[k] \in Slots
    BY DEF Listed
  <1> HIDE DEF t
  <1>6. ASSUME NEW i \in 1 .. n + 1, NEW j \in 1 .. n + 1, t[i] = t[j]
        PROVE  i = j
    <2>1. CASE i = 1 \/ j = 1
      BY <1>1, <1>2, <1>3, <1>5, <1>6, <2>1
    <2>2. CASE i /= 1 /\ j /= 1
      <3>1. i - 1 = j - 1
        BY <1>1, <1>3, <1>6, <2>2 DEF Threads
      <3> QED
        BY <3>1
    <2> QED
      BY <2>1, <2>2
  <1>7. ASSUME NEW i \in 1 .. n + 1
        PROVE  newLinks[t[i]] = IF i = n + 1 THEN npos ELSE t[i + 1]
    <2>1. CASE i = 1
      <3>1. newLinks[t[i]] = head
        BY <1>2, <2>1
      <3>2. head = IF n = 0 THEN npos ELSE s[1]
        BY DEF Threads
      <3>3. n /= 0 => 2 \in 1 .. n + 1 /\ t[2] = s[1]
        BY <1>3
      <3> QED
        BY <2>1, <3>1, <3>2, <3>3
    <2>2. CASE i /= 1
      <3>1. i - 1 \in 1 .. n /\ t[i] = s[i - 1]
        BY <1>1, <1>3, <2>2
      <3>2. newLinks[t[i]] = links[s[i - 1]]
        BY <1>5, <3>1 DEF AgreeBut
      <3>3. links[s[i - 1]] = IF i - 1 = n THEN npos ELSE s[(i - 1) + 1]
        BY <3>1 DEF Threads
      <3>4. i /= n + 1 => i + 1 \in 1 .. n + 1 /\ t[i + 1] = s[(i - 1) + 1]
        BY <1>3, <2>2
      <3> QED
        BY <3>1, <3>2, <3>3, <3>4
    <2> QED
      BY <2>1, <2>2
  <1>8. Listed(t, n + 1) = Listed(s, n) \cup {x}
    <2>1. \A k \in 1 .. n : k + 1 \in 1 .. n + 1 /\ t[k + 1] = s[k]
      BY <1>3
    <2>2. Listed(t, n + 1) \subseteq Listed(s, n) \cup {x}
      BY <1>1, <1>2, <1>3 DEF Listed
    <2>3. Listed(s, n) \cup {x} \subseteq Listed(t, n + 1)
      BY <1>2, <2>1 DEF Listed
    <2> QED
      BY <2>2, <2>3
  <1>9. Threads(t, n + 1, x, newLinks)
    BY <1>2, <1>6, <1>7 DEF Threads
  <1> QED
    BY <1>4, <1>8, <1>9 DEF t

-----------------------------------------------------------------------------

(* allocate() takes the first node of the free list.                        *)
LEMMA AllocateKeepsPool ==
  ASSUME PoolInv, Allocate
  PROVE  PoolInv'
  <1>1. PICK s \in [1 .. freeCount -> Slots] :
          Threads(s, freeCount, freeHead, nextFree) /\ Free = Listed(s, freeCount)
    BY DEF PoolInv, FreeListExact
  <1>2. freeCount \in 0 .. MaxOrders /\ MaxOrders \in Nat
    BY MaxOrdersAssumption DEF PoolInv, PoolTypeOK
  <1>3. freeCount \in Nat /\ freeCount /= 0
    BY <1>1, <1>2 DEF Allocate, full, Threads
  <1> DEFINE t == Popped(s, freeCount)
  <1>4. AgreeBut(freeHead, nextFree, nextFree')
    BY DEF AgreeBut, Allocate, PoolInv, PoolTypeOK
  <1>5. /\ freeHead \in Slots
        /\ t \in [1 .. freeCount - 1 -> Slots]
        /\ Threads(t, freeCount - 1, nextFree[freeHead], nextFree')
        /\ Listed(t, freeCount - 1) = Listed(s, freeCount) \ {freeHead}
    BY <1>1, <1>3, <1>4, PopThread
  <1>6. Free' = Free \ {freeHead}
    BY <1>5 DEF Free, Allocate, PoolInv, PoolTypeOK
  <1>7. PoolTypeOK'
    BY <1>2, <1>3, <1>5 DEF PoolInv, PoolTypeOK, Allocate
  <1>8. freeCount' = freeCount - 1 /\ freeHead' = nextFree[freeHead]
    BY DEF Allocate
  <1>9. FreeListExact'
    BY <1>1, <1>5, <1>6, <1>8 DEF FreeListExact
  <1> QED
    BY <1>7, <1>9 DEF PoolInv

(* deallocate() of an active node puts it in front of the free list.        *)
LEMMA DeallocateKeepsPool ==
  ASSUME PoolInv, NEW x \in Used, Deallocate(x)
  PROVE  PoolInv'
  <1>1. PICK s \in [1 .. freeCount -> Slots] :
          Threads(s, freeCount, freeHead, nextFree) /\ Free = Listed(s, freeCount)
    BY DEF PoolInv, FreeListExact
  <1>2. freeCount \in 0 .. MaxOrders /\ MaxOrders \in Nat /\ freeCount \in Nat
    BY MaxOrdersAssumption DEF PoolInv, PoolTypeOK
  <1>3. x \in Slots /\ x \notin Free /\ Free \subseteq Slots \ {x}
    BY DEF Used, Free
  <1>4. freeCount < MaxOrders
    <2>1. IsFiniteSet(Slots \ {x}) /\ Cardinality(Slots \ {x}) = MaxOrders - 1
      BY <1>3, SlotsFinite, FS_RemoveElement
    <2>2. Cardinality(Free) <= MaxOrders - 1
      BY <1>3, <2>1, FS_Subset
    <2> QED
      BY <1>2, <2>2, FreeCounted
  <1> DEFINE t == Pushed(x, s, freeCount)
  <1>5. nextFree'[x] = freeHead /\ AgreeBut(x, nextFree, nextFree')
    BY <1>3 DEF AgreeBut, Deallocate, PoolInv, PoolTypeOK
  <1>6. /\ t \in [1 .. freeCount + 1 -> Slots]
        /\ Threads(t, freeCount + 1, x, nextFree')
        /\ Listed(t, freeCount + 1) = Listed(s, freeCount) \cup {x}
    BY <1>1, <1>2, <1>3, <1>5, PushThread
  <1>7. Free' = Free \cup {x}
    BY <1>3 DEF Free, Deallocate, PoolInv, PoolTypeOK
  <1>8. PoolTypeOK'
    BY <1>2, <1>3, <1>4 DEF PoolInv, PoolTypeOK, Deallocate
  <1>9. freeCount' = freeCount + 1 /\ freeHead' = x
    BY DEF Deallocate
  <1>10. FreeListExact'
    BY <1>1, <1>6, <1>7, <1>9 DEF FreeListExact
  <1> QED
    BY <1>8, <1>10 DEF PoolInv

-----------------------------------------------------------------------------

(* The pool of the constructor, and of clear(), satisfies the invariant.    *)
LEMMA InitKeepsPool == PoolInit => PoolInv
  BY FreshPool DEF PoolInit

LEMMA ClearKeepsPool == PoolClear => PoolInv'
  <1>1. (PoolInit => PoolInv)'
    BY InitKeepsPool, PTL
  <1>2. PoolClear => PoolInit'
    BY DEF PoolClear, PoolInit, FreshList, Slots
  <1> QED
    BY <1>1, <1>2

(* The inductive invariant of the pool, under every client that keeps the   *)
(* contract of deallocate(): the types of the fields and the exact free list. *)
THEOREM PoolCorrect == PoolSpec => []PoolInv
  <1>1. PoolInit => PoolInv
    BY InitKeepsPool
  <1>2. ASSUME PoolInv, [PoolNext]_poolVars
        PROVE  PoolInv'
    <2>1. CASE Allocate
      BY <1>2, <2>1, AllocateKeepsPool
    <2>2. CASE \E i \in Used : Deallocate(i)
      BY <1>2, <2>2, DeallocateKeepsPool
    <2>3. CASE PoolClear
      BY <2>3, ClearKeepsPool
    <2>4. CASE UNCHANGED poolVars
      BY <1>2, <2>4 DEF poolVars, PoolInv, PoolTypeOK, FreeListExact, Free
    <2> QED
      BY <1>2, <2>1, <2>2, <2>3, <2>4 DEF PoolNext
  <1> QED
    BY <1>1, <1>2, PTL DEF PoolSpec

(* No leak and no double hand-out (FreeListExact), for a pool of any size:  *)
(* next_free from free_head_ meets each free node once and no active node.  *)
THEOREM PoolFreeListExact == PoolSpec => []FreeListExact
  <1>1. PoolInv => FreeListExact
    BY DEF PoolInv
  <1> QED
    BY <1>1, PoolCorrect, PTL

(* The fields of the pool stay in their ranges.                              *)
THEOREM PoolTypes == PoolSpec => []PoolTypeOK
  <1>1. PoolInv => PoolTypeOK
    BY DEF PoolInv
  <1> QED
    BY <1>1, PoolCorrect, PTL

(* What the counters say follows from the list.                             *)
LEMMA CountersFollow ==
  ASSUME PoolInv
  PROVE  CountersExact
  <1>1. PICK s \in [1 .. freeCount -> Slots] :
          Threads(s, freeCount, freeHead, nextFree) /\ Free = Listed(s, freeCount)
    BY DEF PoolInv, FreeListExact
  <1>2. freeCount \in Nat /\ MaxOrders \in Nat
    BY MaxOrdersAssumption DEF PoolInv, PoolTypeOK
  <1>3. full <=> freeCount = 0
    <2>1. freeHead = IF freeCount = 0 THEN npos ELSE s[1]
      BY <1>1 DEF Threads
    <2>2. freeCount /= 0 => s[1] \in Slots
      BY <1>1, <1>2
    <2>3. npos \notin Slots
      BY <1>2, NposAssumption DEF Slots
    <2> QED
      BY <2>1, <2>2, <2>3 DEF full
  <1>4. freeCount = 0 <=> Free = {}
    <2>1. freeCount = 0 => Free = {}
      BY <1>1 DEF Listed
    <2>2. freeCount /= 0 => s[1] \in Free
      BY <1>1, <1>2 DEF Listed
    <2> QED
      BY <2>1, <2>2
  <1>5. IsFiniteSet(Free) /\ Cardinality(Free) = freeCount
    BY FreeCounted
  <1>6. Cardinality(Slots \ Free) = Cardinality(Slots) - Cardinality(Slots \cap Free)
    BY <1>5, SlotsFinite, FS_Difference
  <1>7. Slots \cap Free = Free /\ Used = Slots \ Free
    BY FreeOrUsed DEF Free, PoolInv
  <1>8. usedCount = Cardinality(Used)
    BY <1>5, <1>6, <1>7, SlotsFinite DEF usedCount
  <1> QED
    BY <1>3, <1>4, <1>8 DEF CountersExact

(* full() and used_count() agree with the states of the nodes               *)
(* (CountersExact), for a pool of any size.                                 *)
THEOREM PoolCountersExact == PoolSpec => []CountersExact
  <1>1. PoolInv => CountersExact
    BY CountersFollow
  <1> QED
    BY <1>1, PoolCorrect, PTL

-----------------------------------------------------------------------------
(* The queues of the levels                                                 *)

(* A queue with node i behind its last node, and without its m-th node.     *)
Appended(q, n, i) == [k \in 1 .. n + 1 |-> IF k = n + 1 THEN i ELSE q[k]]
Dropped(q, n, m) == [k \in 1 .. n - 1 |-> IF k < m THEN q[k] ELSE q[k + 1]]

LEMMA NposIsNoSlot == npos \notin Slots
  BY MaxOrdersAssumption, NposAssumption DEF Slots

LEMMA AppendedNodes ==
  ASSUME NEW n \in Nat, NEW q \in [1 .. n -> Slots], NEW i \in Slots
  PROVE  /\ Appended(q, n, i) \in [1 .. n + 1 -> Slots]
         /\ Listed(Appended(q, n, i), n + 1) = Listed(q, n) \cup {i}
  <1> DEFINE a == Appended(q, n, i)
  <1>1. \A k \in 1 .. n + 1 : k = n + 1 \/ k \in 1 .. n
    OBVIOUS
  <1>2. \A k \in 1 .. n : k \in 1 .. n + 1 /\ k # n + 1 /\ a[k] = q[k]
    BY DEF Appended
  <1>3. n + 1 \in 1 .. n + 1 /\ a[n + 1] = i
    BY DEF Appended
  <1>4. a \in [1 .. n + 1 -> Slots]
    BY <1>1 DEF Appended
  <1> HIDE DEF a
  <1> QED
    BY <1>1, <1>2, <1>3, <1>4 DEF a, Listed

LEMMA DroppedNodes ==
  ASSUME NEW n \in Nat, NEW q \in [1 .. n -> Slots], NEW m \in 1 .. n,
         \A j, k \in 1 .. n : q[j] = q[k] => j = k
  PROVE  /\ Dropped(q, n, m) \in [1 .. n - 1 -> Listed(q, n) \ {q[m]}]
         /\ Listed(Dropped(q, n, m), n - 1) = Listed(q, n) \ {q[m]}
  <1> DEFINE d == Dropped(q, n, m)
  <1>1. \A k \in 1 .. n - 1 : k \in 1 .. n /\ k + 1 \in 1 .. n
    OBVIOUS
  <1>2. \A k \in 1 .. n - 1 : d[k] = IF k < m THEN q[k] ELSE q[k + 1]
    BY DEF Dropped
  <1>3. \A k \in 1 .. n - 1 : d[k] # q[m] /\ \E j \in 1 .. n : d[k] = q[j]
    <2> TAKE k \in 1 .. n - 1
    <2>1. CASE k < m
      <3>1. d[k] = q[k] /\ k # m
        BY <1>2, <2>1
      <3> QED
        BY <1>1, <3>1
    <2>2. CASE ~(k < m)
      <3>1. d[k] = q[k + 1] /\ k + 1 # m
        BY <1>2, <2>2
      <3> QED
        BY <1>1, <3>1
    <2> QED
      BY <2>1, <2>2
  <1>4. \A j \in 1 .. n : j # m => \E k \in 1 .. n - 1 : q[j] = d[k]
    <2> SUFFICES ASSUME NEW j \in 1 .. n, j # m
                 PROVE  \E k \in 1 .. n - 1 : q[j] = d[k]
      OBVIOUS
    <2>1. CASE j < m
      <3>1. j \in 1 .. n - 1 /\ d[j] = q[j]
        BY <1>2, <2>1
      <3> QED
        BY <3>1
    <2>2. CASE m < j
      <3>1. j - 1 \in 1 .. n - 1 /\ ~(j - 1 < m) /\ (j - 1) + 1 = j
        BY <2>2
      <3>2. d[j - 1] = q[j]
        BY <1>2, <3>1
      <3> QED
        BY <3>1, <3>2
    <2> QED
      BY <2>1, <2>2
  <1>5. d \in [1 .. n - 1 -> Listed(q, n) \ {q[m]}]
    <2>1. d = [k \in 1 .. n - 1 |-> d[k]]
      BY DEF Dropped
    <2>2. \A k \in 1 .. n - 1 : d[k] \in Listed(q, n) \ {q[m]}
      <3> HIDE DEF d
      <3> QED
        BY <1>3 DEF Listed
    <2> HIDE DEF d
    <2> QED
      BY <2>1, <2>2
  <1> HIDE DEF d
  <1>6. Listed(d, n - 1) \subseteq Listed(q, n) \ {q[m]}
    BY <1>3 DEF Listed
  <1>7. Listed(q, n) \ {q[m]} \subseteq Listed(d, n - 1)
    BY <1>4 DEF Listed
  <1> QED
    BY <1>5, <1>6, <1>7 DEF d

-----------------------------------------------------------------------------

(* A queue whose nodes keep their links, on a level that keeps its ends.    *)
LEMMA KeptQueue ==
  ASSUME NEW n \in Nat, NEW q, NEW level, NEW newLevel,
         NEW nexts, NEW prevs, NEW newNexts, NEW newPrevs,
         IsQueue(q, n, level, nexts, prevs),
         newLevel.head = level.head, newLevel.tail = level.tail,
         \A k \in 1 .. n : /\ newNexts[q[k]] = nexts[q[k]]
                          /\ newPrevs[q[k]] = prevs[q[k]]
  PROVE  IsQueue(q, n, newLevel, newNexts, newPrevs)
  BY DEF IsQueue

(* An order joins an empty level.                                           *)
LEMMA FirstQueued ==
  ASSUME NEW i \in Slots, NEW q, NEW level, NEW nexts, NEW prevs,
         nexts[i] = npos, prevs[i] = npos,
         level.head = i, level.tail = i
  PROVE  IsQueue(Appended(q, 0, i), 1, level, nexts, prevs)
  BY DEF IsQueue, Appended

(* An order joins a level behind the node at its tail.                      *)
LEMMA LastQueued ==
  ASSUME NEW n \in Nat \ {0}, NEW q \in [1 .. n -> Slots],
         NEW level, NEW newLevel,
         NEW nexts \in [Slots -> Slots \cup {npos}],
         NEW prevs \in [Slots -> Slots \cup {npos}],
         NEW newNexts, NEW newPrevs,
         IsQueue(q, n, level, nexts, prevs),
         NEW i \in Slots, \A k \in 1 .. n : q[k] # i,
         nexts[i] = npos, prevs[i] = npos,
         newLevel.head = level.head, newLevel.tail = i,
         newNexts = [nexts EXCEPT ![level.tail] = i],
         newPrevs = [prevs EXCEPT ![i] = level.tail]
  PROVE  IsQueue(Appended(q, n, i), n + 1, newLevel, newNexts, newPrevs)
  <1> DEFINE a == Appended(q, n, i)
  <1>1. n \in 1 .. n /\ 1 \in 1 .. n /\ n + 1 # 1 /\ n + 1 \in 1 .. n + 1
    OBVIOUS
  <1>2. level.tail = q[n] /\ level.head = q[1] /\ q[n] \in Slots /\ q[n] # i
    BY <1>1 DEF IsQueue
  <1>3. /\ a[n + 1] = i
        /\ \A k \in 1 .. n : k \in 1 .. n + 1 /\ a[k] = q[k] /\ q[k] \in Slots
        /\ \A k \in 1 .. n + 1 : k = n + 1 \/ k \in 1 .. n
    <2>1. a[n + 1] = i
      BY <1>1 DEF Appended
    <2>2. \A k \in 1 .. n : k \in 1 .. n + 1 /\ k # n + 1
      OBVIOUS
    <2>3. \A k \in 1 .. n : a[k] = q[k]
      BY <2>2 DEF Appended
    <2> QED
      BY <2>1, <2>2, <2>3
  <1>4. /\ newNexts[q[n]] = i /\ newNexts[i] = npos
        /\ newPrevs[i] = q[n]
        /\ \A k \in 1 .. n : newPrevs[q[k]] = prevs[q[k]]
        /\ \A k \in 1 .. n : k # n => newNexts[q[k]] = nexts[q[k]]
    BY <1>1, <1>2, <1>3 DEF IsQueue
  <1> HIDE DEF a
  <1>5. \A j, k \in 1 .. n + 1 : a[j] = a[k] => j = k
    BY <1>3 DEF IsQueue
  <1>6. newLevel.head = a[1] /\ newLevel.tail = a[n + 1]
    BY <1>1, <1>2, <1>3
  <1>7. ASSUME NEW k \in 1 .. n + 1
        PROVE  /\ newNexts[a[k]] = IF k = n + 1 THEN npos ELSE a[k + 1]
               /\ newPrevs[a[k]] = IF k = 1 THEN npos ELSE a[k - 1]
    <2>1. CASE k = n + 1
      BY <1>1, <1>3, <1>4, <2>1
    <2>2. CASE k = n
      BY <1>1, <1>3, <1>4, <2>2 DEF IsQueue
    <2>3. CASE k \in 1 .. n /\ k # n
      <3>1. k + 1 \in 1 .. n /\ (k # 1 => k - 1 \in 1 .. n)
        BY <2>3
      <3> QED
        BY <1>3, <1>4, <2>3, <3>1 DEF IsQueue
    <2> QED
      BY <1>3, <2>1, <2>2, <2>3
  <1> QED
    BY <1>5, <1>6, <1>7 DEF IsQueue, a

(* The m-th order leaves a level: its neighbours are linked to each other.  *)
LEMMA DroppedQueued ==
  ASSUME NEW n \in Nat, NEW q \in [1 .. n -> Slots], NEW m \in 1 .. n,
         NEW level, NEW newLevel,
         NEW nexts \in [Slots -> Slots \cup {npos}],
         NEW prevs \in [Slots -> Slots \cup {npos}],
         NEW newNexts, NEW newPrevs,
         IsQueue(q, n, level, nexts, prevs),
         newLevel.head = IF prevs[q[m]] = npos THEN nexts[q[m]] ELSE level.head,
         newLevel.tail = IF nexts[q[m]] = npos THEN prevs[q[m]] ELSE level.tail,
         newNexts = IF prevs[q[m]] = npos THEN nexts
                    ELSE [nexts EXCEPT ![prevs[q[m]]] = nexts[q[m]]],
         newPrevs = IF nexts[q[m]] = npos THEN prevs
                    ELSE [prevs EXCEPT ![nexts[q[m]]] = prevs[q[m]]]
  PROVE  IsQueue(Dropped(q, n, m), n - 1, newLevel, newNexts, newPrevs)
  <1> DEFINE d == Dropped(q, n, m)
  <1>1. /\ m # 1 => m - 1 \in 1 .. n
        /\ m # n => m + 1 \in 1 .. n
        /\ \A k \in 1 .. n : q[k] \in Slots /\ q[k] # npos
    BY NposIsNoSlot
  <1>2. /\ prevs[q[m]] = IF m = 1 THEN npos ELSE q[m - 1]
        /\ nexts[q[m]] = IF m = n THEN npos ELSE q[m + 1]
    BY DEF IsQueue
  <1>3. (prevs[q[m]] = npos <=> m = 1) /\ (nexts[q[m]] = npos <=> m = n)
    BY <1>1, <1>2
  <1>4. ASSUME NEW k \in 1 .. n
        PROVE  newNexts[q[k]] = IF k + 1 = m THEN nexts[q[m]] ELSE nexts[q[k]]
    <2>1. CASE m = 1
      BY <1>3, <2>1
    <2>2. CASE m # 1
      <3>1. newNexts = [nexts EXCEPT ![q[m - 1]] = nexts[q[m]]]
        BY <1>2, <1>3, <2>2
      <3>2. q[k] = q[m - 1] <=> k + 1 = m
        <4>1. q[k] = q[m - 1] => k = m - 1
          BY <1>1, <2>2 DEF IsQueue
        <4> QED
          BY <4>1
      <3> QED
        BY <1>1, <3>1, <3>2
    <2> QED
      BY <2>1, <2>2
  <1>5. ASSUME NEW k \in 1 .. n
        PROVE  newPrevs[q[k]] = IF k = m + 1 THEN prevs[q[m]] ELSE prevs[q[k]]
    <2>1. CASE m = n
      BY <1>3, <2>1
    <2>2. CASE m # n
      <3>1. newPrevs = [prevs EXCEPT ![q[m + 1]] = prevs[q[m]]]
        BY <1>2, <1>3, <2>2
      <3>2. q[k] = q[m + 1] <=> k = m + 1
        BY <1>1, <2>2 DEF IsQueue
      <3> QED
        BY <1>1, <3>1, <3>2
    <2> QED
      BY <2>1, <2>2
  <1>6. \A k \in 1 .. n - 1 : d[k] = IF k < m THEN q[k] ELSE q[k + 1]
    BY DEF Dropped
  <1>7. \A k \in 1 .. n - 1 : k \in 1 .. n /\ k + 1 \in 1 .. n
    OBVIOUS
  <1> HIDE DEF d
  <1>8. \A j, k \in 1 .. n - 1 : d[j] = d[k] => j = k
    <2> SUFFICES ASSUME NEW j \in 1 .. n - 1, NEW k \in 1 .. n - 1, d[j] = d[k]
                 PROVE  j = k
      OBVIOUS
    <2>1. CASE j < m /\ k < m
      BY <1>6, <1>7, <2>1 DEF IsQueue
    <2>2. CASE j < m /\ ~(k < m)
      <3>1. j = k + 1
        BY <1>6, <1>7, <2>2 DEF IsQueue
      <3> QED
        BY <2>2, <3>1
    <2>3. CASE ~(j < m) /\ k < m
      <3>1. j + 1 = k
        BY <1>6, <1>7, <2>3 DEF IsQueue
      <3> QED
        BY <2>3, <3>1
    <2>4. CASE ~(j < m) /\ ~(k < m)
      <3>1. j + 1 = k + 1
        BY <1>6, <1>7, <2>4 DEF IsQueue
      <3> QED
        BY <3>1
    <2> QED
      BY <2>1, <2>2, <2>3, <2>4
  <1>9. newLevel.head = IF n - 1 = 0 THEN npos ELSE d[1]
    <2>1. level.head = q[1]
      BY DEF IsQueue
    <2>2. CASE m = 1
      <3>1. newLevel.head = IF n = 1 THEN npos ELSE q[2]
        BY <1>2, <1>3, <2>2
      <3>2. n # 1 => 1 \in 1 .. n - 1 /\ d[1] = q[2]
        BY <1>6, <2>2
      <3> QED
        BY <3>1, <3>2
    <2>3. CASE m # 1
      <3>1. newLevel.head = q[1]
        BY <1>3, <2>1, <2>3
      <3>2. 1 \in 1 .. n - 1 /\ d[1] = q[1]
        BY <1>6, <2>3
      <3> QED
        BY <3>1, <3>2
    <2> QED
      BY <2>2, <2>3
  <1>10. newLevel.tail = IF n - 1 = 0 THEN npos ELSE d[n - 1]
    <2>1. level.tail = q[n]
      BY DEF IsQueue
    <2>2. CASE m = n
      <3>1. newLevel.tail = IF n = 1 THEN npos ELSE q[n - 1]
        BY <1>2, <1>3, <2>2
      <3>2. n # 1 => n - 1 \in 1 .. n - 1 /\ d[n - 1] = q[n - 1]
        BY <1>6, <2>2
      <3> QED
        BY <3>1, <3>2
    <2>3. CASE m # n
      <3>1. newLevel.tail = q[n]
        BY <1>3, <2>1, <2>3
      <3>2. n - 1 \in 1 .. n - 1 /\ ~(n - 1 < m) /\ (n - 1) + 1 = n
        BY <2>3
      <3>3. d[n - 1] = q[n]
        BY <1>6, <3>2
      <3> QED
        BY <3>1, <3>2, <3>3
    <2> QED
      BY <2>2, <2>3
  <1>11. ASSUME NEW k \in 1 .. n - 1
         PROVE  newNexts[d[k]] = IF k = n - 1 THEN npos ELSE d[k + 1]
    <2>1. CASE k + 1 < m
      <3>1. /\ d[k] = q[k] /\ d[k + 1] = q[k + 1] /\ k # n - 1 /\ k # n
            /\ k + 1 # m
        BY <1>6, <1>7, <2>1
      <3> QED
        BY <1>4, <1>7, <3>1 DEF IsQueue
    <2>2. CASE k + 1 = m
      <3>1. d[k] = q[k] /\ newNexts[d[k]] = nexts[q[m]]
        BY <1>4, <1>6, <1>7, <2>2
      <3>2. k # n - 1 => d[k + 1] = q[m + 1]
        BY <1>6, <2>2
      <3> QED
        BY <1>2, <2>2, <3>1, <3>2
    <2>3. CASE m < k + 1
      <3>1. d[k] = q[k + 1] /\ newNexts[d[k]] = nexts[q[k + 1]]
        BY <1>4, <1>6, <1>7, <2>3
      <3>2. nexts[q[k + 1]] = IF k + 1 = n THEN npos ELSE q[(k + 1) + 1]
        BY <1>7 DEF IsQueue
      <3>3. k # n - 1 => d[k + 1] = q[(k + 1) + 1]
        BY <1>6, <2>3
      <3> QED
        BY <3>1, <3>2, <3>3
    <2> QED
      BY <2>1, <2>2, <2>3
  <1>12. ASSUME NEW k \in 1 .. n - 1
         PROVE  newPrevs[d[k]] = IF k = 1 THEN npos ELSE d[k - 1]
    <2>1. CASE k < m
      <3>1. d[k] = q[k] /\ newPrevs[d[k]] = prevs[q[k]]
        BY <1>5, <1>6, <1>7, <2>1
      <3>2. prevs[q[k]] = IF k = 1 THEN npos ELSE q[k - 1]
        BY <1>7 DEF IsQueue
      <3>3. k # 1 => d[k - 1] = q[k - 1]
        BY <1>6, <2>1
      <3> QED
        BY <3>1, <3>2, <3>3
    <2>2. CASE k = m
      <3>1. d[k] = q[k + 1] /\ newPrevs[d[k]] = prevs[q[m]]
        BY <1>5, <1>6, <1>7, <2>2
      <3>2. k # 1 => d[k - 1] = q[m - 1]
        BY <1>6, <2>2
      <3> QED
        BY <1>2, <2>2, <3>1, <3>2
    <2>3. CASE m < k
      <3>1. d[k] = q[k + 1] /\ newPrevs[d[k]] = prevs[q[k + 1]]
        BY <1>5, <1>6, <1>7, <2>3
      <3>2. prevs[q[k + 1]] = q[(k + 1) - 1]
        BY <1>7 DEF IsQueue
      <3>3. k # 1 /\ d[k - 1] = q[(k - 1) + 1]
        BY <1>6, <2>3
      <3> QED
        BY <3>1, <3>2, <3>3
    <2> QED
      BY <2>1, <2>2, <2>3
  <1> QED
    BY <1>8, <1>9, <1>10, <1>11, <1>12 DEF IsQueue, d

-----------------------------------------------------------------------------

(* The ends of a list and the links of its nodes stay within it; a level is *)
(* empty exactly when it lists no node.                                     *)
LEMMA ListedLinks ==
  ASSUME NEW level, NEW S \in SUBSET Slots, NEW nexts, NEW prevs,
         Lists(level, S, nexts, prevs)
  PROVE  /\ level.head = npos <=> S = {}
         /\ S # {} => level.head \in S /\ level.tail \in S
         /\ \A i \in S : nexts[i] \in S \cup {npos} /\ prevs[i] \in S \cup {npos}
  <1>0. PICK n \in 0 .. MaxOrders : \E q \in [1 .. n -> S] :
          IsQueue(q, n, level, nexts, prevs) /\ S = Listed(q, n)
    BY DEF Lists
  <1>1. PICK q \in [1 .. n -> S] :
          IsQueue(q, n, level, nexts, prevs) /\ S = Listed(q, n)
    BY <1>0
  <1>2. n \in Nat
    BY MaxOrdersAssumption
  <1>3. \A k \in 1 .. n : (k # n => k + 1 \in 1 .. n) /\ (k # 1 => k - 1 \in 1 .. n)
    BY <1>2
  <1>4. \A k \in 1 .. n : nexts[q[k]] \in S \cup {npos}
                          /\ prevs[q[k]] \in S \cup {npos}
    BY <1>1, <1>3 DEF IsQueue
  <1>5. n # 0 => 1 \in 1 .. n /\ n \in 1 .. n
    BY <1>2
  <1>6. n # 0 => /\ S # {} /\ level.head \in S /\ level.tail \in S
                 /\ level.head # npos
    BY <1>1, <1>5, NposIsNoSlot DEF IsQueue
  <1>7. n = 0 => S = {} /\ level.head = npos
    BY <1>1 DEF IsQueue, Listed
  <1> QED
    BY <1>1, <1>4, <1>6, <1>7 DEF Listed

(* Only the head of a list has none before it.                              *)
LEMMA NoneBefore ==
  ASSUME NEW level, NEW S \in SUBSET Slots, NEW nexts, NEW prevs,
         Lists(level, S, nexts, prevs), NEW i \in S, prevs[i] = npos
  PROVE  i = level.head
  <1>0. PICK n \in 0 .. MaxOrders : \E q \in [1 .. n -> S] :
          IsQueue(q, n, level, nexts, prevs) /\ S = Listed(q, n)
    BY DEF Lists
  <1>1. PICK q \in [1 .. n -> S] :
          IsQueue(q, n, level, nexts, prevs) /\ S = Listed(q, n)
    BY <1>0
  <1>2. PICK k \in 1 .. n : q[k] = i
    BY <1>1 DEF Listed
  <1>3. n \in Nat /\ (k # 1 => k - 1 \in 1 .. n)
    BY MaxOrdersAssumption
  <1>4. k = 1
    BY <1>1, <1>2, <1>3, NposIsNoSlot DEF IsQueue
  <1> QED
    BY <1>1, <1>2, <1>4 DEF IsQueue

(* A level of which neither the ends nor the links of its nodes change.     *)
LEMMA KeptList ==
  ASSUME NEW level, NEW newLevel, NEW S, NEW nexts, NEW prevs,
         NEW newNexts, NEW newPrevs,
         Lists(level, S, nexts, prevs),
         newLevel.head = level.head, newLevel.tail = level.tail,
         \A i \in S : newNexts[i] = nexts[i] /\ newPrevs[i] = prevs[i]
  PROVE  Lists(newLevel, S, newNexts, newPrevs)
  <1>0. PICK n \in 0 .. MaxOrders : \E q \in [1 .. n -> S] :
          IsQueue(q, n, level, nexts, prevs) /\ S = Listed(q, n)
    BY DEF Lists
  <1>1. PICK q \in [1 .. n -> S] :
          IsQueue(q, n, level, nexts, prevs) /\ S = Listed(q, n)
    BY <1>0
  <1>2. n \in Nat
    BY MaxOrdersAssumption
  <1>3. IsQueue(q, n, newLevel, newNexts, newPrevs)
    BY <1>1, <1>2, KeptQueue
  <1> QED
    BY <1>1, <1>3 DEF Lists

(* The number of nodes bounds that of a list, with one more order too.      *)
LEMMA RoomForOne ==
  ASSUME NEW n \in Nat, NEW q \in [1 .. n -> Slots], NEW i \in Slots,
         \A j, k \in 1 .. n : q[j] = q[k] => j = k,
         \A k \in 1 .. n : q[k] # i
  PROVE  n + 1 \in 0 .. MaxOrders
  <1> DEFINE a == Appended(q, n, i)
  <1>1. a \in [1 .. n + 1 -> Slots]
    BY AppendedNodes
  <1>2. \A k \in 1 .. n + 1 : a[k] = IF k = n + 1 THEN i ELSE q[k]
    BY DEF Appended
  <1>3. \A k \in 1 .. n + 1 : k = n + 1 \/ k \in 1 .. n
    OBVIOUS
  <1> HIDE DEF a
  <1>4. \A j, k \in 1 .. n + 1 : a[j] = a[k] => j = k
    BY <1>2, <1>3
  <1>5. MaxOrders \in Nat \ {0}
    BY MaxOrdersAssumption
  <1>6. IsFiniteSet(1 .. n + 1) /\ Cardinality(1 .. n + 1) = n + 1
    <2>1. 1 \in Int /\ n + 1 \in Int /\ ~(1 > n + 1) /\ (n + 1) - 1 + 1 = n + 1
      OBVIOUS
    <2> QED
      BY <2>1, FS_Interval
  <1>7. IsFiniteSet(Slots) /\ Cardinality(Slots) = MaxOrders
    <2>1. /\ 0 \in Int /\ MaxOrders - 1 \in Int /\ ~(0 > MaxOrders - 1)
          /\ (MaxOrders - 1) - 0 + 1 = MaxOrders
      BY <1>5
    <2> QED
      BY <2>1, FS_Interval DEF Slots
  <1>8. ~(Cardinality(1 .. n + 1) > Cardinality(Slots))
    BY <1>1, <1>4, <1>6, <1>7, FS_PigeonHole
  <1> QED
    BY <1>5, <1>6, <1>7, <1>8

(* append_to_level: the nodes of the level and, behind them, the new one.   *)
LEMMA AppendedList ==
  ASSUME NEW level, NEW newLevel, NEW S \in SUBSET Slots,
         NEW nexts \in [Slots -> Slots \cup {npos}],
         NEW prevs \in [Slots -> Slots \cup {npos}],
         NEW newNexts, NEW newPrevs,
         Lists(level, S, nexts, prevs),
         NEW i \in Slots \ S, nexts[i] = npos, prevs[i] = npos,
         newLevel.tail = i,
         IF level.head = npos
         THEN newLevel.head = i /\ newNexts = nexts /\ newPrevs = prevs
         ELSE /\ newLevel.head = level.head
              /\ newNexts = [nexts EXCEPT ![level.tail] = i]
              /\ newPrevs = [prevs EXCEPT ![i] = level.tail]
  PROVE  Lists(newLevel, S \cup {i}, newNexts, newPrevs)
  <1>0. PICK n \in 0 .. MaxOrders : \E q \in [1 .. n -> S] :
          IsQueue(q, n, level, nexts, prevs) /\ S = Listed(q, n)
    BY DEF Lists
  <1>1. PICK q \in [1 .. n -> S] :
          IsQueue(q, n, level, nexts, prevs) /\ S = Listed(q, n)
    BY <1>0
  <1>2. n \in Nat /\ q \in [1 .. n -> Slots] /\ \A k \in 1 .. n : q[k] # i
    BY <1>1, MaxOrdersAssumption
  <1> DEFINE a == Appended(q, n, i)
  <1>3. a \in [1 .. n + 1 -> Slots] /\ Listed(a, n + 1) = S \cup {i}
    <2>1. /\ a \in [1 .. n + 1 -> Slots]
          /\ Listed(a, n + 1) = Listed(q, n) \cup {i}
      BY <1>2, AppendedNodes
    <2> HIDE DEF a
    <2> QED
      BY <1>1, <2>1
  <1>4. n + 1 \in 0 .. MaxOrders
    BY <1>1, <1>2, RoomForOne DEF IsQueue
  <1>5. level.head = npos <=> n = 0
    <2>1. n # 0 => 1 \in 1 .. n
      BY <1>2
    <2> QED
      BY <1>1, <1>2, <2>1, NposIsNoSlot DEF IsQueue
  <1>6. IsQueue(a, n + 1, newLevel, newNexts, newPrevs)
    <2>1. CASE n = 0
      BY <1>5, <2>1, FirstQueued
    <2>2. CASE n # 0
      BY <1>1, <1>2, <1>5, <2>2, LastQueued
    <2> QED
      BY <2>1, <2>2
  <1> HIDE DEF a
  <1>7. \A k \in 1 .. n + 1 : a[k] \in S \cup {i}
    BY <1>3 DEF Listed
  <1>8. a \in [1 .. n + 1 -> S \cup {i}]
    BY <1>3, <1>7
  <1> QED
    BY <1>3, <1>4, <1>6, <1>8 DEF Lists

(* unlink_from_level: the nodes of the level but the one taken out.         *)
LEMMA DroppedList ==
  ASSUME NEW level, NEW newLevel, NEW S \in SUBSET Slots,
         NEW nexts \in [Slots -> Slots \cup {npos}],
         NEW prevs \in [Slots -> Slots \cup {npos}],
         NEW newNexts, NEW newPrevs,
         Lists(level, S, nexts, prevs), NEW i \in S,
         newLevel.head = IF prevs[i] = npos THEN nexts[i] ELSE level.head,
         newLevel.tail = IF nexts[i] = npos THEN prevs[i] ELSE level.tail,
         newNexts = IF prevs[i] = npos THEN nexts
                    ELSE [nexts EXCEPT ![prevs[i]] = nexts[i]],
         newPrevs = IF nexts[i] = npos THEN prevs
                    ELSE [prevs EXCEPT ![nexts[i]] = prevs[i]]
  PROVE  Lists(newLevel, S \ {i}, newNexts, newPrevs)
  <1>0. PICK n \in 0 .. MaxOrders : \E q \in [1 .. n -> S] :
          IsQueue(q, n, level, nexts, prevs) /\ S = Listed(q, n)
    BY DEF Lists
  <1>1. PICK q \in [1 .. n -> S] :
          IsQueue(q, n, level, nexts, prevs) /\ S = Listed(q, n)
    BY <1>0
  <1>2. PICK m \in 1 .. n : q[m] = i
    BY <1>1 DEF Listed
  <1>3. n \in Nat /\ q \in [1 .. n -> Slots] /\ n - 1 \in 0 .. MaxOrders
    BY MaxOrdersAssumption
  <1> DEFINE d == Dropped(q, n, m)
  <1>4. /\ d \in [1 .. n - 1 -> S \ {i}]
        /\ Listed(d, n - 1) = S \ {i}
    <2>1. \A j, k \in 1 .. n : q[j] = q[k] => j = k
      BY <1>1 DEF IsQueue
    <2>2. /\ d \in [1 .. n - 1 -> Listed(q, n) \ {q[m]}]
          /\ Listed(d, n - 1) = Listed(q, n) \ {q[m]}
      BY <1>3, <2>1, DroppedNodes
    <2> HIDE DEF d
    <2> QED
      BY <1>1, <1>2, <2>2
  <1>5. IsQueue(d, n - 1, newLevel, newNexts, newPrevs)
    BY <1>1, <1>2, <1>3, DroppedQueued
  <1> HIDE DEF d
  <1> QED
    BY <1>3, <1>4, <1>5 DEF Lists

(* A level that is reset lists nothing.                                     *)
LEMMA EmptyListed ==
  ASSUME NEW level, level.head = npos, level.tail = npos, NEW nexts, NEW prevs
  PROVE  Lists(level, {}, nexts, prevs)
  <1> DEFINE q == [k \in 1 .. 0 |-> k]
  <1>1. 0 \in 0 .. MaxOrders
    BY MaxOrdersAssumption
  <1>2. q \in [1 .. 0 -> {}] /\ Listed(q, 0) = {} /\ IsQueue(q, 0, level, nexts, prevs)
    BY DEF Listed, IsQueue
  <1> QED
    BY <1>1, <1>2 DEF Lists

(* What unlink_from_level leaves, reset or not, lists the other nodes; it   *)
(* is the reset level exactly when there are none.                          *)
LEMMA UnlinkedList ==
  ASSUME NEW level, NEW S \in SUBSET Slots, NEW quantity, NEW i \in S,
         next \in [Slots -> Slots \cup {npos}],
         prev \in [Slots -> Slots \cup {npos}],
         Lists(level, S, next, prev), UnlinkNeighbours(i)
  PROVE  /\ Lists(UnlinkedLevel(level, i, quantity), S \ {i}, next', prev')
         /\ isEmpty(UnlinkedLevel(level, i, quantity)) <=> S \ {i} = {}
  <1> DEFINE head == IF prev[i] = npos THEN next[i] ELSE level.head
             tail == IF next[i] = npos THEN prev[i] ELSE level.tail
             ends == [head |-> head, tail |-> tail]
             left == UnlinkedLevel(level, i, quantity)
  <1>1. Lists(ends, S \ {i}, next', prev')
    <2>1. ends.head = head /\ ends.tail = tail
      OBVIOUS
    <2> HIDE DEF ends
    <2> QED
      BY <2>1, DroppedList DEF UnlinkNeighbours
  <1>2. (head = npos <=> S \ {i} = {}) /\ (S \ {i} # {} => tail \in S \ {i})
    <2>1. /\ ends.head = npos <=> S \ {i} = {}
          /\ S \ {i} # {} => ends.tail \in S \ {i}
      BY <1>1, ListedLinks
    <2> QED
      BY <2>1
  <1>3. CASE head = npos
    <2>1. left = EmptyLevel
      BY <1>3 DEF UnlinkedLevel
    <2>2. EmptyLevel.head = npos /\ EmptyLevel.tail = npos
      BY DEF EmptyLevel
    <2>3. Lists(EmptyLevel, {}, next', prev')
      BY <2>2, EmptyListed
    <2> QED
      BY <1>2, <1>3, <2>1, <2>2, <2>3 DEF isEmpty
  <1>4. CASE head # npos
    <2>1. left.head = head /\ left.tail = tail
      BY <1>4 DEF UnlinkedLevel
    <2> HIDE DEF left, head, tail
    <2>2. Lists(left, S \ {i}, next', prev')
      BY <1>1, <2>1, KeptList
    <2> QED
      BY <1>2, <1>4, <2>1, <2>2 DEF isEmpty, left
  <1> QED
    BY <1>3, <1>4

(* What append_to_level leaves lists the level's nodes and the new one.     *)
LEMMA AppendedLevel ==
  ASSUME NEW side \in Sides, NEW l \in Levels, NEW S \in SUBSET Slots,
         NEW i \in Slots \ S, NEW quantity,
         ladder \in [Sides -> [Levels -> PriceLevel]],
         next \in [Slots -> Slots \cup {npos}],
         prev \in [Slots -> Slots \cup {npos}],
         next[i] = npos, prev[i] = npos,
         Lists(ladder[side][l], S, next, prev),
         AppendToLevel(side, l, i, quantity)
  PROVE  Lists(ladder'[side][l], S \cup {i}, next', prev')
  <1> DEFINE level == ladder[side][l]
             total == (level.total_quantity + quantity) % QtyModulus
  <1>1. CASE isEmpty(level)
    <2>1. ladder' = [ladder EXCEPT ![side][l] =
                       [head |-> i, tail |-> i, total_quantity |-> total]]
      BY <1>1 DEF AppendToLevel
    <2>2. ladder'[side][l] = [head |-> i, tail |-> i, total_quantity |-> total]
      BY <2>1
    <2>3. ladder'[side][l].head = i /\ ladder'[side][l].tail = i
      BY <2>2
    <2>4. next' = next /\ prev' = prev
      BY <1>1 DEF AppendToLevel
    <2> QED
      BY <1>1, <2>3, <2>4, AppendedList DEF isEmpty
  <1>2. CASE ~isEmpty(level)
    <2>1. ladder' = [ladder EXCEPT ![side][l] =
                       [level EXCEPT !.tail = i, !.total_quantity = total]]
      BY <1>2 DEF AppendToLevel
    <2>2. ladder'[side][l] = [level EXCEPT !.tail = i, !.total_quantity = total]
      BY <2>1
    <2>3. ladder'[side][l].head = level.head /\ ladder'[side][l].tail = i
      BY <2>2 DEF PriceLevel
    <2>4. /\ next' = [next EXCEPT ![level.tail] = i]
          /\ prev' = [prev EXCEPT ![i] = level.tail]
      BY <1>2 DEF AppendToLevel
    <2> QED
      BY <1>2, <2>3, <2>4, AppendedList DEF isEmpty
  <1> QED
    BY <1>1, <1>2

-----------------------------------------------------------------------------
(* The book: types and crossing                                             *)

(* The links of the free list and the node of the running submit.           *)
BookInv ==
  /\ BookTypeOK
  /\ nextFree \in [Slots -> Slots \cup {npos}]
  /\ freeHead \in Slots \cup {npos}
  /\ ~Idle => node[frame.slot] \in Orders

(* Every bid bit lies below every ask bit.                                  *)
Uncrossed == \A a \in bits[Buy], b \in bits[Sell] : a < b

-----------------------------------------------------------------------------

(* The best of a set of prices is one of them, and none is better.          *)
LEMMA BestOfIsBest ==
  ASSUME NEW side \in Sides, NEW T, T \subseteq Prices, T # {}
  PROVE  /\ BestOf(side, T) \in T
         /\ \A q \in T : IF side = Buy THEN BestOf(side, T) >= q
                                       ELSE BestOf(side, T) <= q
  <1> DEFINE Beats(p, q) == IF side = Buy THEN p > q ELSE p < q
             Better(p) == {q \in T : Beats(q, p)}
             F == {Better(p) : p \in T}
             R == StrictSubsetOrdering(Prices)
  <1>1. T \subseteq Int /\ IsFiniteSet(Prices)
    BY PriceAssumption, FS_Interval DEF Prices
  <1>2. /\ IsWellFoundedOn(R, FiniteSubsetsOf(Prices))
        /\ FiniteSubsetsOf(Prices) = SUBSET Prices
    BY <1>1, FS_StrictSubsetOrderingWellFounded, FS_FiniteSubsetsOfFinite
  <1>3. F \subseteq SUBSET Prices /\ F # {}
    OBVIOUS
  <1>4. /\ \A p \in T : ~Beats(p, p)
        /\ \A p, q, r \in T : Beats(p, q) /\ Beats(q, r) => Beats(p, r)
    BY <1>1
  <1> HIDE DEF R, F
  <1>5. PICK A \in F : \A B \in F : ~(<<B, A>> \in R)
    BY <1>2, <1>3, WFMin
  <1>6. PICK x \in T : A = Better(x)
    BY DEF F
  <1>7. \A y \in T : ~Beats(y, x)
    <2>1. SUFFICES ASSUME NEW y \in T, Beats(y, x) PROVE FALSE
      OBVIOUS
    <2>2. Better(y) \in F
      BY DEF F
    <2> HIDE DEF Beats
    <2>3. Better(x) \subseteq Prices /\ Better(y) \subseteq Better(x)
      BY <1>4, <2>1
    <2>4. y \in Better(x) /\ y \notin Better(y)
      BY <1>4, <2>1
    <2>5. <<Better(y), Better(x)>> \in R
      BY <2>3, <2>4 DEF R, StrictSubsetOrdering
    <2> QED
      BY <1>5, <1>6, <2>2, <2>5
  <1>8. \A y \in T : IF side = Buy THEN x >= y ELSE x <= y
    BY <1>1, <1>7
  <1> QED
    BY <1>8 DEF BestOf

(* The best level of a side with a bit set is the index of a set bit.       *)
LEMMA BestPriceIsSet ==
  ASSUME BookTypeOK, NEW side \in Sides, bits[side] # {}
  PROVE  /\ price_to_index(best_price(side)) \in bits[side]
         /\ best_price(side) \in Prices
         /\ \A l \in bits[side] :
              IF side = Buy THEN best_price(side) >= index_to_price(l)
                            ELSE best_price(side) <= index_to_price(l)
  <1> DEFINE T == {index_to_price(l) : l \in bits[side]}
  <1>1. bits[side] \subseteq Levels /\ Levels \subseteq Int /\ MinPrice \in Int
    BY PriceAssumption DEF BookTypeOK, Levels, num_levels
  <1>2. \A l \in Levels : index_to_price(l) \in Prices
                          /\ price_to_index(index_to_price(l)) = l
    BY PriceAssumption DEF Levels, num_levels, Prices, index_to_price, price_to_index
  <1>3. T \subseteq Prices /\ T # {}
    BY <1>1, <1>2
  <1>4. best_price(side) = BestOf(side, T)
    BY DEF best_price
  <1> HIDE DEF T
  <1>5. /\ BestOf(side, T) \in T
        /\ \A q \in T : IF side = Buy THEN BestOf(side, T) >= q
                                      ELSE BestOf(side, T) <= q
    BY <1>3, BestOfIsBest
  <1> QED
    BY <1>1, <1>2, <1>3, <1>4, <1>5 DEF T

-----------------------------------------------------------------------------

LEMMA TotalsWrap ==
  ASSUME NEW x \in Int
  PROVE  x % QtyModulus \in 0 .. QtyModulus - 1
  BY ModulusAssumption

(* A ladder with one level replaced is a ladder; an index outside of it     *)
(* replaces none.                                                           *)
LEMMA LadderPut ==
  ASSUME NEW d \in [Sides -> [Levels -> PriceLevel]], NEW side \in Sides,
         NEW l, NEW level, l \in Levels => level \in PriceLevel
  PROVE  [d EXCEPT ![side][l] = level] \in [Sides -> [Levels -> PriceLevel]]
  OBVIOUS

(* unlink_from_level leaves a level.                                        *)
LEMMA UnlinkedIsLevel ==
  ASSUME BookTypeOK, NEW level \in PriceLevel, NEW i \in Slots,
         NEW quantity \in Int
  PROVE  UnlinkedLevel(level, i, quantity) \in PriceLevel
  <1>1. (level.total_quantity - quantity) % QtyModulus \in 0 .. QtyModulus - 1
    BY TotalsWrap, ModulusAssumption DEF PriceLevel
  <1>2. EmptyLevel \in PriceLevel
    BY ModulusAssumption DEF EmptyLevel, PriceLevel
  <1> QED
    BY <1>1, <1>2 DEF UnlinkedLevel, PriceLevel, BookTypeOK

LEMMA LinksKept ==
  ASSUME BookTypeOK, NEW i \in Slots, UnlinkNeighbours(i)
  PROVE  /\ prev' \in [Slots -> Slots \cup {npos}]
         /\ next' \in [Slots -> Slots \cup {npos}]
  BY DEF BookTypeOK, UnlinkNeighbours

(* append_to_level keeps the types of the levels and links.                 *)
LEMMA AppendKeepsTypes ==
  ASSUME BookTypeOK, NEW side \in Sides, NEW l \in Levels, NEW i \in Slots,
         NEW quantity \in Int, AppendToLevel(side, l, i, quantity)
  PROVE  /\ ladder' \in [Sides -> [Levels -> PriceLevel]]
         /\ prev' \in [Slots -> Slots \cup {npos}]
         /\ next' \in [Slots -> Slots \cup {npos}]
  <1> DEFINE level == ladder[side][l]
             total == (level.total_quantity + quantity) % QtyModulus
  <1>1. level \in PriceLevel
    BY DEF BookTypeOK
  <1>2. total \in 0 .. QtyModulus - 1
    BY <1>1, TotalsWrap, ModulusAssumption DEF PriceLevel
  <1>3. /\ [head |-> i, tail |-> i, total_quantity |-> total] \in PriceLevel
        /\ [level EXCEPT !.tail = i, !.total_quantity = total] \in PriceLevel
    BY <1>1, <1>2 DEF PriceLevel
  <1>4. level.tail \in Slots \cup {npos}
    BY <1>1 DEF PriceLevel
  <1>5. CASE isEmpty(level)
    <2>1. /\ ladder' = [ladder EXCEPT ![side][l] =
                          [head |-> i, tail |-> i, total_quantity |-> total]]
          /\ UNCHANGED <<prev, next>>
      BY <1>5 DEF AppendToLevel
    <2> QED
      BY <1>3, <2>1, LadderPut DEF BookTypeOK
  <1>6. CASE ~isEmpty(level)
    <2>1. /\ ladder' = [ladder EXCEPT ![side][l] =
                          [level EXCEPT !.tail = i, !.total_quantity = total]]
          /\ next' = [next EXCEPT ![level.tail] = i]
          /\ prev' = [prev EXCEPT ![i] = level.tail]
      BY <1>6 DEF AppendToLevel
    <2> HIDE DEF level, total
    <2>2. ladder' \in [Sides -> [Levels -> PriceLevel]]
      BY <1>3, <2>1, LadderPut DEF BookTypeOK
    <2> QED
      BY <1>4, <2>1, <2>2 DEF BookTypeOK
  <1> QED
    BY <1>5, <1>6

-----------------------------------------------------------------------------

LEMMA InitBook == Init => BookInv /\ Uncrossed
  <1> SUFFICES ASSUME Init PROVE BookInv /\ Uncrossed
    OBVIOUS
  <1> USE DEF Init, PoolInit, LadderInit
  <1>1. MaxOrders \in Nat \ {0}
    BY MaxOrdersAssumption
  <1>2. nextFree \in [Slots -> Slots \cup {npos}] /\ freeHead \in Slots
    BY <1>1 DEF FreshList, Slots
  <1>3. EmptyLevel \in PriceLevel
    BY ModulusAssumption DEF EmptyLevel, PriceLevel
  <1>4. BookTypeOK
    BY <1>3 DEF BookTypeOK
  <1> QED
    BY <1>2, <1>4 DEF BookInv, Uncrossed, Idle, Sides

(* A submit that is refused, for what it is or for a resting id.            *)
LEMMA RefusedKeeps ==
  ASSUME BookInv, NEW order \in Orders, SubmitRefused(order)
  PROVE  BookInv'
  BY DEF BookInv, BookTypeOK, SubmitRefused, poolVars, ladderVars, Idle

LEMMA DuplicateKeeps ==
  ASSUME BookInv, NEW order \in Orders, SubmitDuplicate(order)
  PROVE  BookInv'
  <1>1. freeHead \in Slots
    BY DEF BookInv, SubmitDuplicate, full
  <1>2. BookTypeOK'
    BY <1>1 DEF BookInv, BookTypeOK, SubmitDuplicate, FillNode
  <1> QED
    BY <1>2 DEF BookInv, SubmitDuplicate, poolVars, Idle

(* The order a submit starts with is one of the inputs, at a valid price.   *)
LEMMA AcceptedKeeps ==
  ASSUME BookInv, NEW order \in Orders, SubmitAccepted(order)
  PROVE  BookInv'
  <1>1. freeHead \in Slots
    BY DEF BookInv, SubmitAccepted, full
  <1>2. /\ nextFree' \in [Slots -> Slots \cup {npos}]
        /\ freeHead' \in Slots \cup {npos}
    BY <1>1 DEF BookInv, SubmitAccepted, Allocate
  <1>3. order.price \in Prices
    <2>1. order.price \in Int
      BY InputAssumption DEF Orders
    <2>2. order.price >= MinPrice /\ order.price <= MaxPrice
      BY DEF SubmitAccepted, valid_price
    <2> QED
      BY <2>1, <2>2, PriceAssumption DEF Prices
  <1>4. frame' \in Frames /\ frame'.slot = freeHead
    BY <1>1, <1>3 DEF SubmitAccepted, Orders, Frames, Quantities
  <1>5. node' = [node EXCEPT ![freeHead] = order]
    BY DEF SubmitAccepted, FillNode
  <1>6. BookTypeOK'
    BY <1>1, <1>4, <1>5 DEF BookInv, BookTypeOK, SubmitAccepted, FillNode
  <1>7. node'[freeHead] \in Orders
    BY <1>1, <1>5 DEF BookInv, BookTypeOK
  <1> QED
    BY <1>2, <1>4, <1>6, <1>7 DEF BookInv

(* A node handed back to the pool keeps the links of the free list in range.*)
LEMMA DeallocateKeepsLinks ==
  ASSUME BookInv, NEW i \in Slots, Deallocate(i)
  PROVE  /\ nextFree' \in [Slots -> Slots \cup {npos}]
         /\ freeHead' \in Slots \cup {npos}
  BY DEF BookInv, Deallocate

-----------------------------------------------------------------------------

(* What the matching loop reads at its top: the level of the best opposite  *)
(* price is one of the ladder, its head a node or npos.                     *)
LEMMA BestLevel ==
  ASSUME BookInv, ~Idle, Crossing, NEW opp, opp = opposite(frame.side)
  PROVE  /\ opp \in Sides
         /\ price_to_index(best_price(opp)) \in Levels
         /\ ladder[opp][price_to_index(best_price(opp))] \in PriceLevel
         /\ ladder[opp][price_to_index(best_price(opp))].head
              \in Slots \cup {npos}
  <1>1. opp \in Sides
    BY DEF BookInv, BookTypeOK, Idle, Frames, opposite, Sides
  <1>2. price_to_index(best_price(opp)) \in bits[opp] /\ bits[opp] \subseteq Levels
    BY <1>1, BestPriceIsSet DEF Crossing, BookInv, BookTypeOK
  <1>3. ladder[opp][price_to_index(best_price(opp))] \in PriceLevel
    BY <1>1, <1>2 DEF BookInv, BookTypeOK
  <1> QED
    BY <1>1, <1>2, <1>3 DEF PriceLevel

(* A turn that only drops a stale bit.                                      *)
LEMMA DropKeeps ==
  ASSUME BookInv, ~Idle, NEW opp \in Sides, NEW l, DropStaleBit(opp, l)
  PROVE  BookInv'
  BY DEF BookInv, BookTypeOK, DropStaleBit, poolVars, ladderVars, Idle

(* What a turn that trades does to the frame and to the two quantities: both*)
(* shrink and neither falls below zero.                                     *)
LEMMA TradeKeeps ==
  ASSUME BookInv, ~Idle, NEW i \in Slots, NEW quantity,
         quantity = IF frame.remaining < node[i].quantity
                    THEN frame.remaining ELSE node[i].quantity,
         frame' = [frame EXCEPT !.remaining = @ - quantity],
         node' = [node EXCEPT ![i].quantity = @ - quantity]
  PROVE  /\ quantity \in Nat
         /\ frame' \in Frames
         /\ frame'.slot = frame.slot
         /\ node' \in [Slots -> Orders \cup {FreshOrder}]
         /\ node'[frame.slot] \in Orders
  <1>1. frame \in Frames /\ frame.slot \in Slots /\ frame.remaining \in Quantities
    BY DEF BookInv, BookTypeOK, Idle, Frames
  <1>2. node[i] \in Orders \cup {FreshOrder} /\ node[i].quantity \in Quantities
    BY InputAssumption DEF BookInv, BookTypeOK, Orders, FreshOrder, Quantities
  <1>3. quantity \in Nat /\ quantity <= frame.remaining /\ quantity <= node[i].quantity
    BY <1>1, <1>2, InputAssumption DEF Quantities
  <1>4. /\ frame.remaining - quantity \in Quantities
        /\ node[i].quantity - quantity \in Quantities
    BY <1>1, <1>2, <1>3, InputAssumption DEF Quantities
  <1>5. frame' \in Frames /\ frame'.slot = frame.slot
    BY <1>1, <1>4 DEF Frames
  <1>6. ASSUME node[i] \in Orders
        PROVE  [node[i] EXCEPT !.quantity = @ - quantity] \in Orders
    BY <1>4, <1>6 DEF Orders
  <1>7. ASSUME node[i] = FreshOrder
        PROVE  [node[i] EXCEPT !.quantity = @ - quantity] = FreshOrder
    <2>1. node[i].quantity = 0 /\ node[i].quantity - quantity = 0
      BY <1>3, <1>7 DEF FreshOrder
    <2> QED
      BY <1>7, <2>1 DEF FreshOrder
  <1>8. node' = [node EXCEPT ![i] = [node[i] EXCEPT !.quantity = @ - quantity]]
    BY <1>2 DEF BookInv, BookTypeOK
  <1> QED
    BY <1>1, <1>2, <1>3, <1>5, <1>6, <1>7, <1>8 DEF BookInv, BookTypeOK

(* The level after a fill, before it is unlinked.                           *)
LEMMA ReducedIsLevel ==
  ASSUME NEW level \in PriceLevel, NEW quantity \in Nat
  PROVE  [level EXCEPT !.total_quantity = (@ - quantity) % QtyModulus]
           \in PriceLevel
  <1>1. (level.total_quantity - quantity) % QtyModulus \in 0 .. QtyModulus - 1
    BY TotalsWrap, ModulusAssumption DEF PriceLevel
  <1> QED
    BY <1>1 DEF PriceLevel

(* The part of the types that a fill touches besides the frame and the node.*)
LEMMA FillPartKeeps ==
  ASSUME BookInv, NEW opp \in Sides, NEW l \in Levels, NEW i \in Slots,
         NEW quantity \in Nat, FillPart(opp, l, i, quantity)
  PROVE  /\ ladder' \in [Sides -> [Levels -> PriceLevel]]
         /\ UNCHANGED <<nextFree, freeHead, prev, next, bits, index>>
  <1>1. [ladder[opp][l] EXCEPT !.total_quantity = (@ - quantity) % QtyModulus]
          \in PriceLevel
    BY ReducedIsLevel DEF BookInv, BookTypeOK
  <1>2. ladder' = [ladder EXCEPT ![opp][l] =
          [ladder[opp][l] EXCEPT !.total_quantity = (@ - quantity) % QtyModulus]]
    BY DEF FillPart, BookInv, BookTypeOK
  <1>3. ladder' \in [Sides -> [Levels -> PriceLevel]]
    BY <1>1, <1>2, LadderPut DEF BookInv, BookTypeOK
  <1> QED
    BY <1>3 DEF FillPart, poolVars

LEMMA FillWholeKeeps ==
  ASSUME BookInv, NEW opp \in Sides, NEW l \in Levels, NEW i \in Slots,
         NEW quantity \in Nat, FillWhole(opp, l, i, quantity)
  PROVE  /\ ladder' \in [Sides -> [Levels -> PriceLevel]]
         /\ prev' \in [Slots -> Slots \cup {npos}]
         /\ next' \in [Slots -> Slots \cup {npos}]
         /\ bits' \in [Sides -> SUBSET Levels]
         /\ \A side \in Sides : bits'[side] \subseteq bits[side]
         /\ index' \in [OrderIds -> Slots \cup {npos}]
         /\ nextFree' \in [Slots -> Slots \cup {npos}]
         /\ freeHead' \in Slots \cup {npos}
  <1> DEFINE level == [ladder[opp][l] EXCEPT !.total_quantity =
                         (@ - quantity) % QtyModulus]
             left == UnlinkedLevel(level, i, quantity)
  <1>1. level \in PriceLevel
    BY ReducedIsLevel DEF BookInv, BookTypeOK
  <1>2. ladder' = [ladder EXCEPT ![opp][l] = left]
    BY DEF FillWhole
  <1>3. bits' = bits \/ bits' = [bits EXCEPT ![opp] = @ \ {l}]
    BY DEF FillWhole
  <1>4. index' = [index EXCEPT ![node[i].id] = npos]
    BY DEF FillWhole
  <1>5. Deallocate(i) /\ UnlinkNeighbours(i)
    BY DEF FillWhole
  <1> HIDE DEF level
  <1>6. left \in PriceLevel
    BY <1>1, UnlinkedIsLevel DEF BookInv
  <1> HIDE DEF left
  <1>7. ladder' \in [Sides -> [Levels -> PriceLevel]]
    BY <1>2, <1>6, LadderPut DEF BookInv, BookTypeOK
  <1>8. /\ bits' \in [Sides -> SUBSET Levels]
        /\ \A side \in Sides : bits'[side] \subseteq bits[side]
    BY <1>3 DEF BookInv, BookTypeOK
  <1>9. index' \in [OrderIds -> Slots \cup {npos}]
    BY <1>4 DEF BookInv, BookTypeOK
  <1> QED
    BY <1>5, <1>7, <1>8, <1>9, LinksKept, DeallocateKeepsLinks DEF BookInv

(* A turn of the matching loop keeps the types and sets no bit.             *)
LEMMA MatchStepKeeps ==
  ASSUME BookInv, MatchStep
  PROVE  BookInv' /\ \A side \in Sides : bits'[side] \subseteq bits[side]
  <1> DEFINE opp == opposite(frame.side)
             l == price_to_index(best_price(opp))
             i == ladder[opp][l].head
             quantity == IF frame.remaining < node[i].quantity
                         THEN frame.remaining ELSE node[i].quantity
  <1>1. ~Idle /\ Crossing
    BY DEF MatchStep
  <1>2. /\ opp \in Sides /\ l \in Levels /\ ladder[opp][l] \in PriceLevel
        /\ i \in Slots \cup {npos}
    BY <1>1, BestLevel
  <1>3. CASE i = npos
    <2>1. DropStaleBit(opp, l)
      BY <1>3 DEF MatchStep
    <2>2. BookInv'
      BY <1>1, <1>2, <2>1, DropKeeps
    <2> QED
      BY <1>2, <2>1, <2>2 DEF DropStaleBit, BookInv, BookTypeOK
  <1>4. CASE i # npos
    <2>1. /\ frame' = [frame EXCEPT !.remaining = @ - quantity]
          /\ \/ FillPart(opp, l, i, quantity)
             \/ FillWhole(opp, l, i, quantity)
      BY <1>4 DEF MatchStep
    <2>2. node' = [node EXCEPT ![i].quantity = @ - quantity]
      BY <2>1 DEF FillPart, FillWhole
    <2>3. i \in Slots
      BY <1>2, <1>4
    <2> DEFINE quantityIs == quantity = IF frame.remaining < node[i].quantity
                                        THEN frame.remaining ELSE node[i].quantity
    <2>4. quantityIs
      OBVIOUS
    <2> HIDE DEF quantity, i, l, opp
    <2>5. /\ quantity \in Nat
          /\ frame' \in Frames
          /\ frame'.slot = frame.slot
          /\ node' \in [Slots -> Orders \cup {FreshOrder}]
          /\ node'[frame.slot] \in Orders
      BY <1>1, <2>1, <2>2, <2>3, <2>4, TradeKeeps
    <2>6. CASE FillPart(opp, l, i, quantity)
      <3>1. /\ ladder' \in [Sides -> [Levels -> PriceLevel]]
            /\ UNCHANGED <<nextFree, freeHead, prev, next, bits, index>>
        BY <1>2, <2>3, <2>5, <2>6, FillPartKeeps
      <3> QED
        BY <2>5, <3>1 DEF BookInv, BookTypeOK
    <2>7. CASE FillWhole(opp, l, i, quantity)
      <3>1. /\ ladder' \in [Sides -> [Levels -> PriceLevel]]
            /\ prev' \in [Slots -> Slots \cup {npos}]
            /\ next' \in [Slots -> Slots \cup {npos}]
            /\ bits' \in [Sides -> SUBSET Levels]
            /\ \A side \in Sides : bits'[side] \subseteq bits[side]
            /\ index' \in [OrderIds -> Slots \cup {npos}]
            /\ nextFree' \in [Slots -> Slots \cup {npos}]
            /\ freeHead' \in Slots \cup {npos}
        BY <1>2, <2>3, <2>5, <2>7, FillWholeKeeps
      <3> QED
        BY <2>5, <3>1 DEF BookInv, BookTypeOK
    <2> QED
      BY <2>1, <2>6, <2>7
  <1> QED
    BY <1>3, <1>4

-----------------------------------------------------------------------------

(* An order that rests: its level is one of the ladder, its node carries it.*)
LEMMA RestsKeeps ==
  ASSUME BookInv, MatchRests
  PROVE  BookInv'
  <1> DEFINE l == price_to_index(frame.price)
  <1>1. /\ frame \in Frames /\ frame.slot \in Slots /\ frame.side \in Sides
        /\ frame.remaining \in Quantities /\ frame.price \in Prices
    BY DEF BookInv, BookTypeOK, MatchRests, Idle, Frames
  <1>2. l \in Levels
    BY <1>1, PriceAssumption DEF Prices, Levels, num_levels, price_to_index
  <1>3. frame.remaining \in Int
    BY <1>1, InputAssumption DEF Quantities
  <1>4. /\ ladder' \in [Sides -> [Levels -> PriceLevel]]
        /\ prev' \in [Slots -> Slots \cup {npos}]
        /\ next' \in [Slots -> Slots \cup {npos}]
    BY <1>1, <1>2, <1>3, AppendKeepsTypes DEF BookInv, MatchRests
  <1>5. node' \in [Slots -> Orders \cup {FreshOrder}]
    <2>1. node[frame.slot] \in Orders
      BY DEF BookInv, MatchRests
    <2>2. [node[frame.slot] EXCEPT !.quantity = frame.remaining] \in Orders
      BY <1>1, <2>1 DEF Orders
    <2>3. node' = [node EXCEPT ![frame.slot] =
                     [node[frame.slot] EXCEPT !.quantity = frame.remaining]]
      BY DEF MatchRests
    <2> QED
      BY <1>1, <2>2, <2>3 DEF BookInv, BookTypeOK
  <1>6. bits' \in [Sides -> SUBSET Levels]
    BY <1>2 DEF MatchRests, BookInv, BookTypeOK
  <1> QED
    BY <1>4, <1>5, <1>6
       DEF MatchRests, BookInv, BookTypeOK, Idle, poolVars

LEMMA FilledKeeps ==
  ASSUME BookInv, MatchFilled
  PROVE  BookInv'
  <1>1. frame.slot \in Slots
    BY DEF BookInv, BookTypeOK, MatchFilled, Idle, Frames
  <1>2. /\ nextFree' \in [Slots -> Slots \cup {npos}]
        /\ freeHead' \in Slots \cup {npos}
    BY <1>1, DeallocateKeepsLinks DEF MatchFilled
  <1> QED
    BY <1>2 DEF MatchFilled, BookInv, BookTypeOK, Idle, ladderVars

LEMMA CancelMissedKeeps ==
  ASSUME BookInv, NEW id \in OrderIds, CancelMissed(id)
  PROVE  BookInv'
  BY DEF BookInv, BookTypeOK, CancelMissed, poolVars, ladderVars, Idle

LEMMA CancelledKeeps ==
  ASSUME BookInv, NEW id \in OrderIds, Cancelled(id)
  PROVE  BookInv' /\ \A side \in Sides : bits'[side] \subseteq bits[side]
  <1> DEFINE i == index[id]
             side == node[i].side
             l == price_to_index(node[i].price)
             left == UnlinkedLevel(ladder[side][l], i, node[i].quantity)
  <1>1. /\ i \in Slots
        /\ ladder' = [ladder EXCEPT ![side][l] = left]
        /\ bits' = bits \/ bits' = [bits EXCEPT ![side] = @ \ {l}]
        /\ index' = [index EXCEPT ![id] = npos]
        /\ UnlinkNeighbours(i) /\ Deallocate(i)
        /\ Idle /\ UNCHANGED <<node, frame>>
    BY DEF Cancelled, BookInv, BookTypeOK
  <1>2. side \in Sides /\ node[i].quantity \in Int
    BY <1>1, InputAssumption
       DEF BookInv, BookTypeOK, Orders, Quantities, FreshOrder, Sides
  <1> HIDE DEF i, side, l
  <1>3. l \in Levels => left \in PriceLevel
    BY <1>1, <1>2, UnlinkedIsLevel DEF BookInv, BookTypeOK
  <1> HIDE DEF left
  <1>4. ladder' \in [Sides -> [Levels -> PriceLevel]]
    BY <1>1, <1>2, <1>3, LadderPut DEF BookInv, BookTypeOK
  <1>5. /\ bits' \in [Sides -> SUBSET Levels]
        /\ \A s \in Sides : bits'[s] \subseteq bits[s]
    BY <1>1 DEF BookInv, BookTypeOK
  <1>6. /\ prev' \in [Slots -> Slots \cup {npos}]
        /\ next' \in [Slots -> Slots \cup {npos}]
    BY <1>1, LinksKept DEF BookInv
  <1>7. /\ nextFree' \in [Slots -> Slots \cup {npos}]
        /\ freeHead' \in Slots \cup {npos}
    BY <1>1, DeallocateKeepsLinks
  <1> QED
    BY <1>1, <1>4, <1>5, <1>6, <1>7 DEF BookInv, BookTypeOK, Idle

LEMMA ClearKeeps ==
  ASSUME BookInv, Clear
  PROVE  BookInv' /\ \A side \in Sides : bits'[side] = {}
  <1>1. MaxOrders \in Nat \ {0}
    BY MaxOrdersAssumption
  <1>2. nextFree' \in [Slots -> Slots \cup {npos}] /\ freeHead' \in Slots
    BY <1>1 DEF Clear, PoolClear, FreshList, Slots
  <1>3. EmptyLevel \in PriceLevel
    BY ModulusAssumption DEF EmptyLevel, PriceLevel
  <1>4. BookTypeOK'
    BY <1>3 DEF Clear, LadderClear, BookInv, BookTypeOK
  <1> QED
    BY <1>2, <1>4 DEF Clear, BookInv, Idle

-----------------------------------------------------------------------------

(* Taking bits away leaves the sides apart.                                 *)
LEMMA FewerBits ==
  ASSUME Uncrossed, \A side \in Sides : bits'[side] \subseteq bits[side]
  PROVE  Uncrossed'
  BY DEF Uncrossed, Sides

(* The loop ends before the incoming order is spent only when no opposite   *)
(* bit lies within its limit, so the bit of its own level stays apart.      *)
LEMMA RestsUncrossed ==
  ASSUME BookInv, Uncrossed, MatchRests
  PROVE  Uncrossed'
  <1> DEFINE l == price_to_index(frame.price)
             opp == opposite(frame.side)
  <1>1. /\ frame.side \in Sides /\ frame.price \in Prices
        /\ frame.remaining > 0 /\ ~Crossing
        /\ bits' = [bits EXCEPT ![frame.side] = @ \cup {l}]
    BY DEF BookInv, BookTypeOK, MatchRests, Idle, Frames
  <1>2. /\ Prices \subseteq Int /\ MinPrice \in Int
        /\ bits[Buy] \subseteq Int /\ bits[Sell] \subseteq Int
    BY PriceAssumption
       DEF Prices, BookInv, BookTypeOK, Levels, num_levels, Sides
  <1>3. CASE frame.side = Buy
    <2>1. opp = Sell /\ Sell \in Sides /\ Sell # Buy
      BY <1>3 DEF opposite, Sides, Buy, Sell
    <2>2. ASSUME NEW b \in bits[Sell] PROVE l < b
      <3>1. /\ best_price(Sell) \in Prices
            /\ best_price(Sell) <= index_to_price(b)
        BY <2>1, <2>2, BestPriceIsSet DEF BookInv
      <3>2. ~(frame.price >= best_price(Sell))
        BY <1>1, <1>3, <2>1, <2>2 DEF Crossing, crosses
      <3>3. /\ frame.price \in Int /\ best_price(Sell) \in Int
            /\ b \in Int /\ MinPrice \in Int
        BY <1>1, <1>2, <2>2, <3>1
      <3>4. frame.price < MinPrice + b
        BY <3>1, <3>2, <3>3 DEF index_to_price
      <3> QED
        BY <3>3, <3>4 DEF price_to_index
    <2>3. bits'[Sell] = bits[Sell] /\ bits'[Buy] = bits[Buy] \cup {l}
      BY <1>1, <1>3, <2>1 DEF BookInv, BookTypeOK
    <2> QED
      BY <2>2, <2>3 DEF Uncrossed
  <1>4. CASE frame.side = Sell
    <2>1. opp = Buy /\ Buy \in Sides /\ Sell # Buy
      BY <1>4 DEF opposite, Sides, Buy, Sell
    <2>2. ASSUME NEW a \in bits[Buy] PROVE a < l
      <3>1. /\ best_price(Buy) \in Prices
            /\ best_price(Buy) >= index_to_price(a)
        BY <2>1, <2>2, BestPriceIsSet DEF BookInv
      <3>2. ~(frame.price <= best_price(Buy))
        BY <1>1, <1>4, <2>1, <2>2 DEF Crossing, crosses
      <3>3. /\ frame.price \in Int /\ best_price(Buy) \in Int
            /\ a \in Int /\ MinPrice \in Int
        BY <1>1, <1>2, <2>2, <3>1
      <3>4. frame.price > MinPrice + a
        BY <3>1, <3>2, <3>3 DEF index_to_price
      <3> QED
        BY <3>3, <3>4 DEF price_to_index
    <2>3. bits'[Buy] = bits[Buy] /\ bits'[Sell] = bits[Sell] \cup {l}
      BY <1>1, <1>4, <2>1 DEF BookInv, BookTypeOK
    <2> QED
      BY <2>2, <2>3 DEF Uncrossed
  <1> QED
    BY <1>1, <1>3, <1>4 DEF Sides

-----------------------------------------------------------------------------

(* Every step of the book keeps the types and keeps the sides apart.        *)
LEMMA StepKeeps ==
  ASSUME BookInv, Uncrossed, [Next]_vars
  PROVE  BookInv' /\ Uncrossed'
  <1>1. ASSUME NEW order \in Orders, SubmitRefused(order)
        PROVE  BookInv' /\ Uncrossed'
    BY <1>1, RefusedKeeps DEF SubmitRefused, Uncrossed
  <1>2. ASSUME NEW order \in Orders, SubmitDuplicate(order)
        PROVE  BookInv' /\ Uncrossed'
    BY <1>2, DuplicateKeeps DEF SubmitDuplicate, Uncrossed
  <1>3. ASSUME NEW order \in Orders, SubmitAccepted(order)
        PROVE  BookInv' /\ Uncrossed'
    BY <1>3, AcceptedKeeps DEF SubmitAccepted, Uncrossed
  <1>4. CASE MatchStep
    BY <1>4, MatchStepKeeps, FewerBits
  <1>5. CASE MatchRests
    BY <1>5, RestsKeeps, RestsUncrossed
  <1>6. CASE MatchFilled
    BY <1>6, FilledKeeps DEF MatchFilled, Uncrossed
  <1>7. ASSUME NEW id \in OrderIds, CancelMissed(id)
        PROVE  BookInv' /\ Uncrossed'
    BY <1>7, CancelMissedKeeps DEF CancelMissed, Uncrossed
  <1>8. ASSUME NEW id \in OrderIds, Cancelled(id)
        PROVE  BookInv' /\ Uncrossed'
    BY <1>8, CancelledKeeps, FewerBits
  <1>9. CASE Clear
    BY <1>9, ClearKeeps DEF Uncrossed, Sides
  <1>10. CASE UNCHANGED vars
    BY <1>10 DEF vars, poolVars, ladderVars, bookVars, BookInv, BookTypeOK,
                 Idle, Uncrossed
  <1> QED
    BY <1>1, <1>2, <1>3, <1>4, <1>5, <1>6, <1>7, <1>8, <1>9, <1>10
       DEF Next, Matching

(* The inductive invariant of the book.                                     *)
THEOREM BookInvariant == Spec => [](BookInv /\ Uncrossed)
  <1>1. BookInv /\ Uncrossed /\ [Next]_vars => (BookInv /\ Uncrossed)'
    BY StepKeeps
  <1> QED
    BY <1>1, InitBook, PTL DEF Spec

(* Every variable of the book keeps its type (submit, its matching loop,    *)
(* cancel and clear of side.hpp): in particular the loop never looks for a  *)
(* level outside of the ladder, no quantity falls below zero, and each link *)
(* is a node of the pool or npos.                                           *)
THEOREM BookTypes == Spec => []BookTypeOK
  <1>1. BookInv /\ Uncrossed => BookTypeOK
    BY DEF BookInv
  <1> QED
    BY <1>1, BookInvariant, PTL

(* Bits that are apart are best prices that are.                            *)
LEMMA ApartNotCrossed ==
  ASSUME BookTypeOK, Uncrossed
  PROVE  NotCrossed
  <1> SUFFICES ASSUME bits[Buy] # {}, bits[Sell] # {}
               PROVE  best_price(Buy) < best_price(Sell)
    BY DEF NotCrossed
  <1> DEFINE a == price_to_index(best_price(Buy))
             b == price_to_index(best_price(Sell))
  <1>1. /\ a \in bits[Buy] /\ best_price(Buy) \in Prices
        /\ b \in bits[Sell] /\ best_price(Sell) \in Prices
    BY BestPriceIsSet DEF Sides
  <1>2. a < b
    BY <1>1 DEF Uncrossed
  <1>3. best_price(Buy) \in Int /\ best_price(Sell) \in Int /\ MinPrice \in Int
    BY <1>1, PriceAssumption DEF Prices
  <1> QED
    BY <1>2, <1>3 DEF price_to_index

(* The book is never crossed, between two trades of a submit either: the    *)
(* matching loop (side.hpp:107-112) leaves no opposite price within the     *)
(* limit of an order that goes on to rest.                                  *)
THEOREM BookNotCrossed == Spec => []NotCrossed
  <1>1. BookInv /\ Uncrossed => NotCrossed
    BY ApartNotCrossed DEF BookInv
  <1> QED
    BY <1>1, BookInvariant, PTL

-----------------------------------------------------------------------------

(* The active nodes carry orders at prices of the ladder.                   *)
UsedValid == \A i \in Used : node[i] \in Orders /\ node[i].price \in Prices

StructInv ==
  /\ BookInv /\ PoolInv
  /\ UsedValid /\ FrameExact
  /\ IndexExact /\ RestingPositive /\ BitmapExact /\ LevelChains

-----------------------------------------------------------------------------

(* The lists and the bits of a set of nodes N, for any orders in them, any  *)
(* ladder and any links: QueuesList and BitsTell of two states are both     *)
(* instances.                                                               *)
Placed(N, orders, side, l) ==
  {i \in N : orders[i].side = side /\ price_to_index(orders[i].price) = l}

AllListed(N, orders, levels, nexts, prevs) ==
  \A side \in Sides, l \in Levels :
    Lists(levels[side][l], Placed(N, orders, side, l), nexts, prevs)

AllTold(N, orders, told) ==
  \A side \in Sides, l \in Levels :
    l \in told[side] <=> Placed(N, orders, side, l) # {}

(* Two ladders whose levels have the same ends.                             *)
SameEnds(levels, newLevels) ==
  \A side \in Sides, l \in Levels :
    /\ newLevels[side][l].head = levels[side][l].head
    /\ newLevels[side][l].tail = levels[side][l].tail

(* Nodes that stay on their side, at their price and between their links.   *)
SamePlaces(N, orders, newOrders, nexts, newNexts, prevs, newPrevs) ==
  \A i \in N : /\ newOrders[i].side = orders[i].side
               /\ newOrders[i].price = orders[i].price
               /\ newNexts[i] = nexts[i] /\ newPrevs[i] = prevs[i]

LEMMA ListsAndBits ==
  /\ LevelChains <=> AllListed(Resting, node, ladder, next, prev)
  /\ BitmapExact <=> AllTold(Resting, node, bits)
  /\ LevelChains' <=> AllListed(Resting', node', ladder', next', prev')
  /\ BitmapExact' <=> AllTold(Resting', node', bits')
  <1>1. /\ LevelChains <=> AllListed(Resting, node, ladder, next, prev)
        /\ BitmapExact <=> AllTold(Resting, node, bits)
    BY DEF LevelChains, QueuesList, At, AllListed, Placed,
           BitmapExact, BitsTell, AllTold
  <1>2. /\ LevelChains' <=> AllListed(Resting', node', ladder', next', prev')
        /\ BitmapExact' <=> AllTold(Resting', node', bits')
    BY DEF LevelChains, QueuesList, At, AllListed, Placed,
           BitmapExact, BitsTell, AllTold
  <1> QED
    BY <1>1, <1>2

(* Nothing that the lists and bits go by changes.                           *)
LEMMA PlacesKept ==
  ASSUME NEW N \in SUBSET Slots, NEW orders, NEW newOrders,
         NEW levels, NEW newLevels,
         NEW nexts, NEW prevs, NEW newNexts, NEW newPrevs, NEW told,
         SamePlaces(N, orders, newOrders, nexts, newNexts, prevs, newPrevs),
         SameEnds(levels, newLevels),
         AllListed(N, orders, levels, nexts, prevs), AllTold(N, orders, told)
  PROVE  /\ AllListed(N, newOrders, newLevels, newNexts, newPrevs)
         /\ AllTold(N, newOrders, told)
  <1>1. \A side \in Sides, l \in Levels :
          Placed(N, newOrders, side, l) = Placed(N, orders, side, l)
    BY DEF Placed, SamePlaces
  <1>2. \A side \in Sides, l \in Levels : Placed(N, orders, side, l) \subseteq N
    BY DEF Placed
  <1>3. ASSUME NEW side \in Sides, NEW l \in Levels
        PROVE  Lists(newLevels[side][l], Placed(N, orders, side, l),
                     newNexts, newPrevs)
    BY <1>2, KeptList DEF AllListed, SameEnds, SamePlaces
  <1> QED
    BY <1>1, <1>3 DEF AllListed, AllTold

(* Node i leaves the level: unlink_from_level, and clear_bit when the level *)
(* has become empty.                                                        *)
TakenOff(side, l, level, i, quantity) ==
  LET left == UnlinkedLevel(level, i, quantity)
  IN /\ UnlinkNeighbours(i)
     /\ ladder' = [ladder EXCEPT ![side][l] = left]
     /\ bits' = IF isEmpty(left) THEN [bits EXCEPT ![side] = @ \ {l}] ELSE bits

LEMMA PlaceLeft ==
  ASSUME NEW N \in SUBSET Slots, NEW newOrders, NEW i \in N,
         NEW side \in Sides, NEW l \in Levels, NEW level, NEW quantity,
         node[i].side = side, price_to_index(node[i].price) = l,
         \A j \in N : /\ newOrders[j].side = node[j].side
                      /\ newOrders[j].price = node[j].price,
         BookTypeOK,
         level.head = ladder[side][l].head, level.tail = ladder[side][l].tail,
         AllListed(N, node, ladder, next, prev), AllTold(N, node, bits),
         TakenOff(side, l, level, i, quantity)
  PROVE  /\ AllListed(N \ {i}, newOrders, ladder', next', prev')
         /\ AllTold(N \ {i}, newOrders, bits')
  <1> DEFINE S == Placed(N, node, side, l)
             left == UnlinkedLevel(level, i, quantity)
  <1>0. /\ UnlinkNeighbours(i)
        /\ ladder' = [ladder EXCEPT ![side][l] = left]
        /\ bits' = IF isEmpty(left) THEN [bits EXCEPT ![side] = @ \ {l}] ELSE bits
    BY DEF TakenOff
  <1>1. i \in S /\ S \in SUBSET Slots
    BY DEF Placed
  <1>2. /\ next \in [Slots -> Slots \cup {npos}]
        /\ prev \in [Slots -> Slots \cup {npos}]
    BY DEF BookTypeOK
  <1>3. Lists(ladder[side][l], S, next, prev)
    BY DEF AllListed
  <1>4. Lists(level, S, next, prev)
    BY <1>3, KeptList
  <1>5. Lists(left, S \ {i}, next', prev') /\ (isEmpty(left) <=> S \ {i} = {})
    <2> HIDE DEF S
    <2> QED
      BY <1>0, <1>1, <1>2, <1>4, UnlinkedList
  <1>6. \A s \in Sides, m \in Levels :
          Placed(N \ {i}, newOrders, s, m)
            = IF s = side /\ m = l THEN S \ {i} ELSE Placed(N, node, s, m)
    BY DEF Placed
  <1>7. /\ next[i] \in S \cup {npos} /\ prev[i] \in S \cup {npos}
    BY <1>1, <1>3, ListedLinks
  <1>8. \A j \in Slots \ S : next'[j] = next[j] /\ prev'[j] = prev[j]
    BY <1>0, <1>2, <1>7 DEF UnlinkNeighbours
  <1>9. \A s \in Sides, m \in Levels :
          ladder'[s][m] = IF s = side /\ m = l THEN left ELSE ladder[s][m]
    BY <1>0 DEF BookTypeOK
  <1>10. \A s \in Sides, m \in Levels :
           s # side \/ m # l => Placed(N, node, s, m) \subseteq Slots \ S
    BY DEF Placed
  <1> HIDE DEF S, left
  <1>11. ASSUME NEW s \in Sides, NEW m \in Levels
         PROVE  Lists(ladder'[s][m], Placed(N \ {i}, newOrders, s, m),
                      next', prev')
    <2>1. CASE s = side /\ m = l
      BY <1>5, <1>6, <1>9, <2>1
    <2>2. CASE ~(s = side /\ m = l)
      <3>1. /\ ladder'[s][m] = ladder[s][m]
            /\ Placed(N \ {i}, newOrders, s, m) = Placed(N, node, s, m)
        BY <1>6, <1>9, <2>2
      <3>2. \A j \in Placed(N, node, s, m) :
              next'[j] = next[j] /\ prev'[j] = prev[j]
        BY <1>8, <1>10, <2>2
      <3>3. Lists(ladder[s][m], Placed(N, node, s, m), next, prev)
        BY DEF AllListed
      <3> QED
        BY <3>1, <3>2, <3>3, KeptList
    <2> QED
      BY <2>1, <2>2
  <1>12. ASSUME NEW s \in Sides, NEW m \in Levels
         PROVE  m \in bits'[s] <=> Placed(N \ {i}, newOrders, s, m) # {}
    <2>1. m \in bits[s] <=> Placed(N, node, s, m) # {}
      BY DEF AllTold
    <2>2. bits' = IF isEmpty(left) THEN [bits EXCEPT ![side] = @ \ {l}] ELSE bits
      BY <1>0 DEF left
    <2>3. bits \in [Sides -> SUBSET Levels]
      BY DEF BookTypeOK
    <2>4. m \in bits'[s] <=> m \in bits[s] /\ ~(s = side /\ m = l /\ isEmpty(left))
      BY <2>2, <2>3
    <2>5. s = side /\ m = l => m \in bits[s]
      BY <1>1, <2>1 DEF S
    <2> QED
      BY <1>5, <1>6, <2>1, <2>4, <2>5
  <1> QED
    BY <1>11, <1>12 DEF AllListed, AllTold

(* A node joins a level behind the nodes N: append_to_level and set.        *)
LEMMA PlaceTaken ==
  ASSUME NEW N \in SUBSET Slots, NEW newOrders, NEW i \in Slots \ N,
         NEW side \in Sides, NEW l \in Levels, NEW quantity,
         newOrders[i].side = side, price_to_index(newOrders[i].price) = l,
         \A j \in N : /\ newOrders[j].side = node[j].side
                      /\ newOrders[j].price = node[j].price,
         BookTypeOK, next[i] = npos, prev[i] = npos,
         AllListed(N, node, ladder, next, prev), AllTold(N, node, bits),
         AppendToLevel(side, l, i, quantity),
         bits' = [bits EXCEPT ![side] = @ \cup {l}]
  PROVE  /\ AllListed(N \cup {i}, newOrders, ladder', next', prev')
         /\ AllTold(N \cup {i}, newOrders, bits')
  <1> DEFINE S == Placed(N, node, side, l)
  <1>1. S \in SUBSET Slots /\ i \in Slots \ S
    BY DEF Placed
  <1>2. /\ next \in [Slots -> Slots \cup {npos}]
        /\ prev \in [Slots -> Slots \cup {npos}]
        /\ ladder \in [Sides -> [Levels -> PriceLevel]]
    BY DEF BookTypeOK
  <1>3. Lists(ladder[side][l], S, next, prev)
    BY DEF AllListed
  <1>4. Lists(ladder'[side][l], S \cup {i}, next', prev')
    BY <1>1, <1>2, <1>3, AppendedLevel
  <1>5. \A s \in Sides, m \in Levels :
          Placed(N \cup {i}, newOrders, s, m)
            = IF s = side /\ m = l THEN S \cup {i} ELSE Placed(N, node, s, m)
    BY DEF Placed
  <1>6. ladder[side][l].head = npos \/ ladder[side][l].tail \in S
    BY <1>1, <1>3, ListedLinks
  <1>7. \A j \in Slots \ (S \cup {i}) : next'[j] = next[j] /\ prev'[j] = prev[j]
    BY <1>2, <1>6 DEF AppendToLevel, isEmpty
  <1>8. \A s \in Sides, m \in Levels :
          ~(s = side /\ m = l) => ladder'[s][m] = ladder[s][m]
    BY <1>2 DEF AppendToLevel
  <1>9. \A s \in Sides, m \in Levels :
          ~(s = side /\ m = l) => Placed(N, node, s, m) \subseteq Slots \ (S \cup {i})
    BY DEF Placed
  <1> HIDE DEF S
  <1>10. ASSUME NEW s \in Sides, NEW m \in Levels
         PROVE  Lists(ladder'[s][m], Placed(N \cup {i}, newOrders, s, m),
                      next', prev')
    <2>1. CASE s = side /\ m = l
      BY <1>4, <1>5, <2>1
    <2>2. CASE ~(s = side /\ m = l)
      <3>1. /\ ladder'[s][m] = ladder[s][m]
            /\ Placed(N \cup {i}, newOrders, s, m) = Placed(N, node, s, m)
        BY <1>5, <1>8, <2>2
      <3>2. \A j \in Placed(N, node, s, m) :
              next'[j] = next[j] /\ prev'[j] = prev[j]
        BY <1>7, <1>9, <2>2
      <3>3. Lists(ladder[s][m], Placed(N, node, s, m), next, prev)
        BY DEF AllListed
      <3> QED
        BY <3>1, <3>2, <3>3, KeptList
    <2> QED
      BY <2>1, <2>2
  <1>11. ASSUME NEW s \in Sides, NEW m \in Levels
         PROVE  m \in bits'[s] <=> Placed(N \cup {i}, newOrders, s, m) # {}
    <2>1. m \in bits[s] <=> Placed(N, node, s, m) # {}
      BY DEF AllTold
    <2>2. bits \in [Sides -> SUBSET Levels]
      BY DEF BookTypeOK
    <2>3. m \in bits'[s] <=> m \in bits[s] \/ (s = side /\ m = l)
      BY <2>2
    <2> QED
      BY <1>5, <2>1, <2>3
  <1> QED
    BY <1>10, <1>11 DEF AllListed, AllTold

-----------------------------------------------------------------------------

(* The node a pool that is not full hands out is a free one.                *)
LEMMA HeadIsFree ==
  ASSUME PoolInv, ~full
  PROVE  freeHead \in Slots /\ freeHead \notin Used
  <1>1. PICK s \in [1 .. freeCount -> Slots] :
          Threads(s, freeCount, freeHead, nextFree) /\ Free = Listed(s, freeCount)
    BY DEF PoolInv, FreeListExact
  <1>2. freeCount \in 0 .. MaxOrders /\ MaxOrders \in Nat
    BY MaxOrdersAssumption DEF PoolInv, PoolTypeOK
  <1>3. freeCount # 0 /\ freeHead = s[1] /\ 1 \in 1 .. freeCount
    BY <1>1, <1>2 DEF Threads, full
  <1>4. freeHead \in Free
    BY <1>1, <1>3 DEF Listed
  <1> QED
    BY <1>4 DEF Free, Used

LEMMA UsedAllocated ==
  ASSUME PoolInv, Allocate
  PROVE  Used' = Used \cup {freeHead}
  BY HeadIsFree DEF Allocate, PoolInv, PoolTypeOK, Used

LEMMA UsedDeallocated ==
  ASSUME PoolInv, NEW i \in Used, Deallocate(i)
  PROVE  Used' = Used \ {i}
  BY DEF Deallocate, PoolInv, PoolTypeOK, Used

(* An active node has a side and a level of the ladder.                     *)
LEMMA UsedPlaced ==
  ASSUME UsedValid, NEW i \in Used
  PROVE  /\ i \in Slots /\ node[i] \in Orders
         /\ node[i].side \in Sides
         /\ price_to_index(node[i].price) \in Levels
  BY PriceAssumption
     DEF UsedValid, Used, Orders, Prices, price_to_index, Levels, num_levels

(* What a fill does to the nodes.                                           *)
LEMMA NodeReduced ==
  ASSUME UsedValid, NEW i \in Used, NEW quantity,
         node \in [Slots -> Orders \cup {FreshOrder}],
         node' = [node EXCEPT ![i].quantity = @ - quantity]
  PROVE  /\ \A j \in Slots : /\ node'[j].id = node[j].id
                             /\ node'[j].side = node[j].side
                             /\ node'[j].price = node[j].price
         /\ \A j \in Slots \ {i} : node'[j] = node[j]
         /\ node'[i].quantity = node[i].quantity - quantity
  <1>1. i \in Slots /\ node[i] \in Orders
    BY UsedPlaced
  <1>2. node' = [node EXCEPT ![i] = [node[i] EXCEPT !.quantity = @ - quantity]]
    BY <1>1
  <1> DEFINE less == [node[i] EXCEPT !.quantity = @ - quantity]
  <1>3. /\ less.id = node[i].id /\ less.side = node[i].side
        /\ less.price = node[i].price
        /\ less.quantity = node[i].quantity - quantity
    BY <1>1 DEF Orders
  <1> HIDE DEF less
  <1> QED
    BY <1>1, <1>2, <1>3 DEF less

(* Only what the caller is shown has changed.                               *)
LEMMA StructUnchanged ==
  ASSUME StructInv, UNCHANGED <<poolVars, ladderVars, node, bits, index, frame>>
  PROVE  StructInv'
  <1> USE DEF StructInv, poolVars, ladderVars
  <1>1. BookInv'
    BY DEF BookInv, BookTypeOK, Idle
  <1>2. PoolInv'
    BY DEF PoolInv, PoolTypeOK, FreeListExact, Free
  <1>3. Used' = Used /\ Resting' = Resting
    BY DEF Used, Resting, Idle
  <1>4. UsedValid' /\ IndexExact' /\ RestingPositive'
    BY <1>3 DEF UsedValid, IndexExact, RestingPositive
  <1>5. FrameExact'
    BY <1>3 DEF FrameExact, Idle
  <1>6. LevelChains' /\ BitmapExact'
    BY <1>3, ListsAndBits
  <1> QED
    BY <1>1, <1>2, <1>4, <1>5, <1>6

LEMMA InitStruct == Init => StructInv
  <1> SUFFICES ASSUME Init PROVE StructInv
    OBVIOUS
  <1>1. BookInv /\ PoolInv
    BY InitBook, InitKeepsPool DEF Init
  <1>2. Used = {} /\ Resting = {}
    BY DEF Init, PoolInit, Used, Resting
  <1>3. UsedValid /\ RestingPositive /\ FrameExact
    BY <1>2 DEF UsedValid, RestingPositive, FrameExact, Idle, Init
  <1>4. IndexExact
    BY <1>2 DEF IndexExact, Init
  <1>5. AllTold(Resting, node, bits)
    BY <1>2 DEF AllTold, Placed, Init
  <1>6. \A side \in Sides, l \in Levels :
          /\ ladder[side][l].head = npos /\ ladder[side][l].tail = npos
          /\ Placed(Resting, node, side, l) = {}
    BY <1>2 DEF Init, LadderInit, EmptyLevel, Placed
  <1>7. AllListed(Resting, node, ladder, next, prev)
    BY <1>6, EmptyListed DEF AllListed
  <1> QED
    BY <1>1, <1>3, <1>4, <1>5, <1>7, ListsAndBits DEF StructInv

-----------------------------------------------------------------------------

(* A refused duplicate has written in a free node only.                     *)
LEMMA DuplicateStruct ==
  ASSUME StructInv, NEW order \in Orders, SubmitDuplicate(order)
  PROVE  StructInv'
  <1> USE DEF StructInv
  <1>1. /\ Idle /\ FillNode(freeHead, order)
        /\ UNCHANGED <<poolVars, bits, index, frame>>
        /\ freeHead \in Slots /\ freeHead \notin Used
    BY HeadIsFree DEF SubmitDuplicate
  <1>2. BookInv'
    BY DuplicateKeeps
  <1>3. PoolInv'
    BY <1>1 DEF PoolInv, PoolTypeOK, FreeListExact, Free, poolVars
  <1>4. Used' = Used /\ Idle' /\ Resting' = Used /\ Resting = Used
    BY <1>1 DEF Used, Resting, Idle, poolVars
  <1>5. \A i \in Used : /\ node'[i] = node[i]
                        /\ next'[i] = next[i] /\ prev'[i] = prev[i]
    BY <1>1 DEF FillNode, BookInv, BookTypeOK, Used
  <1>6. UsedValid' /\ IndexExact' /\ RestingPositive' /\ FrameExact'
    BY <1>1, <1>4, <1>5 DEF UsedValid, IndexExact, RestingPositive, FrameExact
  <1>7. SameEnds(ladder, ladder') /\ bits' = bits /\ Used \in SUBSET Slots
    BY <1>1 DEF FillNode, Used, SameEnds
  <1>8. /\ AllListed(Used, node', ladder', next', prev')
        /\ AllTold(Used, node', bits')
    BY <1>4, <1>5, <1>7, ListsAndBits, PlacesKept DEF SamePlaces
  <1> QED
    BY <1>2, <1>3, <1>4, <1>6, <1>8, ListsAndBits

(* An accepted order gets a free node of its own.                           *)
LEMMA AcceptedNodes ==
  ASSUME BookInv, PoolInv, UsedValid, IndexExact,
         NEW order \in Orders, SubmitAccepted(order)
  PROVE  /\ BookInv' /\ PoolInv' /\ UsedValid' /\ IndexExact'
         /\ freeHead \in Slots /\ freeHead \notin Used
         /\ Used' = Used \cup {freeHead}
         /\ Idle /\ ~Idle'
         /\ frame' = [id |-> order.id, side |-> order.side,
                      price |-> order.price, slot |-> freeHead,
                      remaining |-> order.quantity]
         /\ node'[freeHead] = order
         /\ next'[freeHead] = npos /\ prev'[freeHead] = npos
         /\ \A i \in Used : /\ node'[i] = node[i]
                            /\ next'[i] = next[i] /\ prev'[i] = prev[i]
         /\ ladder' = ladder /\ bits' = bits
  <1>1. /\ Idle /\ Allocate /\ FillNode(freeHead, order)
        /\ index' = [index EXCEPT ![order.id] = freeHead]
        /\ index[order.id] = npos /\ bits' = bits
        /\ frame' = [id |-> order.id, side |-> order.side,
                     price |-> order.price, slot |-> freeHead,
                     remaining |-> order.quantity]
        /\ freeHead \in Slots /\ freeHead \notin Used
    BY HeadIsFree DEF SubmitAccepted
  <1>2. BookInv'
    BY AcceptedKeeps
  <1>3. PoolInv'
    BY <1>1, AllocateKeepsPool
  <1>4. Used' = Used \cup {freeHead}
    BY <1>1, UsedAllocated
  <1>5. ~Idle' /\ frame' \in Frames
    <2>1. order.price \in Prices
      <3>1. order.price \in Int
        BY InputAssumption DEF Orders
      <3> QED
        BY <3>1, PriceAssumption DEF SubmitAccepted, valid_price, Prices
    <2>2. frame' \in Frames
      BY <1>1, <2>1 DEF Frames, Orders
    <2> QED
      BY <1>1, <2>2, NoCallAssumption DEF Idle
  <1>6. /\ node'[freeHead] = order
        /\ next'[freeHead] = npos /\ prev'[freeHead] = npos
        /\ \A i \in Used : /\ node'[i] = node[i]
                           /\ next'[i] = next[i] /\ prev'[i] = prev[i]
        /\ ladder' = ladder
    BY <1>1 DEF FillNode, BookInv, BookTypeOK, Used
  <1>7. UsedValid'
    BY <1>1, <1>4, <1>5, <1>6 DEF UsedValid, Frames
  <1>8. IndexExact'
    <2>1. order.id \in OrderIds /\ npos # freeHead
      BY <1>1, NposIsNoSlot DEF Orders
    <2>2. \A id \in OrderIds :
            index'[id] = IF id = order.id THEN freeHead ELSE index[id]
      BY <1>1 DEF BookInv, BookTypeOK
    <2>3. \A i \in Used : node[i].id # order.id
      <3>1. \A i \in Used : i \in Slots
        BY DEF Used
      <3> QED
        BY <1>1, <3>1, NposIsNoSlot DEF IndexExact
    <2> QED
      BY <1>4, <1>6, <2>1, <2>2, <2>3 DEF IndexExact
  <1> QED
    BY <1>1, <1>2, <1>3, <1>4, <1>5, <1>6, <1>7, <1>8

(* It is on no level yet.                                                   *)
LEMMA AcceptedStruct ==
  ASSUME StructInv, NEW order \in Orders, SubmitAccepted(order)
  PROVE  StructInv'
  <1> USE DEF StructInv
  <1>1. /\ BookInv' /\ PoolInv' /\ UsedValid' /\ IndexExact'
        /\ freeHead \notin Used /\ Used' = Used \cup {freeHead}
        /\ Idle /\ ~Idle' /\ frame'.slot = freeHead
        /\ frame'.id = order.id /\ frame'.side = order.side
        /\ frame'.price = order.price
        /\ node'[freeHead] = order
        /\ next'[freeHead] = npos /\ prev'[freeHead] = npos
        /\ \A i \in Used : /\ node'[i] = node[i]
                           /\ next'[i] = next[i] /\ prev'[i] = prev[i]
        /\ ladder' = ladder /\ bits' = bits
    BY AcceptedNodes
  <1>2. Resting = Used /\ Resting' = Used
    BY <1>1 DEF Resting
  <1>3. FrameExact' /\ RestingPositive'
    BY <1>1, <1>2 DEF FrameExact, RestingPositive
  <1>4. SameEnds(ladder, ladder') /\ Used \in SUBSET Slots
    BY <1>1 DEF Used, SameEnds
  <1>5. /\ AllListed(Used, node', ladder', next', prev')
        /\ AllTold(Used, node', bits')
    BY <1>1, <1>2, <1>4, ListsAndBits, PlacesKept DEF SamePlaces
  <1> QED
    BY <1>1, <1>2, <1>3, <1>5, ListsAndBits

(* The node of an order that rests takes what is left of it.                *)
LEMMA RestsNodes ==
  ASSUME BookInv, PoolInv, UsedValid, IndexExact, MatchRests,
         frame.slot \in Used
  PROVE  /\ BookInv' /\ PoolInv' /\ UsedValid' /\ IndexExact'
         /\ Used' = Used /\ Idle'
         /\ \A j \in Slots : /\ node'[j].id = node[j].id
                             /\ node'[j].side = node[j].side
                             /\ node'[j].price = node[j].price
         /\ \A j \in Slots \ {frame.slot} : node'[j] = node[j]
         /\ node'[frame.slot].quantity > 0
  <1> DEFINE i == frame.slot
  <1>1. /\ ~Idle /\ frame.remaining > 0
        /\ node' = [node EXCEPT ![i].quantity = frame.remaining]
        /\ frame' = NoCall /\ UNCHANGED <<poolVars, index>>
    BY DEF MatchRests
  <1>2. BookInv'
    BY RestsKeeps
  <1>3. PoolInv' /\ Used' = Used
    BY <1>1 DEF PoolInv, PoolTypeOK, FreeListExact, Free, Used, poolVars
  <1>4. i \in Slots /\ node[i] \in Orders /\ Used \in SUBSET Slots
    BY UsedPlaced DEF Used
  <1>5. /\ \A j \in Slots : /\ node'[j].id = node[j].id
                            /\ node'[j].side = node[j].side
                            /\ node'[j].price = node[j].price
        /\ \A j \in Slots \ {i} : node'[j] = node[j]
        /\ node'[i].quantity = frame.remaining
    <2> DEFINE put == [node[i] EXCEPT !.quantity = frame.remaining]
    <2>1. node' = [node EXCEPT ![i] = put]
      BY <1>1
    <2>2. /\ put.id = node[i].id /\ put.side = node[i].side
          /\ put.price = node[i].price /\ put.quantity = frame.remaining
      BY <1>4 DEF Orders
    <2> HIDE DEF put
    <2> QED
      BY <1>4, <2>1, <2>2 DEF BookInv, BookTypeOK
  <1>6. UsedValid'
    <2>1. node'[i] \in Orders
      <3>1. frame.remaining \in Quantities
        BY <1>1 DEF BookInv, BookTypeOK, Idle, Frames
      <3>2. node' = [node EXCEPT ![i] =
                       [node[i] EXCEPT !.quantity = frame.remaining]]
        BY <1>1
      <3> QED
        BY <1>4, <3>1, <3>2 DEF Orders, BookInv, BookTypeOK
    <2> QED
      BY <1>3, <1>4, <1>5, <2>1 DEF UsedValid
  <1>7. IndexExact'
    BY <1>1, <1>3, <1>4, <1>5 DEF IndexExact, BookInv, BookTypeOK
  <1>8. Idle'
    BY <1>1 DEF Idle
  <1> QED
    BY <1>1, <1>2, <1>3, <1>5, <1>6, <1>7, <1>8

(* It joins the level of its price.                                         *)
LEMMA RestsStruct ==
  ASSUME StructInv, MatchRests
  PROVE  StructInv'
  <1> USE DEF StructInv
  <1> DEFINE i == frame.slot
             l == price_to_index(frame.price)
  <1>1. /\ ~Idle /\ AppendToLevel(frame.side, l, i, frame.remaining)
        /\ bits' = [bits EXCEPT ![frame.side] = @ \cup {l}]
        /\ i \in Used
    BY DEF MatchRests, FrameExact
  <1>2. /\ BookInv' /\ PoolInv' /\ UsedValid' /\ IndexExact'
        /\ Used' = Used /\ Idle'
        /\ \A j \in Slots : /\ node'[j].id = node[j].id
                            /\ node'[j].side = node[j].side
                            /\ node'[j].price = node[j].price
        /\ \A j \in Slots \ {i} : node'[j] = node[j]
        /\ node'[i].quantity > 0
    BY <1>1, RestsNodes
  <1>3. Resting' = Used /\ Resting = Used \ {i}
    BY <1>1, <1>2 DEF Resting
  <1>4. /\ i \in Slots /\ frame.side \in Sides
        /\ l \in Levels /\ node[i].side = frame.side
        /\ node[i].price = frame.price /\ next[i] = npos /\ prev[i] = npos
    BY <1>1, UsedPlaced DEF FrameExact
  <1>5. Used \in SUBSET Slots
    BY DEF Used
  <1>6. FrameExact' /\ RestingPositive'
    BY <1>2, <1>3, <1>5 DEF FrameExact, RestingPositive
  <1>7. /\ AllListed(Resting \cup {i}, node', ladder', next', prev')
        /\ AllTold(Resting \cup {i}, node', bits')
    <2>1. Resting \in SUBSET Slots /\ i \in Slots \ Resting
      BY <1>3, <1>4, <1>5
    <2>2. BookTypeOK
      BY DEF BookInv
    <2>3. node'[i].side = frame.side /\ price_to_index(node'[i].price) = l
      BY <1>2, <1>4
    <2>4. \A j \in Resting : /\ node'[j].side = node[j].side
                             /\ node'[j].price = node[j].price
      BY <1>2, <2>1
    <2>5. AllListed(Resting, node, ladder, next, prev) /\ AllTold(Resting, node, bits)
      BY ListsAndBits
    <2> HIDE DEF i, l
    <2> QED
      BY <1>1, <1>4, <2>1, <2>2, <2>3, <2>4, <2>5, PlaceTaken
  <1>8. Resting' = Resting \cup {i}
    BY <1>1, <1>3
  <1> QED
    BY <1>2, <1>6, <1>7, <1>8, ListsAndBits

-----------------------------------------------------------------------------

(* The active nodes and the index after an active node i has been given     *)
(* back and its id erased.                                                  *)
LEMMA NodeLeft ==
  ASSUME BookInv, PoolInv, UsedValid, IndexExact, NEW i \in Used, Deallocate(i),
         index' = [index EXCEPT ![node[i].id] = npos],
         \A j \in Slots : /\ node'[j].id = node[j].id
                          /\ node'[j].side = node[j].side
                          /\ node'[j].price = node[j].price,
         \A j \in Slots \ {i} : node'[j] = node[j]
  PROVE  PoolInv' /\ Used' = Used \ {i} /\ UsedValid' /\ IndexExact'
  <1>1. i \in Slots /\ Used \subseteq Slots
    BY DEF Used
  <1>2. PoolInv' /\ Used' = Used \ {i}
    BY DeallocateKeepsPool, UsedDeallocated
  <1>3. UsedValid'
    BY <1>1, <1>2 DEF UsedValid
  <1>4. IndexExact'
    <2>0. node[i].id \in OrderIds /\ index[node[i].id] = i
      BY DEF IndexExact
    <2>1. \A id \in OrderIds :
            index'[id] = IF id = node[i].id THEN npos ELSE index[id]
      BY <2>0 DEF BookInv, BookTypeOK
    <2>2. \A j \in Used \ {i} : node[j].id # node[i].id
      BY <2>0 DEF IndexExact
    <2>3. \A id \in OrderIds : index'[id] # npos =>
            index'[id] \in Used' /\ node'[index'[id]].id = id
      <3> SUFFICES ASSUME NEW id \in OrderIds, index'[id] # npos
                   PROVE  index'[id] \in Used' /\ node'[index'[id]].id = id
        OBVIOUS
      <3>1. id # node[i].id /\ index'[id] = index[id]
        BY <2>1
      <3>2. index[id] \in Used /\ node[index[id]].id = id
        BY <3>1 DEF IndexExact
      <3>3. index[id] # i
        BY <3>1, <3>2
      <3> QED
        BY <1>1, <1>2, <3>1, <3>2, <3>3
    <2>4. \A j \in Used' : node'[j].id \in OrderIds /\ index'[node'[j].id] = j
      <3> SUFFICES ASSUME NEW j \in Used \ {i}
                   PROVE  node'[j].id \in OrderIds /\ index'[node'[j].id] = j
        BY <1>2
      <3>1. node'[j].id = node[j].id
        BY <1>1
      <3> QED
        BY <2>1, <2>2, <3>1 DEF IndexExact
    <2> QED
      BY <2>3, <2>4 DEF IndexExact
  <1> QED
    BY <1>2, <1>3, <1>4

(* A spent submit gives its node back, which was on no level.               *)
LEMMA FilledStruct ==
  ASSUME StructInv, MatchFilled
  PROVE  StructInv'
  <1> USE DEF StructInv
  <1> DEFINE i == frame.slot
  <1>1. /\ ~Idle /\ Deallocate(i) /\ frame' = NoCall
        /\ index' = [index EXCEPT ![frame.id] = npos]
        /\ UNCHANGED <<ladderVars, node, bits>>
    BY DEF MatchFilled
  <1>2. i \in Used /\ node[i].id = frame.id
    BY <1>1 DEF FrameExact
  <1>3. BookInv'
    BY FilledKeeps
  <1>4. PoolInv' /\ Used' = Used \ {i} /\ UsedValid' /\ IndexExact'
    <2>1. index' = [index EXCEPT ![node[i].id] = npos]
      BY <1>1, <1>2
    <2> HIDE DEF i
    <2> QED
      BY <1>1, <1>2, <2>1, NodeLeft
  <1>5. Idle' /\ Resting' = Used \ {i} /\ Resting = Used \ {i}
    BY <1>1, <1>4 DEF Idle, Resting
  <1>6. FrameExact' /\ RestingPositive'
    BY <1>1, <1>5 DEF FrameExact, RestingPositive
  <1>7. LevelChains' /\ BitmapExact'
    BY <1>1, <1>5, ListsAndBits DEF ladderVars
  <1> QED
    BY <1>3, <1>4, <1>6, <1>7

(* The other resting orders are left.                                       *)
LEMMA RestingLeft ==
  ASSUME UsedValid, RestingPositive, NEW i \in Resting, Used' = Used \ {i},
         \A j \in Slots \ {i} : node'[j] = node[j],
         Idle' <=> Idle, ~Idle => frame'.slot = frame.slot
  PROVE  Resting' = Resting \ {i} /\ RestingPositive'
  <1>1. Resting' = Resting \ {i}
    BY DEF Resting
  <1>2. Resting \subseteq Slots
    BY DEF Resting, Used
  <1> QED
    BY <1>1, <1>2 DEF RestingPositive

(* The lists of the other nodes and the node of the running submit after    *)
(* the resting node i has been unlinked from its level.                     *)
LEMMA LevelLeft ==
  ASSUME StructInv, NEW i \in Resting, NEW side, NEW l, NEW level, NEW quantity,
         side = node[i].side, l = price_to_index(node[i].price),
         level.head = ladder[side][l].head, level.tail = ladder[side][l].tail,
         TakenOff(side, l, level, i, quantity),
         \A j \in Slots : /\ node'[j].side = node[j].side
                          /\ node'[j].price = node[j].price,
         Resting' = Resting \ {i}
  PROVE  /\ LevelChains' /\ BitmapExact'
         /\ ~Idle => prev'[frame.slot] = npos /\ next'[frame.slot] = npos
  <1> USE DEF StructInv
  <1>1. Resting \in SUBSET Slots /\ i \in Used /\ i \in Slots
    BY DEF Resting, Used
  <1>2. side \in Sides /\ l \in Levels
    BY <1>1, UsedPlaced
  <1>3. BookTypeOK
    BY DEF BookInv
  <1>4. AllListed(Resting, node, ladder, next, prev) /\ AllTold(Resting, node, bits)
    BY ListsAndBits
  <1>5. \A j \in Resting : node'[j].side = node[j].side /\ node'[j].price = node[j].price
    BY <1>1
  <1>6. /\ AllListed(Resting \ {i}, node', ladder', next', prev')
        /\ AllTold(Resting \ {i}, node', bits')
    BY <1>1, <1>2, <1>3, <1>4, <1>5, PlaceLeft
  <1>7. ASSUME ~Idle
        PROVE  prev'[frame.slot] = npos /\ next'[frame.slot] = npos
    <2>1. /\ frame.slot \in Slots /\ frame.slot \notin Resting
          /\ prev[frame.slot] = npos /\ next[frame.slot] = npos
      BY <1>7 DEF FrameExact, Resting, Used
    <2> DEFINE S == Placed(Resting, node, side, l)
    <2>2. S \in SUBSET Slots /\ S \subseteq Resting /\ i \in S
      BY <1>1 DEF Placed
    <2>3. Lists(ladder[side][l], S, next, prev)
      BY <1>2, <1>4 DEF AllListed
    <2>4. next[i] \in S \cup {npos} /\ prev[i] \in S \cup {npos}
      <3> HIDE DEF S
      <3> QED
        BY <2>2, <2>3, ListedLinks
    <2>5. next[i] # frame.slot /\ prev[i] # frame.slot
      BY <2>1, <2>2, <2>4, NposIsNoSlot
    <2> QED
      BY <1>3, <2>1, <2>5 DEF TakenOff, UnlinkNeighbours, BookTypeOK
  <1> QED
    BY <1>6, <1>7, ListsAndBits

-----------------------------------------------------------------------------

(* cancel() of an id the index knows takes the resting order that has it.   *)
LEMMA CancelledStruct ==
  ASSUME StructInv, NEW id \in OrderIds, Cancelled(id)
  PROVE  StructInv'
  <1> USE DEF StructInv
  <1> DEFINE i == index[id]
             side == node[i].side
             l == price_to_index(node[i].price)
  <1>1. /\ Idle /\ i # npos /\ Deallocate(i)
        /\ TakenOff(side, l, ladder[side][l], i, node[i].quantity)
        /\ index' = [index EXCEPT ![id] = npos]
        /\ node' = node /\ frame' = frame
    BY DEF Cancelled, TakenOff
  <1>2. i \in Used /\ node[i].id = id
    BY <1>1 DEF IndexExact
  <1>3. i \in Resting /\ Idle'
    BY <1>1, <1>2 DEF Resting, Idle
  <1>4. /\ PoolInv' /\ Resting' = Resting \ {i}
        /\ UsedValid' /\ IndexExact' /\ RestingPositive'
    <2>1. index' = [index EXCEPT ![node[i].id] = npos]
      BY <1>1, <1>2
    <2> HIDE DEF i
    <2> QED
      BY <1>1, <1>2, <1>3, <2>1, NodeLeft, RestingLeft
  <1>5. LevelChains' /\ BitmapExact'
    <2> DEFINE level == ladder[side][l]
               quantity == node[i].quantity
    <2>1. side = node[i].side /\ l = price_to_index(node[i].price)
      OBVIOUS
    <2>2. level.head = ladder[side][l].head /\ level.tail = ladder[side][l].tail
      OBVIOUS
    <2>3. TakenOff(side, l, level, i, quantity)
      BY <1>1
    <2>4. \A j \in Slots : node'[j].side = node[j].side /\ node'[j].price = node[j].price
      BY <1>1
    <2> HIDE DEF i, side, l, level, quantity
    <2> QED
      BY <1>3, <1>4, <2>1, <2>2, <2>3, <2>4, LevelLeft
  <1>6. FrameExact'
    BY <1>3 DEF FrameExact
  <1>7. BookInv'
    BY CancelledKeeps
  <1> QED
    BY <1>4, <1>5, <1>6, <1>7

(* The head of the best opposite level is a resting order: the bits and the *)
(* lists are exact, so the loop never meets a stale bit.                    *)
LEMMA HeadRests ==
  ASSUME StructInv, ~Idle, Crossing, NEW opp, opp = opposite(frame.side),
         NEW l, l = price_to_index(best_price(opp))
  PROVE  /\ opp \in Sides /\ l \in Levels
         /\ ladder[opp][l].head \in Resting
         /\ node[ladder[opp][l].head].side = opp
         /\ price_to_index(node[ladder[opp][l].head].price) = l
  <1> USE DEF StructInv
  <1>1. opp \in Sides /\ l \in Levels
    BY BestLevel
  <1>2. l \in bits[opp]
    BY <1>1, BestPriceIsSet DEF Crossing, BookInv
  <1> DEFINE S == Placed(Resting, node, opp, l)
  <1>3. AllListed(Resting, node, ladder, next, prev) /\ AllTold(Resting, node, bits)
    BY ListsAndBits
  <1>4. S # {} /\ Lists(ladder[opp][l], S, next, prev)
    BY <1>1, <1>2, <1>3 DEF AllTold, AllListed
  <1>5. S \in SUBSET Slots
    BY DEF Placed, Resting, Used
  <1>6. ladder[opp][l].head \in S
    <2> HIDE DEF S
    <2> QED
      BY <1>4, <1>5, ListedLinks
  <1> QED
    BY <1>1, <1>6 DEF Placed

(* A fill that leaves something of an order i: its node still carries it,   *)
(* and no list changes.                                                     *)
LEMMA FillPartNodes ==
  ASSUME BookInv, BookInv', PoolInv, UsedValid, IndexExact,
         NEW opp \in Sides, NEW l \in Levels,
         NEW i \in Used, NEW quantity \in Int,
         quantity < node[i].quantity, FillPart(opp, l, i, quantity)
  PROVE  /\ PoolInv' /\ UsedValid' /\ IndexExact' /\ Used' = Used
         /\ \A j \in Slots : /\ node'[j].id = node[j].id
                             /\ node'[j].side = node[j].side
                             /\ node'[j].price = node[j].price
         /\ \A j \in Slots \ {i} : node'[j] = node[j]
         /\ node'[i].quantity > 0
         /\ SameEnds(ladder, ladder')
         /\ UNCHANGED <<prev, next, bits>>
  <1>1. i \in Slots /\ Used \subseteq Slots
    BY DEF Used
  <1>2. /\ ladder' = [ladder EXCEPT ![opp][l].total_quantity =
                        (@ - quantity) % QtyModulus]
        /\ node' = [node EXCEPT ![i].quantity = @ - quantity]
        /\ UNCHANGED <<poolVars, prev, next, bits, index>>
    BY DEF FillPart
  <1>3. /\ \A j \in Slots : /\ node'[j].id = node[j].id
                            /\ node'[j].side = node[j].side
                            /\ node'[j].price = node[j].price
        /\ \A j \in Slots \ {i} : node'[j] = node[j]
        /\ node'[i].quantity = node[i].quantity - quantity
    BY <1>1, <1>2, NodeReduced DEF BookInv, BookTypeOK
  <1>4. PoolInv' /\ Used' = Used
    BY <1>2 DEF PoolInv, PoolTypeOK, FreeListExact, Free, Used, poolVars
  <1>5. node'[i].quantity > 0
    <2>1. node[i].quantity \in Int
      BY UsedPlaced, InputAssumption DEF Orders, Quantities
    <2> QED
      BY <1>3, <2>1
  <1>6. UsedValid'
    <2>1. node'[i] \in Orders
      <3>1. node'[i] \in Orders \cup {FreshOrder}
        BY <1>1 DEF BookInv, BookTypeOK
      <3> QED
        BY <1>5, <3>1 DEF FreshOrder
    <2> QED
      BY <1>1, <1>3, <1>4, <2>1 DEF UsedValid
  <1>7. IndexExact'
    BY <1>1, <1>2, <1>3, <1>4 DEF IndexExact, BookInv, BookTypeOK
  <1>8. SameEnds(ladder, ladder')
    <2> DEFINE less == [ladder[opp][l] EXCEPT !.total_quantity =
                          (@ - quantity) % QtyModulus]
    <2>1. ladder' = [ladder EXCEPT ![opp][l] = less]
      BY <1>2 DEF BookInv, BookTypeOK
    <2>2. less.head = ladder[opp][l].head /\ less.tail = ladder[opp][l].tail
      BY DEF BookInv, BookTypeOK, PriceLevel
    <2> HIDE DEF less
    <2> QED
      BY <2>1, <2>2 DEF BookInv, BookTypeOK, SameEnds
  <1> QED
    BY <1>2, <1>3, <1>4, <1>5, <1>6, <1>7, <1>8

LEMMA FillPartStruct ==
  ASSUME StructInv, BookInv', NEW opp \in Sides, NEW l \in Levels,
         NEW i \in Resting, NEW quantity \in Int,
         quantity < node[i].quantity,
         FillPart(opp, l, i, quantity),
         ~Idle, ~Idle', frame' = [frame EXCEPT !.remaining = @ - quantity]
  PROVE  StructInv'
  <1> USE DEF StructInv
  <1>1. i \in Used /\ Used \subseteq Slots /\ Resting \in SUBSET Slots
    BY DEF Resting, Used
  <1>2. /\ PoolInv' /\ UsedValid' /\ IndexExact' /\ Used' = Used
        /\ \A j \in Slots : /\ node'[j].id = node[j].id
                            /\ node'[j].side = node[j].side
                            /\ node'[j].price = node[j].price
        /\ \A j \in Slots \ {i} : node'[j] = node[j]
        /\ node'[i].quantity > 0
        /\ SameEnds(ladder, ladder')
        /\ UNCHANGED <<prev, next, bits>>
    BY <1>1, FillPartNodes
  <1>3. /\ frame'.slot = frame.slot /\ frame'.id = frame.id
        /\ frame'.side = frame.side /\ frame'.price = frame.price
    BY DEF BookInv, BookTypeOK, Idle, Frames
  <1>4. Resting' = Resting
    BY <1>2, <1>3 DEF Resting
  <1>5. FrameExact' /\ RestingPositive'
    BY <1>1, <1>2, <1>3, <1>4 DEF FrameExact, RestingPositive
  <1>6. /\ AllListed(Resting, node', ladder', next', prev')
        /\ AllTold(Resting, node', bits')
    <2>1. AllListed(Resting, node, ladder, next, prev) /\ AllTold(Resting, node, bits)
      BY ListsAndBits
    <2>2. SamePlaces(Resting, node, node', next, next', prev, prev')
      BY <1>1, <1>2 DEF SamePlaces
    <2> HIDE DEF StructInv
    <2>3. /\ AllListed(Resting, node', ladder', next', prev')
          /\ AllTold(Resting, node', bits)
      BY <1>1, <1>2, <2>1, <2>2, PlacesKept
    <2> QED
      BY <1>2, <2>3
  <1> QED
    BY <1>2, <1>4, <1>5, <1>6, ListsAndBits

(* A fill that takes all of the resting order i.                            *)
LEMMA FillWholeStruct ==
  ASSUME StructInv, BookInv', NEW opp \in Sides, NEW l \in Levels,
         NEW i \in Resting, node[i].side = opp,
         price_to_index(node[i].price) = l, NEW quantity,
         FillWhole(opp, l, i, quantity),
         ~Idle, ~Idle', frame' = [frame EXCEPT !.remaining = @ - quantity]
  PROVE  StructInv'
  <1> USE DEF StructInv
  <1> DEFINE level == [ladder[opp][l] EXCEPT !.total_quantity =
                         (@ - quantity) % QtyModulus]
  <1>1. i \in Used /\ i \in Slots /\ Used \subseteq Slots /\ Resting \subseteq Slots
    BY DEF Resting, Used
  <1>2. /\ node' = [node EXCEPT ![i].quantity = @ - quantity]
        /\ TakenOff(opp, l, level, i, quantity)
        /\ index' = [index EXCEPT ![node[i].id] = npos]
        /\ Deallocate(i)
    BY DEF FillWhole, TakenOff
  <1>3. /\ \A j \in Slots : /\ node'[j].id = node[j].id
                            /\ node'[j].side = node[j].side
                            /\ node'[j].price = node[j].price
        /\ \A j \in Slots \ {i} : node'[j] = node[j]
    BY <1>1, <1>2, NodeReduced DEF BookInv, BookTypeOK
  <1>4. /\ frame'.slot = frame.slot /\ frame'.id = frame.id
        /\ frame'.side = frame.side /\ frame'.price = frame.price
    BY DEF BookInv, BookTypeOK, Idle, Frames
  <1>5. /\ PoolInv' /\ Resting' = Resting \ {i} /\ Used' = Used \ {i}
        /\ UsedValid' /\ IndexExact' /\ RestingPositive'
    BY <1>1, <1>2, <1>3, <1>4, NodeLeft, RestingLeft
  <1>6. /\ LevelChains' /\ BitmapExact'
        /\ prev'[frame.slot] = npos /\ next'[frame.slot] = npos
    <2>1. level.head = ladder[opp][l].head /\ level.tail = ladder[opp][l].tail
      BY DEF BookInv, BookTypeOK, PriceLevel
    <2> HIDE DEF level
    <2> QED
      BY <1>2, <1>3, <1>5, <2>1, LevelLeft
  <1>7. FrameExact'
    <2>1. frame.slot \in Used /\ frame.slot # i
      BY DEF FrameExact, Resting
    <2> QED
      BY <1>1, <1>3, <1>4, <1>5, <1>6, <2>1 DEF FrameExact
  <1> QED
    BY <1>5, <1>6, <1>7

LEMMA MatchStepStruct ==
  ASSUME StructInv, MatchStep
  PROVE  StructInv'
  <1> USE DEF StructInv
  <1> DEFINE opp == opposite(frame.side)
             l == price_to_index(best_price(opp))
             i == ladder[opp][l].head
             quantity == IF frame.remaining < node[i].quantity
                         THEN frame.remaining ELSE node[i].quantity
  <1>1. ~Idle /\ Crossing
    BY DEF MatchStep
  <1>2. /\ opp \in Sides /\ l \in Levels /\ i \in Resting
        /\ node[i].side = opp /\ price_to_index(node[i].price) = l
    BY <1>1, HeadRests
  <1>3. i \in Slots /\ i # npos /\ node[i] \in Orders
    BY <1>2, NposIsNoSlot, UsedPlaced DEF Resting, Used
  <1>4. /\ frame' = [frame EXCEPT !.remaining = @ - quantity]
        /\ \/ quantity < node[i].quantity /\ FillPart(opp, l, i, quantity)
           \/ FillWhole(opp, l, i, quantity)
    BY <1>3 DEF MatchStep
  <1>5. quantity \in Int
    <2>1. frame.remaining \in Int /\ node[i].quantity \in Int
      BY <1>1, <1>3, InputAssumption
         DEF BookInv, BookTypeOK, Idle, Frames, Orders, Quantities
    <2> QED
      BY <2>1
  <1>6. BookInv'
    BY MatchStepKeeps
  <1> HIDE DEF quantity, i, l, opp
  <1>7. ~Idle'
    <2>1. node' = [node EXCEPT ![i].quantity = @ - quantity]
      BY <1>4 DEF FillPart, FillWhole
    <2>2. frame \in Frames /\ frame.remaining \in Quantities
      BY <1>1 DEF BookInv, BookTypeOK, Idle, Frames
    <2>3. quantity = IF frame.remaining < node[i].quantity
                     THEN frame.remaining ELSE node[i].quantity
      BY DEF quantity
    <2>4. frame' \in Frames
      BY <1>1, <1>3, <1>4, <2>1, <2>3, TradeKeeps
    <2> QED
      BY <2>4, NoCallAssumption DEF Idle
  <1> QED
    BY <1>1, <1>2, <1>4, <1>5, <1>6, <1>7, FillPartStruct, FillWholeStruct

LEMMA ClearStruct ==
  ASSUME StructInv, Clear
  PROVE  StructInv'
  <1> USE DEF StructInv
  <1>1. BookInv' /\ PoolInv' /\ Idle'
    BY ClearKeeps, ClearKeepsPool DEF Clear, Idle
  <1>2. Used' = {} /\ Resting' = {}
    BY DEF Clear, PoolClear, Used, Resting
  <1>3. UsedValid' /\ RestingPositive' /\ FrameExact'
    BY <1>1, <1>2 DEF UsedValid, RestingPositive, FrameExact
  <1>4. IndexExact'
    BY <1>2 DEF IndexExact, Clear
  <1>5. AllTold(Resting', node', bits')
    BY <1>2 DEF AllTold, Placed, Clear
  <1>6. \A side \in Sides, l \in Levels :
          /\ ladder'[side][l].head = npos /\ ladder'[side][l].tail = npos
          /\ Placed(Resting', node', side, l) = {}
    BY <1>2 DEF Clear, LadderClear, EmptyLevel, Placed
  <1>7. AllListed(Resting', node', ladder', next', prev')
    BY <1>6, EmptyListed DEF AllListed
  <1> QED
    BY <1>1, <1>3, <1>4, <1>5, <1>7, ListsAndBits

-----------------------------------------------------------------------------

LEMMA StructStep ==
  ASSUME StructInv, [Next]_vars
  PROVE  StructInv'
  <1>1. ASSUME NEW order \in Orders, SubmitRefused(order)
        PROVE  StructInv'
    BY <1>1, StructUnchanged DEF SubmitRefused
  <1>2. ASSUME NEW order \in Orders, SubmitDuplicate(order)
        PROVE  StructInv'
    BY <1>2, DuplicateStruct
  <1>3. ASSUME NEW order \in Orders, SubmitAccepted(order)
        PROVE  StructInv'
    BY <1>3, AcceptedStruct
  <1>4. CASE MatchStep
    BY <1>4, MatchStepStruct
  <1>5. CASE MatchRests
    BY <1>5, RestsStruct
  <1>6. CASE MatchFilled
    BY <1>6, FilledStruct
  <1>7. ASSUME NEW id \in OrderIds, CancelMissed(id)
        PROVE  StructInv'
    BY <1>7, StructUnchanged DEF CancelMissed
  <1>8. ASSUME NEW id \in OrderIds, Cancelled(id)
        PROVE  StructInv'
    BY <1>8, CancelledStruct
  <1>9. CASE Clear
    BY <1>9, ClearStruct
  <1>10. CASE UNCHANGED vars
    BY <1>10, StructUnchanged DEF vars, bookVars
  <1> QED
    BY <1>1, <1>2, <1>3, <1>4, <1>5, <1>6, <1>7, <1>8, <1>9, <1>10
       DEF Next, Matching

(* The inductive invariant of the whole runtime book.                       *)
THEOREM BookStructure == Spec => []StructInv
  <1>1. StructInv /\ [Next]_vars => StructInv'
    BY StructStep
  <1> QED
    BY <1>1, InitStruct, PTL DEF Spec

(* The intrusive lists of all levels hold each resting order exactly once   *)
(* (LevelChains): append_to_level and unlink_from_level (price_level.hpp)   *)
(* lose none, leave none behind, and never lead into another level.         *)
THEOREM BookLevelChains == Spec => []LevelChains
  <1>1. StructInv => LevelChains
    BY DEF StructInv
  <1> QED
    BY <1>1, BookStructure, PTL

(* The bitmap tells exactly the levels that hold orders (BitmapExact),      *)
(* between two trades too, so the best prices are those of resting orders.  *)
THEOREM BookBitmapExact == Spec => []BitmapExact
  <1>1. StructInv => BitmapExact
    BY DEF StructInv
  <1> QED
    BY <1>1, BookStructure, PTL

(* The index and the active nodes name each other (IndexExact): cancel()    *)
(* never takes a node that is free or has been reused.                      *)
THEOREM BookIndexExact == Spec => []IndexExact
  <1>1. StructInv => IndexExact
    BY DEF StructInv
  <1> QED
    BY <1>1, BookStructure, PTL

(* No resting order is empty (RestingPositive), so every turn of the        *)
(* matching loop trades something.                                          *)
THEOREM BookRestingPositive == Spec => []RestingPositive
  <1>1. StructInv => RestingPositive
    BY DEF StructInv
  <1> QED
    BY <1>1, BookStructure, PTL

(* The node of the running submit is its own and on no level (FrameExact).  *)
THEOREM BookFrameExact == Spec => []FrameExact
  <1>1. StructInv => FrameExact
    BY DEF StructInv
  <1> QED
    BY <1>1, BookStructure, PTL

(* Every step of the book is one the pool allows its clients: no call gives *)
(* back a node that is not active (deallocate() does not look), and none    *)
(* changes the free list in another way.                                    *)
LEMMA StepUsesPool ==
  ASSUME StructInv, [Next]_vars
  PROVE  [PoolNext]_poolVars
  <1> USE DEF StructInv
  <1>1. CASE UNCHANGED poolVars
    BY <1>1
  <1>2. ASSUME NEW order \in Orders, SubmitAccepted(order)
        PROVE  PoolNext
    BY <1>2 DEF SubmitAccepted, PoolNext
  <1>3. CASE MatchFilled
    <2>1. frame.slot \in Used /\ Deallocate(frame.slot)
      BY <1>3 DEF MatchFilled, FrameExact
    <2> QED
      BY <2>1 DEF PoolNext
  <1>4. ASSUME NEW id \in OrderIds, Cancelled(id)
        PROVE  PoolNext
    <2>1. index[id] \in Used /\ Deallocate(index[id])
      BY <1>4 DEF Cancelled, IndexExact
    <2> QED
      BY <2>1 DEF PoolNext
  <1>5. CASE MatchStep
    <2> DEFINE opp == opposite(frame.side)
               l == price_to_index(best_price(opp))
               i == ladder[opp][l].head
               quantity == IF frame.remaining < node[i].quantity
                           THEN frame.remaining ELSE node[i].quantity
    <2>1. ~Idle /\ Crossing
      BY <1>5 DEF MatchStep
    <2>2. i \in Resting
      BY <2>1, HeadRests
    <2>3. i # npos /\ i \in Used
      BY <2>2, NposIsNoSlot DEF Resting, Used
    <2>4. FillPart(opp, l, i, quantity) \/ FillWhole(opp, l, i, quantity)
      BY <1>5, <2>3 DEF MatchStep
    <2> HIDE DEF quantity, i, l, opp
    <2> QED
      BY <2>3, <2>4 DEF FillPart, FillWhole, PoolNext
  <1>6. CASE Clear
    BY <1>6 DEF Clear, PoolNext
  <1> QED
    BY <1>1, <1>2, <1>3, <1>4, <1>5, <1>6
       DEF Next, Matching, SubmitRefused, SubmitDuplicate, MatchRests,
           CancelMissed, vars

(* The book uses its pool by the contract of the pool (PoolContract).       *)
THEOREM BookUsesPool == Spec => PoolContract
  <1>1. Init => PoolInit
    BY DEF Init
  <1>2. StructInv /\ [Next]_vars => [PoolNext]_poolVars
    BY StepUsesPool
  <1> QED
    BY <1>1, <1>2, BookStructure, PTL DEF Spec, PoolContract, PoolSpec

(* So what holds of the pool under any such client holds of it in the book: *)
(* no free node is lost, none is handed out twice, and full() and           *)
(* used_count() are exact.                                                  *)
THEOREM BookPool == Spec => [](PoolTypeOK /\ FreeListExact /\ CountersExact)
  BY BookUsesPool, PoolTypes, PoolFreeListExact, PoolCountersExact, PTL
     DEF PoolContract

-----------------------------------------------------------------------------

(* The head of the best level is there to trade with, so each turn of the   *)
(* loop trades a positive quantity.                                         *)
LEMMA StepProgresses ==
  ASSUME StructInv, ~Idle, [Next]_vars
  PROVE  vars' = vars \/ Idle' \/ frame'.remaining < frame.remaining
  <1> USE DEF StructInv
  <1>1. ASSUME MatchStep
        PROVE  frame'.remaining < frame.remaining
    <2> DEFINE opp == opposite(frame.side)
               l == price_to_index(best_price(opp))
               i == ladder[opp][l].head
               quantity == IF frame.remaining < node[i].quantity
                           THEN frame.remaining ELSE node[i].quantity
    <2>1. ~Idle /\ Crossing
      BY <1>1 DEF MatchStep
    <2>2. i \in Resting /\ i \in Used
      BY <2>1, HeadRests DEF Resting
    <2>3. i # npos /\ node[i] \in Orders /\ node[i].quantity > 0
      BY <2>2, NposIsNoSlot, UsedPlaced DEF RestingPositive, Used
    <2>4. frame' = [frame EXCEPT !.remaining = @ - quantity]
      BY <1>1, <2>3 DEF MatchStep
    <2>5. /\ frame \in Frames /\ frame.remaining \in Int /\ frame.remaining > 0
          /\ node[i].quantity \in Int
      BY <2>1, <2>3, InputAssumption
         DEF BookInv, BookTypeOK, Idle, Frames, Orders, Quantities, Crossing
    <2> HIDE DEF i, l, opp
    <2>6. quantity \in Int /\ quantity > 0
      BY <2>3, <2>5
    <2> HIDE DEF quantity
    <2>7. frame'.remaining = frame.remaining - quantity
      BY <2>4, <2>5 DEF Frames
    <2> QED
      BY <2>5, <2>6, <2>7
  <1>2. ASSUME MatchRests \/ MatchFilled
        PROVE  Idle'
    BY <1>2 DEF MatchRests, MatchFilled, Idle
  <1> QED
    BY <1>1, <1>2
       DEF Next, Matching, SubmitRefused, SubmitDuplicate, SubmitAccepted,
           CancelMissed, Cancelled, Clear

(* Each turn of the matching loop (side.hpp:107) takes something off what   *)
(* the incoming order has left, or the loop ends (LoopProgress).            *)
THEOREM BookLoopProgress == Spec => LoopProgress
  <1>1. StructInv /\ [Next]_vars =>
          [~Idle => \/ Idle'
                    \/ frame'.remaining < frame.remaining]_vars
    BY StepProgresses
  <1> QED
    BY <1>1, BookStructure, PTL DEF Spec, LoopProgress

-----------------------------------------------------------------------------

(* A level without a head is the reset level.                               *)
Reset ==
  \A side \in Sides, l \in Levels :
    isEmpty(ladder[side][l]) => ladder[side][l] = EmptyLevel

(* One level is replaced, by a reset one or by one with a head.             *)
LEMMA ResetPut ==
  ASSUME BookTypeOK, Reset, NEW side \in Sides, NEW l \in Levels, NEW level,
         isEmpty(level) => level = EmptyLevel,
         ladder' = [ladder EXCEPT ![side][l] = level]
  PROVE  Reset'
  <1>1. \A s \in Sides, m \in Levels :
          ladder'[s][m] = IF s = side /\ m = l THEN level ELSE ladder[s][m]
    BY DEF BookTypeOK
  <1> QED
    BY <1>1 DEF Reset, isEmpty

LEMMA UnlinkedReset ==
  ASSUME NEW level, NEW i, NEW quantity,
         isEmpty(UnlinkedLevel(level, i, quantity))
  PROVE  UnlinkedLevel(level, i, quantity) = EmptyLevel
  BY DEF UnlinkedLevel, isEmpty

LEMMA StepResets ==
  ASSUME StructInv, Reset, [Next]_vars
  PROVE  Reset'
  <1> USE DEF StructInv
  <1>0. BookTypeOK
    BY DEF BookInv
  <1>1. CASE UNCHANGED ladder
    BY <1>1 DEF Reset
  <1>2. CASE MatchStep
    <2> DEFINE opp == opposite(frame.side)
               l == price_to_index(best_price(opp))
               i == ladder[opp][l].head
               quantity == IF frame.remaining < node[i].quantity
                           THEN frame.remaining ELSE node[i].quantity
               level == [ladder[opp][l] EXCEPT !.total_quantity =
                           (@ - quantity) % QtyModulus]
    <2>1. ~Idle /\ Crossing
      BY <1>2 DEF MatchStep
    <2>2. opp \in Sides /\ l \in Levels /\ i \in Resting
      BY <2>1, HeadRests
    <2>3. i # npos
      BY <2>2, NposIsNoSlot DEF Resting, Used
    <2>4. FillPart(opp, l, i, quantity) \/ FillWhole(opp, l, i, quantity)
      BY <1>2, <2>3 DEF MatchStep
    <2>5. CASE FillPart(opp, l, i, quantity)
      <3> HIDE DEF quantity
      <3>1. ladder' = [ladder EXCEPT ![opp][l] = level]
        BY <2>2, <2>5 DEF FillPart, BookInv, BookTypeOK
      <3>2. level.head = i
        BY <2>2 DEF BookInv, BookTypeOK, PriceLevel
      <3>3. ~isEmpty(level)
        BY <2>3, <3>2 DEF isEmpty
      <3> HIDE DEF level, opp, l
      <3> QED
        BY <1>0, <2>2, <3>1, <3>3, ResetPut
    <2>6. CASE FillWhole(opp, l, i, quantity)
      <3> DEFINE left == UnlinkedLevel(level, i, quantity)
      <3>1. ladder' = [ladder EXCEPT ![opp][l] = left]
        BY <2>6 DEF FillWhole
      <3> HIDE DEF level, opp, l, i, quantity
      <3>2. isEmpty(left) => left = EmptyLevel
        BY UnlinkedReset
      <3> HIDE DEF left
      <3> QED
        BY <1>0, <2>2, <3>1, <3>2, ResetPut
    <2> HIDE DEF i, l, opp, quantity
    <2> QED
      BY <2>4, <2>5, <2>6
  <1>3. CASE MatchRests
    <2> DEFINE l == price_to_index(frame.price)
               level == ladder[frame.side][l]
               total == (level.total_quantity + frame.remaining) % QtyModulus
               filled == IF isEmpty(level)
                         THEN [head |-> frame.slot, tail |-> frame.slot,
                               total_quantity |-> total]
                         ELSE [level EXCEPT !.tail = frame.slot,
                                            !.total_quantity = total]
    <2>1. /\ frame.side \in Sides /\ frame.slot \in Slots /\ l \in Levels
      BY <1>3, PriceAssumption
         DEF MatchRests, BookInv, BookTypeOK, Idle, Frames, Prices,
             price_to_index, Levels, num_levels
    <2>2. ladder' = [ladder EXCEPT ![frame.side][l] = filled]
      BY <1>3 DEF MatchRests, AppendToLevel
    <2>3. filled.head # npos
      BY <2>1, NposIsNoSlot DEF isEmpty, BookInv, BookTypeOK, PriceLevel
    <2>4. ~isEmpty(filled)
      BY <2>3 DEF isEmpty
    <2> HIDE DEF filled, l
    <2> QED
      BY <1>0, <2>1, <2>2, <2>4, ResetPut
  <1>4. ASSUME NEW id \in OrderIds, Cancelled(id)
        PROVE  Reset'
    <2> DEFINE i == index[id]
               side == node[i].side
               l == price_to_index(node[i].price)
               quantity == node[i].quantity
               left == UnlinkedLevel(ladder[side][l], i, quantity)
    <2>1. i \in Used /\ ladder' = [ladder EXCEPT ![side][l] = left]
      BY <1>4 DEF Cancelled, IndexExact
    <2>2. side \in Sides /\ l \in Levels
      BY <2>1, UsedPlaced
    <2>3. isEmpty(left) => left = EmptyLevel
      BY UnlinkedReset
    <2> HIDE DEF left, l, side
    <2> QED
      BY <1>0, <2>1, <2>2, <2>3, ResetPut
  <1>5. CASE Clear
    BY <1>5 DEF Clear, LadderClear, Reset
  <1> QED
    BY <1>1, <1>2, <1>3, <1>4, <1>5
       DEF Next, Matching, SubmitRefused, SubmitDuplicate, SubmitAccepted,
           FillNode, MatchFilled, CancelMissed, vars, ladderVars

(* A level without orders is the reset level, with total 0, whatever its    *)
(* total had drifted to (EmptyLevelsReset): reset() in price_level.hpp:57   *)
(* ends the drift that side.hpp:130-133 start.                              *)
THEOREM BookEmptyLevelsReset == Spec => []EmptyLevelsReset
  <1>1. Init => Reset
    BY DEF Init, LadderInit, Reset
  <1>2. StructInv /\ Reset /\ [Next]_vars => Reset'
    BY StepResets
  <1>3. ASSUME StructInv, Reset
        PROVE  EmptyLevelsReset
    <2> SUFFICES ASSUME NEW side \in Sides, NEW l \in Levels,
                        RestingAt(side, l) = {}
                 PROVE  ladder[side][l] = EmptyLevel
      BY DEF EmptyLevelsReset
    <2>1. Lists(ladder[side][l], {}, next, prev)
      BY <1>3 DEF StructInv, LevelChains, QueuesList, RestingAt
    <2>2. ladder[side][l].head = npos
      BY <2>1, ListedLinks
    <2> QED
      BY <1>3, <2>2 DEF Reset, isEmpty
  <1>4. StructInv /\ Reset => EmptyLevelsReset
    BY <1>3
  <1> QED
    BY <1>1, <1>2, <1>4, BookStructure, PTL DEF Spec

=============================================================================
