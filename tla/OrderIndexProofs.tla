-------------------------- MODULE OrderIndexProofs --------------------------
(***************************************************************************)
(* Proofs about OrderIndex, for any capacity, hash factor and set of ids:  *)
(* the hash table is the map it promises to be.                            *)
(***************************************************************************)
EXTENDS OrderIndex, FiniteSetTheorems, TLAPS

(* The inductive invariant: no part is inductive without the others.        *)
IndexInv == IndexTypeOK /\ Reachable /\ UniqueIds /\ SizeExact

(* The id is in the table at this place.                                    *)
SitsAt(id, place) == place \in Places /\ holds(place, id)

InTable(id) == \E place \in Places : holds(place, id)

-----------------------------------------------------------------------------

(* Half the table is at least one entry and at most all but one.            *)
LEMMA CapacityFacts ==
  /\ Capacity \in Nat /\ Capacity > 2
  /\ Capacity \div 2 \in Nat /\ Capacity \div 2 < Capacity
  <1>1. Capacity \in Nat /\ MaxOrders \in Nat \ {0} /\ 2 * MaxOrders < Capacity
    BY CapacityAssumption
  <1> QED
    BY <1>1, Z3

LEMMA HashIsPlace ==
  ASSUME NEW id \in OrderIds
  PROVE  hash(id) \in Places
  <1>1. id * HashFactor \in Nat
    BY IdAssumption
  <1> DEFINE n == id * HashFactor
  <1>2. n \in Nat
    BY <1>1
  <1> HIDE DEF n
  <1>3. n % Capacity \in 0 .. Capacity - 1
    BY <1>2, CapacityFacts, Z3
  <1> QED
    BY <1>3 DEF hash, Places, n

(* The probes for an id meet every place, each once.                        *)
LEMMA ProbeIs ==
  ASSUME NEW id \in OrderIds, NEW k \in Places
  PROVE  probe(id, k) = IF hash(id) + k < Capacity THEN hash(id) + k
                        ELSE hash(id) + k - Capacity
  <1> DEFINE h == hash(id)
  <1>1. h \in Nat /\ h < Capacity /\ k \in Nat /\ k < Capacity /\ Capacity \in Nat
    BY HashIsPlace, CapacityFacts DEF Places
  <1> HIDE DEF h
  <1>2. (h + k) % Capacity = IF h + k < Capacity THEN h + k ELSE h + k - Capacity
    BY <1>1, Z3
  <1> QED
    BY <1>2 DEF probe, h

LEMMA ProbeIsPlace ==
  ASSUME NEW id \in OrderIds, NEW k \in Places
  PROVE  probe(id, k) \in Places
  BY ProbeIs, HashIsPlace, CapacityFacts DEF Places

LEMMA ProbeOnce ==
  ASSUME NEW id \in OrderIds, NEW j \in Places, NEW k \in Places,
         probe(id, j) = probe(id, k)
  PROVE  j = k
  <1>1. hash(id) \in Places
    BY HashIsPlace
  <1>2. /\ probe(id, k) = IF hash(id) + k < Capacity THEN hash(id) + k
                          ELSE hash(id) + k - Capacity
        /\ probe(id, j) = IF hash(id) + j < Capacity THEN hash(id) + j
                          ELSE hash(id) + j - Capacity
    BY ProbeIs
  <1> QED
    BY <1>1, <1>2, CapacityFacts DEF Places

LEMMA ProbeMeets ==
  ASSUME NEW id \in OrderIds, NEW place \in Places
  PROVE  \E k \in Places : probe(id, k) = place
  <1> DEFINE k == IF place >= hash(id) THEN place - hash(id)
                  ELSE place - hash(id) + Capacity
  <1>1. hash(id) \in Places
    BY HashIsPlace
  <1>2. k \in Places
    BY <1>1, CapacityFacts DEF Places
  <1>3. probe(id, k) = place
    <2>1. probe(id, k) = IF hash(id) + k < Capacity THEN hash(id) + k
                         ELSE hash(id) + k - Capacity
      BY <1>2, ProbeIs
    <2> QED
      BY <2>1, <1>1, CapacityFacts DEF Places
  <1> QED
    BY <1>2, <1>3

-----------------------------------------------------------------------------

(* A set of probes has a first one.                                         *)
LEMMA LeastIs ==
  ASSUME NEW S \in SUBSET Places, S # {}
  PROVE  Least(S) \in S /\ \A j \in S : Least(S) <= j
  <1> DEFINE Below(b) == {c \in S : c < b}
             F == {Below(b) : b \in S}
             R == StrictSubsetOrdering(Places)
  <1>1. S \subseteq Int /\ IsFiniteSet(Places)
    BY FS_Interval, CapacityFacts DEF Places
  <1>2. /\ IsWellFoundedOn(R, FiniteSubsetsOf(Places))
        /\ FiniteSubsetsOf(Places) = SUBSET Places
    BY <1>1, FS_StrictSubsetOrderingWellFounded, FS_FiniteSubsetsOfFinite
  <1>3. F \subseteq SUBSET Places /\ F # {}
    OBVIOUS
  <1> HIDE DEF R, F
  <1>4. PICK A \in F : \A B \in F : ~(<<B, A>> \in R)
    BY <1>2, <1>3, WFMin
  <1>5. PICK x \in S : A = Below(x)
    BY DEF F
  <1>6. ASSUME NEW y \in S, y < x
        PROVE  FALSE
    <2>1. Below(y) \in F
      BY DEF F
    <2>2. y \in Below(x) /\ y \notin Below(y) /\ Below(y) \subseteq Below(x)
      <3>1. x \in Int /\ y \in Int /\ ~(y < y) /\ \A c \in S : c < y => c < x
        BY <1>1, <1>6
      <3> QED
        BY <1>6, <3>1
    <2>3. Below(x) \subseteq Places /\ Below(y) \subseteq Places
      OBVIOUS
    <2> HIDE DEF Below
    <2>4. <<Below(y), Below(x)>> \in R
      BY <2>2, <2>3 DEF R, StrictSubsetOrdering
    <2> QED
      BY <1>4, <1>5, <2>1, <2>4
  <1>7. \A y \in S : x <= y
    BY <1>1, <1>6
  <1> QED
    BY <1>7 DEF Least

LEMMA FirstOfIs ==
  ASSUME NEW id \in OrderIds, NEW S \in SUBSET Places, S # {}
  PROVE  \E k \in S : firstOf(id, S) = probe(id, k) /\ \A j \in S : k <= j
  BY LeastIs DEF firstOf

-----------------------------------------------------------------------------

(* Where the probe for an id stops.                                         *)
Stops(id) == {k \in Places : \/ isEmptyAt(probe(id, k))
                             \/ holds(probe(id, k), id)}

(* The probe for an id that is in the table comes to it before any empty    *)
(* entry, and sees it nowhere else.                                         *)
LEMMA StopsAtId ==
  ASSUME IndexInv, NEW id \in OrderIds, NEW place \in Places, holds(place, id)
  PROVE  \E k \in Stops(id) : /\ probe(id, k) = place
                              /\ \A j \in Stops(id) : k <= j
  <1>1. place \in Occupied /\ entries[place].id = id
    BY DEF holds, Occupied
  <1>2. PICK k \in Places : /\ probe(id, k) = place
                            /\ \A j \in 0 .. k - 1 : ~isEmptyAt(probe(id, j))
    BY <1>1 DEF IndexInv, Reachable
  <1>3. ASSUME NEW j \in Stops(id), j < k
        PROVE  FALSE
    <2>1. j \in 0 .. k - 1 /\ j \in Places /\ j # k
      BY <1>3, CapacityFacts DEF Stops, Places
    <2>2. holds(probe(id, j), id)
      BY <1>2, <2>1 DEF Stops
    <2>3. probe(id, j) \in Occupied
      BY <2>1, <2>2, ProbeIsPlace DEF holds, Occupied
    <2>4. probe(id, j) = place
      BY <1>1, <2>2, <2>3 DEF IndexInv, UniqueIds, holds
    <2> QED
      BY <1>2, <2>1, <2>4, ProbeOnce
  <1>4. \A j \in Stops(id) : k <= j
    BY <1>3, CapacityFacts DEF Stops, Places
  <1> QED
    BY <1>2, <1>4 DEF Stops

LEMMA FindSlotPresent ==
  ASSUME IndexInv, NEW id \in OrderIds, NEW place \in Places, holds(place, id)
  PROVE  find_slot(id) = place
  <1>1. PICK k \in Stops(id) : /\ probe(id, k) = place
                               /\ \A j \in Stops(id) : k <= j
    BY StopsAtId
  <1>2. Stops(id) \in SUBSET Places /\ Stops(id) # {}
    BY <1>1 DEF Stops
  <1>3. PICK m \in Stops(id) : /\ firstOf(id, Stops(id)) = probe(id, m)
                               /\ \A j \in Stops(id) : m <= j
    BY <1>2, FirstOfIs
  <1>4. m = k
    BY <1>1, <1>2, <1>3, CapacityFacts DEF Places
  <1> QED
    BY <1>1, <1>3, <1>4 DEF find_slot, Stops

LEMMA FindSlotAbsent ==
  ASSUME IndexInv, NEW id \in OrderIds, ~InTable(id)
  PROVE  \/ find_slot(id) = Capacity
         \/ find_slot(id) \in Places /\ isEmptyAt(find_slot(id))
  <1>1. CASE Stops(id) = {}
    BY <1>1 DEF find_slot, firstOf, Stops
  <1>2. CASE Stops(id) # {}
    <2>1. PICK m \in Stops(id) : firstOf(id, Stops(id)) = probe(id, m)
      BY <1>2, FirstOfIs DEF Stops
    <2>2. probe(id, m) \in Places
      BY <2>1, ProbeIsPlace DEF Stops
    <2>3. isEmptyAt(probe(id, m))
      BY <2>1, <2>2 DEF Stops, InTable
    <2> QED
      BY <2>1, <2>2, <2>3 DEF find_slot, Stops
  <1> QED
    BY <1>1, <1>2

(* erase() and find() meet the id where it is, and nothing where it is not. *)
LEMMA EraseSlotIs ==
  ASSUME IndexInv, NEW id \in OrderIds
  PROVE  /\ \A place \in Places :
              holds(place, id) => find_slot_for_erase(id) = place
         /\ ~InTable(id) => find_slot_for_erase(id) = Capacity
  <1>1. ASSUME NEW place \in Places, holds(place, id)
        PROVE  find_slot_for_erase(id) = place
    <2>1. ~isEmptyAt(place)
      BY <1>1 DEF isEmptyAt, holds, empty_state, occupied_state
    <2> QED
      BY <1>1, <2>1, FindSlotPresent DEF find_slot_for_erase
  <1>2. ASSUME ~InTable(id)
        PROVE  find_slot_for_erase(id) = Capacity
    BY <1>2, FindSlotAbsent DEF find_slot_for_erase
  <1> QED
    BY <1>1, <1>2

LEMMA PoolIndexIs ==
  ASSUME IndexInv, NEW id \in OrderIds
  PROVE  /\ \A place \in Places :
              holds(place, id) => pool_index_of(id) = entries[place].pool_index
         /\ ~InTable(id) => pool_index_of(id) = npos
  <1>1. ASSUME NEW place \in Places, holds(place, id)
        PROVE  pool_index_of(id) = entries[place].pool_index
    BY <1>1, FindSlotPresent, CapacityFacts DEF pool_index_of, Places
  <1>2. ASSUME ~InTable(id)
        PROVE  pool_index_of(id) = npos
    <2>1. CASE find_slot(id) = Capacity
      BY <2>1 DEF pool_index_of
    <2>2. CASE find_slot(id) \in Places /\ isEmptyAt(find_slot(id))
      <3>1. find_slot(id) \in Places \ Occupied
        BY <2>2 DEF Occupied, isEmptyAt, empty_state, occupied_state
      <3>2. entries[find_slot(id)].pool_index = npos
        BY <3>1 DEF IndexInv, IndexTypeOK
      <3> QED
        BY <3>2 DEF pool_index_of
    <2> QED
      BY <1>2, <2>1, <2>2, FindSlotAbsent
  <1> QED
    BY <1>1, <1>2

-----------------------------------------------------------------------------

LEMMA InsertSlotPresent ==
  ASSUME IndexInv, NEW id \in OrderIds, NEW place \in Places, holds(place, id)
  PROVE  find_slot_for_insert(id) = place
  <1>1. PICK k \in Stops(id) : /\ probe(id, k) = place
                               /\ \A j \in Stops(id) : k <= j
    BY StopsAtId
  <1>2. Stops(id) \in SUBSET Places /\ Stops(id) # {}
    BY <1>1 DEF Stops
  <1>3. Least(Stops(id)) = k
    BY <1>1, <1>2, LeastIs, CapacityFacts DEF Places
  <1> QED
    BY <1>1, <1>2, <1>3 DEF find_slot_for_insert, Stops

(* Half the entries at most hold an id, so an entry is free.                *)
LEMMA NotAllOccupied ==
  ASSUME IndexInv
  PROVE  \E place \in Places : entries[place].state # occupied_state
  <1>1. SUFFICES ASSUME Occupied = Places
                 PROVE  FALSE
    BY DEF Occupied
  <1>2. Cardinality(Places) = Capacity
    BY FS_Interval, CapacityFacts DEF Places
  <1> QED
    BY <1>1, <1>2, CapacityFacts DEF IndexInv, IndexTypeOK, SizeExact

(* An id that is not in the table finds a place that holds none, and that   *)
(* its probe comes to before any empty entry: there is always room.         *)
LEMMA InsertSlotAbsent ==
  ASSUME IndexInv, NEW id \in OrderIds, ~InTable(id)
  PROVE  /\ find_slot_for_insert(id) \in Places
         /\ entries[find_slot_for_insert(id)].state # occupied_state
         /\ \E k \in Places : /\ probe(id, k) = find_slot_for_insert(id)
                              /\ \A j \in 0 .. k - 1 : ~isEmptyAt(probe(id, j))
  <1> DEFINE stop == IF Stops(id) = {} THEN Capacity ELSE Least(Stops(id))
             tombstones == {k \in 0 .. stop - 1 :
                              entries[probe(id, k)].state = tombstone_state}
             r == find_slot_for_insert(id)
  <1>1. Stops(id) \in SUBSET Places
    BY DEF Stops
  <1>2. /\ stop \in Nat /\ stop <= Capacity
        /\ Stops(id) # {} => stop \in Stops(id)
        /\ \A j \in Stops(id) : stop <= j
    BY <1>1, LeastIs, CapacityFacts DEF Places
  <1>3. r = IF Stops(id) # {} /\ (holds(probe(id, stop), id) \/ tombstones = {})
            THEN probe(id, stop) ELSE firstOf(id, tombstones)
    BY DEF find_slot_for_insert, Stops
  <1> HIDE DEF stop, r
  <1>4. \A j \in 0 .. stop - 1 : j \in Places /\ ~isEmptyAt(probe(id, j))
    <2> SUFFICES ASSUME NEW j \in 0 .. stop - 1
                 PROVE  j \in Places /\ ~isEmptyAt(probe(id, j))
      OBVIOUS
    <2>1. j \in Places /\ ~(stop <= j)
      BY <1>2, CapacityFacts DEF Places
    <2> QED
      BY <1>2, <2>1 DEF Stops
  <1>5. CASE Stops(id) # {} /\ tombstones = {}
    <2>1. stop \in Stops(id) /\ stop \in Places /\ r = probe(id, stop)
      BY <1>1, <1>2, <1>3, <1>5
    <2>2. r \in Places
      BY <2>1, ProbeIsPlace
    <2>3. entries[r].state # occupied_state
      BY <2>1, <2>2 DEF Stops, InTable, isEmptyAt, empty_state, occupied_state
    <2> QED
      BY <1>4, <2>1, <2>2, <2>3 DEF r
  <1>6. CASE tombstones # {}
    <2>1. ~(Stops(id) # {} /\ holds(probe(id, stop), id))
      BY <1>1, <1>2, ProbeIsPlace DEF InTable
    <2>2. r = firstOf(id, tombstones)
      BY <1>3, <1>6, <2>1
    <2>3. tombstones \in SUBSET Places
      BY <1>4
    <2>4. PICK k \in tombstones : firstOf(id, tombstones) = probe(id, k)
      BY <1>6, <2>3, FirstOfIs
    <2>5. k \in Places /\ k \in 0 .. stop - 1
      BY <2>3, <2>4
    <2>6. entries[r].state # occupied_state /\ r \in Places
      BY <2>2, <2>4, <2>5, ProbeIsPlace DEF tombstone_state, occupied_state
    <2>7. \A j \in 0 .. k - 1 : ~isEmptyAt(probe(id, j))
      BY <1>2, <1>4, <2>5
    <2> QED
      BY <2>2, <2>4, <2>5, <2>6, <2>7 DEF r
  <1>7. CASE Stops(id) = {} /\ tombstones = {}
    <2>1. PICK place \in Places : entries[place].state # occupied_state
      BY NotAllOccupied
    <2>2. PICK k \in Places : probe(id, k) = place
      BY ProbeMeets
    <2>3. stop = Capacity /\ k \in 0 .. stop - 1
      BY <1>7 DEF stop, Places
    <2>4. ~isEmptyAt(place) /\ entries[place].state # tombstone_state
      BY <1>4, <1>7, <2>2, <2>3
    <2> QED
      BY <2>1, <2>4 DEF IndexInv, IndexTypeOK, isEmptyAt
  <1> QED
    BY <1>5, <1>6, <1>7

-----------------------------------------------------------------------------

(* The entry of an id that was not in the table is written to a place that  *)
(* held none and that the probe for the id comes to.                        *)
Stores(id, i, place) ==
  /\ entries[place].state # occupied_state
  /\ \E k \in Places : /\ probe(id, k) = place
                       /\ \A j \in 0 .. k - 1 : ~isEmptyAt(probe(id, j))
  /\ entries' = [entries EXCEPT ![place] =
                   [id |-> id, pool_index |-> i, state |-> occupied_state]]
  /\ size' = size + 1 /\ size < Capacity \div 2

LEMMA InsertIs ==
  ASSUME IndexInv, NEW id \in OrderIds, NEW i \in PoolIndices, Insert(id, i)
  PROVE  \/ /\ InTable(id) \/ size >= Capacity \div 2
            /\ answer' = Inserted(id, i, FALSE)
            /\ UNCHANGED <<entries, size>>
         \/ /\ ~InTable(id)
            /\ answer' = Inserted(id, i, TRUE)
            /\ \E place \in Places : Stores(id, i, place)
  <1> DEFINE place == find_slot_for_insert(id)
  <1>1. size \in Nat /\ Capacity \div 2 \in Nat
    BY CapacityFacts DEF IndexInv, IndexTypeOK
  <1>2. CASE InTable(id)
    <2>1. holds(place, id)
      BY <1>2, InsertSlotPresent DEF InTable
    <2> QED
      BY <1>2, <2>1 DEF Insert
  <1>3. CASE ~InTable(id)
    <2>1. /\ place \in Places /\ place # Capacity
          /\ entries[place].state # occupied_state
          /\ \E k \in Places : /\ probe(id, k) = place
                               /\ \A j \in 0 .. k - 1 : ~isEmptyAt(probe(id, j))
      BY <1>3, InsertSlotAbsent, CapacityFacts DEF Places
    <2>2. ~holds(place, id)
      BY <2>1 DEF holds
    <2>3. CASE size >= Capacity \div 2
      <3>1. answer' = Inserted(id, i, FALSE) /\ UNCHANGED <<entries, size>>
        BY <2>3 DEF Insert
      <3> QED
        BY <2>3, <3>1
    <2>4. CASE ~(size >= Capacity \div 2)
      <3>1. size < Capacity \div 2
        BY <1>1, <2>4
      <3>2. /\ answer' = Inserted(id, i, TRUE) /\ size' = size + 1
            /\ entries' = [entries EXCEPT ![place] =
                 [id |-> id, pool_index |-> i, state |-> occupied_state]]
        BY <2>1, <2>2, <2>4 DEF Insert
      <3> QED
        BY <1>3, <2>1, <3>1, <3>2 DEF Stores
    <2> QED
      BY <2>3, <2>4
  <1> QED
    BY <1>2, <1>3

(* Erasing leaves a tombstone where the id was, and nothing else.           *)
LEMMA EraseIs ==
  ASSUME IndexInv, NEW id \in OrderIds, Erase(id)
  PROVE  \/ /\ ~InTable(id)
            /\ answer' = Erased(id, FALSE)
            /\ UNCHANGED <<entries, size>>
         \/ /\ answer' = Erased(id, TRUE)
            /\ \E place \in Places : /\ holds(place, id)
                                     /\ entries' = [entries EXCEPT ![place] = Tombstone]
                                     /\ size' = size - 1
  <1>1. CASE InTable(id)
    <2>1. PICK place \in Places : holds(place, id)
      BY <1>1 DEF InTable
    <2>2. find_slot_for_erase(id) = place /\ place # Capacity
      BY <2>1, EraseSlotIs, CapacityFacts DEF Places
    <2> QED
      BY <2>1, <2>2 DEF Erase
  <1>2. CASE ~InTable(id)
    BY <1>2, EraseSlotIs DEF Erase
  <1> QED
    BY <1>1, <1>2

-----------------------------------------------------------------------------

LEMMA InitIndex ==
  ASSUME entries = [place \in Places |-> EmptyEntry], size = 0
  PROVE  IndexInv
  <1>1. Occupied = {}
    BY DEF Occupied, EmptyEntry, empty_state, occupied_state
  <1>2. Cardinality(Occupied) = 0
    BY <1>1, FS_EmptySet
  <1>3. IndexTypeOK
    BY <1>1, CapacityFacts DEF IndexTypeOK, EmptyEntry
  <1> QED
    BY <1>1, <1>2, <1>3 DEF IndexInv, Reachable, UniqueIds, SizeExact

LEMMA OccupiedFinite ==
  IsFiniteSet(Occupied)
  <1>1. IsFiniteSet(Places)
    BY FS_Interval, CapacityFacts DEF Places
  <1> QED
    BY <1>1, FS_Subset DEF Occupied

LEMMA StoreKeeps ==
  ASSUME IndexInv, NEW id \in OrderIds, NEW i \in PoolIndices, ~InTable(id),
         NEW place \in Places, Stores(id, i, place)
  PROVE  IndexInv'
  <1> DEFINE e == [id |-> id, pool_index |-> i, state |-> occupied_state]
  <1>1. /\ entries' = [entries EXCEPT ![place] = e] /\ size' = size + 1
        /\ size < Capacity \div 2 /\ entries[place].state # occupied_state
    BY DEF Stores
  <1>2. /\ entries \in [Places -> [id : OrderIds \cup {0},
                                   pool_index : PoolIndices \cup {npos},
                                   state : {empty_state, occupied_state,
                                            tombstone_state}]]
        /\ \A p \in Places \ Occupied : entries[p].pool_index = npos
        /\ \A p \in Occupied : entries[p].id \in OrderIds
                               /\ entries[p].pool_index \in PoolIndices
        /\ size \in 0 .. Capacity \div 2
    BY DEF IndexInv, IndexTypeOK
  <1>3. /\ entries'[place] = e
        /\ \A p \in Places : p # place => entries'[p] = entries[p]
    BY <1>1, <1>2
  <1>4. Occupied' = Occupied \cup {place} /\ place \notin Occupied
    BY <1>1, <1>3 DEF Occupied
  <1>5. IndexTypeOK'
    <2>1. entries' \in [Places -> [id : OrderIds \cup {0},
                                   pool_index : PoolIndices \cup {npos},
                                   state : {empty_state, occupied_state,
                                            tombstone_state}]]
      BY <1>1, <1>2
    <2>2. \A p \in Places \ Occupied' : entries'[p].pool_index = npos
      BY <1>2, <1>3, <1>4
    <2>3. \A p \in Occupied' : entries'[p].id \in OrderIds
                               /\ entries'[p].pool_index \in PoolIndices
      BY <1>2, <1>3, <1>4 DEF Occupied
    <2>4. size' \in 0 .. Capacity \div 2
      BY <1>1, <1>2, CapacityFacts
    <2> QED
      BY <2>1, <2>2, <2>3, <2>4 DEF IndexTypeOK
  <1>6. \A p \in Places : ~isEmptyAt(p) => ~isEmptyAt(p)'
    BY <1>3 DEF isEmptyAt, empty_state, occupied_state
  <1>7. Reachable'
    <2>1. ASSUME NEW p \in Occupied', NEW d, d = entries'[p].id
          PROVE  \E k \in Places :
                   /\ probe(d, k) = p
                   /\ \A j \in 0 .. k - 1 : entries'[probe(d, j)].state # empty_state
      <3>1. p \in Places /\ d \in OrderIds
        BY <1>5, <2>1 DEF IndexTypeOK, Occupied
      <3>2. PICK k \in Places : /\ probe(d, k) = p
                                /\ \A j \in 0 .. k - 1 : ~isEmptyAt(probe(d, j))
        <4>1. CASE p = place
          BY <1>3, <2>1, <4>1 DEF Stores
        <4>2. CASE p # place
          <5>1. p \in Occupied /\ d = entries[p].id
            BY <1>3, <1>4, <2>1, <3>1, <4>2
          <5> QED
            BY <5>1 DEF IndexInv, Reachable
        <4> QED
          BY <4>1, <4>2
      <3>3. \A j \in 0 .. k - 1 : j \in Places /\ probe(d, j) \in Places
        BY <3>1, ProbeIsPlace, CapacityFacts DEF Places
      <3> QED
        BY <1>6, <3>2, <3>3 DEF isEmptyAt
    <2> QED
      BY <2>1 DEF Reachable, probe, hash, isEmptyAt
  <1>8. UniqueIds'
    <2>1. \A p \in Occupied : entries[p].id # id
      BY DEF Occupied, InTable, holds
    <2> QED
      BY <1>3, <1>4, <2>1 DEF IndexInv, UniqueIds, Occupied
  <1>9. SizeExact'
    <2>1. Cardinality(Occupied \cup {place}) = Cardinality(Occupied) + 1
      BY <1>4, OccupiedFinite, FS_AddElement
    <2> QED
      BY <1>1, <1>4, <2>1 DEF IndexInv, SizeExact
  <1> QED
    BY <1>5, <1>7, <1>8, <1>9 DEF IndexInv

LEMMA EraseKeeps ==
  ASSUME IndexInv, NEW place \in Places, place \in Occupied,
         entries' = [entries EXCEPT ![place] = Tombstone], size' = size - 1
  PROVE  IndexInv'
  <1>1. /\ entries \in [Places -> [id : OrderIds \cup {0},
                                   pool_index : PoolIndices \cup {npos},
                                   state : {empty_state, occupied_state,
                                            tombstone_state}]]
        /\ \A p \in Places \ Occupied : entries[p].pool_index = npos
        /\ \A p \in Occupied : entries[p].id \in OrderIds
                               /\ entries[p].pool_index \in PoolIndices
        /\ size \in 0 .. Capacity \div 2
    BY DEF IndexInv, IndexTypeOK
  <1>2. /\ entries'[place] = Tombstone
        /\ \A p \in Places : p # place => entries'[p] = entries[p]
    BY <1>1
  <1>3. Occupied' = Occupied \ {place}
    BY <1>2 DEF Occupied, Tombstone, tombstone_state, occupied_state
  <1>4. Cardinality(Occupied') = Cardinality(Occupied) - 1
    BY <1>3, OccupiedFinite, FS_RemoveElement
  <1>5. size # 0
    <2>1. IsFiniteSet(Occupied)
      BY OccupiedFinite
    <2>2. Cardinality(Occupied) = 0 <=> Occupied = {}
      BY <2>1, FS_EmptySet
    <2> QED
      BY <2>2 DEF IndexInv, SizeExact
  <1>6. IndexTypeOK'
    <2>1. entries' \in [Places -> [id : OrderIds \cup {0},
                                   pool_index : PoolIndices \cup {npos},
                                   state : {empty_state, occupied_state,
                                            tombstone_state}]]
      BY <1>1 DEF Tombstone
    <2>2. \A p \in Places \ Occupied' : entries'[p].pool_index = npos
      BY <1>1, <1>2, <1>3 DEF Tombstone
    <2>3. \A p \in Occupied' : entries'[p].id \in OrderIds
                               /\ entries'[p].pool_index \in PoolIndices
      BY <1>1, <1>2, <1>3 DEF Occupied
    <2>4. size' \in 0 .. Capacity \div 2
      BY <1>1, <1>5, CapacityFacts
    <2> QED
      BY <2>1, <2>2, <2>3, <2>4 DEF IndexTypeOK
  <1>7. Reachable'
    <2>1. ASSUME NEW p \in Occupied', NEW d, d = entries'[p].id
          PROVE  \E k \in Places :
                   /\ probe(d, k) = p
                   /\ \A j \in 0 .. k - 1 : entries'[probe(d, j)].state # empty_state
      <3>1. p \in Occupied /\ d = entries[p].id /\ d \in OrderIds
        BY <1>1, <1>2, <1>3, <2>1 DEF Occupied
      <3>2. PICK k \in Places : /\ probe(d, k) = p
                                /\ \A j \in 0 .. k - 1 : ~isEmptyAt(probe(d, j))
        BY <3>1 DEF IndexInv, Reachable
      <3>3. \A j \in 0 .. k - 1 : j \in Places /\ probe(d, j) \in Places
        BY <3>1, ProbeIsPlace, CapacityFacts DEF Places
      <3>4. \A q \in Places : ~isEmptyAt(q) => entries'[q].state # empty_state
        BY <1>2 DEF isEmptyAt, Tombstone, empty_state, tombstone_state
      <3> QED
        BY <3>2, <3>3, <3>4
    <2> QED
      BY <2>1 DEF Reachable, probe, hash, isEmptyAt
  <1>8. UniqueIds'
    BY <1>2, <1>3 DEF IndexInv, UniqueIds, Occupied
  <1>9. SizeExact'
    BY <1>4 DEF IndexInv, SizeExact
  <1> QED
    BY <1>6, <1>7, <1>8, <1>9 DEF IndexInv

LEMMA IndexStep ==
  ASSUME IndexInv, [IndexNext]_indexVars
  PROVE  IndexInv'
  <1>1. CASE UNCHANGED <<entries, size>>
    BY <1>1 DEF IndexInv, IndexTypeOK, Reachable, UniqueIds, SizeExact, Occupied,
                probe, hash, isEmptyAt
  <1>2. ASSUME NEW id \in OrderIds, NEW i \in PoolIndices, Insert(id, i)
        PROVE  IndexInv'
    BY <1>1, <1>2, InsertIs, StoreKeeps
  <1>3. ASSUME NEW id \in OrderIds, Erase(id)
        PROVE  IndexInv'
    <2>1. CASE UNCHANGED <<entries, size>>
      BY <1>1, <2>1
    <2>2. CASE ~UNCHANGED <<entries, size>>
      <3>1. PICK place \in Places :
              /\ holds(place, id)
              /\ entries' = [entries EXCEPT ![place] = Tombstone]
              /\ size' = size - 1
        BY <1>3, <2>2, EraseIs
      <3> QED
        BY <3>1, EraseKeeps DEF holds, Occupied
    <2> QED
      BY <2>1, <2>2
  <1>4. ASSUME NEW id \in OrderIds, Find(id)
        PROVE  IndexInv'
    BY <1>1, <1>4 DEF Find
  <1>5. CASE IndexClear
    <2>1. entries' = [place \in Places |-> EmptyEntry] /\ size' = 0
      BY <1>5 DEF IndexClear
    <2>2. (entries = [place \in Places |-> EmptyEntry] /\ size = 0 => IndexInv)'
      BY InitIndex, PTL
    <2> QED
      BY <2>1, <2>2
  <1> QED
    BY <1>1, <1>2, <1>3, <1>4, <1>5 DEF IndexNext, indexVars

(* The invariant is inductive as it stands, all four parts together: the    *)
(* probe for an id sees it at one place only (UniqueIds) and sees it at all *)
(* (Reachable), so an insert can add no second entry; and there is always a *)
(* free place since the ids are counted (SizeExact).                        *)
THEOREM IndexInvariant == IndexSpec => []IndexInv
  <1>1. IndexInit => IndexInv
    BY InitIndex DEF IndexInit
  <1>2. IndexInv /\ [IndexNext]_indexVars => IndexInv'
    BY IndexStep
  <1> QED
    BY <1>1, <1>2, PTL DEF IndexSpec

(* Only an occupied entry holds a pool index, so find() returns none from   *)
(* an entry it merely stops at.                                             *)
THEOREM IndexTypes == IndexSpec => []IndexTypeOK
  <1>1. IndexInv => IndexTypeOK
    BY DEF IndexInv
  <1> QED
    BY <1>1, IndexInvariant, PTL

(* No erase leaves a hole in the probe of an id behind it.                  *)
THEOREM IndexReachable == IndexSpec => []Reachable
  <1>1. IndexInv => Reachable
    BY DEF IndexInv
  <1> QED
    BY <1>1, IndexInvariant, PTL

(* No insert takes a tombstone in front of the entry of the same id.        *)
THEOREM IndexUniqueIds == IndexSpec => []UniqueIds
  <1>1. IndexInv => UniqueIds
    BY DEF IndexInv
  <1> QED
    BY <1>1, IndexInvariant, PTL

(* size_, the bound of insert(), is the number of ids in the table.         *)
THEOREM IndexSizeExact == IndexSpec => []SizeExact
  <1>1. IndexInv => SizeExact
    BY DEF IndexInv
  <1> QED
    BY <1>1, IndexInvariant, PTL

-----------------------------------------------------------------------------

(* What the table says of an id: the pool index next to it, or none.        *)
LEMMA TableSays ==
  IndexInv =>
    /\ \A id \in OrderIds, place \in Places : holds(place, id) =>
         /\ TableMap[id] = entries[place].pool_index
         /\ TableMap[id] \in PoolIndices /\ TableMap[id] # npos
    /\ \A id \in OrderIds : ~InTable(id) => TableMap[id] = npos
  <1> SUFFICES ASSUME IndexInv
               PROVE  /\ \A id \in OrderIds, place \in Places : holds(place, id) =>
                           /\ TableMap[id] = entries[place].pool_index
                           /\ TableMap[id] \in PoolIndices /\ TableMap[id] # npos
                      /\ \A id \in OrderIds : ~InTable(id) => TableMap[id] = npos
    OBVIOUS
  <1>1. ASSUME NEW id \in OrderIds, NEW place \in Places, holds(place, id)
        PROVE  /\ TableMap[id] = entries[place].pool_index
               /\ TableMap[id] \in PoolIndices /\ TableMap[id] # npos
    <2> DEFINE at == {p \in Occupied : entries[p].id = id}
    <2>1. place \in at
      BY <1>1 DEF holds, Occupied
    <2>2. \A p \in at : p = place
      BY <2>1 DEF IndexInv, UniqueIds
    <2>3. (CHOOSE p \in at : TRUE) = place
      BY <2>1, <2>2
    <2>4. TableMap[id] = entries[place].pool_index
      BY <2>1, <2>3 DEF TableMap
    <2>5. entries[place].pool_index \in PoolIndices
      BY <2>1 DEF IndexInv, IndexTypeOK
    <2> QED
      BY <2>4, <2>5, IndexAssumption
  <1>2. ASSUME NEW id \in OrderIds, ~InTable(id)
        PROVE  TableMap[id] = npos
    <2>1. {p \in Occupied : entries[p].id = id} = {}
      BY <1>2 DEF InTable, holds, Occupied
    <2> QED
      BY <2>1 DEF TableMap
  <1> QED
    BY <1>1, <1>2

LEMMA PresentIs ==
  ASSUME IndexInv
  PROVE  \A id \in OrderIds : id \in Map!Present <=> InTable(id)
  BY TableSays DEF Map!Present, InTable

(* The map holds as many ids as the table has occupied entries.             *)
LEMMA PresentCount ==
  ASSUME IndexInv
  PROVE  Cardinality(Map!Present) = size
  <1> DEFINE f == [place \in Occupied |-> entries[place].id]
  <1>1. f \in [Occupied -> Map!Present]
    <2> SUFFICES ASSUME NEW place \in Occupied
                 PROVE  entries[place].id \in Map!Present
      OBVIOUS
    <2>1. entries[place].id \in OrderIds /\ InTable(entries[place].id)
      BY DEF IndexInv, IndexTypeOK, InTable, holds, Occupied
    <2> QED
      BY <2>1, PresentIs
  <1>2. \A p, q \in Occupied : f[p] = f[q] => p = q
    BY DEF IndexInv, UniqueIds
  <1>3. \A id \in Map!Present : \E place \in Occupied : f[place] = id
    <2> SUFFICES ASSUME NEW id \in Map!Present
                 PROVE  \E place \in Occupied : entries[place].id = id
      OBVIOUS
    <2>1. id \in OrderIds /\ InTable(id)
      BY PresentIs DEF Map!Present
    <2> QED
      BY <2>1 DEF InTable, holds, Occupied
  <1>4. ExistsBijection(Occupied, Map!Present)
    BY <1>1, <1>2, <1>3 DEF ExistsBijection, Bijection, Injection, Surjection,
                            IsInjective
  <1>5. Cardinality(Map!Present) = Cardinality(Occupied)
    BY <1>4, OccupiedFinite, FS_Bijection
  <1> QED
    BY <1>5 DEF IndexInv, SizeExact

LEMMA TableStores ==
  ASSUME IndexInv, NEW id \in OrderIds, NEW i \in PoolIndices, ~InTable(id),
         NEW place \in Places, Stores(id, i, place)
  PROVE  TableMap' = [TableMap EXCEPT ![id] = i]
  <1>1. IndexInv'
    BY StoreKeeps
  <1>2. /\ entries'[place] = [id |-> id, pool_index |-> i, state |-> occupied_state]
        /\ \A p \in Places : p # place => entries'[p] = entries[p]
        /\ entries[place].state # occupied_state
    BY DEF Stores, IndexInv, IndexTypeOK
  <1>3. (TableSays)'
    BY TableSays, PTL
  <1>4. ASSUME NEW d \in OrderIds
        PROVE  TableMap'[d] = IF d = id THEN i ELSE TableMap[d]
    <2>1. CASE d = id
      <3>1. holds(place, id)'
        BY <1>2 DEF holds
      <3> QED
        BY <1>1, <1>2, <1>3, <2>1, <3>1
    <2>2. CASE d # id /\ InTable(d)
      <3>1. PICK p \in Places : holds(p, d)
        BY <2>2 DEF InTable
      <3>2. p # place /\ entries'[p] = entries[p]
        BY <1>2, <3>1 DEF holds
      <3>3. holds(p, d)'
        BY <3>1, <3>2 DEF holds
      <3> QED
        BY <1>1, <1>3, <2>2, <3>1, <3>2, <3>3, TableSays
    <2>3. CASE d # id /\ ~InTable(d)
      <3>1. ~InTable(d)'
        BY <1>2, <2>3 DEF InTable, holds
      <3> QED
        BY <1>1, <1>3, <2>3, <3>1, TableSays
    <2> QED
      BY <2>1, <2>2, <2>3
  <1>5. TableMap = [d \in OrderIds |-> TableMap[d]]
        /\ TableMap' = [d \in OrderIds |-> TableMap'[d]]
    BY DEF TableMap
  <1> HIDE DEF TableMap
  <1> QED
    BY <1>4, <1>5

LEMMA TableErases ==
  ASSUME IndexInv, NEW id \in OrderIds, NEW place \in Places, holds(place, id),
         entries' = [entries EXCEPT ![place] = Tombstone], size' = size - 1
  PROVE  TableMap' = [TableMap EXCEPT ![id] = npos]
  <1>1. IndexInv'
    BY EraseKeeps DEF holds, Occupied
  <1>2. /\ entries'[place].state # occupied_state
        /\ \A p \in Places : p # place => entries'[p] = entries[p]
    BY DEF IndexInv, IndexTypeOK, Tombstone, tombstone_state, occupied_state
  <1>3. (TableSays)'
    BY TableSays, PTL
  <1>4. ASSUME NEW d \in OrderIds
        PROVE  TableMap'[d] = IF d = id THEN npos ELSE TableMap[d]
    <2>1. CASE d = id
      <3>1. \A p \in Places : holds(p, id) => p = place
        BY DEF IndexInv, UniqueIds, holds, Occupied
      <3>2. ~InTable(id)'
        BY <1>2, <3>1 DEF InTable, holds
      <3> QED
        BY <1>1, <1>3, <2>1, <3>2
    <2>2. CASE d # id /\ InTable(d)
      <3>1. PICK p \in Places : holds(p, d)
        BY <2>2 DEF InTable
      <3>2. p # place /\ entries'[p] = entries[p]
        BY <1>2, <2>2, <3>1 DEF holds
      <3>3. holds(p, d)'
        BY <3>1, <3>2 DEF holds
      <3> QED
        BY <1>1, <1>3, <2>2, <3>1, <3>2, <3>3, TableSays
    <2>3. CASE d # id /\ ~InTable(d)
      <3>1. ~InTable(d)'
        BY <1>2, <2>3 DEF InTable, holds
      <3> QED
        BY <1>1, <1>3, <2>3, <3>1, TableSays
    <2> QED
      BY <2>1, <2>2, <2>3
  <1>5. TableMap = [d \in OrderIds |-> TableMap[d]]
        /\ TableMap' = [d \in OrderIds |-> TableMap'[d]]
    BY DEF TableMap
  <1> HIDE DEF TableMap
  <1> QED
    BY <1>4, <1>5

LEMMA TableEmpty ==
  ASSUME entries = [place \in Places |-> EmptyEntry]
  PROVE  TableMap = [id \in OrderIds |-> npos]
  <1>1. Occupied = {}
    BY DEF Occupied, EmptyEntry, empty_state, occupied_state
  <1> QED
    BY <1>1 DEF TableMap

-----------------------------------------------------------------------------

LEMMA SameCardinality ==
  ASSUME NEW S
  PROVE  Map!Cardinality(S) = Cardinality(S)
  BY DEF Map!Cardinality, Cardinality

(* What insert() does to the map, and what it answers.                      *)
LEMMA InsertMaps ==
  ASSUME IndexInv, NEW id \in OrderIds, NEW i \in PoolIndices, Insert(id, i)
  PROVE  \/ Map!MapRefused(id, i) /\ UNCHANGED <<entries, size>>
         \/ Map!MapInserted(id, i) /\ ~InTable(id) /\ answer' = Inserted(id, i, TRUE)
  <1>1. CASE /\ InTable(id) \/ size >= Capacity \div 2
             /\ answer' = Inserted(id, i, FALSE)
             /\ UNCHANGED <<entries, size>>
    <2>1. id \in Map!Present \/ Cardinality(Map!Present) >= Capacity \div 2
      BY <1>1, PresentIs, PresentCount
    <2>2. TableMap' = TableMap
      BY <1>1 DEF TableMap, Occupied
    <2>3. answer' = Map!Inserted(id, i, FALSE) /\ UNCHANGED <<entries, size>>
      BY <1>1 DEF Map!Inserted, Inserted
    <2>4. Map!MapRefused(id, i)
      BY <2>1, <2>2, <2>3, SameCardinality DEF Map!MapRefused
    <2> QED
      BY <2>3, <2>4
  <1>2. CASE /\ ~InTable(id)
             /\ answer' = Inserted(id, i, TRUE)
             /\ \E place \in Places : Stores(id, i, place)
    <2>1. PICK place \in Places : Stores(id, i, place)
      BY <1>2
    <2>2. TableMap' = [TableMap EXCEPT ![id] = i]
      BY <1>2, <2>1, TableStores
    <2>3. id \notin Map!Present /\ Cardinality(Map!Present) < Capacity \div 2
      BY <1>2, <2>1, PresentIs, PresentCount DEF Stores
    <2> QED
      BY <1>2, <2>2, <2>3, SameCardinality
         DEF Map!MapInserted, Map!Inserted, Inserted
  <1> QED
    BY <1>1, <1>2, InsertIs

LEMMA EraseMaps ==
  ASSUME IndexInv, NEW id \in OrderIds, Erase(id)
  PROVE  Map!MapMissed(id) \/ Map!MapErased(id)
  <1>1. CASE ~InTable(id) /\ answer' = Erased(id, FALSE) /\ UNCHANGED <<entries, size>>
    <2>1. id \notin Map!Present
      BY <1>1, PresentIs
    <2>2. TableMap' = TableMap
      BY <1>1 DEF TableMap, Occupied
    <2> QED
      BY <1>1, <2>1, <2>2 DEF Map!MapMissed, Map!Erased, Erased
  <1>2. CASE /\ answer' = Erased(id, TRUE)
             /\ \E place \in Places : /\ holds(place, id)
                                      /\ entries' = [entries EXCEPT ![place] = Tombstone]
                                      /\ size' = size - 1
    <2>1. PICK place \in Places : /\ holds(place, id)
                                  /\ entries' = [entries EXCEPT ![place] = Tombstone]
                                  /\ size' = size - 1
      BY <1>2
    <2>2. TableMap' = [TableMap EXCEPT ![id] = npos]
      BY <2>1, TableErases
    <2>3. id \in Map!Present
      BY <2>1, PresentIs DEF InTable
    <2> QED
      BY <1>2, <2>2, <2>3 DEF Map!MapErased, Map!Erased, Erased
  <1> QED
    BY <1>1, <1>2, EraseIs

LEMMA FindMaps ==
  ASSUME IndexInv, NEW id \in OrderIds
  PROVE  pool_index_of(id) = TableMap[id] /\ TableMap[id] \in PoolIndices \cup {npos}
  <1>1. CASE InTable(id)
    BY <1>1, PoolIndexIs, TableSays DEF InTable
  <1>2. CASE ~InTable(id)
    BY <1>2, PoolIndexIs, TableSays
  <1> QED
    BY <1>1, <1>2

LEMMA IndexMaps ==
  ASSUME IndexInv, [IndexNext]_indexVars
  PROVE  [Map!MapNext]_(Map!mapVars)
  <1>1. ASSUME NEW id \in OrderIds, NEW i \in PoolIndices, Insert(id, i)
        PROVE  Map!MapNext
    BY <1>1, InsertMaps DEF Map!MapNext
  <1>2. ASSUME NEW id \in OrderIds, Erase(id)
        PROVE  Map!MapNext
    BY <1>2, EraseMaps DEF Map!MapNext
  <1>3. ASSUME NEW id \in OrderIds, Find(id)
        PROVE  Map!MapNext
    <2>1. TableMap' = TableMap
      BY <1>3 DEF Find, TableMap, Occupied
    <2>2. Map!MapFound(id, TableMap[id])
      BY <1>3, <2>1, FindMaps DEF Find, Map!MapFound, Map!Found, Found
    <2> QED
      BY <2>2, FindMaps DEF Map!MapNext
  <1>4. CASE IndexClear
    <2>1. (entries = [place \in Places |-> EmptyEntry] =>
             TableMap = [id \in OrderIds |-> npos])'
      BY TableEmpty, PTL
    <2>2. entries' = [place \in Places |-> EmptyEntry] /\ answer' = NoAnswer
      BY <1>4 DEF IndexClear
    <2>3. Map!MapClear
      BY <2>1, <2>2 DEF Map!MapClear, Map!NoAnswer, NoAnswer
    <2> QED
      BY <2>3 DEF Map!MapNext
  <1>5. CASE UNCHANGED indexVars
    BY <1>5 DEF indexVars, Map!mapVars, TableMap, Occupied
  <1> QED
    BY <1>1, <1>2, <1>3, <1>4, <1>5 DEF IndexNext

(* The hash table is a map with room for half its entries: every find,      *)
(* insert and erase answers what the map answers, whatever tombstones the   *)
(* calls before it have left.                                               *)
THEOREM IndexIsMap == IndexSpec => ImplementsMap
  <1>1. IndexInit => Map!MapInit
    BY TableEmpty DEF IndexInit, Map!MapInit, Map!NoAnswer, NoAnswer
  <1>2. IndexInv /\ [IndexNext]_indexVars => [Map!MapNext]_(Map!mapVars)
    BY IndexMaps
  <1> QED
    BY <1>1, <1>2, IndexInvariant, PTL DEF IndexSpec, ImplementsMap, Map!MapSpec

-----------------------------------------------------------------------------

(* What a caller learns from each call, in terms of the map alone: these    *)
(* are the facts the matching engine goes by.                               *)
LEMMA FindTells ==
  ASSUME IndexInv, NEW id \in OrderIds
  PROVE  pool_index_of(id) = TableMap[id]
  BY FindMaps

LEMMA EraseTells ==
  ASSUME IndexInv, NEW id \in OrderIds, Erase(id)
  PROVE  IndexInv' /\ TableMap' = [TableMap EXCEPT ![id] = npos]
  <1>1. IndexInv'
    BY IndexStep DEF IndexNext
  <1>2. CASE ~InTable(id) /\ UNCHANGED entries
    <2>1. TableMap' = TableMap /\ TableMap[id] = npos
      BY <1>2, TableSays DEF TableMap, Occupied
    <2>2. TableMap = [d \in OrderIds |-> TableMap[d]]
      BY DEF TableMap
    <2> HIDE DEF TableMap
    <2> QED
      BY <1>1, <2>1, <2>2
  <1>3. CASE \E place \in Places :
               /\ holds(place, id)
               /\ entries' = [entries EXCEPT ![place] = Tombstone]
               /\ size' = size - 1
    BY <1>1, <1>3, TableErases
  <1> QED
    BY <1>2, <1>3, EraseIs

(* An index that names different nodes of the pool, and not all of them,    *)
(* has room for one more: the table is larger than twice the pool.          *)
LEMMA RoomInTable ==
  ASSUME IndexInv, NEW spare \in 0 .. MaxOrders - 1,
         \A id \in OrderIds : TableMap[id] # npos =>
           TableMap[id] \in (0 .. MaxOrders - 1) \ {spare},
         \A a, b \in OrderIds : TableMap[a] # npos /\ TableMap[a] = TableMap[b]
           => a = b
  PROVE  size < Capacity \div 2
  <1> DEFINE f == [place \in Occupied |-> entries[place].pool_index]
             T == (0 .. MaxOrders - 1) \ {spare}
  <1>1. \A place \in Occupied :
          /\ entries[place].id \in OrderIds
          /\ TableMap[entries[place].id] = f[place]
          /\ TableMap[entries[place].id] # npos
    BY TableSays DEF IndexInv, IndexTypeOK, Occupied, holds
  <1>2. f \in [Occupied -> T]
    BY <1>1
  <1>3. \A p, q \in Occupied : f[p] = f[q] => p = q
    BY <1>1 DEF IndexInv, UniqueIds
  <1>4. f \in Injection(Occupied, T)
    BY <1>2, <1>3 DEF Injection, IsInjective
  <1>5. /\ IsFiniteSet(0 .. MaxOrders - 1)
        /\ Cardinality(0 .. MaxOrders - 1) = MaxOrders
        /\ MaxOrders \in Nat \ {0}
    BY FS_Interval, CapacityAssumption
  <1>6. IsFiniteSet(T) /\ Cardinality(T) = MaxOrders - 1
    BY <1>5, FS_RemoveElement
  <1> HIDE DEF f, T
  <1>7. Cardinality(Occupied) <= Cardinality(T)
    BY <1>4, <1>6, FS_Injection DEF ExistsInjection
  <1>8. size <= MaxOrders - 1 /\ size \in Nat
    BY <1>6, <1>7, CapacityFacts DEF IndexInv, IndexTypeOK, SizeExact
  <1>9. 2 * MaxOrders < Capacity /\ Capacity \in Nat
    BY CapacityAssumption
  <1> QED
    BY <1>5, <1>8, <1>9, Z3

LEMMA InsertTells ==
  ASSUME IndexInv, NEW id \in OrderIds, NEW i \in PoolIndices, Insert(id, i),
         size < Capacity \div 2
  PROVE  /\ IndexInv'
         /\ TableMap[id] = npos =>
              /\ answer' = Inserted(id, i, TRUE)
              /\ TableMap' = [TableMap EXCEPT ![id] = i]
         /\ TableMap[id] # npos =>
              answer' # Inserted(id, i, TRUE) /\ TableMap' = TableMap
  <1>1. IndexInv'
    BY IndexStep DEF IndexNext
  <1>2. size \in Nat /\ ~(size >= Capacity \div 2)
    BY CapacityFacts DEF IndexInv, IndexTypeOK
  <1>3. CASE InTable(id)
    <2>1. answer' = Inserted(id, i, FALSE) /\ UNCHANGED <<entries, size>>
      BY <1>3, InsertIs
    <2>2. answer' # Inserted(id, i, TRUE)
      BY <2>1 DEF Inserted
    <2>3. TableMap' = TableMap
      BY <2>1 DEF TableMap, Occupied
    <2>4. TableMap[id] # npos
      BY <1>3, TableSays DEF InTable
    <2> QED
      BY <1>1, <2>2, <2>3, <2>4
  <1>4. CASE ~InTable(id)
    <2>1. /\ answer' = Inserted(id, i, TRUE)
          /\ \E place \in Places : Stores(id, i, place)
      BY <1>2, <1>4, InsertIs
    <2>2. TableMap' = [TableMap EXCEPT ![id] = i]
      BY <1>4, <2>1, TableStores
    <2>3. TableMap[id] = npos
      BY <1>4, TableSays
    <2> QED
      BY <1>1, <2>1, <2>2, <2>3
  <1> QED
    BY <1>3, <1>4

LEMMA ClearTells ==
  ASSUME IndexClear
  PROVE  IndexInv' /\ TableMap' = [id \in OrderIds |-> npos]
  <1>1. (entries = [place \in Places |-> EmptyEntry] /\ size = 0 => IndexInv)'
    BY InitIndex, PTL
  <1>2. (entries = [place \in Places |-> EmptyEntry] =>
           TableMap = [id \in OrderIds |-> npos])'
    BY TableEmpty, PTL
  <1> QED
    BY <1>1, <1>2 DEF IndexClear

LEMMA InitTells ==
  ASSUME IndexInit
  PROVE  IndexInv /\ TableMap = [id \in OrderIds |-> npos]
  BY InitIndex, TableEmpty DEF IndexInit

=============================================================================
