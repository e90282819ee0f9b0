----------------------------- MODULE OrderIndex -----------------------------
(***************************************************************************)
(* The index from order ids to pool indices                                *)
(* (include/runtime/order_index.hpp): an open-addressing hash table with   *)
(* linear probing and tombstones.                                          *)
(***************************************************************************)
EXTENDS Integers, FiniteSets

CONSTANTS
  MaxOrders,    (* Config::max_orders                                      *)
  Capacity,     (* the number of entries                                   *)
  HashFactor,   (* the odd multiplier of hash(), modulo a power of 2       *)
  OrderIds,     (* the ids callers use                                     *)
  PoolIndices,  (* the pool indices callers store                          *)
  npos          (* the 32-bit "no index" value                             *)

(* order_index.hpp:19-28 fills the bits below the top bit of 2 * MaxOrders  *)
(* and adds 1: the least power of 2 above 2 * MaxOrders.                    *)
ASSUME CapacityAssumption ==
  /\ MaxOrders \in Nat \ {0} /\ Capacity \in Nat
  /\ \E k \in 2 .. 32 :
       Capacity = 2^k /\ 2^(k - 1) <= 2 * MaxOrders /\ 2 * MaxOrders < 2^k
ASSUME IdAssumption == OrderIds \subseteq Nat /\ HashFactor \in Nat
ASSUME IndexAssumption == PoolIndices \subseteq Nat /\ npos \notin Nat

VARIABLES
  entries,      (* entries_                                                *)
  size,         (* size_                                                   *)
  answer        (* what the last call returned                             *)

indexVars == <<entries, size, answer>>

(* What a call answers, and to which call.                                  *)
NoAnswer == <<>>
Found(id, i) == <<[find |-> id, found |-> i]>>
Inserted(id, i, ok) == <<[insert |-> id, stored |-> i, done |-> ok]>>
Erased(id, ok) == <<[erase |-> id, erased |-> ok]>>

Places == 0 .. Capacity - 1

empty_state == 0
occupied_state == 1
tombstone_state == 2

EmptyEntry == [id |-> 0, pool_index |-> npos, state |-> empty_state]
Tombstone == [id |-> 0, pool_index |-> npos, state |-> tombstone_state]

(* & (capacity - 1) is the remainder, capacity being a power of 2.          *)
hash(id) == (id * HashFactor) % Capacity

(* The place of the k-th probe for an id.                                   *)
probe(id, k) == (hash(id) + k) % Capacity

holds(place, id) ==
  entries[place].state = occupied_state /\ entries[place].id = id

isEmptyAt(place) == entries[place].state = empty_state

Least(S) == CHOOSE k \in S : \A j \in S : k <= j

(* The place a set of probes stops at first; Capacity if none does.         *)
firstOf(id, probes) ==
  IF probes = {} THEN Capacity ELSE probe(id, Least(probes))

-----------------------------------------------------------------------------

(* find_slot: the probe stops at an empty entry or at the id.               *)
find_slot(id) ==
  firstOf(id, {k \in Places : \/ isEmptyAt(probe(id, k))
                              \/ holds(probe(id, k), id)})

(* Mutant of find_slot_for_insert: the first tombstone is taken at once,    *)
(* before the id has been looked for behind it.                             *)
first_free_slot(id) ==
  firstOf(id, {k \in Places : \/ entries[probe(id, k)].state /= occupied_state
                              \/ holds(probe(id, k), id)})

(* Mutant of find_slot_for_insert: without an empty entry it gives up.      *)
slot_before_empty(id) ==
  LET stops == {k \in Places : \/ isEmptyAt(probe(id, k))
                               \/ holds(probe(id, k), id)}
      stop == IF stops = {} THEN Capacity ELSE Least(stops)
      tombstones == {k \in 0 .. stop - 1 :
                       entries[probe(id, k)].state = tombstone_state}
  IN IF stops = {} THEN Capacity
     ELSE IF holds(probe(id, stop), id) \/ tombstones = {}
          THEN probe(id, stop)
          ELSE firstOf(id, tombstones)

(* find_slot_for_insert: the place of the id, else the first tombstone met  *)
(* on the way to an empty entry, else that empty entry.                     *)
find_slot_for_insert(id) ==
  LET stops == {k \in Places : \/ isEmptyAt(probe(id, k))
                               \/ holds(probe(id, k), id)}
      stop == IF stops = {} THEN Capacity ELSE Least(stops)
      tombstones == {k \in 0 .. stop - 1 :
                       entries[probe(id, k)].state = tombstone_state}
  IN IF stops /= {} /\ (holds(probe(id, stop), id) \/ tombstones = {})
     THEN probe(id, stop)
     ELSE firstOf(id, tombstones)

(* find_slot_for_erase: an empty entry before the id means it is absent.    *)
find_slot_for_erase(id) ==
  LET place == find_slot(id)
  IN IF place /= Capacity /\ isEmptyAt(place) THEN Capacity ELSE place

-----------------------------------------------------------------------------

IndexInit ==
  /\ entries = [place \in Places |-> EmptyEntry]
  /\ size = 0
  /\ answer = NoAnswer

(* What find() returns: the pool index of the entry the probe stopped at,   *)
(* be it empty.                                                             *)
pool_index_of(id) ==
  LET place == find_slot(id)
  IN IF place = Capacity THEN npos ELSE entries[place].pool_index

Find(id) ==
  /\ answer' = Found(id, pool_index_of(id))
  /\ UNCHANGED <<entries, size>>

Insert(id, i) ==
  LET place == find_slot_for_insert(id)
  IN IF size >= Capacity \div 2 \/ place = Capacity \/ holds(place, id)
     THEN /\ answer' = Inserted(id, i, FALSE)
          /\ UNCHANGED <<entries, size>>
     ELSE /\ entries' = [entries EXCEPT ![place] =
               [id |-> id, pool_index |-> i, state |-> occupied_state]]
          /\ size' = size + 1
          /\ answer' = Inserted(id, i, TRUE)

(* Mutant of Erase: the entry is marked empty instead of a tombstone.       *)
EraseToEmpty(id) ==
  LET place == find_slot_for_erase(id)
  IN IF place = Capacity
     THEN answer' = Erased(id, FALSE) /\ UNCHANGED <<entries, size>>
     ELSE /\ entries' = [entries EXCEPT ![place] = EmptyEntry]
          /\ size' = size - 1
          /\ answer' = Erased(id, TRUE)

(* Mutant of Erase: the tombstone keeps the pool index of the erased id.    *)
EraseKeepsIndex(id) ==
  LET place == find_slot_for_erase(id)
  IN IF place = Capacity
     THEN answer' = Erased(id, FALSE) /\ UNCHANGED <<entries, size>>
     ELSE /\ entries' = [entries EXCEPT ![place].state = tombstone_state]
          /\ size' = size - 1
          /\ answer' = Erased(id, TRUE)

(* Mutant of Erase: size_ counts the erased entry for ever.                 *)
EraseUncounted(id) ==
  LET place == find_slot_for_erase(id)
  IN IF place = Capacity
     THEN answer' = Erased(id, FALSE) /\ UNCHANGED <<entries, size>>
     ELSE /\ entries' = [entries EXCEPT ![place] = Tombstone]
          /\ answer' = Erased(id, TRUE)
          /\ UNCHANGED size

Erase(id) ==
  LET place == find_slot_for_erase(id)
  IN IF place = Capacity
     THEN answer' = Erased(id, FALSE) /\ UNCHANGED <<entries, size>>
     ELSE /\ entries' = [entries EXCEPT ![place] = Tombstone]
          /\ size' = size - 1
          /\ answer' = Erased(id, TRUE)

IndexClear ==
  /\ entries' = [place \in Places |-> EmptyEntry]
  /\ size' = 0
  /\ answer' = NoAnswer

IndexNext ==
  \/ \E id \in OrderIds : \/ \E i \in PoolIndices : Insert(id, i)
                          \/ Erase(id)
                          \/ Find(id)
  \/ IndexClear

IndexSpec == IndexInit /\ [][IndexNext]_indexVars

-----------------------------------------------------------------------------

Occupied == {place \in Places : entries[place].state = occupied_state}

(* An entry that holds no id holds no pool index either: find() returns the *)
(* pool index of the entry it stops at, even when that entry is empty.      *)
IndexTypeOK ==
  /\ entries \in [Places -> [id : OrderIds \cup {0},
                             pool_index : PoolIndices \cup {npos},
                             state : {empty_state, occupied_state,
                                      tombstone_state}]]
  /\ \A place \in Places \ Occupied : entries[place].pool_index = npos
  /\ \A place \in Occupied : entries[place].id \in OrderIds
                             /\ entries[place].pool_index \in PoolIndices
  /\ size \in 0 .. Capacity \div 2

(* Every id present can be reached: no probe from its hash meets an empty   *)
(* entry before it, whatever was inserted and erased in between.            *)
Reachable ==
  \A place \in Occupied :
    \E k \in Places :
      /\ probe(entries[place].id, k) = place
      /\ \A j \in 0 .. k - 1 : ~isEmptyAt(probe(entries[place].id, j))

(* No id is in the table twice: insert must see an id behind tombstones.    *)
UniqueIds ==
  \A p, q \in Occupied : entries[p].id = entries[q].id => p = q

(* size_, which insert() compares with half the capacity, counts the ids.   *)
SizeExact == size = Cardinality(Occupied)

(* The ids the table holds, as the map it promises to be.                   *)
TableMap ==
  [id \in OrderIds |->
     LET at == {place \in Occupied : entries[place].id = id}
     IN IF at = {} THEN npos ELSE entries[CHOOSE p \in at : TRUE].pool_index]

Map == INSTANCE IdMap WITH map <- TableMap, Limit <- Capacity \div 2

(* The table is that map: each call returns what the map returns, however   *)
(* full of tombstones the table is, and insert fails on a full map or a     *)
(* present id only.                                                         *)
ImplementsMap == Map!MapSpec

=============================================================================
