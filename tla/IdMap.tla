------------------------------- MODULE IdMap -------------------------------
(***************************************************************************)
(* What the order index promises: a map from order ids to pool indices     *)
(* that holds at most Limit ids.                                           *)
(***************************************************************************)
EXTENDS Integers, FiniteSets

CONSTANTS
  OrderIds,     (* the ids callers use                                     *)
  PoolIndices,  (* the pool indices callers store                          *)
  npos,         (* "no index"                                              *)
  Limit         (* the number of ids the map holds at most                 *)

VARIABLES
  map,          (* the pool index of each id, npos for an absent one       *)
  answer        (* what the last call returned                             *)

mapVars == <<map, answer>>

(* What a call answers, and to which call.                                  *)
NoAnswer == <<>>
Found(id, i) == <<[find |-> id, found |-> i]>>
Inserted(id, i, ok) == <<[insert |-> id, stored |-> i, done |-> ok]>>
Erased(id, ok) == <<[erase |-> id, erased |-> ok]>>

Present == {id \in OrderIds : map[id] /= npos}

MapInit == map = [id \in OrderIds |-> npos] /\ answer = NoAnswer

(* insert() of an id that is present, or into a full map, changes nothing.  *)
MapRefused(id, i) ==
  /\ answer' = Inserted(id, i, FALSE)
  /\ id \in Present \/ Cardinality(Present) >= Limit
  /\ UNCHANGED map

MapInserted(id, i) ==
  /\ answer' = Inserted(id, i, TRUE)
  /\ id \notin Present /\ Cardinality(Present) < Limit
  /\ map' = [map EXCEPT ![id] = i]

MapMissed(id) ==
  /\ answer' = Erased(id, FALSE)
  /\ id \notin Present
  /\ UNCHANGED map

MapErased(id) ==
  /\ answer' = Erased(id, TRUE)
  /\ id \in Present
  /\ map' = [map EXCEPT ![id] = npos]

MapFound(id, i) ==
  /\ answer' = Found(id, i)
  /\ map[id] = i
  /\ UNCHANGED map

MapClear == map' = [id \in OrderIds |-> npos] /\ answer' = NoAnswer

MapNext ==
  \/ \E id \in OrderIds :
       \/ \E i \in PoolIndices : MapRefused(id, i) \/ MapInserted(id, i)
       \/ MapMissed(id) \/ MapErased(id)
       \/ \E i \in PoolIndices \cup {npos} : MapFound(id, i)
  \/ MapClear

MapSpec == MapInit /\ [][MapNext]_mapVars

=============================================================================
