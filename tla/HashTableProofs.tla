-------------------------- MODULE HashTableProofs ---------------------------
(***************************************************************************)
(* The hash table implements a map for every set of keys and values, every *)
(* number of rows and every pair of hash functions.                        *)
(***************************************************************************)
EXTENDS HashTable, FiniteSetTheorems, TLAPS

(***************************************************************************)
(* The three invariants are inductive together: that a key has one node is *)
(* what makes an overwrite and a deletion change the size of a row by what *)
(* they change its count, or less.                                         *)
(***************************************************************************)
IInv == TypeOK /\ OneNodePerKey /\ SizeNotBelow

(***************************************************************************)
(* The node Key_Locate stops at is the only one with the key.              *)
(***************************************************************************)
LEMMA LocateUnique ==
    ASSUME OneNodePerKey, HashTableAssumption, NEW k \in Keys,
           NEW m \in Key_Locate(k), NEW n \in Key_Locate(k)
    PROVE  m = n
  <1>1. hash_func_key[k] \in Rows
    BY DEF HashTableAssumption, Rows
  <1>2. QED
    BY <1>1 DEF OneNodePerKey, Key_Locate

(***************************************************************************)
(* The value of the map at a key, from the node the table has for it.      *)
(***************************************************************************)
LEMMA MapOfNode ==
    ASSUME OneNodePerKey, NEW k \in Keys, NEW n \in Key_Locate(k)
    PROVE  map[k] = n.buffval
  <1>1. Key_Locate(k) # {}
    OBVIOUS
  <1>2. (CHOOSE m \in Key_Locate(k) : TRUE) \in Key_Locate(k)
    BY <1>1
  <1>3. (CHOOSE m \in Key_Locate(k) : TRUE) = n
    BY <1>2, LocateUnique, HashTableAssumption
  <1>4. QED
    BY <1>1, <1>3, Zenon DEF map

(***************************************************************************)
(* A key that Key_Locate does not find has no value in the map.            *)
(***************************************************************************)
LEMMA MapOfNone ==
    ASSUME NEW k \in Keys, Key_Locate(k) = {}
    PROVE  map[k] = NULL
  BY DEF map

(***************************************************************************)
(* The codes of the table are the codes of the map.                        *)
(***************************************************************************)
LEMMA FoundLocated ==
    ASSUME TypeOK, OneNodePerKey, NEW k \in Keys
    PROVE  (map[k] = NULL) <=> (Key_Locate(k) = {})
  <1>1. CASE Key_Locate(k) = {}
    BY <1>1, MapOfNone
  <1>2. CASE Key_Locate(k) # {}
    <2>1. PICK n \in Key_Locate(k) : TRUE
      BY <1>2
    <2>2. n \in Nodes
      BY <2>1, HashTableAssumption DEF TypeOK, Key_Locate, Rows
    <2>3. n.buffval # NULL
      BY <2>2, HashTableAssumption DEF Nodes, HashTableAssumption
    <2>4. QED
      BY <1>2, <2>1, <2>3, MapOfNode
  <1>3. QED
    BY <1>1, <1>2

-----------------------------------------------------------------------------
(***************************************************************************)
(* Store leaves exactly the new node for its key and the nodes of the      *)
(* other keys as they were.                                                *)
(***************************************************************************)
LEMMA StoreRows ==
    ASSUME IInv, NEW k \in Keys, NEW v \in Values, Store(k, v)
    PROVE  array_rbt' = [array_rbt EXCEPT ![hash_func_key[k]] =
                           (@ \ Key_Locate(k)) \cup {Node(k, v)}]
  <1>1. CASE Key_Locate(k) = {}
    BY <1>1 DEF Store
  <1>2. CASE Key_Locate(k) # {}
    <2>1. PICK n \in Key_Locate(k) :
             array_rbt' = [array_rbt EXCEPT ![hash_func_key[k]] =
                             (@ \ {n}) \cup {Node(k, v)}]
      BY <1>2 DEF Store
    <2>2. Key_Locate(k) = {n}
      BY <2>1, LocateUnique, HashTableAssumption DEF IInv
    <2>3. QED
      BY <2>1, <2>2
  <1>3. QED
    BY <1>1, <1>2

(***************************************************************************)
(* HashTable_Del, when it finds the key, leaves the nodes of the other     *)
(* keys.                                                                   *)
(***************************************************************************)
LEMMA DelRows ==
    ASSUME IInv, NEW k \in Keys, NEW n \in Key_Locate(k),
           array_rbt' = [array_rbt EXCEPT ![hash_func_key[k]] = @ \ {n}]
    PROVE  array_rbt' = [array_rbt EXCEPT ![hash_func_key[k]] = @ \ Key_Locate(k)]
  <1>1. Key_Locate(k) = {n}
    BY LocateUnique, HashTableAssumption DEF IInv
  <1>2. QED
    BY <1>1

(***************************************************************************)
(* One element more makes a finite set larger by at most one.              *)
(***************************************************************************)
LEMMA AddOne ==
    ASSUME NEW S, NEW x, IsFiniteSet(S)
    PROVE  /\ IsFiniteSet(S \cup {x})
           /\ Cardinality(S \cup {x}) <= Cardinality(S) + 1
  <1>1. /\ IsFiniteSet(S \cup {x})
        /\ \/ Cardinality(S \cup {x}) = Cardinality(S)
           \/ Cardinality(S \cup {x}) = Cardinality(S) + 1
    BY FS_AddElement
  <1>2. Cardinality(S) \in Nat
    BY FS_CardinalityType
  <1>3. QED
    BY <1>1, <1>2

(***************************************************************************)
(* Writing a node keeps one node per key.                                  *)
(***************************************************************************)
LEMMA StoreKeeps ==
    ASSUME IInv, NEW k \in Keys, NEW v \in Values, Store(k, v)
    PROVE  IInv'
  <1> DEFINE row == hash_func_key[k]
             rest == array_rbt[row] \ Key_Locate(k)
  <1>1. row \in Rows /\ hash_func_rbt[k] \in Int
    BY HashTableAssumption DEF HashTableAssumption, Rows
  <1>2. /\ array_rbt' = [array_rbt EXCEPT ![row] = rest \cup {Node(k, v)}]
        /\ nb_entries' = [nb_entries EXCEPT ![row] = @ + 1]
    BY StoreRows, Zenon DEF Store
  <1>3. /\ Node(k, v) \in Nodes
        /\ Node(k, v).buffkey = k
        /\ Node(k, v).rbt_value = hash_func_rbt[k]
    BY <1>1 DEF Node, Nodes
  <1>4. TypeOK'
    BY <1>1, <1>2, <1>3 DEF IInv, TypeOK
  <1>5. \A n \in rest : n.buffkey # k
    BY <1>1 DEF IInv, OneNodePerKey, Key_Locate
  <1>6. OneNodePerKey'
    <2> SUFFICES ASSUME NEW r \in Rows,
                        NEW m \in array_rbt'[r], NEW n \in array_rbt'[r]
                 PROVE  /\ hash_func_key[n.buffkey] = r
                        /\ hash_func_rbt[n.buffkey] = n.rbt_value
                        /\ m.buffkey = n.buffkey => m = n
      BY DEF OneNodePerKey
    <2>1. CASE r # row
      <3>1. array_rbt'[r] = array_rbt[r]
        BY <1>1, <1>2, <2>1 DEF IInv, TypeOK
      <3>2. QED
        BY <3>1 DEF IInv, OneNodePerKey
    <2>2. CASE r = row
      <3>1. array_rbt'[r] = rest \cup {Node(k, v)}
        BY <1>1, <1>2, <2>2 DEF IInv, TypeOK
      <3>2. \A x \in rest : x \in array_rbt[r]
        BY <2>2
      <3>3. QED
        BY <1>3, <1>5, <2>2, <3>1, <3>2 DEF IInv, OneNodePerKey
    <2>3. QED
      BY <2>1, <2>2
  <1>7. SizeNotBelow'
    <2> SUFFICES ASSUME NEW r \in Rows
                 PROVE  /\ IsFiniteSet(array_rbt'[r])
                        /\ Cardinality(array_rbt'[r]) <= nb_entries'[r]
      BY DEF SizeNotBelow
    <2>1. CASE r # row
      BY <1>1, <1>2, <2>1 DEF IInv, TypeOK, SizeNotBelow
    <2>2. CASE r = row
      <3>1. IsFiniteSet(array_rbt[r]) /\ Cardinality(array_rbt[r]) <= nb_entries[r]
        BY DEF IInv, SizeNotBelow
      <3>2. /\ IsFiniteSet(rest)
            /\ Cardinality(rest) <= Cardinality(array_rbt[r])
        BY <2>2, <3>1, FS_Subset
      <3>3. /\ IsFiniteSet(rest \cup {Node(k, v)})
            /\ Cardinality(rest \cup {Node(k, v)}) <= Cardinality(rest) + 1
        BY <3>2, AddOne, Zenon
      <3>4. /\ array_rbt'[r] = rest \cup {Node(k, v)}
            /\ nb_entries'[r] = nb_entries[r] + 1
            /\ nb_entries[r] \in Nat
        BY <1>1, <1>2, <2>2 DEF IInv, TypeOK
      <3>5. /\ Cardinality(rest) \in Nat
            /\ Cardinality(array_rbt[r]) \in Nat
            /\ Cardinality(rest \cup {Node(k, v)}) \in Nat
        BY <3>1, <3>2, <3>3, FS_CardinalityType
      <3>6. QED
        BY <3>1, <3>2, <3>3, <3>4, <3>5
    <2>3. QED
      BY <2>1, <2>2
  <1>8. QED
    BY <1>4, <1>6, <1>7 DEF IInv

(***************************************************************************)
(* Unlinking the node of a key keeps the invariant; in particular the row  *)
(* counted at least that node, so that the counter does not go below zero. *)
(***************************************************************************)
LEMMA DelKeeps ==
    ASSUME IInv, NEW k \in Keys, NEW n \in Key_Locate(k),
           array_rbt' = [array_rbt EXCEPT ![hash_func_key[k]] = @ \ {n}],
           nb_entries' = [nb_entries EXCEPT ![hash_func_key[k]] = @ - 1]
    PROVE  IInv'
  <1> DEFINE row == hash_func_key[k]
  <1>1. row \in Rows
    BY HashTableAssumption DEF HashTableAssumption, Rows
  <1>2. n \in array_rbt[row]
    BY DEF Key_Locate
  <1>3. /\ IsFiniteSet(array_rbt[row])
        /\ Cardinality(array_rbt[row]) <= nb_entries[row]
        /\ nb_entries[row] \in Nat
    BY <1>1 DEF IInv, TypeOK, SizeNotBelow
  <1>4. /\ IsFiniteSet(array_rbt[row] \ {n})
        /\ Cardinality(array_rbt[row] \ {n}) = Cardinality(array_rbt[row]) - 1
    BY <1>2, <1>3, FS_RemoveElement, Zenon
  <1>5. /\ Cardinality(array_rbt[row]) \in Nat
        /\ Cardinality(array_rbt[row] \ {n}) \in Nat
    BY <1>3, <1>4, FS_CardinalityType
  <1>6. TypeOK'
    <2>1. nb_entries[row] - 1 \in Nat
      BY <1>3, <1>4, <1>5
    <2>2. QED
      BY <1>1, <2>1 DEF IInv, TypeOK
  <1>7. \A r \in Rows : array_rbt'[r] \subseteq array_rbt[r]
    BY <1>1 DEF IInv, TypeOK
  <1>8. OneNodePerKey'
    BY <1>7 DEF IInv, OneNodePerKey
  <1>9. SizeNotBelow'
    <2> SUFFICES ASSUME NEW r \in Rows
                 PROVE  /\ IsFiniteSet(array_rbt'[r])
                        /\ Cardinality(array_rbt'[r]) <= nb_entries'[r]
      BY DEF SizeNotBelow
    <2>1. CASE r # row
      BY <1>1, <2>1 DEF IInv, TypeOK, SizeNotBelow
    <2>2. CASE r = row
      <3>1. /\ array_rbt'[r] = array_rbt[row] \ {n}
            /\ nb_entries'[r] = nb_entries[row] - 1
        BY <1>1, <2>2 DEF IInv, TypeOK
      <3> HIDE DEF row
      <3>2. Cardinality(array_rbt[row]) - 1 <= nb_entries[row] - 1
        BY <1>3, <1>5
      <3>3. QED
        BY <1>4, <3>1, <3>2, SMTT(30)
    <2>3. QED
      BY <2>1, <2>2
  <1>10. QED
    BY <1>6, <1>8, <1>9 DEF IInv

-----------------------------------------------------------------------------
(***************************************************************************)
(* IInv holds of every reachable state of the table.                       *)
(***************************************************************************)
THEOREM SpecIInv == Spec => []IInv
  <1>1. Init => IInv
    <2> SUFFICES ASSUME Init PROVE IInv
      OBVIOUS
    <2>1. TypeOK /\ OneNodePerKey
      BY DEF Init, TypeOK, OneNodePerKey
    <2>2. IsFiniteSet({}) /\ Cardinality({}) = 0
      BY FS_EmptySet
    <2>3. SizeNotBelow
      BY <2>2 DEF Init, SizeNotBelow
    <2>4. QED
      BY <2>1, <2>3 DEF IInv
  <1>2. IInv /\ [Next]_vars => IInv'
    <2> SUFFICES ASSUME IInv, [Next]_vars PROVE IInv'
      OBVIOUS
    <2>1. CASE Unchanged
      BY <2>1 DEF Unchanged, IInv, TypeOK, OneNodePerKey, SizeNotBelow
    <2>2. CASE UNCHANGED vars
      BY <2>1, <2>2 DEF vars, Unchanged
    <2>3. ASSUME NEW k \in Keys, HashTable_Get(k) PROVE IInv'
      BY <2>1, <2>3 DEF HashTable_Get
    <2>4. ASSUME NEW k \in Keys, HashTable_Del(k) PROVE IInv'
      BY <2>1, <2>4, DelKeeps DEF HashTable_Del
    <2>5. ASSUME NEW k \in Keys, NEW v \in Values, NEW how \in How,
                 HashTable_Test_And_Set(k, v, how)
          PROVE  IInv'
      BY <2>1, <2>5, StoreKeeps DEF HashTable_Test_And_Set
    <2>6. QED
      BY <2>2, <2>3, <2>4, <2>5 DEF Next
  <1>3. QED
    BY <1>1, <1>2, PTL DEF Spec

(***************************************************************************)
(* The counters of the rows are natural numbers in every reachable state:  *)
(* the unsigned nb_entries never wraps.                                    *)
(***************************************************************************)
THEOREM TableTypes == Spec => []TypeOK
  BY SpecIInv, PTL DEF IInv

(***************************************************************************)
(* No key ever has two nodes, whatever the hash functions.                 *)
(***************************************************************************)
THEOREM OneNodeForEachKey == Spec => []OneNodePerKey
  BY SpecIInv, PTL DEF IInv

(***************************************************************************)
(* HashTable_GetSize never reports less than the table holds.              *)
(***************************************************************************)
THEOREM SizeNeverBelow == Spec => []SizeNotBelow
  BY SpecIInv, PTL DEF IInv

-----------------------------------------------------------------------------
(***************************************************************************)
(* After a Store the map has the new value for the key, and the other keys *)
(* keep theirs: a node with another key is found by that key only.         *)
(***************************************************************************)
LEMMA StoreMaps ==
    ASSUME IInv, NEW k \in Keys, NEW v \in Values, Store(k, v)
    PROVE  map' = [map EXCEPT ![k] = v]
  <1> DEFINE row == hash_func_key[k]
  <1>1. row \in Rows /\ \A j \in Keys : hash_func_key[j] \in Rows
    BY HashTableAssumption DEF HashTableAssumption, Rows
  <1>2. array_rbt' = [array_rbt EXCEPT ![row] =
                        (@ \ Key_Locate(k)) \cup {Node(k, v)}]
    BY StoreRows
  <1>3. /\ Node(k, v).buffkey = k
        /\ Node(k, v).buffval = v
        /\ Node(k, v).rbt_value = hash_func_rbt[k]
    BY DEF Node
  <1>4. Node(k, v) \in Key_Locate(k)'
    <2>1. Node(k, v) \in array_rbt'[row]
      BY <1>1, <1>2 DEF IInv, TypeOK
    <2>2. QED
      BY <1>3, <2>1 DEF Key_Locate
  <1>5. map'[k] = v
    <2>1. IInv'
      BY StoreKeeps
    <2>2. \A m \in Key_Locate(k)' : m = Node(k, v)
      BY <1>1, <1>4, <2>1 DEF IInv, OneNodePerKey, Key_Locate
    <2>3. Key_Locate(k)' # {}
      BY <1>4
    <2>4. (CHOOSE m \in Key_Locate(k)' : TRUE) = Node(k, v)
      BY <2>2, <2>3
    <2>5. QED
      BY <1>3, <2>3, <2>4, Zenon DEF map
  <1>6. ASSUME NEW j \in Keys, j # k PROVE map'[j] = map[j]
    <2>1. Key_Locate(j)' = Key_Locate(j)
      BY <1>1, <1>2, <1>3, <1>6 DEF IInv, TypeOK, Key_Locate
    <2>2. QED
      BY <2>1 DEF map
  <1>7. /\ map = [j \in Keys |-> map[j]]
        /\ map' = [j \in Keys |-> map'[j]]
    BY DEF map
  <1>8. QED
    BY <1>5, <1>6, <1>7

(***************************************************************************)
(* After HashTable_Del has unlinked its node the key has no value.         *)
(***************************************************************************)
LEMMA DelMaps ==
    ASSUME IInv, NEW k \in Keys, NEW n \in Key_Locate(k),
           array_rbt' = [array_rbt EXCEPT ![hash_func_key[k]] = @ \ {n}]
    PROVE  map' = [map EXCEPT ![k] = NULL]
  <1> DEFINE row == hash_func_key[k]
  <1>1. row \in Rows /\ \A j \in Keys : hash_func_key[j] \in Rows
    BY HashTableAssumption DEF HashTableAssumption, Rows
  <1>2. array_rbt' = [array_rbt EXCEPT ![row] = @ \ Key_Locate(k)]
    BY DelRows, Zenon
  <1>3. Key_Locate(k)' = {}
    BY <1>1, <1>2 DEF IInv, TypeOK, Key_Locate
  <1>4. map'[k] = NULL
    BY <1>3 DEF map
  <1>5. ASSUME NEW j \in Keys, j # k PROVE map'[j] = map[j]
    <2>1. Key_Locate(j)' = Key_Locate(j)
      BY <1>1, <1>2, <1>5 DEF IInv, TypeOK, Key_Locate
    <2>2. QED
      BY <2>1 DEF map
  <1>6. QED
    BY <1>4, <1>5, Zenon DEF map

(***************************************************************************)
(* A call that changes no row does not change the map.                     *)
(***************************************************************************)
LEMMA UnchangedMaps == ASSUME Unchanged PROVE map' = map
  <1>1. ASSUME NEW k \in Keys PROVE map'[k] = map[k]
    <2>1. Key_Locate(k)' = Key_Locate(k)
      BY DEF Unchanged, Key_Locate
    <2>2. QED
      BY <2>1 DEF map
  <1>2. /\ map = [k \in Keys |-> map[k]]
        /\ map' = [k \in Keys |-> map'[k]]
    BY DEF map
  <1>3. QED
    BY <1>1, <1>2

(***************************************************************************)
(* HashTable.c implements a map: every behaviour of the table, seen        *)
(* through the value each key's node holds, is one of HashMap.             *)
(***************************************************************************)
THEOREM TableImplementsMap == Spec => ImplementsMap
  <1>1. Init => Map!Init
    <2> SUFFICES ASSUME Init PROVE Map!Init
      OBVIOUS
    <2>1. \A k \in Keys : Key_Locate(k) = {}
      BY HashTableAssumption DEF HashTableAssumption, Init, Key_Locate, Rows
    <2>2. map = [k \in Keys |-> NULL]
      BY <2>1 DEF map
    <2>3. QED
      BY <2>2 DEF Init, Map!Init
  <1>2. IInv /\ [Next]_vars => [Map!Next]_<<map, last>>
    <2> SUFFICES ASSUME IInv, [Next]_vars PROVE [Map!Next]_<<map, last>>
      OBVIOUS
    <2>1. CASE UNCHANGED vars
      BY <2>1, UnchangedMaps DEF vars, Unchanged
    <2>2. \A k \in Keys : (map[k] = NULL) <=> (Key_Locate(k) = {})
      BY FoundLocated DEF IInv
    <2>3. ASSUME NEW k \in Keys, HashTable_Get(k) PROVE Map!Get(k)
      <3>1. map' = map
        BY <2>3, UnchangedMaps DEF HashTable_Get
      <3>2. CASE Key_Locate(k) = {}
        BY <2>2, <2>3, <3>1, <3>2 DEF HashTable_Get, Answer, Map!Get, Map!Answer, Map!Found
      <3>3. CASE Key_Locate(k) # {}
        <4>1. PICK n \in Key_Locate(k) : Answer("GET", k, "SUCCESS", n.buffval)
          BY <2>3, <3>3 DEF HashTable_Get
        <4>2. map[k] = n.buffval
          BY MapOfNode DEF IInv
        <4>3. QED
          BY <2>2, <3>1, <3>3, <4>1, <4>2 DEF Answer, Map!Get, Map!Answer, Map!Found
      <3>4. QED
        BY <3>2, <3>3
    <2>4. ASSUME NEW k \in Keys, HashTable_Del(k) PROVE Map!Del(k)
      <3>1. CASE Key_Locate(k) = {}
        <4>1. map' = map /\ map[k] = NULL
          BY <2>2, <2>4, <3>1, UnchangedMaps DEF HashTable_Del
        <4>2. map = [map EXCEPT ![k] = NULL]
          BY <4>1 DEF map
        <4>3. Answer("DEL", k, "NO_SUCH_KEY", NULL)
          BY <2>4, <3>1 DEF HashTable_Del
        <4>4. QED
          BY <4>1, <4>2, <4>3 DEF Answer, Map!Del, Map!Answer, Map!Found
      <3>2. CASE Key_Locate(k) # {}
        <4>1. PICK n \in Key_Locate(k) :
                 /\ array_rbt' = [array_rbt EXCEPT ![hash_func_key[k]] = @ \ {n}]
                 /\ Answer("DEL", k, "SUCCESS", n.buffval)
          BY <2>4, <3>2 DEF HashTable_Del
        <4>2. map[k] = n.buffval
          BY MapOfNode DEF IInv
        <4>3. map' = [map EXCEPT ![k] = NULL]
          BY <4>1, DelMaps, Zenon
        <4>4. QED
          BY <2>2, <3>2, <4>1, <4>2, <4>3 DEF Answer, Map!Del, Map!Answer, Map!Found
      <3>3. QED
        BY <3>1, <3>2
    <2>5. ASSUME NEW k \in Keys, NEW v \in Values, NEW how \in How,
                 HashTable_Test_And_Set(k, v, how)
          PROVE  Map!Test(k) \/ Map!SetFailed(k) \/ Map!Set(k, v)
      <3>1. CASE Unchanged
        <4>1. map' = map
          BY <3>1, UnchangedMaps
        <4>2. CASE how = "TEST_ONLY"
          BY <2>2, <2>5, <4>1, <4>2
          DEF HashTable_Test_And_Set, Answer, Map!Test, Map!Answer, Map!Found
        <4>3. CASE how # "TEST_ONLY" /\ ~ Store(k, v)
          BY <2>2, <2>5, <4>1, <4>3
          DEF HashTable_Test_And_Set, How, Answer, Map!SetFailed, Map!Answer
        <4>4. CASE Store(k, v)
          <5>1. nb_entries'[hash_func_key[k]] = nb_entries[hash_func_key[k]] + 1
            BY <4>4, HashTableAssumption
            DEF Store, IInv, TypeOK, HashTableAssumption, Rows
          <5>2. nb_entries[hash_func_key[k]] \in Nat
            BY HashTableAssumption DEF IInv, TypeOK, HashTableAssumption, Rows
          <5>3. QED
            BY <3>1, <5>1, <5>2 DEF Unchanged
        <4>5. QED
          BY <4>2, <4>3, <4>4
      <3>2. CASE Store(k, v) /\ ~ Unchanged
        BY <2>2, <2>5, <3>2, StoreMaps
        DEF HashTable_Test_And_Set, Answer, Map!Set, Map!Answer
      <3>3. QED
        BY <2>5, <3>1, <3>2 DEF HashTable_Test_And_Set
    <2>6. QED
      BY <2>1, <2>3, <2>4, <2>5 DEF Next, Map!Next
  <1>3. QED
    BY <1>1, <1>2, SpecIInv, PTL DEF Spec, ImplementsMap, Map!Spec
=============================================================================
