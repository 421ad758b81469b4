----------------------------- MODULE HashTable ------------------------------
(***************************************************************************)
(* The hash table of HashTable.c, on which the inode cache, the duplicate  *)
(* request cache and the tables of NFSv4 states are built.  A row holds a  *)
(* red-black tree of nodes ordered by their rbt_value; keys that agree on  *)
(* both hash functions are told apart by compare_key.                      *)
(*                                                                         *)
(* An operation holds the lock of its row from beginning to end and is one *)
(* step here.  Between writers that is what RWLockProofs proves of the     *)
(* lock; that no HashTable_Get overlaps a writer is an assumption, for the *)
(* lock does not ensure it (ReaderWriterExclusion of RWLock).              *)
(*                                                                         *)
(* A tree is the set of its nodes: how the macros of rbt_tree.h order and  *)
(* balance it is not modelled, and nor are the statistics other than       *)
(* nb_entries.                                                             *)
(***************************************************************************)
EXTENDS Integers, FiniteSets

CONSTANTS
    Keys, Values,
    index_size,         \* number of rows
    hash_func_key,      \* the row of each key
    hash_func_rbt,      \* the value of each key in its tree
    MaxEntries,         \* bound on the count of one row
    NULL

ASSUME HashTableAssumption ==
    /\ index_size \in Nat \ {0}
    /\ hash_func_key \in [Keys -> 0 .. index_size - 1]
    /\ hash_func_rbt \in [Keys -> Int]
    /\ MaxEntries \in Nat
    /\ NULL \notin Values

Rows == 0 .. index_size - 1
Nodes == [rbt_value : Int, buffkey : Keys, buffval : Values]
How == {"TEST_ONLY", "SET_OVERWRITE", "SET_NO_OVERWRITE"}

VARIABLES
    array_rbt,          \* the nodes of each row
    nb_entries,         \* stat_dynamic[row].nb_entries
    last                \* the last call and what it returned

vars == <<array_rbt, nb_entries, last>>

Answer(op, k, rc, val) == last' = [op |-> op, key |-> k, rc |-> rc, val |-> val]

(***************************************************************************)
(* HashTable_Init                                                          *)
(***************************************************************************)
Init ==
    /\ array_rbt = [r \in Rows |-> {}]
    /\ nb_entries = [r \in Rows |-> 0]
    /\ last = NULL

\* Mutant of Key_Locate: the keys are not compared.
Key_Locate_NoCompare(k) ==
    {n \in array_rbt[hash_func_key[k]] : n.rbt_value = hash_func_rbt[k]}

(***************************************************************************)
(* The nodes of the key's row with its rbt_value for which compare_key     *)
(* recognises the key.                                                     *)
(***************************************************************************)
Key_Locate(k) ==
    {n \in array_rbt[hash_func_key[k]] :
        n.rbt_value = hash_func_rbt[k] /\ n.buffkey = k}

Node(k, v) == [rbt_value |-> hash_func_rbt[k], buffkey |-> k, buffval |-> v]

\* Mutant of Store: only an overwritten entry is counted.
Store_CountOverwrite(k, v) ==
    LET row == hash_func_key[k]
    IN  /\ nb_entries[row] < MaxEntries
        /\ \/ /\ Key_Locate(k) = {}
              /\ array_rbt' = [array_rbt EXCEPT ![row] = @ \cup {Node(k, v)}]
              /\ UNCHANGED nb_entries
           \/ \E n \in Key_Locate(k) :
                 /\ array_rbt' = [array_rbt EXCEPT ![row] = (@ \ {n}) \cup {Node(k, v)}]
                 /\ nb_entries' = [nb_entries EXCEPT ![row] = @ + 1]

(***************************************************************************)
(* The end of HashTable_Test_And_Set: the value and the key are written    *)
(* into the node, found or new, and the row counts one entry more in both  *)
(* cases.                                                                  *)
(***************************************************************************)
Store(k, v) ==
    LET row == hash_func_key[k]
    IN  /\ nb_entries[row] < MaxEntries
        /\ \/ /\ Key_Locate(k) = {}
              /\ array_rbt' = [array_rbt EXCEPT ![row] = @ \cup {Node(k, v)}]
           \/ \E n \in Key_Locate(k) :
                 array_rbt' = [array_rbt EXCEPT ![row] = (@ \ {n}) \cup {Node(k, v)}]
        /\ nb_entries' = [nb_entries EXCEPT ![row] = @ + 1]

Unchanged == UNCHANGED <<array_rbt, nb_entries>>

HashTable_Test_And_Set(k, v, how) ==
    \/ /\ how = "TEST_ONLY"
       /\ Answer(how, k, IF Key_Locate(k) = {} THEN "NO_SUCH_KEY" ELSE "SUCCESS", NULL)
       /\ Unchanged
    \/ /\ how = "SET_NO_OVERWRITE"
       /\ Key_Locate(k) # {}
       /\ Answer(how, k, "KEY_ALREADY_EXISTS", NULL)
       /\ Unchanged
    \/ /\ how # "TEST_ONLY"                 \* GET_PREALLOC finds no memory
       /\ Key_Locate(k) = {}
       /\ Answer(how, k, "MALLOC_ERROR", NULL)
       /\ Unchanged
    \/ /\ \/ how = "SET_OVERWRITE"
          \/ how = "SET_NO_OVERWRITE" /\ Key_Locate(k) = {}
       /\ Answer(how, k, "SUCCESS", NULL)
       /\ Store(k, v)

HashTable_Get(k) ==
    /\ \/ /\ Key_Locate(k) = {}
          /\ Answer("GET", k, "NO_SUCH_KEY", NULL)
       \/ \E n \in Key_Locate(k) : Answer("GET", k, "SUCCESS", n.buffval)
    /\ Unchanged

HashTable_Del(k) ==
    LET row == hash_func_key[k]
    IN  \/ /\ Key_Locate(k) = {}
           /\ Answer("DEL", k, "NO_SUCH_KEY", NULL)
           /\ Unchanged
        \/ \E n \in Key_Locate(k) :
              /\ array_rbt' = [array_rbt EXCEPT ![row] = @ \ {n}]
              /\ nb_entries' = [nb_entries EXCEPT ![row] = @ - 1]
              /\ Answer("DEL", k, "SUCCESS", n.buffval)

Next ==
    \E k \in Keys :
        \/ HashTable_Get(k)
        \/ HashTable_Del(k)
        \/ \E v \in Values, how \in How : HashTable_Test_And_Set(k, v, how)

Spec == Init /\ [][Next]_vars

-----------------------------------------------------------------------------
(***************************************************************************)
(* The rows hold nodes and the counters, unsigned in the code, have not    *)
(* wrapped: HashTable_Del never discounts an entry of an empty row.        *)
(***************************************************************************)
TypeOK ==
    /\ array_rbt \in [Rows -> SUBSET Nodes]
    /\ nb_entries \in [Rows -> Nat]

(***************************************************************************)
(* A key has at most one node, in the row and under the rbt_value that its *)
(* hash functions give: the first node at which Key_Locate stops is the    *)
(* only one HashTable_Del has to unlink.                                   *)
(***************************************************************************)
OneNodePerKey ==
    \A r \in Rows : \A m, n \in array_rbt[r] :
        /\ hash_func_key[n.buffkey] = r
        /\ hash_func_rbt[n.buffkey] = n.rbt_value
        /\ m.buffkey = n.buffkey => m = n

(***************************************************************************)
(* What HashTable_GetSize adds up is never less than what the rows hold.   *)
(***************************************************************************)
SizeNotBelow ==
    \A r \in Rows :
        IsFiniteSet(array_rbt[r]) /\ Cardinality(array_rbt[r]) <= nb_entries[r]

(***************************************************************************)
(* The table is a map, whatever keys collide: each call returns what the   *)
(* map would, and changes the value of its own key only.                   *)
(***************************************************************************)
map == [k \in Keys |-> IF Key_Locate(k) = {}
                       THEN NULL ELSE (CHOOSE n \in Key_Locate(k) : TRUE).buffval]

Map == INSTANCE HashMap WITH map <- map, last <- last

ImplementsMap == Map!Spec
=============================================================================
