---------------------------- MODULE MCDictionaries -----------------------------
(***************************************************************************)
(* The two dictionaries of the standard library on small key sets.  A      *)
(* behaviour uses one of them.                                             *)
(***************************************************************************)
EXTENDS HashMap

CONSTANTS
  Other, Member,   \* the one value of a set
  MapKeys,  \* the keys of a SortedMap
  SetKeys   \* the values of a SortedSet

\* One bucket of two and of four for three of the keys, so that chains of two
\* and of three are moved; one of them is apart from eight buckets on, and the
\* fourth key has a negative hash.
TestHash == [k \in 1 .. 4 |-> CASE k = 1 -> 0 [] k = 2 -> 8 [] k = 3 -> 4 [] k = 4 -> -1]

\* The sorted ones compare their keys, and a set's only value is one.
ASSUME KeysAssumption == MapKeys \cup SetKeys \subseteq Int /\ Member \in Values

VARIABLES container, root, size, treeCall

\* Set<T> and SortedSet<T> are the same code with the value as key and nothing
\* beside it: dictionaries with one value.
HashSet == INSTANCE HashMap WITH Values <- {Member}
Tree == INSTANCE SortedMap WITH
          Keys <- MapKeys \cup SetKeys, length <- size, call <- treeCall

MCInit ==
  /\ Init
  /\ Tree!Init
  /\ container \in {"Map", "Set", "SortedMap", "SortedSet"}

UsesHash ==
  /\ \/ container = "Map" /\ Next
     \/ container = "Set" /\ HashSet!Next
  /\ UNCHANGED <<container, root, size, treeCall>>

UsesTree ==
  /\ \/ /\ container = "SortedMap"
        /\ \E k \in MapKeys : Tree!CallRemove(k) \/ \E v \in Values : Tree!CallSet(k, v)
     \/ /\ container = "SortedSet"
        /\ \E k \in SetKeys : Tree!CallRemove(k) \/ Tree!CallSet(k, Member)
     \/ Tree!Set \/ Tree!Remove
  /\ UNCHANGED <<container, vars>>

MCSpec ==
  /\ MCInit
  /\ [][UsesHash \/ UsesTree]_<<vars, container, root, size, treeCall>>
  /\ WF_vars(UsesHash /\ call # NoCall)

TreeImplementsDictionary == Tree!ImplementsDictionary
SearchFinds == Tree!SearchFinds
TreeIsBalanced == Tree!TreeIsBalanced
=============================================================================
