------------------------------- MODULE HashMap --------------------------------
(***************************************************************************)
(* Map<K,V> (and, with a single value, Set<T>): an array of chains that    *)
(* doubles when it is more than three quarters full.  One action per turn  *)
(* of a loop; an operation runs alone, from its call to its return.        *)
(*                                                                         *)
(* Nothing is ever freed.  An entry that was removed is never seen again,  *)
(* so the model forgets it and malloc may hand out its address once more:  *)
(* this keeps Entries finite and changes nothing that can be observed.     *)
(***************************************************************************)
EXTENDS Integers, FiniteSets

CONSTANTS
  Keys, Values,
  Hash,            \* hash<K>(key), negative for some keys
  InitialBuckets,  \* 8 in newMap
  Entries,         \* addresses of entries
  Null

ASSUME BucketsAssumption ==
  InitialBuckets \in Nat \ {0} /\ \E n \in 0 .. 29 : InitialBuckets = 2 ^ n
ASSUME HashAssumption == Hash \in [Keys -> Int]

\* malloc never fails: there is an address for an entry of every key.
ASSUME EntriesAssumption ==
  /\ IsFiniteSet(Keys) /\ IsFiniteSet(Entries)
  /\ Cardinality(Keys) <= Cardinality(Entries)
  /\ Null \notin Entries

VARIABLES
  heap,     \* the entries, as far as malloc handed them out
  buckets,  \* self.buckets; its domain is 0 .. bucketCount - 1
  length,
  call,     \* the running operation and its arguments
  cur, prev,  \* its locals
  newBuckets, j   \* the locals of resize

vars == <<heap, buckets, length, call, cur, prev, newBuckets, j>>

NoCall == [op |-> "none"]

Count(array) == Cardinality(DOMAIN array)

\* hash & (count - 1), with the count a power of two
BucketIn(array, k) == Hash[k] % Count(array)

Bucket(k) == BucketIn(buckets, k)

Here == heap[cur]

EmptyArray(count) == [i \in 0 .. count - 1 |-> Null]

Init ==
  /\ heap = [e \in {} |-> Null]
  /\ buckets = EmptyArray(InitialBuckets)
  /\ length = 0
  /\ call = NoCall
  /\ cur = Null /\ prev = Null /\ newBuckets = EmptyArray(0) /\ j = 0

Closed(h, S) == \A e \in S \cap DOMAIN h : h[e].next \in S \cup {Null}

\* The entries that chains starting in the addresses go through: the least set
\* that has the addresses and, with an entry, the next one.
From(h, addresses) ==
  {e \in Entries : \A S \in SUBSET Entries :
     addresses \subseteq S \cup {Null} /\ Closed(h, S) => e \in S}

Resizing == call.op = "resize"

\* Where the chains start; during a resize some have moved, one moves.
Heads ==
  IF Resizing
  THEN {newBuckets[i] : i \in DOMAIN newBuckets}
       \cup {buckets[i] : i \in {n \in DOMAIN buckets : n > j}} \cup {cur}
  ELSE {buckets[i] : i \in DOMAIN buckets}

Reached == From(heap, Heads)

Return ==
  /\ call' = NoCall
  /\ cur' = Null /\ prev' = Null
  /\ UNCHANGED <<newBuckets, j>>

\* set, contains, get and remove all start at the head of the key's chain;
\* get of a missing key is undefined, so it is only called for the others.
Call(c) ==
  /\ call = NoCall
  /\ c.op = "get" => \E e \in Reached : heap[e].key = c.key
  /\ call' = c
  /\ cur' = buckets[Bucket(c.key)]
  /\ prev' = Null
  /\ UNCHANGED <<heap, buckets, length, newBuckets, j>>

Walking == call.op \in {"set", "contains", "get", "remove"}

Step ==
  /\ Walking
  /\ cur # Null
  /\ Here.key # call.key
  /\ prev' = cur
  /\ cur' = Here.next
  /\ UNCHANGED <<heap, buckets, length, call, newBuckets, j>>

Found(op) == call.op = op /\ cur # Null /\ Here.key = call.key
Missing(op) == call.op = op /\ cur = Null

SetFound ==
  /\ Found("set")
  /\ heap' = [heap EXCEPT ![cur].value = call.value]
  /\ Return
  /\ UNCHANGED <<buckets, length>>

Full_Late(array, count) == count > Count(array)
Full(array, count) == count * 4 > Count(array) * 3

NewEntry == CHOOSE e \in Entries : e \notin Reached

SetNew ==
  LET entry == [key |-> call.key, value |-> call.value, next |-> buckets[Bucket(call.key)]]
      linked == [buckets EXCEPT ![Bucket(call.key)] = NewEntry]
  IN  /\ Missing("set")
      /\ heap' = [e \in DOMAIN heap \cup {NewEntry} |->
                    IF e = NewEntry THEN entry ELSE heap[e]]
      /\ buckets' = linked
      /\ length' = length + 1
      /\ IF Full(buckets, length + 1)
         THEN /\ call' = [op |-> "resize"]
              /\ newBuckets' = EmptyArray(2 * Count(buckets))
              /\ j' = 0
              /\ cur' = linked[0]
              /\ prev' = Null
         ELSE Return

NewBucket_OldCount == BucketIn(buckets, Here.key)
NewBucket == BucketIn(newBuckets, Here.key)

\* nextNode is read before the entry's own next is overwritten.
NextNode_HeadAgain == buckets[j]
NextNode_Overwritten == newBuckets[NewBucket]
NextNode == Here.next

ResizeEntry ==
  /\ Resizing
  /\ cur # Null
  /\ heap' = [heap EXCEPT ![cur].next = newBuckets[NewBucket]]
  /\ newBuckets' = [newBuckets EXCEPT ![NewBucket] = cur]
  /\ cur' = NextNode
  /\ UNCHANGED <<buckets, length, call, prev, j>>

ResizeBucket ==
  /\ Resizing
  /\ cur = Null
  /\ j + 1 < Count(buckets)
  /\ j' = j + 1
  /\ cur' = buckets[j + 1]
  /\ UNCHANGED <<heap, buckets, length, call, prev, newBuckets>>

ResizeEnd ==
  /\ Resizing
  /\ cur = Null
  /\ j + 1 = Count(buckets)
  /\ buckets' = newBuckets
  /\ newBuckets' = EmptyArray(0)
  /\ j' = 0
  /\ call' = NoCall /\ cur' = Null /\ prev' = Null
  /\ UNCHANGED <<heap, length>>

\* contains and get return; the rest return nothing.
Answers ==
  \/ Found("contains") \/ Missing("contains")
  \/ Found("get")

Answer == IF call.op = "get" THEN Here.value ELSE cur # Null

ReturnAnswer ==
  /\ Answers
  /\ Return
  /\ UNCHANGED <<heap, buckets, length>>

Unlink(k) ==
  /\ buckets' = IF prev = Null THEN [buckets EXCEPT ![Bucket(k)] = Here.next] ELSE buckets
  /\ heap' = [e \in DOMAIN heap \ {cur} |->
                IF e = prev THEN [heap[e] EXCEPT !.next = Here.next] ELSE heap[e]]

RemoveFound ==
  /\ Found("remove")
  /\ Unlink(call.key)
  /\ length' = length - 1
  /\ Return

RemoveMissing ==
  /\ Missing("remove")
  /\ Return
  /\ UNCHANGED <<heap, buckets, length>>

Next ==
  \/ \E k \in Keys : \E v \in Values : Call([op |-> "set", key |-> k, value |-> v])
  \/ \E k \in Keys, op \in {"contains", "get", "remove"} : Call([op |-> op, key |-> k])
  \/ Step
  \/ SetFound \/ SetNew
  \/ ResizeEntry \/ ResizeBucket \/ ResizeEnd
  \/ ReturnAnswer
  \/ RemoveFound \/ RemoveMissing

Running == Next /\ call # NoCall

Spec == Init /\ [][Next]_vars

\* An operation that was called keeps running; nobody has to call another.
FairSpec == Spec /\ WF_vars(Running)
-----------------------------------------------------------------------------
Content ==
  [k \in {heap[e].key : e \in Reached} |->
     heap[CHOOSE e \in Reached : heap[e].key = k].value]

(***************************************************************************)
(* Between its call and its return an operation changes the map in one     *)
(* step, as that operation on that key would change a dictionary.  A set   *)
(* is over with its new entry in place: the turns of the resize behind it  *)
(* leave what the map holds alone, whatever is half moved.                 *)
(***************************************************************************)
Asked == IF Resizing THEN NoCall ELSE call
D == INSTANCE Dictionary WITH content <- Content, call <- Asked
ImplementsDictionary == D!Spec

(***************************************************************************)
(* contains and get answer by what the map holds, before and after every   *)
(* doubling, also for keys that share a chain.                             *)
(***************************************************************************)
AnswersAreRight ==
  Answers =>
    Answer = IF call.op = "get" THEN Content[call.key] ELSE call.key \in DOMAIN Content

(***************************************************************************)
(* Between operations length counts the keys, no two entries hold the same *)
(* key, and the array is at most three quarters full.                      *)
(***************************************************************************)
LengthAndLoad ==
  /\ ~ Walking => length = Cardinality(DOMAIN Content) /\ length = Cardinality(Reached)
  /\ call = NoCall => length * 4 <= Count(buckets) * 3

\* Every operation returns: no chain ever closes into a cycle.
EveryCallReturns == call # NoCall ~> call = NoCall
=============================================================================
