-------------------------- MODULE DictionariesProofs --------------------------
(***************************************************************************)
(* For every set of keys, every hash and every number of buckets: the hash *)
(* table answers like a dictionary, and implements one step by step, also  *)
(* while it doubles.  For every set of integer keys and trees of every     *)
(* size: so does the AVL tree, which stays balanced.                       *)
(*                                                                         *)
(* Neither the chains nor the trees are followed by an induction rule.     *)
(* From is the least closed set, so an entry is shown to be reached by     *)
(* showing that a closed set has it, and not to be reached by a closed set *)
(* without it.  Of trees, the least high one is taken for which a claim    *)
(* would fail.                                                             *)
(***************************************************************************)
EXTENDS MCDictionaries, FiniteSetTheorems, NaturalsInduction, WellFoundedInduction, TLAPS

Pointer == DOMAIN heap \cup {Null}
EntryType == [key : Keys, value : Values, next : Pointer]

(***************************************************************************)
(* What the variables hold.  Every entry of the heap is reached: none is   *)
(* ever lost, and none is reached that was removed.                        *)
(***************************************************************************)
Shape ==
  /\ DOMAIN heap \subseteq Entries
  /\ heap \in [DOMAIN heap -> EntryType]
  /\ \E n \in Nat \ {0} :
       /\ buckets \in [0 .. n - 1 -> Pointer]
       /\ IF Resizing THEN newBuckets \in [0 .. 2 * n - 1 -> Pointer] /\ j \in 0 .. n - 1
          ELSE newBuckets = EmptyArray(0) /\ j = 0
  /\ cur \in Pointer /\ prev \in Pointer
  /\ call.op \in {"none", "set", "contains", "get", "remove", "resize"}
  /\ Walking => call.key \in Keys
  /\ call.op = "set" => call.value \in Values

NothingLost == DOMAIN heap = Reached

OneEntryPerKey == \A e, f \in DOMAIN heap : heap[e].key = heap[f].key => e = f

\* The array that the entries are in, or are being moved into.
Target == IF Resizing THEN newBuckets ELSE buckets

\* Each chain of the target holds the keys of its bucket only.
Placed ==
  \A i \in DOMAIN Target : \A e \in From(heap, {Target[i]}) : BucketIn(Target, heap[e].key) = i

(***************************************************************************)
(* No entry is pointed to twice, from an entry, a bucket that is still to  *)
(* move, a bucket of the new array, or cur while a chain is moved.         *)
(***************************************************************************)
Apart ==
  /\ \A e, f \in DOMAIN heap : heap[e].next = heap[f].next => e = f \/ heap[e].next = Null
  /\ \A e \in DOMAIN heap : heap[e].next \in Heads => heap[e].next = Null
  /\ Resizing =>
       /\ \A i \in DOMAIN newBuckets : cur = newBuckets[i] => cur = Null
       /\ \A k \in DOMAIN buckets : k > j =>
            /\ cur = buckets[k] => cur = Null
            /\ \A i \in DOMAIN newBuckets : buckets[k] = newBuckets[i] => buckets[k] = Null
            /\ \A l \in DOMAIN buckets : l > j /\ buckets[k] = buckets[l] => k = l \/ buckets[k] = Null

\* An entry with the key, if there is one, is still ahead of the walk.
Ahead ==
  Walking =>
    /\ \A e \in DOMAIN heap : heap[e].key = call.key => e \in From(heap, {cur})
    /\ prev = Null => cur = buckets[Bucket(call.key)]
    /\ prev # Null => heap[prev].next = cur /\ heap[prev].key # call.key
    /\ call.op = "get" => \E e \in DOMAIN heap : heap[e].key = call.key

Counted ==
  /\ length = Cardinality(DOMAIN heap)
  /\ length * 4 <= Count(Target) * 3

IInv == Shape /\ NothingLost /\ OneEntryPerKey /\ Placed /\ Apart /\ Ahead /\ Counted

-----------------------------------------------------------------------------
(***************************************************************************)
(* The least closed set.                                                   *)
(***************************************************************************)
Linked(h) ==
  /\ DOMAIN h \subseteq Entries
  /\ \A e \in DOMAIN h : h[e].next \in DOMAIN h \cup {Null}

LEMMA FromLeast ==
  ASSUME NEW h, NEW A, NEW S \in SUBSET Entries, A \subseteq S \cup {Null}, Closed(h, S)
  PROVE  From(h, A) \subseteq S
BY DEF From

LEMMA FromHas ==
  ASSUME NEW h, NEW A, NEW a \in A, a \in Entries
  PROVE  a \in From(h, A)
BY EntriesAssumption DEF From

LEMMA FromClosed ==
  ASSUME NEW h, Linked(h), NEW A
  PROVE  Closed(h, From(h, A)) /\ From(h, A) \in SUBSET Entries
<1> SUFFICES ASSUME NEW e \in From(h, A), e \in DOMAIN h, h[e].next # Null
             PROVE  h[e].next \in From(h, A)
  BY DEF Closed, From
<1>1. h[e].next \in Entries
  BY DEF Linked
<1>2. ASSUME NEW S \in SUBSET Entries, A \subseteq S \cup {Null}, Closed(h, S)
      PROVE  h[e].next \in S
  BY <1>2 DEF From, Closed
<1> QED BY <1>1, <1>2 DEF From

LEMMA FromNull ==
  ASSUME NEW h PROVE From(h, {Null}) = {}
<1>1. Closed(h, {}) /\ {} \in SUBSET Entries /\ {Null} \subseteq {} \cup {Null}
  BY DEF Closed
<1>2. From(h, {Null}) \subseteq {}
  BY <1>1, FromLeast
<1> QED BY <1>2

\* A chain is its first entry and the chain of the next one.
LEMMA FromFirst ==
  ASSUME NEW h, Linked(h), NEW e \in DOMAIN h
  PROVE  From(h, {e}) \subseteq {e} \cup From(h, {h[e].next})
<1> DEFINE S == {e} \cup From(h, {h[e].next})
<1>1. Closed(h, From(h, {h[e].next})) /\ From(h, {h[e].next}) \in SUBSET Entries
  BY FromClosed
<1>2. h[e].next \in From(h, {h[e].next}) \cup {Null}
  BY FromHas DEF Linked
<1>3. S \in SUBSET Entries /\ Closed(h, S)
  BY <1>1, <1>2 DEF Closed, Linked
<1> QED BY <1>3, FromLeast

LEMMA FromOneOf ==
  ASSUME NEW h, Linked(h), NEW A, A \subseteq Entries \cup {Null}, NEW e \in From(h, A)
  PROVE  \E a \in A : e \in From(h, {a})
<1> DEFINE S == {x \in Entries : \E a \in A : x \in From(h, {a})}
<1>1. A \subseteq S \cup {Null}
  BY FromHas
<1>2. Closed(h, S)
  <2> SUFFICES ASSUME NEW x \in S, x \in DOMAIN h, h[x].next # Null PROVE h[x].next \in S
    BY DEF Closed
  <2>1. PICK a \in A : x \in From(h, {a})
    OBVIOUS
  <2>2. h[x].next \in From(h, {a}) /\ h[x].next \in Entries
    BY <2>1, FromClosed DEF Closed, Linked
  <2> QED BY <2>2
<1>3. From(h, A) \subseteq S
  BY <1>1, <1>2, FromLeast
<1> QED BY <1>3

\* A chain that does not go through an entry does not change with it.
LEMMA FromWithout ==
  ASSUME NEW h, NEW new, Linked(h), NEW A, A \subseteq Entries \cup {Null},
         \A x \in From(h, A) \cap DOMAIN new : x \in DOMAIN h /\ new[x].next = h[x].next
  PROVE  From(new, A) \subseteq From(h, A)
<1>1. Closed(h, From(h, A)) /\ From(h, A) \in SUBSET Entries
  BY FromClosed
<1>2. Closed(new, From(h, A))
  BY <1>1 DEF Closed
<1>3. A \subseteq From(h, A) \cup {Null}
  BY FromHas
<1> QED BY <1>1, <1>2, <1>3, FromLeast

\* An entry nobody points to is on no chain but one that starts with it.
LEMMA NotOnChain ==
  ASSUME NEW h, Linked(h), NEW e, NEW A, A \subseteq Entries \cup {Null}, e \notin A,
         \A x \in DOMAIN h : h[x].next # e
  PROVE  e \notin From(h, A)
<1>1. Closed(h, From(h, A)) /\ From(h, A) \in SUBSET Entries
  BY FromClosed
<1>2. Closed(h, From(h, A) \ {e})
  BY <1>1 DEF Closed
<1>3. A \subseteq (From(h, A) \ {e}) \cup {Null}
  BY FromHas
<1>4. From(h, A) \subseteq From(h, A) \ {e}
  BY <1>1, <1>2, <1>3, FromLeast
<1> QED BY <1>4

-----------------------------------------------------------------------------
LEMMA ArrayBounds ==
  ASSUME NEW n \in Nat \ {0}, NEW P, NEW array \in [0 .. n - 1 -> P], NEW k \in Keys
  PROVE  Count(array) = n /\ BucketIn(array, k) \in DOMAIN array
<1>1. Count(array) = n
  BY FS_Interval DEF Count
<1>2. Hash[k] \in Int
  BY HashAssumption
<1>3. Hash[k] % n \in 0 .. n - 1
  BY <1>2
<1> QED BY <1>1, <1>3 DEF BucketIn

\* The shape of a table, in the terms that the steps need.
LEMMA ShapeFacts ==
  ASSUME Shape
  PROVE  /\ Linked(heap) /\ Null \notin DOMAIN heap /\ Heads \subseteq Pointer
         /\ \A i \in DOMAIN buckets : buckets[i] \in Pointer
         /\ \A i \in DOMAIN newBuckets : newBuckets[i] \in Pointer
         /\ \A e \in DOMAIN heap : heap[e] \in EntryType
         /\ \A k \in Keys : Bucket(k) \in DOMAIN buckets
         /\ Count(buckets) \in Nat \ {0} /\ DOMAIN buckets = 0 .. Count(buckets) - 1
         /\ Resizing => /\ DOMAIN newBuckets = 0 .. 2 * Count(buckets) - 1
                        /\ Count(newBuckets) = 2 * Count(buckets)
                        /\ \A k \in Keys : BucketIn(newBuckets, k) \in DOMAIN newBuckets
<1>1. PICK n \in Nat \ {0} :
       /\ buckets \in [0 .. n - 1 -> Pointer]
       /\ IF Resizing THEN newBuckets \in [0 .. 2 * n - 1 -> Pointer] /\ j \in 0 .. n - 1
          ELSE newBuckets = EmptyArray(0) /\ j = 0
  BY DEF Shape
<1>2. Count(buckets) = n /\ \A k \in Keys : Bucket(k) \in DOMAIN buckets
  <2>1. Count(buckets) = n
    BY <1>1, FS_Interval DEF Count
  <2> QED BY <1>1, <2>1, ArrayBounds DEF Bucket
<1>3. ASSUME Resizing
      PROVE  /\ DOMAIN newBuckets = 0 .. 2 * n - 1
             /\ Count(newBuckets) = 2 * n
             /\ \A k \in Keys : BucketIn(newBuckets, k) \in DOMAIN newBuckets
  <2>1. newBuckets \in [0 .. 2 * n - 1 -> Pointer] /\ 2 * n \in Nat \ {0}
    BY <1>1, <1>3
  <2>2. DOMAIN newBuckets = 0 .. 2 * n - 1
    BY <2>1
  <2>3. Count(newBuckets) = 2 * n
    BY <2>1, <2>2, FS_Interval DEF Count
  <2> QED BY <2>1, <2>2, <2>3, ArrayBounds
<1>4. \A e \in DOMAIN heap : heap[e] \in EntryType
  BY DEF Shape
<1>5. Linked(heap)
  BY <1>4 DEF Linked, Shape, EntryType, Pointer
<1>6. Null \notin DOMAIN heap
  BY EntriesAssumption DEF Shape
<1>7. \A i \in DOMAIN buckets : buckets[i] \in Pointer
  BY <1>1
<1>8. \A i \in DOMAIN newBuckets : newBuckets[i] \in Pointer
  BY <1>1 DEF EmptyArray
<1>9. Heads \subseteq Pointer
  BY <1>7, <1>8 DEF Heads, Shape
<1> QED BY <1>1, <1>2, <1>3, <1>4, <1>5, <1>6, <1>7, <1>8, <1>9

-----------------------------------------------------------------------------
LEMMA InitInv == Init => IInv
<1> SUFFICES ASSUME Init PROVE IInv
  OBVIOUS
<1>1. /\ DOMAIN heap = {} /\ call.op = "none" /\ ~ Resizing /\ ~ Walking
      /\ cur = Null /\ prev = Null /\ j = 0 /\ newBuckets = EmptyArray(0) /\ length = 0
  BY DEF Init, NoCall, Resizing, Walking
<1>2. InitialBuckets \in Nat \ {0} /\ buckets = [i \in 0 .. InitialBuckets - 1 |-> Null]
  BY BucketsAssumption DEF Init, EmptyArray
<1>3. Shape
  <2>1. heap \in [DOMAIN heap -> EntryType]
    BY <1>1 DEF Init
  <2>2. buckets \in [0 .. InitialBuckets - 1 -> Pointer]
    BY <1>2 DEF Pointer
  <2> QED BY <1>1, <1>2, <2>1, <2>2 DEF Shape, Pointer
<1>4. \A S : From(heap, {Null}) = {}
  BY FromNull
<1>5. Heads \subseteq {Null}
  BY <1>1, <1>2 DEF Heads
<1>6. NothingLost
  <2>1. Closed(heap, {}) /\ {} \in SUBSET Entries /\ Heads \subseteq {} \cup {Null}
    BY <1>5 DEF Closed
  <2>2. From(heap, Heads) \subseteq {}
    BY <2>1, FromLeast
  <2> QED BY <1>1, <2>2 DEF NothingLost, Reached
<1>7. Placed
  BY <1>1, <1>2, FromNull DEF Placed, Target
<1>8. Counted
  <2>1. Count(Target) = InitialBuckets
    BY <1>1, <1>2, FS_Interval DEF Count, Target
  <2> QED BY <1>1, <1>2, <2>1, FS_EmptySet DEF Counted
<1> QED BY <1>1, <1>3, <1>6, <1>7, <1>8 DEF IInv, OneEntryPerKey, Apart, Ahead

\* The steps of an operation that leave the entries and the arrays alone.
LEMMA SameTable ==
  ASSUME IInv, UNCHANGED <<heap, buckets, length, newBuckets, j>>, ~ Resizing, ~ Resizing',
         cur' \in Pointer, prev' \in Pointer,
         call'.op \in {"none", "set", "contains", "get", "remove"},
         Walking' => call'.key \in Keys,
         call'.op = "set" => call'.value \in Values,
         Ahead'
  PROVE  IInv'
<1>1. Shape'
  BY DEF IInv, Shape, Pointer, EntryType
<1>2. Heads' = Heads /\ Target' = Target
  BY DEF Heads, Target
<1>3. NothingLost'
  BY <1>2 DEF IInv, NothingLost, Reached
<1>4. OneEntryPerKey' /\ Counted'
  BY <1>2 DEF IInv, OneEntryPerKey, Counted
<1>5. Placed'
  BY <1>2 DEF IInv, Placed
<1>6. Apart'
  BY <1>2 DEF IInv, Apart
<1> QED BY <1>1, <1>3, <1>4, <1>5, <1>6 DEF IInv

\* An entry is on the chain of the bucket of its key.
LEMMA OnItsChain ==
  ASSUME IInv, ~ Resizing, NEW e \in DOMAIN heap
  PROVE  e \in From(heap, {buckets[Bucket(heap[e].key)]})
<1>1. Linked(heap) /\ Heads \subseteq Entries \cup {Null} /\ e \in From(heap, Heads)
  BY ShapeFacts DEF IInv, Shape, Pointer, NothingLost, Reached
<1>2. PICK a \in Heads : e \in From(heap, {a})
  BY <1>1, FromOneOf
<1>3. PICK i \in DOMAIN buckets : a = buckets[i]
  BY <1>2 DEF Heads
<1>4. Bucket(heap[e].key) = i
  BY <1>2, <1>3 DEF IInv, Placed, Target, Bucket
<1> QED BY <1>2, <1>3, <1>4

LEMMA CallInv ==
  ASSUME IInv, NEW c, c.op \in {"set", "contains", "get", "remove"}, c.key \in Keys,
         c.op = "set" => c.value \in Values, Call(c)
  PROVE  IInv'
<1> USE DEF Call
<1>1. ~ Resizing /\ ~ Resizing' /\ call' = c
  BY DEF NoCall, Resizing
<1>2. Bucket(c.key) \in DOMAIN buckets /\ cur' \in Pointer
  BY ShapeFacts DEF IInv
<1>3. Ahead'
  <2>1. \A e \in DOMAIN heap : heap[e].key = c.key => e \in From(heap, {cur'})
    BY <1>1, OnItsChain
  <2>2. c.op = "get" => \E e \in DOMAIN heap : heap[e].key = c.key
    BY DEF IInv, NothingLost
  <2>3. cur' = buckets'[Bucket(c.key)'] /\ prev' = Null /\ call'.key = c.key /\ call'.op = c.op
    BY <1>1 DEF Bucket
  <2>4. heap' = heap /\ \A a : From(heap', {a}) = From(heap, {a})
    BY DEF From
  <2> QED BY ONLY <2>1, <2>2, <2>3, <2>4 DEF Ahead
<1>4. /\ UNCHANGED <<heap, buckets, length, newBuckets, j>>
      /\ prev' \in Pointer
      /\ call'.op \in {"none", "set", "contains", "get", "remove"}
      /\ call'.key \in Keys
      /\ call'.op = "set" => call'.value \in Values
  BY <1>1 DEF Pointer
<1> HIDE DEF Call
<1> QED BY <1>1, <1>2, <1>3, <1>4, SameTable

LEMMA StepInv == ASSUME IInv, Step PROVE IInv'
<1> USE DEF Step
<1>1. ~ Resizing /\ ~ Resizing' /\ cur \in DOMAIN heap /\ call' = call
  BY DEF Walking, Resizing, IInv, Shape, Pointer
<1>2. heap[cur] \in EntryType /\ Linked(heap) /\ Null \notin DOMAIN heap
  BY <1>1, ShapeFacts DEF IInv
<1>3. cur' = heap[cur].next /\ prev' = cur /\ cur' \in Pointer /\ prev' \in Pointer
  BY <1>1, <1>2 DEF Here, EntryType, Pointer
<1>4. From(heap, {cur}) \subseteq {cur} \cup From(heap, {cur'})
  BY <1>1, <1>2, <1>3, FromFirst
<1>5. Ahead'
  <2>1. \A e \in DOMAIN heap : heap[e].key = call.key => e \in From(heap, {cur'})
    BY <1>4 DEF IInv, Ahead, Here
  <2>2. call.op = "get" => \E e \in DOMAIN heap : heap[e].key = call.key
    BY DEF IInv, Ahead
  <2>3. prev' # Null => heap[prev'].next = cur' /\ heap[prev'].key # call.key
    BY <1>1, <1>3 DEF Here
  <2>4. prev' # Null /\ heap' = heap
    BY <1>1, <1>2, <1>3
  <2> QED BY <1>1, <2>1, <2>2, <2>3, <2>4 DEF Ahead
<1>6. call.key \in Keys /\ (call.op = "set" => call.value \in Values)
  BY DEF IInv, Shape
<1>7. call'.op \in {"none", "set", "contains", "get", "remove"}
  BY <1>1 DEF Walking
<1> QED BY <1>1, <1>3, <1>5, <1>6, <1>7, SameTable DEF Pointer

LEMMA ReturnInv ==
  ASSUME IInv, Return, ~ Resizing, UNCHANGED <<heap, buckets, length>> PROVE IInv'
<1>1. ~ Resizing' /\ ~ Walking' /\ call'.op = "none"
  BY DEF Return, NoCall, Resizing, Walking
<1>2. cur' \in Pointer /\ prev' \in Pointer
  BY DEF Return, Pointer
<1>3. Ahead'
  BY <1>1 DEF Ahead
<1> QED BY <1>1, <1>2, <1>3, SameTable DEF Return

-----------------------------------------------------------------------------
LEMMA SameLinks ==
  ASSUME NEW h, NEW new, DOMAIN new = DOMAIN h, \A e \in DOMAIN h : new[e].next = h[e].next, NEW A
  PROVE  From(new, A) = From(h, A)
BY DEF From, Closed

LEMMA FromInHeap ==
  ASSUME NEW h, Linked(h), NEW A, A \subseteq DOMAIN h \cup {Null}
  PROVE  From(h, A) \subseteq DOMAIN h
<1>1. DOMAIN h \in SUBSET Entries /\ Closed(h, DOMAIN h)
  BY DEF Linked, Closed
<1> QED BY <1>1, FromLeast

LEMMA SetFoundInv == ASSUME IInv, SetFound PROVE IInv'
<1> USE DEF SetFound
<1>1. /\ ~ Resizing /\ ~ Resizing' /\ ~ Walking' /\ call'.op = "none"
      /\ cur \in DOMAIN heap /\ call.value \in Values
  BY DEF Found, Return, Resizing, Walking, NoCall, IInv, Shape, Pointer
<1>2. heap[cur] \in EntryType
  BY <1>1, ShapeFacts DEF IInv
<1>3. /\ DOMAIN heap' = DOMAIN heap
      /\ \A e \in DOMAIN heap : heap'[e].next = heap[e].next /\ heap'[e].key = heap[e].key
      /\ \A e \in DOMAIN heap : heap'[e] \in EntryType
  <2>1. \A e \in DOMAIN heap : heap[e] \in EntryType
    BY ShapeFacts DEF IInv
  <2>2. heap'[cur] = [heap[cur] EXCEPT !.value = call.value]
    BY <1>1 DEF IInv, Shape
  <2>3. heap'[cur] \in EntryType /\ heap'[cur].next = heap[cur].next /\ heap'[cur].key = heap[cur].key
    BY <1>1, <1>2, <2>2 DEF EntryType
  <2>4. DOMAIN heap' = DOMAIN heap /\ \A e \in DOMAIN heap : e # cur => heap'[e] = heap[e]
    BY DEF IInv, Shape
  <2> QED BY <2>1, <2>3, <2>4
<1>4. Pointer' = Pointer /\ EntryType' = EntryType
  BY <1>3 DEF Pointer, EntryType
<1>5. \A A : From(heap', A) = From(heap, A)
  BY <1>3, SameLinks
<1>6. Heads' = Heads /\ Target' = Target /\ newBuckets' = newBuckets /\ j' = j /\ buckets' = buckets
  BY <1>1 DEF Heads, Target, Return
<1>7. Shape'
  <2>1. heap' \in [DOMAIN heap' -> EntryType']
    <3>1. heap' = [e \in DOMAIN heap' |-> heap'[e]]
      BY DEF IInv, Shape
    <3> QED BY <1>3, <1>4, <3>1
  <2>2. cur' = Null /\ prev' = Null
    BY DEF Return
  <2> QED BY <1>1, <1>3, <1>4, <1>6, <2>1, <2>2 DEF IInv, Shape, Pointer
<1>8. NothingLost' /\ OneEntryPerKey' /\ Counted' /\ Ahead'
  <2>1. NothingLost'
    BY <1>3, <1>5, <1>6 DEF IInv, NothingLost, Reached
  <2>2. OneEntryPerKey'
    BY <1>3 DEF IInv, OneEntryPerKey
  <2>3. Counted'
    BY <1>3, <1>6 DEF IInv, Counted
  <2> QED BY <1>1, <2>1, <2>2, <2>3 DEF Ahead
<1>9. Placed'
  <2> SUFFICES ASSUME NEW i \in DOMAIN Target, NEW e \in From(heap, {Target[i]})
               PROVE  BucketIn(Target, heap'[e].key) = i
    BY <1>5, <1>6 DEF Placed
  <2>1. e \in DOMAIN heap
    <3>1. Linked(heap) /\ {Target[i]} \subseteq DOMAIN heap \cup {Null}
      BY ShapeFacts DEF IInv, Target, Pointer
    <3> QED BY <3>1, FromInHeap
  <2> QED BY <1>3, <2>1 DEF IInv, Placed
<1>10. Apart'
  BY <1>1, <1>3, <1>6 DEF IInv, Apart
<1> QED BY <1>7, <1>8, <1>9, <1>10 DEF IInv

-----------------------------------------------------------------------------
LEMMA HeadsDiffer ==
  ASSUME IInv, ~ Resizing, NEW i \in DOMAIN buckets, NEW k \in DOMAIN buckets,
         buckets[i] = buckets[k], buckets[i] # Null
  PROVE  i = k
<1>1. buckets[i] \in DOMAIN heap /\ buckets[i] \in Entries
  BY ShapeFacts DEF IInv, Shape, Pointer
<1>2. buckets[i] \in From(heap, {buckets[i]})
  BY <1>1, FromHas
<1> QED BY <1>2 DEF IInv, Placed, Target

\* As long as a key is missing malloc has an address for its entry.
LEMMA FreeEntry ==
  ASSUME IInv, NEW k \in Keys, \A e \in DOMAIN heap : heap[e].key # k
  PROVE  NewEntry \in Entries /\ NewEntry \notin DOMAIN heap
<1>1. \E e \in Entries : e \notin DOMAIN heap
  <2> SUFFICES ASSUME Entries \subseteq DOMAIN heap PROVE FALSE
    OBVIOUS
  <2> DEFINE keyOf == [e \in Entries |-> heap[e].key]
  <2>1. \A e \in Entries : heap[e].key \in Keys \ {k}
    BY ShapeFacts DEF IInv, EntryType
  <2>2. \A e, f \in Entries : heap[e].key = heap[f].key => e = f
    BY DEF IInv, OneEntryPerKey
  <2>3. keyOf \in Injection(Entries, Keys \ {k})
    BY <2>1, <2>2 DEF Injection, IsInjective
  <2>4. IsFiniteSet(Keys \ {k}) /\ Cardinality(Keys \ {k}) = Cardinality(Keys) - 1
    BY EntriesAssumption, FS_RemoveElement
  <2>5. Cardinality(Entries) <= Cardinality(Keys \ {k})
    BY <2>3, <2>4, FS_Injection
  <2>6. Cardinality(Entries) \in Nat /\ Cardinality(Keys) \in Nat
    BY EntriesAssumption, FS_CardinalityType
  <2> QED BY <2>4, <2>5, <2>6, EntriesAssumption
<1>2. Reached = DOMAIN heap
  BY DEF IInv, NothingLost
<1> QED BY <1>1, <1>2 DEF NewEntry

LEMMA SetNewInv == ASSUME IInv, SetNew PROVE IInv'
<1> DEFINE n == Count(buckets)
<1> DEFINE b == Bucket(call.key)
<1> DEFINE new == NewEntry
<1> DEFINE linked == [buckets EXCEPT ![b] = new]
<1>1. /\ ~ Resizing /\ Walking /\ call.op = "set" /\ cur = Null
      /\ call.key \in Keys /\ call.value \in Values
  BY DEF SetNew, Missing, Resizing, Walking, IInv, Shape
<1>2. \A e \in DOMAIN heap : heap[e].key # call.key
  BY <1>1, FromNull DEF IInv, Ahead
<1>3. new \in Entries /\ new \notin DOMAIN heap /\ new # Null
  BY <1>1, <1>2, FreeEntry, EntriesAssumption
<1>4. /\ DOMAIN buckets = 0 .. n - 1 /\ n \in Nat \ {0} /\ b \in DOMAIN buckets
      /\ \A i \in DOMAIN buckets : buckets[i] \in Pointer
      /\ Linked(heap) /\ Null \notin DOMAIN heap
      /\ \A e \in DOMAIN heap : heap[e] \in EntryType
  BY <1>1, ShapeFacts DEF IInv
<1> DEFINE entry == [key |-> call.key, value |-> call.value, next |-> buckets[b]]
<1>5. heap' = [e \in DOMAIN heap \cup {new} |-> IF e = new THEN entry ELSE heap[e]]
  BY DEF SetNew
<1>6. buckets' = linked /\ length' = length + 1
  BY DEF SetNew
<1>7. \/ /\ Resizing' /\ (length + 1) * 4 > n * 3
         /\ newBuckets' = EmptyArray(2 * n) /\ j' = 0 /\ cur' = linked[0] /\ prev' = Null
         /\ call'.op = "resize"
      \/ /\ ~ Resizing' /\ (length + 1) * 4 <= n * 3
         /\ newBuckets' = newBuckets /\ j' = j /\ cur' = Null /\ prev' = Null
         /\ call'.op = "none"
  <2>1. length + 1 \in Int /\ n \in Int
    <3>1. IsFiniteSet(DOMAIN heap)
      BY EntriesAssumption, FS_Subset DEF IInv, Shape
    <3> QED BY <1>4, <3>1, FS_CardinalityType DEF IInv, Counted
  <2>2. CASE Full(buckets, length + 1)
    BY <2>1, <2>2 DEF SetNew, Full, Resizing
  <2>3. CASE ~ Full(buckets, length + 1)
    BY <2>1, <2>3 DEF SetNew, Full, Resizing, Return, NoCall
  <2> QED BY <2>2, <2>3
<1>8. /\ DOMAIN linked = 0 .. n - 1 /\ linked[b] = new
      /\ \A i \in 0 .. n - 1 : i # b => linked[i] = buckets[i]
  <2>1. buckets = [i \in 0 .. n - 1 |-> buckets[i]]
    BY <1>4 DEF IInv, Shape
  <2> QED BY <1>4, <2>1
<1>9. newBuckets = EmptyArray(0) /\ j = 0
  BY <1>1 DEF IInv, Shape
<1>a. buckets \in [0 .. n - 1 -> Pointer]
  BY <1>4 DEF IInv, Shape
<1> HIDE DEF n, b, new
<1>10. /\ DOMAIN heap' = DOMAIN heap \cup {new} /\ heap'[new] = entry
       /\ \A e \in DOMAIN heap : heap'[e] = heap[e]
       /\ Pointer' = Pointer \cup {new}
  BY <1>3, <1>5 DEF Pointer
<1>11. entry.key = call.key /\ entry.next = buckets[b] /\ buckets[b] \in Pointer
  BY <1>4
<1> HIDE DEF entry
<1>12. Linked(heap')
  BY <1>3, <1>4, <1>10, <1>11 DEF Linked, Pointer
<1>13. ~ Walking'
  BY <1>7 DEF Walking
<1>14. \A i \in 0 .. n - 1 : linked[i] \in Pointer'
  BY <1>4, <1>8, <1>10
<1>15. Shape'
  <2>1. DOMAIN heap' \subseteq Entries
    BY <1>12 DEF Linked
  <2>2. heap' \in [DOMAIN heap' -> EntryType']
    <3>1. entry \in EntryType'
      BY <1>1, <1>10, <1>11 DEF EntryType, entry
    <3>2. \A e \in DOMAIN heap : heap[e] \in EntryType'
      BY <1>4, <1>10 DEF EntryType
    <3>3. heap' = [e \in DOMAIN heap' |-> heap'[e]] /\ \A e \in DOMAIN heap' : heap'[e] \in EntryType'
      BY <1>5, <1>10, <3>1, <3>2
    <3> QED BY <3>3
  <2>3. buckets' \in [0 .. n - 1 -> Pointer']
    BY <1>6, <1>14, <1>a, <1>10
  <2>4. newBuckets' = EmptyArray(2 * n) => newBuckets' \in [0 .. 2 * n - 1 -> Pointer']
    BY DEF EmptyArray, Pointer
  <2>5. cur' \in Pointer' /\ prev' \in Pointer'
    BY <1>4, <1>7, <1>14 DEF Pointer
  <2> QED BY <1>4, <1>7, <1>9, <1>13, <2>1, <2>2, <2>3, <2>4, <2>5 DEF Shape
<1>b. /\ Heads' \subseteq {linked[i] : i \in 0 .. n - 1} \cup {Null}
      /\ {linked[i] : i \in 0 .. n - 1} \subseteq Heads' \cup {Null}
  <2>1. CASE Resizing'
    <3>1. /\ newBuckets' = EmptyArray(2 * n) /\ j' = 0 /\ cur' = linked[0]
      BY <1>7, <2>1
    <3>2. Heads' = {newBuckets'[i] : i \in DOMAIN newBuckets'}
                   \cup {linked[i] : i \in {m \in 0 .. n - 1 : m > 0}} \cup {linked[0]}
      BY <1>6, <1>8, <2>1, <3>1 DEF Heads
    <3>3. \A i \in DOMAIN newBuckets' : newBuckets'[i] = Null
      BY <3>1 DEF EmptyArray
    <3>4. 0 \in 0 .. n - 1 /\ \A i \in 0 .. n - 1 : i = 0 \/ i > 0
      BY <1>4
    <3> QED BY <3>2, <3>3, <3>4
  <2>2. CASE ~ Resizing'
    BY <1>6, <1>8, <2>2 DEF Heads
  <2> QED BY <2>1, <2>2
<1>16. Heads' \subseteq {linked[i] : i \in 0 .. n - 1} \cup {Null}
  BY <1>b
<1>17. {linked[i] : i \in 0 .. n - 1} \subseteq Heads' \cup {Null}
  BY <1>b
<1> HIDE DEF linked
<1>18. \A A : A \subseteq Pointer => From(heap', A) \subseteq From(heap, A)
  <2> SUFFICES ASSUME NEW A, A \subseteq Pointer PROVE From(heap', A) \subseteq From(heap, A)
    OBVIOUS
  <2>1. From(heap, A) \subseteq DOMAIN heap
    BY <1>4, FromInHeap DEF Pointer
  <2>2. A \subseteq Entries \cup {Null}
    BY <1>4 DEF Pointer, Linked
  <2> QED BY <1>4, <1>10, <2>1, <2>2, FromWithout
<1>19. From(heap', {new}) \subseteq {new} \cup From(heap, {buckets[b]})
  <2>1. From(heap', {new}) \subseteq {new} \cup From(heap', {buckets[b]})
    BY <1>10, <1>11, <1>12, FromFirst
  <2> QED BY <1>11, <1>18, <2>1
<1>20. NothingLost'
  <2> DEFINE S == From(heap', Heads')
  <2>1. Closed(heap', S) /\ S \in SUBSET Entries
    BY <1>12, FromClosed
  <2>2. Heads' \subseteq Entries \cup {Null} /\ Heads' \subseteq DOMAIN heap' \cup {Null}
    BY <1>12, <1>14, <1>16 DEF Pointer, Linked
  <2>3. Heads' \subseteq S \cup {Null}
    BY <2>2, FromHas
  <2>4. S \subseteq DOMAIN heap'
    BY <1>12, <2>2, FromInHeap
  <2> HIDE DEF S
  <2>5. new \in S
    BY <1>3, <1>4, <1>8, <1>17, <2>3
  <2>6. buckets[b] \in S \cup {Null}
    BY <1>10, <1>11, <2>1, <2>5 DEF Closed
  <2>7. Heads \subseteq S \cup {Null}
    BY <1>1, <1>4, <1>8, <1>17, <2>3, <2>6 DEF Heads
  <2>8. Closed(heap, S)
    BY <1>10, <2>1 DEF Closed
  <2>9. DOMAIN heap \subseteq S
    BY <2>1, <2>7, <2>8, FromLeast DEF IInv, NothingLost, Reached
  <2> QED BY <1>10, <2>4, <2>5, <2>9 DEF NothingLost, Reached, S
<1>21. OneEntryPerKey'
  BY <1>2, <1>10, <1>11 DEF IInv, OneEntryPerKey
<1>22. Placed'
  <2>1. CASE Resizing'
    <3>1. \A i \in DOMAIN newBuckets' : newBuckets'[i] = Null
      BY <1>7, <2>1 DEF EmptyArray
    <3> QED BY <2>1, <3>1, FromNull DEF Placed, Target
  <2>2. CASE ~ Resizing'
    <3>1. Target' = linked /\ Target = buckets
      BY <1>1, <1>6, <2>2 DEF Target
    <3>2. Count(linked) = Count(buckets)
      BY <1>4, <1>8 DEF Count
    <3>3. ASSUME NEW i \in DOMAIN buckets, NEW e \in From(heap, {buckets[i]})
          PROVE  e \in DOMAIN heap /\ BucketIn(linked, heap'[e].key) = i
      <4>1. e \in DOMAIN heap
        BY <1>4, FromInHeap DEF Pointer
      <4>2. BucketIn(buckets, heap[e].key) = i
        BY <3>1 DEF IInv, Placed
      <4> QED BY <1>10, <3>2, <4>1, <4>2 DEF BucketIn
    <3>4. BucketIn(linked, heap'[new].key) = b
      BY <1>10, <1>11, <3>2 DEF BucketIn, b, Bucket
    <3>5. ASSUME NEW i \in DOMAIN linked, NEW e \in From(heap', {linked[i]})
          PROVE  BucketIn(linked, heap'[e].key) = i
      <4>1. CASE i = b
        BY <1>4, <1>8, <1>19, <3>3, <3>4, <4>1
      <4>2. CASE i # b
        <5>1. linked[i] = buckets[i] /\ i \in DOMAIN buckets /\ {buckets[i]} \subseteq Pointer
          BY <1>4, <1>8, <4>2
        <5>2. e \in From(heap, {buckets[i]})
          BY <1>18, <5>1
        <5> QED BY <3>3, <5>1, <5>2
      <4> QED BY <4>1, <4>2
    <3> QED BY <3>1, <3>5 DEF Placed
  <2> QED BY <2>1, <2>2
<1>23. Apart'
  <2>1. Heads = {buckets[i] : i \in 0 .. n - 1}
    BY <1>1, <1>4 DEF Heads
  <2>2. \A i \in 0 .. n - 1 : i # b => buckets[i] # buckets[b] \/ buckets[b] = Null
    BY <1>1, <1>4, HeadsDiffer
  <2>3. \A e, f \in DOMAIN heap' :
          heap'[e].next = heap'[f].next => e = f \/ heap'[e].next = Null
    BY <1>4, <1>10, <1>11, <2>1 DEF IInv, Apart
  <2>4. ASSUME NEW e \in DOMAIN heap', heap'[e].next \in Heads' PROVE heap'[e].next = Null
    <3>1. CASE e = new
      BY <1>3, <1>4, <1>8, <1>10, <1>11, <1>16, <2>2, <2>4, <3>1 DEF Pointer
    <3>2. CASE e \in DOMAIN heap
      <4>1. heap[e].next # new
        BY <1>3, <1>4, <3>2 DEF Linked
      <4> QED BY <1>8, <1>10, <1>16, <2>1, <2>4, <3>2, <4>1 DEF IInv, Apart
    <3> QED BY <1>10, <3>1, <3>2
  <2>5. \A i, k \in 0 .. n - 1 : linked[i] = linked[k] => i = k \/ linked[i] = Null
    <3>1. \A i \in 0 .. n - 1 : buckets[i] # new
      BY <1>3, <1>4 DEF Pointer
    <3> QED BY <1>1, <1>4, <1>8, <3>1, HeadsDiffer
  <2>6. ASSUME Resizing'
        PROVE  /\ \A i \in DOMAIN newBuckets' : cur' = newBuckets'[i] => cur' = Null
               /\ \A k \in DOMAIN buckets' : k > j' =>
                    /\ cur' = buckets'[k] => cur' = Null
                    /\ \A i \in DOMAIN newBuckets' :
                         buckets'[k] = newBuckets'[i] => buckets'[k] = Null
                    /\ \A l \in DOMAIN buckets' : l > j' /\ buckets'[k] = buckets'[l] =>
                         k = l \/ buckets'[k] = Null
    <3>1. \A i \in DOMAIN newBuckets' : newBuckets'[i] = Null
      BY <1>7, <2>6 DEF EmptyArray
    <3>2. j' = 0 /\ cur' = linked[0] /\ buckets' = linked /\ DOMAIN linked = 0 .. n - 1 /\ 0 \in 0 .. n - 1
      BY <1>4, <1>6, <1>7, <1>8, <2>6
    <3> QED BY <2>5, <3>1, <3>2
  <2> QED BY <2>3, <2>4, <2>6 DEF Apart
<1>24. Counted'
  <2>1. IsFiniteSet(DOMAIN heap)
    BY EntriesAssumption, FS_Subset DEF IInv, Shape
  <2>2. Cardinality(DOMAIN heap') = Cardinality(DOMAIN heap) + 1 /\ Cardinality(DOMAIN heap) \in Nat
    BY <1>3, <1>10, <2>1, FS_AddElement, FS_CardinalityType
  <2>3. length * 4 <= n * 3 /\ length \in Nat
    BY <1>1, <2>2 DEF IInv, Counted, Target, n
  <2>4. Count(buckets') = n
    BY <1>6, <1>8, <1>4, FS_Interval DEF Count
  <2>5. Resizing' => Count(newBuckets') = 2 * n
    <3>1. Resizing' => DOMAIN newBuckets' = 0 .. 2 * n - 1
      BY <1>7 DEF EmptyArray
    <3> QED BY <1>4, <3>1, FS_Interval DEF Count
  <2>6. length' * 4 <= Count(Target') * 3
    BY <1>4, <1>6, <1>7, <2>3, <2>4, <2>5 DEF Target
  <2> QED BY <1>6, <2>2, <2>6 DEF IInv, Counted
<1>25. Ahead'
  BY <1>13 DEF Ahead
<1> QED BY <1>15, <1>20, <1>21, <1>22, <1>23, <1>24, <1>25 DEF IInv

-----------------------------------------------------------------------------
(***************************************************************************)
(* One entry moves: the bucket that takes it, its own next and cur swap    *)
(* what they point to in a ring, so every entry stays reached.             *)
(***************************************************************************)
LEMMA ResizeEntryInv == ASSUME IInv, ResizeEntry PROVE IInv'
<1> DEFINE n == Count(buckets)
<1> DEFINE b == NewBucket
<1> DEFINE first == newBuckets[b]
<1> DEFINE rest == heap[cur].next
<1>1. /\ Resizing /\ Resizing' /\ ~ Walking' /\ call' = call
      /\ cur \in DOMAIN heap /\ cur # Null /\ j' = j /\ buckets' = buckets
      /\ prev' = prev /\ length' = length /\ cur' = rest
  BY DEF ResizeEntry, Resizing, Walking, IInv, Shape, Pointer, NextNode, Here
<1>2. /\ DOMAIN buckets = 0 .. n - 1 /\ n \in Nat \ {0} /\ DOMAIN newBuckets = 0 .. 2 * n - 1
      /\ \A i \in DOMAIN buckets : buckets[i] \in Pointer
      /\ \A i \in DOMAIN newBuckets : newBuckets[i] \in Pointer
      /\ Linked(heap) /\ Null \notin DOMAIN heap /\ Heads \subseteq Pointer
      /\ \A e \in DOMAIN heap : heap[e] \in EntryType
      /\ Count(newBuckets) = 2 * n
  BY <1>1, ShapeFacts DEF IInv
<1>3. b \in DOMAIN newBuckets /\ first \in Pointer /\ rest \in Pointer
  BY <1>1, <1>2, ShapeFacts DEF IInv, EntryType, NewBucket, Here
<1>4. /\ newBuckets \in [0 .. 2 * n - 1 -> Pointer] /\ buckets \in [0 .. n - 1 -> Pointer]
      /\ j \in 0 .. n - 1 /\ heap \in [DOMAIN heap -> EntryType]
  BY <1>1, <1>2 DEF IInv, Shape
<1>5. /\ DOMAIN newBuckets' = DOMAIN newBuckets /\ newBuckets'[b] = cur
      /\ \A i \in DOMAIN newBuckets : i # b => newBuckets'[i] = newBuckets[i]
  BY <1>3, <1>4 DEF ResizeEntry
<1>6. /\ DOMAIN heap' = DOMAIN heap /\ heap'[cur].next = first
      /\ \A e \in DOMAIN heap : e # cur => heap'[e] = heap[e]
      /\ \A e \in DOMAIN heap : heap'[e].key = heap[e].key /\ heap'[e] \in EntryType
  <2>1. heap[cur] \in EntryType
    BY <1>1, <1>2
  <2>2. heap'[cur] = [heap[cur] EXCEPT !.next = first]
    BY <1>1, <1>4 DEF ResizeEntry
  <2>3. heap'[cur].key = heap[cur].key /\ heap'[cur] \in EntryType /\ heap'[cur].next = first
    BY <1>3, <2>1, <2>2 DEF EntryType
  <2>4. DOMAIN heap' = DOMAIN heap /\ \A e \in DOMAIN heap : e # cur => heap'[e] = heap[e]
    BY <1>1, <1>4 DEF ResizeEntry
  <2> QED BY <1>2, <2>3, <2>4
<1>7. Pointer' = Pointer /\ EntryType' = EntryType
  BY <1>6 DEF Pointer, EntryType
<1>8. heap' \in [DOMAIN heap' -> EntryType]
  <2>1. heap' = [e \in DOMAIN heap' |-> heap'[e]]
    BY <1>1, <1>4 DEF ResizeEntry
  <2> QED BY <1>6, <2>1
<1>9. newBuckets' \in [0 .. 2 * n - 1 -> Pointer]
  <2>1. cur \in Pointer
    BY <1>1 DEF Pointer
  <2> QED BY <1>1, <1>3, <1>4, <2>1 DEF ResizeEntry
<1>10. Heads = {newBuckets[i] : i \in 0 .. 2 * n - 1}
               \cup {buckets[i] : i \in {k \in 0 .. n - 1 : k > j}} \cup {cur}
  BY <1>1, <1>2 DEF Heads
<1>11. Heads' = {newBuckets'[i] : i \in 0 .. 2 * n - 1}
                \cup {buckets[i] : i \in {k \in 0 .. n - 1 : k > j}} \cup {rest}
  BY <1>1, <1>2, <1>5 DEF Heads
<1>p. Target = newBuckets /\ Target' = newBuckets'
  BY <1>1 DEF Target
<1>q. b = BucketIn(newBuckets, heap[cur].key)
  BY DEF NewBucket, Here
<1> HIDE DEF n, b
<1>12. Linked(heap')
  BY <1>1, <1>2, <1>3, <1>6 DEF Linked, Pointer
<1>13. Shape'
  BY <1>1, <1>2, <1>3, <1>4, <1>6, <1>7, <1>8, <1>9 DEF IInv, Shape, Linked, Walking
<1> HIDE DEF rest, first
<1>r. first = newBuckets[b] /\ rest = heap[cur].next
  BY DEF first, rest
<1>14. cur # first /\ rest # cur /\ \A i \in DOMAIN newBuckets : newBuckets[i] # cur
  <2>1. \A i \in DOMAIN newBuckets : newBuckets[i] # cur
    BY <1>1 DEF IInv, Apart
  <2>2. rest # cur
    BY <1>1, <1>10, <1>r DEF IInv, Apart
  <2> QED BY <1>3, <1>r, <2>1, <2>2
<1>15. \A e \in DOMAIN heap : heap[e].next # cur
  BY <1>1, <1>10 DEF IInv, Apart
<1>16. ASSUME NEW i \in DOMAIN newBuckets
       PROVE  /\ From(heap, {newBuckets[i]}) \subseteq DOMAIN heap
              /\ From(heap', {newBuckets[i]}) \subseteq From(heap, {newBuckets[i]})
  <2>1. {newBuckets[i]} \subseteq DOMAIN heap \cup {Null} /\ {newBuckets[i]} \subseteq Entries \cup {Null}
    BY <1>2 DEF Pointer, Linked
  <2>2. From(heap, {newBuckets[i]}) \subseteq DOMAIN heap
    BY <1>2, <2>1, FromInHeap
  <2>3. cur \notin From(heap, {newBuckets[i]})
    BY <1>2, <1>14, <1>15, <2>1, NotOnChain
  <2>4. From(heap', {newBuckets[i]}) \subseteq From(heap, {newBuckets[i]})
    BY <1>2, <1>6, <2>1, <2>3, FromWithout
  <2> QED BY <2>2, <2>4
<1>17. Placed'
  <2>1. Count(newBuckets') = Count(newBuckets)
    BY <1>5 DEF Count
  <2>2. ASSUME NEW i \in DOMAIN newBuckets, NEW e \in From(heap', {newBuckets[i]})
        PROVE  BucketIn(newBuckets', heap'[e].key) = i
    <3>1. e \in From(heap, {newBuckets[i]}) /\ e \in DOMAIN heap
      BY <1>16
    <3>2. BucketIn(newBuckets, heap[e].key) = i
      BY <1>p, <3>1 DEF IInv, Placed
    <3> QED BY <1>6, <2>1, <3>1, <3>2 DEF BucketIn
  <2>3. ASSUME NEW e \in From(heap', {cur}) PROVE BucketIn(newBuckets', heap'[e].key) = b
    <3>1. From(heap', {cur}) \subseteq {cur} \cup From(heap', {first})
      BY <1>1, <1>6, <1>12, FromFirst
    <3>2. CASE e = cur
      BY <1>1, <1>6, <1>q, <2>1, <3>2 DEF BucketIn
    <3>3. CASE e \in From(heap', {first})
      BY <1>3, <1>r, <2>2, <3>3
    <3> QED BY <3>1, <3>2, <3>3
  <2> QED BY <1>5, <1>p, <2>2, <2>3 DEF Placed
<1>18. NothingLost'
  <2> DEFINE S == From(heap', Heads')
  <2>1. Closed(heap', S) /\ S \in SUBSET Entries
    BY <1>12, FromClosed
  <2>2. Heads' \subseteq Pointer
    BY <1>2, <1>3, <1>9, <1>11
  <2>3. Heads' \subseteq Entries \cup {Null} /\ Heads' \subseteq DOMAIN heap' \cup {Null}
    BY <1>2, <1>6, <2>2 DEF Pointer, Linked
  <2>4. Heads' \subseteq S \cup {Null}
    BY <2>3, FromHas
  <2>5. S \subseteq DOMAIN heap'
    BY <1>12, <2>3, FromInHeap
  <2> HIDE DEF S
  <2>6. cur \in S /\ rest \in S \cup {Null}
    BY <1>1, <1>2, <1>3, <1>5, <1>11, <2>4
  <2>7. first \in S \cup {Null}
    BY <1>1, <1>6, <2>1, <2>6 DEF Closed
  <2>8. Heads \subseteq S \cup {Null}
    BY <1>2, <1>5, <1>10, <1>11, <1>r, <2>4, <2>6, <2>7
  <2>9. Closed(heap, S)
    BY <1>6, <1>r, <2>1, <2>6 DEF Closed
  <2>10. DOMAIN heap \subseteq S
    BY <2>1, <2>8, <2>9, FromLeast DEF IInv, NothingLost, Reached
  <2> QED BY <1>6, <2>5, <2>10 DEF NothingLost, Reached, S
<1>19. OneEntryPerKey' /\ Counted' /\ Ahead'
  <2>1. OneEntryPerKey'
    BY <1>6 DEF IInv, OneEntryPerKey
  <2>2. Count(newBuckets') = Count(newBuckets)
    BY <1>5 DEF Count
  <2>3. Counted'
    BY <1>1, <1>6, <1>p, <2>2 DEF IInv, Counted
  <2> QED BY <1>1, <2>1, <2>3 DEF Ahead
<1>20. Apart'
  <2>1. \A e, f \in DOMAIN heap :
          heap[e].next = heap[f].next => e = f \/ heap[e].next = Null
    BY DEF IInv, Apart
  <2>2. \A e \in DOMAIN heap : heap[e].next \in Heads => heap[e].next = Null
    BY DEF IInv, Apart
  <2>3. first \in Heads
    BY <1>2, <1>3, <1>10, <1>r
  <2>4. \A i \in DOMAIN newBuckets : i # b => newBuckets[i] # first \/ first = Null
    <3> SUFFICES ASSUME NEW i \in DOMAIN newBuckets, newBuckets[i] = first, first # Null PROVE i = b
      OBVIOUS
    <3>1. first \in Entries
      BY <1>2, <1>3 DEF Pointer, Linked
    <3>2. first \in From(heap, {first})
      BY <3>1, FromHas
    <3> QED BY <1>3, <1>p, <1>r, <3>2 DEF IInv, Placed
  <2>5. \A k \in 0 .. n - 1 : k > j => buckets[k] # first \/ first = Null
    BY <1>1, <1>2, <1>3, <1>r DEF IInv, Apart
  <2>6. \A e, f \in DOMAIN heap' :
          heap'[e].next = heap'[f].next => e = f \/ heap'[e].next = Null
    BY <1>6, <2>1, <2>2, <2>3
  <2>7. ASSUME NEW e \in DOMAIN heap', heap'[e].next \in Heads' PROVE heap'[e].next = Null
    <3>1. CASE e = cur
      <4>1. heap'[e].next = first
        BY <1>6, <3>1
      <4>2. CASE first = rest
        BY <1>1, <1>r, <2>2, <2>3, <4>1, <4>2
      <4>3. CASE first # rest
        <5>1. \/ \E i \in 0 .. 2 * n - 1 : first = newBuckets'[i]
              \/ \E k \in 0 .. n - 1 : k > j /\ first = buckets[k]
          BY <1>11, <2>7, <4>1, <4>3
        <5> QED BY <1>2, <1>5, <1>14, <2>4, <2>5, <4>1, <5>1
      <4> QED BY <4>2, <4>3
    <3>2. CASE e # cur
      <4>1. heap'[e].next = heap[e].next /\ e \in DOMAIN heap
        BY <1>6, <3>2
      <4>2. heap[e].next = rest => rest = Null
        BY <1>1, <1>r, <2>1, <3>2, <4>1
      <4>3. heap[e].next \in Heads \/ heap[e].next = rest
        BY <1>2, <1>5, <1>10, <1>11, <2>7, <4>1
      <4> QED BY <2>2, <4>1, <4>2, <4>3
    <3> QED BY <3>1, <3>2
  <2>8. rest \in Heads => rest = Null
    BY <1>1, <1>r, <2>2
  <2>9. ASSUME NEW i \in DOMAIN newBuckets', cur' = newBuckets'[i] PROVE cur' = Null
    <3>1. i # b
      BY <1>1, <1>5, <1>14, <2>9
    <3>2. cur' \in Heads
      BY <1>2, <1>5, <1>10, <2>9, <3>1
    <3> QED BY <1>1, <2>8, <3>2
  <2>10. ASSUME NEW k \in DOMAIN buckets, k > j
         PROVE  /\ rest = buckets[k] => rest = Null
                /\ \A i \in DOMAIN newBuckets' :
                     buckets[k] = newBuckets'[i] => buckets[k] = Null
                /\ \A l \in DOMAIN buckets : l > j /\ buckets[k] = buckets[l] =>
                     k = l \/ buckets[k] = Null
    <3>1. rest = buckets[k] => rest = Null
      BY <1>2, <1>10, <2>8, <2>10
    <3>2. buckets[k] # cur
      BY <1>1, <2>10 DEF IInv, Apart
    <3>3. \A i \in DOMAIN newBuckets : buckets[k] = newBuckets[i] => buckets[k] = Null
      BY <1>1, <2>10 DEF IInv, Apart
    <3>4. \A i \in DOMAIN newBuckets' : buckets[k] = newBuckets'[i] => buckets[k] = Null
      BY <1>5, <3>2, <3>3
    <3>5. \A l \in DOMAIN buckets : l > j /\ buckets[k] = buckets[l] => k = l \/ buckets[k] = Null
      BY <1>1, <2>10 DEF IInv, Apart
    <3> QED BY <3>1, <3>4, <3>5
  <2> QED BY <1>1, <2>6, <2>7, <2>9, <2>10 DEF Apart
<1> QED BY <1>13, <1>17, <1>18, <1>19, <1>20 DEF IInv

-----------------------------------------------------------------------------
\* Null starts no chain.
LEMMA SameStarts ==
  ASSUME NEW h, NEW A, NEW B, A \cup {Null} = B \cup {Null}
  PROVE  From(h, A) = From(h, B)
<1>1. \A S : A \subseteq S \cup {Null} <=> B \subseteq S \cup {Null}
  OBVIOUS
<1> QED BY <1>1 DEF From

LEMMA ResizeBucketInv == ASSUME IInv, ResizeBucket PROVE IInv'
<1> DEFINE n == Count(buckets)
<1>1. /\ Resizing /\ Resizing' /\ ~ Walking' /\ call' = call /\ cur = Null
      /\ j' = j + 1 /\ cur' = buckets[j + 1] /\ j + 1 < n
      /\ heap' = heap /\ buckets' = buckets /\ newBuckets' = newBuckets
      /\ prev' = prev /\ length' = length
  BY DEF ResizeBucket, Resizing, Walking
<1>2. /\ DOMAIN buckets = 0 .. n - 1 /\ n \in Nat \ {0} /\ DOMAIN newBuckets = 0 .. 2 * n - 1
      /\ \A i \in DOMAIN buckets : buckets[i] \in Pointer
  BY <1>1, ShapeFacts DEF IInv
<1>3. j \in 0 .. n - 1 /\ j + 1 \in DOMAIN buckets
  <2>1. j \in 0 .. n - 1
    BY <1>1, <1>2 DEF IInv, Shape
  <2> QED BY <1>1, <1>2, <2>1
<1>4. newBuckets \in [0 .. 2 * n - 1 -> Pointer] /\ buckets \in [0 .. n - 1 -> Pointer]
  BY <1>1, <1>2 DEF IInv, Shape
<1> HIDE DEF n
<1>5. Heads = {newBuckets[i] : i \in DOMAIN newBuckets}
              \cup {buckets[i] : i \in {k \in DOMAIN buckets : k > j}} \cup {Null}
  BY <1>1 DEF Heads
<1>6. Heads' = {newBuckets[i] : i \in DOMAIN newBuckets}
               \cup {buckets[i] : i \in {k \in DOMAIN buckets : k > j + 1}} \cup {buckets[j + 1]}
  BY <1>1 DEF Heads
<1>7. \A k \in DOMAIN buckets : k > j <=> k = j + 1 \/ k > j + 1
  BY <1>2, <1>3
<1>8. Heads' \cup {Null} = Heads
  BY <1>3, <1>5, <1>6, <1>7
<1>9. Shape'
  <2>1. j' \in 0 .. n - 1
    BY <1>1, <1>2, <1>3
  <2>2. cur' \in Pointer
    BY <1>1, <1>2, <1>3
  <2> QED BY <1>1, <1>2, <1>4, <2>1, <2>2 DEF IInv, Shape, Pointer, EntryType
<1>10. NothingLost'
  BY <1>1, <1>8, SameStarts DEF IInv, NothingLost, Reached
<1>11. OneEntryPerKey' /\ Counted' /\ Placed' /\ Ahead'
  <2>1. Target' = Target
    BY <1>1 DEF Target
  <2> QED BY <1>1, <2>1 DEF IInv, OneEntryPerKey, Counted, Placed, Ahead
<1>12. Apart'
  <2>1. /\ \A k \in DOMAIN buckets : k > j =>
             /\ \A i \in DOMAIN newBuckets : buckets[k] = newBuckets[i] => buckets[k] = Null
             /\ \A l \in DOMAIN buckets : l > j /\ buckets[k] = buckets[l] =>
                  k = l \/ buckets[k] = Null
        /\ \A e, f \in DOMAIN heap : heap[e].next = heap[f].next => e = f \/ heap[e].next = Null
        /\ \A e \in DOMAIN heap : heap[e].next \in Heads => heap[e].next = Null
    BY <1>1 DEF IInv, Apart
  <2>2. \A i \in DOMAIN newBuckets : cur' = newBuckets[i] => cur' = Null
    BY <1>1, <1>3, <1>7, <2>1
  <2>3. ASSUME NEW k \in DOMAIN buckets, k > j + 1
        PROVE  /\ cur' = buckets[k] => cur' = Null
               /\ \A i \in DOMAIN newBuckets : buckets[k] = newBuckets[i] => buckets[k] = Null
               /\ \A l \in DOMAIN buckets : l > j + 1 /\ buckets[k] = buckets[l] =>
                    k = l \/ buckets[k] = Null
    <3>1. k > j /\ k # j + 1
      BY <1>2, <1>3, <2>3
    <3> QED BY <1>1, <1>3, <1>7, <2>1, <3>1
  <2>4. \A e \in DOMAIN heap : heap[e].next \in Heads' => heap[e].next = Null
    BY <1>8, <2>1
  <2> QED BY <1>1, <2>1, <2>2, <2>3, <2>4 DEF Apart
<1> QED BY <1>9, <1>10, <1>11, <1>12 DEF IInv

LEMMA ResizeEndInv == ASSUME IInv, ResizeEnd PROVE IInv'
<1> DEFINE n == Count(buckets)
<1>1. /\ Resizing /\ ~ Resizing' /\ ~ Walking' /\ call'.op = "none" /\ cur = Null
      /\ j + 1 = n /\ j' = 0 /\ heap' = heap /\ buckets' = newBuckets
      /\ newBuckets' = EmptyArray(0) /\ cur' = Null /\ prev' = Null /\ length' = length
  BY DEF ResizeEnd, Resizing, Walking, NoCall
<1>2. /\ DOMAIN buckets = 0 .. n - 1 /\ n \in Nat \ {0} /\ DOMAIN newBuckets = 0 .. 2 * n - 1
  BY <1>1, ShapeFacts DEF IInv
<1>3. newBuckets \in [0 .. 2 * n - 1 -> Pointer] /\ j \in 0 .. n - 1
  BY <1>1, <1>2 DEF IInv, Shape
<1> HIDE DEF n
<1>4. Heads' \cup {Null} = Heads
  <2>1. {k \in DOMAIN buckets : k > j} = {}
    BY <1>1, <1>2, <1>3
  <2>2. Heads = {newBuckets[i] : i \in DOMAIN newBuckets} \cup {Null}
    BY <1>1, <2>1 DEF Heads
  <2> QED BY <1>1, <2>2 DEF Heads
<1>5. Target' = Target
  BY <1>1 DEF Target
<1>6. Shape'
  <2>1. 2 * n \in Nat \ {0}
    BY <1>2
  <2>2. newBuckets' = EmptyArray(0) /\ buckets' \in [0 .. 2 * n - 1 -> Pointer']
    BY <1>1, <1>3 DEF Pointer
  <2>3. DOMAIN heap' \subseteq Entries /\ heap' \in [DOMAIN heap' -> EntryType']
    BY <1>1 DEF IInv, Shape, Pointer, EntryType
  <2> QED BY <1>1, <2>1, <2>2, <2>3 DEF Shape, Pointer
<1>7. NothingLost'
  BY <1>1, <1>4, SameStarts DEF IInv, NothingLost, Reached
<1>8. OneEntryPerKey' /\ Counted' /\ Placed' /\ Ahead'
  BY <1>1, <1>5 DEF IInv, OneEntryPerKey, Counted, Placed, Ahead
<1>9. Apart'
  BY <1>1, <1>4 DEF IInv, Apart
<1> QED BY <1>6, <1>7, <1>8, <1>9 DEF IInv

-----------------------------------------------------------------------------
(***************************************************************************)
(* What pointed to the removed entry, its bucket or prev, points to its    *)
(* next, so the others stay reached; prev is reached, or its chain would   *)
(* have been lost before.                                                  *)
(***************************************************************************)
LEMMA RemoveFoundInv == ASSUME IInv, RemoveFound PROVE IInv'
<1> DEFINE n == Count(buckets)
<1> DEFINE b == Bucket(call.key)
<1> DEFINE rest == heap[cur].next
<1>1. /\ ~ Resizing /\ ~ Resizing' /\ Walking /\ ~ Walking' /\ call'.op = "none"
      /\ cur \in DOMAIN heap /\ cur # Null /\ heap[cur].key = call.key /\ call.key \in Keys
      /\ length' = length - 1 /\ cur' = Null /\ prev' = Null
      /\ newBuckets' = newBuckets /\ j' = j
  BY DEF RemoveFound, Found, Return, NoCall, Resizing, Walking, IInv, Shape, Pointer, Here
<1>2. /\ DOMAIN buckets = 0 .. n - 1 /\ n \in Nat \ {0} /\ b \in DOMAIN buckets
      /\ \A i \in DOMAIN buckets : buckets[i] \in Pointer
      /\ Linked(heap) /\ Null \notin DOMAIN heap
      /\ \A e \in DOMAIN heap : heap[e] \in EntryType
  BY <1>1, ShapeFacts DEF IInv
<1>3. /\ prev = Null => cur = buckets[b]
      /\ prev # Null => prev \in DOMAIN heap /\ heap[prev].next = cur /\ prev # cur
  BY <1>1 DEF IInv, Ahead, Shape, Pointer
<1>4. buckets \in [0 .. n - 1 -> Pointer] /\ newBuckets = EmptyArray(0) /\ j = 0
  BY <1>1, <1>2 DEF IInv, Shape
<1>5. /\ DOMAIN heap' = DOMAIN heap \ {cur}
      /\ \A e \in DOMAIN heap' : e # prev => heap'[e] = heap[e]
      /\ prev # Null => prev \in DOMAIN heap' /\ heap'[prev] = [heap[prev] EXCEPT !.next = rest]
      /\ heap' = [e \in DOMAIN heap' |-> heap'[e]]
  BY <1>3 DEF RemoveFound, Unlink, Here
<1>6. /\ DOMAIN buckets' = 0 .. n - 1
      /\ \A i \in 0 .. n - 1 : buckets'[i] = IF prev = Null /\ i = b THEN rest ELSE buckets[i]
      /\ buckets' = [i \in 0 .. n - 1 |-> buckets'[i]]
  <2>1. buckets' = IF prev = Null THEN [buckets EXCEPT ![b] = rest] ELSE buckets
    BY DEF RemoveFound, Unlink, Here
  <2> QED BY <1>2, <1>4, <2>1
<1>7. rest \in Pointer
  BY <1>1, <1>2 DEF EntryType
<1>8. Heads = {buckets[i] : i \in 0 .. n - 1} /\ Heads' = {buckets'[i] : i \in 0 .. n - 1}
  BY <1>1, <1>2, <1>6 DEF Heads
<1>9. /\ \A e, f \in DOMAIN heap : heap[e].next = heap[f].next => e = f \/ heap[e].next = Null
      /\ \A e \in DOMAIN heap : heap[e].next \in Heads => heap[e].next = Null
  BY DEF IInv, Apart
<1>10. Target = buckets /\ Target' = buckets'
  BY <1>1 DEF Target
<1>b. \A i \in DOMAIN buckets : buckets[i] = cur => i = b \/ prev # Null
  BY <1>1, <1>2, <1>3, HeadsDiffer
<1>r. rest = heap[cur].next
  OBVIOUS
<1> HIDE DEF n, b, rest
<1>11. \A e \in DOMAIN heap : heap[e].next = cur => e = prev
  <2> SUFFICES ASSUME NEW e \in DOMAIN heap, heap[e].next = cur PROVE e = prev
    OBVIOUS
  <2>1. CASE prev = Null
    BY <1>1, <1>2, <1>3, <1>8, <1>9, <2>1
  <2>2. CASE prev # Null
    BY <1>1, <1>3, <1>9, <2>2
  <2> QED BY <2>1, <2>2
<1>12. \A i \in 0 .. n - 1 : buckets[i] = cur => prev = Null /\ i = b
  <2>1. prev # Null => cur \notin Heads
    BY <1>1, <1>3, <1>9
  <2> QED BY <1>2, <1>8, <1>b, <2>1
<1>13. rest # cur
  BY <1>1, <1>2, <1>3, <1>11, <1>r
<1>14. /\ \A e \in DOMAIN heap' : heap'[e].key = heap[e].key /\ heap'[e].value = heap[e].value
       /\ \A e \in DOMAIN heap' : heap'[e].next = IF e = prev THEN rest ELSE heap[e].next
       /\ \A e \in DOMAIN heap' : heap'[e] \in [key : Keys, value : Values, next : Pointer]
  <2> SUFFICES ASSUME NEW e \in DOMAIN heap'
               PROVE  /\ heap'[e].key = heap[e].key /\ heap'[e].value = heap[e].value
                      /\ heap'[e].next = IF e = prev THEN rest ELSE heap[e].next
                      /\ heap'[e] \in [key : Keys, value : Values, next : Pointer]
    OBVIOUS
  <2>1. e \in DOMAIN heap /\ heap[e] \in [key : Keys, value : Values, next : Pointer]
    BY <1>2, <1>5 DEF EntryType
  <2>2. CASE e = prev
    <3>1. heap'[e] = [heap[e] EXCEPT !.next = rest]
      BY <1>2, <1>5, <2>1, <2>2
    <3> QED BY <1>7, <2>1, <2>2, <3>1
  <2>3. CASE e # prev
    BY <1>5, <2>1, <2>3
  <2> QED BY <2>2, <2>3
<1>15. Pointer' = Pointer \ {cur}
  BY <1>1, <1>5 DEF Pointer
<1>16. \A e \in DOMAIN heap' : heap'[e].next \in Pointer'
  <2>1. \A e \in DOMAIN heap' : e # prev => heap[e].next # cur /\ heap[e].next \in Pointer
    BY <1>2, <1>5, <1>11 DEF EntryType
  <2> QED BY <1>7, <1>13, <1>14, <1>15, <2>1
<1>17. Linked(heap') /\ Linked(heap)
  BY <1>2, <1>5, <1>16 DEF Linked, Pointer
<1>18. \A i \in 0 .. n - 1 : buckets'[i] \in Pointer'
  BY <1>2, <1>6, <1>7, <1>12, <1>13, <1>15
<1>19. Shape'
  <2>1. heap' \in [DOMAIN heap' -> EntryType']
    <3>1. \A e \in DOMAIN heap' : heap'[e] \in EntryType'
      <4> SUFFICES ASSUME NEW e \in DOMAIN heap' PROVE heap'[e] \in EntryType'
        OBVIOUS
      <4>1. heap'[e] \in [key : Keys, value : Values, next : Pointer] /\ heap'[e].next \in Pointer'
        BY <1>14, <1>16
      <4> QED BY <4>1 DEF EntryType
    <3> QED BY <1>5, <3>1
  <2>2. buckets' \in [0 .. n - 1 -> Pointer']
    BY <1>6, <1>18
  <2>3. DOMAIN heap' \subseteq Entries /\ cur' \in Pointer' /\ prev' \in Pointer'
    BY <1>1, <1>17 DEF Linked, Pointer
  <2> QED BY <1>1, <1>2, <1>4, <2>1, <2>2, <2>3 DEF Shape
<1>20. NothingLost'
  <2> DEFINE S == From(heap', Heads')
  <2>1. Closed(heap', S) /\ S \in SUBSET Entries
    BY <1>17, FromClosed
  <2>2. Heads' \subseteq Entries \cup {Null} /\ Heads' \subseteq DOMAIN heap' \cup {Null}
    BY <1>8, <1>17, <1>18 DEF Pointer, Linked
  <2>3. Heads' \subseteq S \cup {Null}
    BY <2>2, FromHas
  <2>4. S \subseteq DOMAIN heap'
    BY <1>17, <2>2, FromInHeap
  <2> HIDE DEF S
  <2>5. CASE prev = Null \/ prev \in S
    <3>1. rest \in S \cup {Null}
      <4>1. CASE prev = Null
        BY <1>2, <1>6, <1>8, <2>3, <4>1
      <4>2. CASE prev # Null
        BY <1>5, <1>14, <2>1, <2>5, <4>2 DEF Closed
      <4> QED BY <4>1, <4>2
    <3>2. Closed(heap, S \cup {cur})
      BY <1>5, <1>14, <1>3, <1>2, <1>r, <2>1, <2>4, <3>1 DEF Closed
    <3>3. Heads \subseteq (S \cup {cur}) \cup {Null}
      BY <1>3, <1>6, <1>8, <2>3
    <3>4. S \cup {cur} \in SUBSET Entries
      BY <1>1, <1>2, <2>1 DEF Linked
    <3>5. DOMAIN heap \subseteq S \cup {cur}
      BY <3>2, <3>3, <3>4, FromLeast DEF IInv, NothingLost, Reached
    <3> QED BY <1>5, <2>4, <3>5 DEF NothingLost, Reached, S
  <2>6. CASE ~ (prev = Null \/ prev \in S)
    <3>1. Closed(heap, S)
      BY <1>5, <1>14, <2>1, <2>4, <2>6 DEF Closed
    <3>2. Heads \subseteq S \cup {Null}
      BY <1>6, <1>8, <2>3, <2>6
    <3>3. DOMAIN heap \subseteq S
      BY <2>1, <3>1, <3>2, FromLeast DEF IInv, NothingLost, Reached
    <3> QED BY <1>3, <2>6, <3>3
  <2> QED BY <2>5, <2>6
<1>21. OneEntryPerKey'
  BY <1>5, <1>14 DEF IInv, OneEntryPerKey
<1>22. Placed'
  <2>1. Count(buckets') = Count(buckets)
    BY <1>2, <1>6 DEF Count
  <2> SUFFICES ASSUME NEW i \in 0 .. n - 1, NEW e \in From(heap', {buckets'[i]})
               PROVE  BucketIn(buckets', heap'[e].key) = i
    BY <1>6, <1>10 DEF Placed
  <2> DEFINE F == From(heap, {buckets[i]})
  <2>2. Closed(heap, F) /\ F \in SUBSET Entries
    BY <1>17, FromClosed
  <2>3. {buckets[i]} \subseteq Entries \cup {Null}
    BY <1>2, <1>17 DEF Pointer, Linked
  <2>4. buckets[i] \in F \cup {Null}
    BY <2>3, FromHas
  <2> HIDE DEF F
  <2>5. cur \in F => rest \in F \cup {Null}
    BY <1>1, <1>r, <2>2 DEF Closed
  <2>6. Closed(heap', F)
    <3> SUFFICES ASSUME NEW x \in F, x \in DOMAIN heap' PROVE heap'[x].next \in F \cup {Null}
      BY DEF Closed
    <3>1. x \in DOMAIN heap /\ heap[x].next \in F \cup {Null}
      BY <1>5, <2>2 DEF Closed
    <3>2. x = prev => heap[x].next = cur /\ cur # Null
      BY <1>1, <1>2, <1>3, <3>1
    <3> QED BY <1>14, <2>5, <3>1, <3>2
  <2>7. {buckets'[i]} \subseteq F \cup {Null}
    BY <1>1, <1>3, <1>6, <2>4, <2>5
  <2>8. e \in F
    BY <2>2, <2>6, <2>7, FromLeast
  <2>9. e \in DOMAIN heap'
    <3>1. {buckets'[i]} \subseteq DOMAIN heap' \cup {Null}
      BY <1>18 DEF Pointer
    <3> QED BY <1>17, <3>1, FromInHeap
  <2>10. BucketIn(buckets, heap[e].key) = i
    BY <1>2, <1>10, <2>8 DEF IInv, Placed, F
  <2> QED BY <1>14, <2>1, <2>9, <2>10 DEF BucketIn
<1>23. Apart'
  <2>1. \A e, f \in DOMAIN heap' :
          heap'[e].next = heap'[f].next => e = f \/ heap'[e].next = Null
    BY <1>1, <1>5, <1>9, <1>14, <1>r
  <2>2. ASSUME NEW e \in DOMAIN heap', heap'[e].next \in Heads' PROVE heap'[e].next = Null
    <3>1. e \in DOMAIN heap /\ e # cur
      BY <1>5
    <3>2. CASE e = prev
      <4>1. heap'[e].next = rest /\ Heads' = Heads
        BY <1>2, <1>6, <1>8, <1>14, <3>1, <3>2
      <4> QED BY <1>1, <1>9, <1>r, <2>2, <4>1
    <3>3. CASE e # prev
      <4>1. heap'[e].next = heap[e].next
        BY <1>14, <3>3
      <4>2. heap[e].next \in Heads \/ heap[e].next = rest
        BY <1>6, <1>8, <2>2, <4>1
      <4> QED BY <1>1, <1>9, <1>r, <3>1, <4>1, <4>2
    <3> QED BY <3>2, <3>3
  <2> QED BY <1>1, <2>1, <2>2 DEF Apart
<1>24. Counted'
  <2>1. IsFiniteSet(DOMAIN heap)
    BY EntriesAssumption, FS_Subset DEF IInv, Shape
  <2>2. Cardinality(DOMAIN heap') = Cardinality(DOMAIN heap) - 1 /\ Cardinality(DOMAIN heap) \in Nat
    BY <1>1, <1>5, <2>1, FS_RemoveElement, FS_CardinalityType
  <2>3. length * 4 <= n * 3 /\ length = Cardinality(DOMAIN heap)
    BY <1>10 DEF IInv, Counted, n
  <2>4. Count(buckets') = n
    BY <1>2, <1>6 DEF Count, n
  <2> QED BY <1>1, <1>2, <1>10, <2>2, <2>3, <2>4 DEF Counted
<1>25. Ahead'
  BY <1>1 DEF Ahead
<1> QED BY <1>19, <1>20, <1>21, <1>22, <1>23, <1>24, <1>25 DEF IInv

-----------------------------------------------------------------------------
LEMMA NextInv == IInv /\ [Next]_vars => IInv'
<1> SUFFICES ASSUME IInv, [Next]_vars PROVE IInv'
  OBVIOUS
<1>1. ASSUME NEW k \in Keys, NEW v \in Values, Call([op |-> "set", key |-> k, value |-> v])
      PROVE  IInv'
  BY <1>1, CallInv
<1>2. ASSUME NEW k \in Keys, NEW op \in {"contains", "get", "remove"}, Call([op |-> op, key |-> k])
      PROVE  IInv'
  BY <1>2, CallInv
<1>3. CASE Step
  BY <1>3, StepInv
<1>4. CASE SetFound
  BY <1>4, SetFoundInv
<1>5. CASE SetNew
  BY <1>5, SetNewInv
<1>6. CASE ResizeEntry
  BY <1>6, ResizeEntryInv
<1>7. CASE ResizeBucket
  BY <1>7, ResizeBucketInv
<1>8. CASE ResizeEnd
  BY <1>8, ResizeEndInv
<1>9. CASE ReturnAnswer
  BY <1>9, ReturnInv DEF ReturnAnswer, Answers, Found, Missing, Resizing
<1>10. CASE RemoveFound
  BY <1>10, RemoveFoundInv
<1>11. CASE RemoveMissing
  BY <1>11, ReturnInv DEF RemoveMissing, Missing, Resizing
<1>12. CASE UNCHANGED vars
  <2>1. UNCHANGED <<heap, buckets, length, call, cur, prev, newBuckets, j>>
    BY <1>12 DEF vars
  <2>2. Heads' = Heads /\ Target' = Target /\ Pointer' = Pointer /\ EntryType' = EntryType
    BY <2>1 DEF Heads, Target, Resizing, Pointer, EntryType
  <2>3. Shape' /\ NothingLost' /\ OneEntryPerKey' /\ Counted'
    BY <2>1, <2>2 DEF IInv, Shape, Resizing, Walking, NothingLost, Reached, OneEntryPerKey, Counted
  <2>4. Placed' /\ Apart' /\ Ahead'
    BY <2>1, <2>2 DEF IInv, Placed, Apart, Ahead, Resizing, Walking, Bucket
  <2> QED BY <2>3, <2>4 DEF IInv
<1> QED
  BY <1>1, <1>2, <1>3, <1>4, <1>5, <1>6, <1>7, <1>8, <1>9, <1>10, <1>11, <1>12 DEF Next

\* The table keeps its shape, loses no entry and puts each on its chain.
THEOREM Invariance == Spec => []IInv
<1>1. Init => IInv
  BY InitInv
<1>2. IInv /\ [Next]_vars => IInv'
  BY NextInv
<1> QED BY <1>1, <1>2, PTL DEF Spec

-----------------------------------------------------------------------------
\* What the map holds is what its entries hold.
HoldsEntries ==
  /\ DOMAIN Content = {heap[e].key : e \in DOMAIN heap}
  /\ \A e \in DOMAIN heap : Content[heap[e].key] = heap[e].value
  /\ Content = [k \in DOMAIN Content |-> Content[k]]

LEMMA ContentIs == IInv => HoldsEntries
<1> SUFFICES ASSUME IInv PROVE HoldsEntries
  OBVIOUS
<1>1. Content = [k \in {heap[e].key : e \in DOMAIN heap} |->
                   heap[CHOOSE e \in DOMAIN heap : heap[e].key = k].value]
  BY DEF Content, IInv, NothingLost
<1>2. ASSUME NEW e \in DOMAIN heap
      PROVE  (CHOOSE f \in DOMAIN heap : heap[f].key = heap[e].key) = e
  BY DEF IInv, OneEntryPerKey
<1>3. DOMAIN Content = {heap[e].key : e \in DOMAIN heap}
  BY <1>1
<1>4. Content = [k \in DOMAIN Content |-> Content[k]]
  BY <1>1
<1>5. \A e \in DOMAIN heap : Content[heap[e].key] = heap[e].value
  BY <1>1, <1>2
<1> QED BY <1>3, <1>4, <1>5 DEF HoldsEntries

\* A walk that came to the end of the chain has seen every entry of it.
LEMMA EndOfChain ==
  ASSUME IInv, Walking, cur = Null PROVE call.key \notin DOMAIN Content
<1>1. \A e \in DOMAIN heap : heap[e].key # call.key
  BY FromNull DEF IInv, Ahead
<1> QED BY <1>1, ContentIs DEF HoldsEntries

\* Membership and lookup answer what the map holds, for every hash: see
\* contains and get of Map in std/collections.ax.
THEOREM AnswersHold == Spec => []AnswersAreRight
<1>1. IInv => AnswersAreRight
  <2> SUFFICES ASSUME IInv, Answers
               PROVE  Answer = IF call.op = "get" THEN Content[call.key] ELSE call.key \in DOMAIN Content
    BY DEF AnswersAreRight
  <2>1. CASE Missing("contains")
    <3>1. call.key \notin DOMAIN Content
      BY <2>1, EndOfChain DEF Missing, Walking
    <3> QED BY <2>1, <3>1 DEF Missing, Answer
  <2>2. ASSUME NEW op \in {"contains", "get"}, Found(op)
        PROVE  Answer = IF call.op = "get" THEN Content[call.key] ELSE call.key \in DOMAIN Content
    <3>1. cur \in DOMAIN heap /\ heap[cur].key = call.key /\ call.op = op /\ cur # Null
      BY <2>2 DEF Found, Here, IInv, Shape, Pointer
    <3>2. call.key \in DOMAIN Content /\ Content[call.key] = heap[cur].value
      BY <3>1, ContentIs DEF HoldsEntries
    <3> QED BY <3>1, <3>2 DEF Answer, Here
  <2> QED BY <2>1, <2>2 DEF Answers
<1> QED BY <1>1, Invariance, PTL

\* length is the number of keys, and the array never more than three quarters
\* full between operations, however often it doubled.
THEOREM LengthAndLoadHold == Spec => []LengthAndLoad
<1>1. IInv => LengthAndLoad
  <2> SUFFICES ASSUME IInv PROVE LengthAndLoad
    OBVIOUS
  <2>1. length = Cardinality(Reached)
    BY DEF IInv, Counted, NothingLost
  <2>2. Cardinality(DOMAIN Content) = Cardinality(DOMAIN heap)
    <3> DEFINE keyOf == [e \in DOMAIN heap |-> heap[e].key]
    <3>1. IsFiniteSet(DOMAIN heap)
      BY EntriesAssumption, FS_Subset DEF IInv, Shape
    <3>2. keyOf \in Bijection(DOMAIN heap, DOMAIN Content)
      <4>1. \A e, f \in DOMAIN heap : heap[e].key = heap[f].key => e = f
        BY DEF IInv, OneEntryPerKey
      <4> QED BY <4>1, ContentIs DEF HoldsEntries, Bijection, Injection, Surjection, IsInjective
    <3> HIDE DEF keyOf
    <3>3. ExistsBijection(DOMAIN heap, DOMAIN Content)
      BY <3>2 DEF ExistsBijection
    <3> QED BY <3>1, <3>3, FS_Bijection
  <2>3. call = NoCall => length * 4 <= Count(buckets) * 3
    BY DEF IInv, Counted, Target, Resizing, NoCall
  <2> QED BY <2>1, <2>2, <2>3 DEF LengthAndLoad, IInv, Counted
<1> QED BY <1>1, Invariance, PTL

-----------------------------------------------------------------------------
(***************************************************************************)
(* Every step of the table is a step of the dictionary or leaves it alone. *)
(***************************************************************************)
LEMMA HoldsAfter == IInv' => HoldsEntries'
BY ContentIs, PTL

LEMMA SameContent ==
  ASSUME HoldsEntries, HoldsEntries', DOMAIN heap' = DOMAIN heap,
         \A e \in DOMAIN heap : heap'[e].key = heap[e].key /\ heap'[e].value = heap[e].value
  PROVE  Content' = Content
<1>1. DOMAIN Content' = DOMAIN Content
  BY DEF HoldsEntries
<1>2. \A k \in DOMAIN Content : Content'[k] = Content[k]
  BY DEF HoldsEntries
<1> QED BY <1>1, <1>2 DEF HoldsEntries

LEMMA SetFoundSets ==
  ASSUME IInv, HoldsEntries, HoldsEntries', SetFound
  PROVE  D!Set
<1>1. /\ cur \in DOMAIN heap /\ heap[cur].key = call.key
      /\ call.key \in Keys /\ call.value \in Values
  BY DEF SetFound, Found, Here, Walking, IInv, Shape, Pointer
<1>2. /\ DOMAIN heap' = DOMAIN heap
      /\ \A e \in DOMAIN heap : heap'[e].key = heap[e].key
      /\ \A e \in DOMAIN heap : heap'[e].value = IF e = cur THEN call.value ELSE heap[e].value
  <2>1. heap[cur] \in EntryType
    BY <1>1, ShapeFacts DEF IInv
  <2>2. heap'[cur] = [heap[cur] EXCEPT !.value = call.value]
    BY <1>1 DEF SetFound, IInv, Shape
  <2>3. heap'[cur].value = call.value /\ heap'[cur].key = heap[cur].key
    BY <2>1, <2>2 DEF EntryType
  <2>4. DOMAIN heap' = DOMAIN heap /\ \A e \in DOMAIN heap : e # cur => heap'[e] = heap[e]
    BY DEF SetFound, IInv, Shape
  <2>5. \A e \in DOMAIN heap : heap'[e].key = heap[e].key
    BY <2>3, <2>4
  <2>6. \A e \in DOMAIN heap : heap'[e].value = IF e = cur THEN call.value ELSE heap[e].value
    BY <2>3, <2>4
  <2> QED BY <2>4, <2>5, <2>6
<1>3. DOMAIN Content' = DOMAIN Content /\ call.key \in DOMAIN Content
  BY <1>1, <1>2 DEF HoldsEntries
<1>4. \A k \in DOMAIN Content : Content'[k] = IF k = call.key THEN call.value ELSE Content[k]
  <2> SUFFICES ASSUME NEW e \in DOMAIN heap
               PROVE  Content'[heap[e].key] =
                        IF heap[e].key = call.key THEN call.value ELSE Content[heap[e].key]
    BY DEF HoldsEntries
  <2>1. Content'[heap[e].key] = heap'[e].value /\ Content[heap[e].key] = heap[e].value
    BY <1>2 DEF HoldsEntries
  <2>2. OneEntryPerKey
    BY DEF IInv
  <2>3. heap[e].key = call.key <=> e = cur
    BY <1>1, <2>2 DEF OneEntryPerKey
  <2> QED BY <1>2, <2>1, <2>3
<1>5. /\ Content' = [k \in DOMAIN Content' |-> Content'[k]]
      /\ DOMAIN Content' = DOMAIN Content \cup {call.key}
  BY <1>3 DEF HoldsEntries
<1>6. Content' = D!With(call.key, call.value)
  BY ONLY <1>3, <1>4, <1>5 DEF D!With
<1>7. Asked = call /\ Asked' = NoCall /\ call.op = "set"
  BY DEF SetFound, Found, Return, Asked, Resizing, NoCall
<1> QED BY <1>6, <1>7 DEF D!Set, D!NoCall, NoCall

LEMMA SetNewSets ==
  ASSUME IInv, HoldsEntries, HoldsEntries', SetNew
  PROVE  D!Set
<1>1. /\ ~ Resizing /\ Walking /\ cur = Null /\ call.key \in Keys /\ call.value \in Values
  BY DEF SetNew, Missing, Resizing, Walking, IInv, Shape
<1>2. \A e \in DOMAIN heap : heap[e].key # call.key
  BY <1>1, FromNull DEF IInv, Ahead
<1>3. NewEntry \notin DOMAIN heap
  BY <1>1, <1>2, FreeEntry
<1> DEFINE new == NewEntry
<1>4. /\ DOMAIN heap' = DOMAIN heap \cup {new}
      /\ heap'[new].key = call.key /\ heap'[new].value = call.value
      /\ \A e \in DOMAIN heap : heap'[e] = heap[e]
  BY <1>3 DEF SetNew
<1> HIDE DEF new
<1>5. DOMAIN Content' = DOMAIN Content \cup {call.key} /\ call.key \notin DOMAIN Content
  BY <1>2, <1>4 DEF HoldsEntries
<1>6. Content'[call.key] = call.value
  BY <1>4 DEF HoldsEntries
<1>7. \A k \in DOMAIN Content : Content'[k] = Content[k]
  <2> SUFFICES ASSUME NEW e \in DOMAIN heap PROVE Content'[heap[e].key] = Content[heap[e].key]
    BY DEF HoldsEntries
  <2> QED BY <1>4 DEF HoldsEntries
<1>8. Content' = D!With(call.key, call.value)
  BY <1>5, <1>6, <1>7 DEF HoldsEntries, D!With
<1>9. Asked = call /\ call.op = "set"
  BY DEF SetNew, Missing, Asked, Resizing
<1>10. Asked' = NoCall
  <2>1. call' = NoCall \/ call' = [op |-> "resize"]
    BY DEF SetNew, Return
  <2> QED BY <2>1 DEF Asked, Resizing, NoCall
<1> QED BY <1>8, <1>9, <1>10 DEF D!Set, D!NoCall, NoCall

LEMMA RemoveFoundRemoves ==
  ASSUME IInv, HoldsEntries, HoldsEntries', RemoveFound
  PROVE  D!Remove
<1>1. cur \in DOMAIN heap /\ heap[cur].key = call.key /\ call.key \in Keys
  BY DEF RemoveFound, Found, Here, Walking, IInv, Shape, Pointer
<1>2. /\ DOMAIN heap' = DOMAIN heap \ {cur}
      /\ \A e \in DOMAIN heap' : heap'[e].key = heap[e].key /\ heap'[e].value = heap[e].value
  <2>1. \A e \in DOMAIN heap : heap[e] \in EntryType
    BY ShapeFacts DEF IInv
  <2>2. DOMAIN heap' = DOMAIN heap \ {cur}
    BY DEF RemoveFound, Unlink
  <2>3. ASSUME NEW e \in DOMAIN heap'
        PROVE  heap'[e].key = heap[e].key /\ heap'[e].value = heap[e].value
    <3>1. heap'[e] = IF e = prev THEN [heap[e] EXCEPT !.next = Here.next] ELSE heap[e]
      BY <2>2 DEF RemoveFound, Unlink
    <3> QED BY <2>1, <2>2, <3>1 DEF EntryType
  <2> QED BY <2>2, <2>3
<1>3. \A e \in DOMAIN heap : heap[e].key = call.key <=> e = cur
  BY <1>1 DEF IInv, OneEntryPerKey
<1>4. DOMAIN Content' = DOMAIN Content \ {call.key}
  BY <1>1, <1>2, <1>3 DEF HoldsEntries
<1>5. \A k \in DOMAIN Content' : Content'[k] = Content[k]
  <2> SUFFICES ASSUME NEW e \in DOMAIN heap' PROVE Content'[heap'[e].key] = Content[heap'[e].key]
    BY DEF HoldsEntries
  <2> QED BY <1>2 DEF HoldsEntries
<1>6. Content' = D!Without(call.key)
  BY <1>4, <1>5 DEF HoldsEntries, D!Without
<1>7. Asked = call /\ Asked' = NoCall /\ call.op = "remove"
  BY DEF RemoveFound, Found, Return, Asked, Resizing, NoCall
<1> QED BY <1>6, <1>7 DEF D!Remove, D!NoCall, NoCall

\* Removing a key that is not there is over with nothing removed.
LEMMA RemoveMissingRemoves ==
  ASSUME IInv, HoldsEntries, Content' = Content, RemoveMissing
  PROVE  D!Remove
<1>1. call.key \notin DOMAIN Content
  BY EndOfChain DEF RemoveMissing, Missing, Walking
<1>2. D!Without(call.key) = Content
  BY <1>1 DEF HoldsEntries, D!Without
<1>3. Asked = call /\ Asked' = NoCall /\ call.op = "remove"
  BY DEF RemoveMissing, Missing, Return, Asked, Resizing, NoCall
<1> QED BY <1>2, <1>3 DEF D!Remove, D!NoCall, NoCall

LEMMA CallCalls ==
  ASSUME IInv, HoldsEntries, Content' = Content, NEW c, c.op # "resize", Call(c)
  PROVE  D!Call(c)
<1>1. Asked = NoCall /\ Asked' = c
  BY DEF Call, Asked, Resizing, NoCall
<1>2. c.op = "get" => c.key \in DOMAIN Content
  BY DEF Call, IInv, NothingLost, HoldsEntries
<1> QED BY <1>1, <1>2 DEF D!Call, D!NoCall, NoCall

LEMMA ReturnLooks ==
  ASSUME Content' = Content, ReturnAnswer
  PROVE  D!Look
<1>1. Asked = call /\ Asked' = NoCall /\ call.op \in {"contains", "get"}
  BY DEF ReturnAnswer, Answers, Found, Missing, Return, Asked, Resizing, NoCall
<1> QED BY <1>1 DEF D!Look, D!NoCall, NoCall

LEMMA NextRefines ==
  ASSUME IInv, IInv', [Next]_vars PROVE [D!Next]_(D!vars)
<1> USE ContentIs, HoldsAfter
<1>1. \A e \in DOMAIN heap : heap' = heap =>
        heap'[e].key = heap[e].key /\ heap'[e].value = heap[e].value
  OBVIOUS
<1>2. heap' = heap => Content' = Content
  BY <1>1, SameContent
<1>3. ASSUME NEW k \in Keys, NEW v \in Values, Call([op |-> "set", key |-> k, value |-> v])
      PROVE  D!Next
  <2>1. Content' = Content
    BY <1>2, <1>3 DEF Call
  <2>2. D!Call([op |-> "set", key |-> k, value |-> v])
    BY <1>3, <2>1, CallCalls
  <2> QED BY <2>2 DEF D!Next
<1>4. ASSUME NEW k \in Keys, NEW op \in {"contains", "get", "remove"}, Call([op |-> op, key |-> k])
      PROVE  D!Next
  <2>1. Content' = Content
    BY <1>2, <1>4 DEF Call
  <2>2. D!Call([op |-> op, key |-> k])
    BY <1>4, <2>1, CallCalls
  <2> QED BY <2>2 DEF D!Next
<1>5. CASE Step \/ ResizeBucket \/ ResizeEnd
  <2>1. Content' = Content
    BY <1>2, <1>5 DEF Step, ResizeBucket, ResizeEnd
  <2>2. Asked' = Asked
    BY <1>5 DEF Step, ResizeBucket, ResizeEnd, Asked, Resizing, NoCall
  <2> QED BY <2>1, <2>2 DEF D!vars
<1>6. CASE SetFound
  BY <1>6, SetFoundSets DEF D!Next
<1>7. CASE SetNew
  BY <1>7, SetNewSets DEF D!Next
<1>8. CASE ResizeEntry
  <2>1. /\ DOMAIN heap' = DOMAIN heap
        /\ \A e \in DOMAIN heap : heap'[e].key = heap[e].key /\ heap'[e].value = heap[e].value
    <3>1. \A e \in DOMAIN heap : heap[e] \in EntryType
      BY ShapeFacts DEF IInv
    <3>2. /\ DOMAIN heap' = DOMAIN heap
          /\ \A e \in DOMAIN heap : e # cur => heap'[e] = heap[e]
          /\ heap'[cur] = [heap[cur] EXCEPT !.next = newBuckets[NewBucket]] \/ cur \notin DOMAIN heap
      BY <1>8 DEF ResizeEntry, IInv, Shape
    <3> QED BY <3>1, <3>2 DEF EntryType
  <2>2. Content' = Content
    BY <2>1, SameContent
  <2>3. Asked' = Asked
    BY <1>8 DEF ResizeEntry, Asked, Resizing
  <2> QED BY <2>2, <2>3 DEF D!vars
<1>9. CASE RemoveFound
  BY <1>9, RemoveFoundRemoves DEF D!Next
<1>10. CASE UNCHANGED vars
  <2>1. Content' = Content /\ Asked' = Asked
    BY <1>2, <1>10 DEF vars, Asked, Resizing
  <2> QED BY <2>1 DEF D!vars
<1>11. CASE ReturnAnswer
  <2>1. Content' = Content
    BY <1>2, <1>11 DEF ReturnAnswer
  <2> QED BY <1>11, <2>1, ReturnLooks DEF D!Next
<1>12. CASE RemoveMissing
  <2>1. Content' = Content
    BY <1>2, <1>12 DEF RemoveMissing
  <2> QED BY <1>12, <2>1, RemoveMissingRemoves DEF D!Next
<1> QED BY <1>3, <1>4, <1>5, <1>6, <1>7, <1>8, <1>9, <1>10, <1>11, <1>12 DEF Next

\* The hash table is a dictionary: what was called takes effect on its key in
\* one step, and the turns of a resize, which are of no call, are not to be seen.
THEOREM TableImplementsDictionary == Spec => ImplementsDictionary
<1>1. Init => D!Init
  <2> SUFFICES ASSUME Init PROVE D!Init
    OBVIOUS
  <2>1. IInv /\ DOMAIN heap = {}
    BY InitInv DEF Init
  <2>2. DOMAIN Content = {} /\ Content = [k \in DOMAIN Content |-> Content[k]]
    BY <2>1, ContentIs DEF HoldsEntries
  <2>3. Asked = NoCall
    BY DEF Init, Asked
  <2> QED BY <2>2, <2>3 DEF D!Init, D!Empty, D!NoCall, NoCall
<1>2. IInv /\ IInv' /\ [Next]_vars => [D!Next]_(D!vars)
  BY NextRefines
<1> QED BY <1>1, <1>2, Invariance, PTL DEF Spec, ImplementsDictionary, D!Spec

LEMMA LeastMember ==
  ASSUME NEW T \in SUBSET Nat, T # {}
  PROVE  \E x \in T : \A y \in T : x <= y
<1>1. \E less : /\ IsWellFoundedOn(less, Nat)
                /\ \A x, y \in Nat : x < y => <<x, y>> \in less
  <2> DEFINE less == OpToRel(<, Nat)
  <2>1. IsWellFoundedOn(less, Nat)
    BY NatLessThanWellFounded
  <2>2. \A x, y \in Nat : x < y => <<x, y>> \in less
    BY DEF OpToRel
  <2> QED BY <2>1, <2>2
<1>2. PICK less : /\ IsWellFoundedOn(less, Nat)
                  /\ \A x, y \in Nat : x < y => <<x, y>> \in less
  BY <1>1
<1>3. PICK x \in T : \A y \in T : ~ (<<y, x>> \in less)
  <2>1. IsWellFoundedOn(less, Nat) /\ T \subseteq Nat
    BY <1>2
  <2> QED BY ONLY <2>1, T # {}, WFMin
<1>4. \A y \in T : ~ (y < x)
  BY <1>2, <1>3
<1> QED BY <1>4
-----------------------------------------------------------------------------
(***************************************************************************)
(* The tree.  Holds(t, P): t is an AVL tree whose entries are P.  It is    *)
(* told by a set of such pairs in which each is accounted for by those of  *)
(* its subtrees; that the heights grow makes the account well-founded.     *)
(***************************************************************************)
TreeKeys == MapKeys \cup SetKeys

Entry(t) == [key |-> t.key, value |-> t.value]

IsNode(t) ==
  t = [key |-> t.key, value |-> t.value, height |-> t.height, left |-> t.left, right |-> t.right]

\* What P is if A is below t on the left and B on the right.
Parted(t, A, B, P) ==
  /\ t.key \in TreeKeys
  /\ \A p \in A : p.key < t.key
  /\ \A p \in B : t.key < p.key
  /\ P = A \cup {Entry(t)} \cup B

Leaning(t) == Tree!NodeHeight(t.left) - Tree!NodeHeight(t.right)

Weighed(t) ==
  /\ t.height = Tree!Higher(Tree!NodeHeight(t.left), Tree!NodeHeight(t.right)) + 1
  /\ Leaning(t) \in -1 .. 1

Sized(t, P) ==
  /\ IsFiniteSet(P) /\ \A p \in P : p.key \in TreeKeys
  /\ \A p, o \in P : p.key = o.key => p = o
  /\ Tree!NodeHeight(t) \in Nat /\ Tree!NodeHeight(t) <= Cardinality(P)
  /\ t # Tree!NoNode => Tree!NodeHeight(t) > 0

Accounted(R) ==
  \A t, P : <<t, P>> \in R =>
    /\ Sized(t, P)
    /\ \/ t = Tree!NoNode /\ P = {}
       \/ /\ t # Tree!NoNode /\ IsNode(t) /\ Weighed(t)
          /\ \E A, B : <<t.left, A>> \in R /\ <<t.right, B>> \in R /\ Parted(t, A, B, P)

Holds(t, P) == \E R : Accounted(R) /\ <<t, P>> \in R

LEMMA HoldsNull == Holds(Tree!NoNode, {})
<1>1. Sized(Tree!NoNode, {})
  BY FS_EmptySet DEF Sized, Tree!NodeHeight
<1> DEFINE R == {<<Tree!NoNode, {}>>}
<1>2. Accounted(R)
  BY <1>1 DEF Accounted
<1> QED BY <1>2 DEF Holds

LEMMA HoldsSized ==
  ASSUME NEW t, NEW P, Holds(t, P)
  PROVE  Sized(t, P)
BY DEF Holds, Accounted

LEMMA HoldsOnlyNull ==
  ASSUME NEW P, Holds(Tree!NoNode, P)
  PROVE  P = {}
BY DEF Holds, Accounted

LEMMA HoldsBelow ==
  ASSUME NEW t, NEW P, Holds(t, P), t # Tree!NoNode
  PROVE  /\ IsNode(t) /\ Weighed(t)
         /\ \E A, B : Holds(t.left, A) /\ Holds(t.right, B) /\ Parted(t, A, B, P)
BY DEF Holds, Accounted

\* The node with a key and a value and two trees below it.
Made(k, v, l, r) ==
  [key |-> k, value |-> v, height |-> Tree!Higher(Tree!NodeHeight(l), Tree!NodeHeight(r)) + 1,
   left |-> l, right |-> r]

LEMMA MadeIs ==
  ASSUME NEW k, NEW v, NEW l, NEW r
  PROVE  /\ Made(k, v, l, r) # Tree!NoNode /\ IsNode(Made(k, v, l, r))
         /\ Made(k, v, l, r).key = k /\ Made(k, v, l, r).value = v
         /\ Made(k, v, l, r).left = l /\ Made(k, v, l, r).right = r
         /\ Tree!NodeHeight(Made(k, v, l, r)) = Tree!Higher(Tree!NodeHeight(l), Tree!NodeHeight(r)) + 1
<1>1. Made(k, v, l, r) # Tree!NoNode
  BY DEF Made, Tree!NoNode
<1> QED BY <1>1 DEF Made, IsNode, Tree!NodeHeight

LEMMA HigherIs ==
  ASSUME NEW a \in Nat, NEW b \in Nat
  PROVE  /\ Tree!Higher(a, b) \in Nat /\ a <= Tree!Higher(a, b) /\ b <= Tree!Higher(a, b)
         /\ Tree!Higher(a, b) = a \/ Tree!Higher(a, b) = b
BY DEF Tree!Higher

\* The entries of both sides and one between them.
LEMMA PartedSized ==
  ASSUME NEW A, NEW B, NEW e, IsFiniteSet(A), IsFiniteSet(B), e \notin A
  PROVE  /\ IsFiniteSet(A \cup {e} \cup B)
         /\ Cardinality(A) + 1 <= Cardinality(A \cup {e} \cup B)
<1>1. IsFiniteSet(A \cup {e}) /\ Cardinality(A \cup {e}) = Cardinality(A) + 1
  BY FS_AddElement
<1>2. IsFiniteSet(A \cup {e} \cup B)
  BY <1>1, FS_Union
<1>3. Cardinality(A \cup {e}) <= Cardinality(A \cup {e} \cup B)
  <2>1. A \cup {e} \in SUBSET (A \cup {e} \cup B)
    OBVIOUS
  <2> QED BY ONLY <1>2, <2>1, FS_Subset
<1> QED BY <1>1, <1>2, <1>3

LEMMA HoldsMade ==
  ASSUME NEW k \in TreeKeys, NEW v, NEW l, NEW r, NEW A, NEW B, Holds(l, A), Holds(r, B),
         \A p \in A : p.key < k, \A p \in B : k < p.key,
         Tree!NodeHeight(l) - Tree!NodeHeight(r) \in -1 .. 1
  PROVE  Holds(Made(k, v, l, r), A \cup {[key |-> k, value |-> v]} \cup B)
<1> DEFINE t == Made(k, v, l, r)
           e == [key |-> k, value |-> v]
           P == A \cup {e} \cup B
<1>1. /\ t # Tree!NoNode /\ IsNode(t) /\ t.key = k /\ t.value = v /\ t.left = l /\ t.right = r
      /\ Tree!NodeHeight(t) = Tree!Higher(Tree!NodeHeight(l), Tree!NodeHeight(r)) + 1
  BY MadeIs
<1>2. Sized(l, A) /\ Sized(r, B)
  BY HoldsSized
<1>3. Parted(t, A, B, P)
  BY <1>1 DEF Parted, Entry
<1>4. Weighed(t)
  BY <1>1 DEF Weighed, Leaning, Tree!NodeHeight
<1>5. k \in Int /\ \A x \in TreeKeys : x \in Int
  BY KeysAssumption DEF TreeKeys
<1>6. Sized(t, P)
  <2>1. e.key = k
    OBVIOUS
  <2>2. e \notin A /\ e \notin B
    BY <1>5, <2>1
  <2>3. IsFiniteSet(P) /\ Cardinality(A) + 1 <= Cardinality(P)
    BY <1>2, <2>2, PartedSized DEF Sized
  <2>4. Cardinality(B) + 1 <= Cardinality(P)
    <3>1. B \cup {e} \cup A = P
      OBVIOUS
    <3> QED BY <1>2, <2>2, <3>1, PartedSized DEF Sized
  <2>5. \A p \in P : p.key \in TreeKeys
    BY <1>2, <2>1 DEF Sized
  <2>6. Cardinality(A) \in Nat /\ Cardinality(B) \in Nat /\ Cardinality(P) \in Nat
    BY <1>2, <2>3, FS_CardinalityType DEF Sized
  <2>7. /\ Tree!NodeHeight(l) \in Nat /\ Tree!NodeHeight(r) \in Nat
        /\ Tree!NodeHeight(l) <= Cardinality(A) /\ Tree!NodeHeight(r) <= Cardinality(B)
    BY <1>2 DEF Sized
  <2> HIDE DEF t, P, e
  <2>8. Tree!NodeHeight(t) \in Nat /\ Tree!NodeHeight(t) > 0 /\ Tree!NodeHeight(t) <= Cardinality(P)
    BY <1>1, <2>3, <2>4, <2>6, <2>7 DEF Tree!Higher
  <2>9. \A p, o \in P : p.key = o.key => p = o
    <3>1. /\ \A p \in A : p.key \in Int
          /\ \A p \in B : p.key \in Int
          /\ \A p, o \in A : p.key = o.key => p = o
          /\ \A p, o \in B : p.key = o.key => p = o
      BY <1>2, <1>5 DEF Sized
    <3>2. \A p \in P : (p \in A /\ p.key < k) \/ (p = e /\ p.key = k) \/ (p \in B /\ k < p.key)
      BY <2>1 DEF P
    <3> QED BY <1>5, <3>1, <3>2
  <2> QED BY <2>3, <2>5, <2>8, <2>9 DEF Sized
<1>7. PICK R : Accounted(R) /\ <<l, A>> \in R
  BY DEF Holds
<1>8. PICK S : Accounted(S) /\ <<r, B>> \in S
  BY DEF Holds
<1> DEFINE U == R \cup S \cup {<<t, P>>}
<1> HIDE DEF t, P, e
<1>9. Accounted(U)
  <2> SUFFICES ASSUME NEW u, NEW Q, <<u, Q>> \in U
               PROVE  /\ Sized(u, Q)
                      /\ \/ u = Tree!NoNode /\ Q = {}
                         \/ /\ u # Tree!NoNode /\ IsNode(u) /\ Weighed(u)
                            /\ \E C, F : <<u.left, C>> \in U /\ <<u.right, F>> \in U /\ Parted(u, C, F, Q)
    BY DEF Accounted
  <2>1. CASE <<u, Q>> \in R
    BY <1>7, <2>1 DEF Accounted
  <2>2. CASE <<u, Q>> \in S
    BY <1>8, <2>2 DEF Accounted
  <2>3. CASE u = t /\ Q = P
    <3>1. <<t.left, A>> \in U /\ <<t.right, B>> \in U
      BY <1>1, <1>7, <1>8
    <3> QED BY <1>1, <1>3, <1>4, <1>6, <2>3, <3>1
  <2> QED BY <2>1, <2>2, <2>3
<1>10. Holds(t, P)
  BY <1>9 DEF Holds
<1> QED BY <1>10 DEF t, P, e

LEMMA ChildReplaced ==
  ASSUME NEW t, IsNode(t), NEW z
  PROVE  /\ IsNode([t EXCEPT !.left = z]) /\ [t EXCEPT !.left = z].left = z
         /\ [t EXCEPT !.left = z].right = t.right
         /\ [t EXCEPT !.left = z].key = t.key /\ [t EXCEPT !.left = z].value = t.value
         /\ IsNode([t EXCEPT !.right = z]) /\ [t EXCEPT !.right = z].right = z
         /\ [t EXCEPT !.right = z].left = t.left
         /\ [t EXCEPT !.right = z].key = t.key /\ [t EXCEPT !.right = z].value = t.value
BY DEF IsNode

LEMMA WithHeightIs ==
  ASSUME NEW t, IsNode(t)
  PROVE  Tree!WithHeight(t) = Made(t.key, t.value, t.left, t.right)
<1> DEFINE h == Tree!Higher(Tree!NodeHeight(t.left), Tree!NodeHeight(t.right)) + 1
<1>1. Tree!WithHeight(t) = [t EXCEPT !.height = h]
  BY DEF Tree!WithHeight
<1>2. Made(t.key, t.value, t.left, t.right) =
        [key |-> t.key, value |-> t.value, height |-> h, left |-> t.left, right |-> t.right]
  BY DEF Made
<1> HIDE DEF h
<1>3. [t EXCEPT !.height = h] =
        [key |-> t.key, value |-> t.value, height |-> h, left |-> t.left, right |-> t.right]
  BY DEF IsNode
<1> QED BY <1>1, <1>2, <1>3

LEMMA ChildMade ==
  ASSUME NEW t, IsNode(t), NEW z
  PROVE  /\ Tree!WithHeight([t EXCEPT !.left = z]) = Made(t.key, t.value, z, t.right)
         /\ Tree!WithHeight([t EXCEPT !.right = z]) = Made(t.key, t.value, t.left, z)
<1> DEFINE u == [t EXCEPT !.left = z]
           w == [t EXCEPT !.right = z]
<1>1. /\ IsNode(u) /\ u.left = z /\ u.right = t.right /\ u.key = t.key /\ u.value = t.value
      /\ IsNode(w) /\ w.right = z /\ w.left = t.left /\ w.key = t.key /\ w.value = t.value
  BY ONLY IsNode(t) DEF IsNode
<1> HIDE DEF u, w
<1>2. /\ Tree!WithHeight(u) = Made(t.key, t.value, z, t.right)
      /\ Tree!WithHeight(w) = Made(t.key, t.value, t.left, z)
  BY <1>1, WithHeightIs
<1> QED BY <1>2 DEF u, w

LEMMA RotatedRight ==
  ASSUME NEW y, IsNode(y), IsNode(y.left)
  PROVE  Tree!RotateRight(y) =
           Made(y.left.key, y.left.value, y.left.left, Made(y.key, y.value, y.left.right, y.right))
<1> DEFINE x == y.left
           a == x.right
           low == Tree!WithHeight([y EXCEPT !.left = a])
<1>1. Tree!RotateRight(y) = Tree!WithHeight([x EXCEPT !.right = low]) /\ IsNode(x)
  BY DEF Tree!RotateRight
<1> HIDE DEF x, a
<1>2. low = Made(y.key, y.value, a, y.right)
  BY ChildMade
<1> HIDE DEF low
<1>3. Tree!WithHeight([x EXCEPT !.right = low]) = Made(x.key, x.value, x.left, low)
  BY <1>1, ChildMade
<1> QED BY <1>1, <1>2, <1>3 DEF x, a

LEMMA RotatedLeft ==
  ASSUME NEW x, IsNode(x), IsNode(x.right)
  PROVE  Tree!RotateLeft(x) =
           Made(x.right.key, x.right.value, Made(x.key, x.value, x.left, x.right.left), x.right.right)
<1> DEFINE y == x.right
           a == y.left
           low == Tree!WithHeight([x EXCEPT !.right = a])
<1>1. Tree!RotateLeft(x) = Tree!WithHeight([y EXCEPT !.left = low]) /\ IsNode(y)
  BY DEF Tree!RotateLeft
<1> HIDE DEF y, a
<1>2. low = Made(x.key, x.value, x.left, a)
  BY ChildMade
<1> HIDE DEF low
<1>3. Tree!WithHeight([y EXCEPT !.left = low]) = Made(y.key, y.value, low, y.right)
  BY <1>1, ChildMade
<1> QED BY <1>1, <1>2, <1>3 DEF y, a

\* A node that is given another child and then rotated.
LEMMA RotatedTwice ==
  ASSUME NEW t, IsNode(t), NEW z, IsNode(z)
  PROVE  /\ Tree!RotateRight([t EXCEPT !.left = z]) =
              Made(z.key, z.value, z.left, Made(t.key, t.value, z.right, t.right))
         /\ Tree!RotateLeft([t EXCEPT !.right = z]) =
              Made(z.key, z.value, Made(t.key, t.value, t.left, z.left), z.right)
<1> DEFINE u == [t EXCEPT !.left = z]
           w == [t EXCEPT !.right = z]
<1>1. /\ IsNode(u) /\ u.left = z /\ u.right = t.right /\ u.key = t.key /\ u.value = t.value
      /\ IsNode(w) /\ w.right = z /\ w.left = t.left /\ w.key = t.key /\ w.value = t.value
  BY ChildReplaced
<1> HIDE DEF u, w
<1>2. Tree!RotateRight(u) = Made(z.key, z.value, z.left, Made(t.key, t.value, z.right, t.right))
  BY <1>1, RotatedRight
<1>3. Tree!RotateLeft(w) = Made(z.key, z.value, Made(t.key, t.value, t.left, z.left), z.right)
  BY <1>1, RotatedLeft
<1> QED BY <1>2, <1>3 DEF u, w

(***************************************************************************)
(* A node whose left side is two higher: one rotation, or two if the child *)
(* leans inwards.  Unless the child was even, the whole gets one lower.    *)
(***************************************************************************)
LEMMA LeftTooHigh ==
  ASSUME NEW t, IsNode(t), t.key \in TreeKeys, NEW A, NEW B, Holds(t.left, A), Holds(t.right, B),
         \A p \in A : p.key < t.key, \A p \in B : t.key < p.key,
         Leaning(t) = 2, NEW q,
         q = IF Leaning(t.left) < 0
             THEN Tree!RotateRight([Made(t.key, t.value, t.left, t.right) EXCEPT !.left = Tree!RotateLeft(t.left)])
             ELSE Tree!RotateRight(Made(t.key, t.value, t.left, t.right))
  PROVE  /\ Holds(q, A \cup {Entry(t)} \cup B)
         /\ Tree!NodeHeight(t.left) \in Nat /\ Tree!NodeHeight(t.right) \in Nat
         /\ Tree!NodeHeight(q) = Tree!Higher(Tree!NodeHeight(t.left), Tree!NodeHeight(t.right))
                                   + (IF Leaning(t.left) = 0 THEN 1 ELSE 0)
<1> DEFINE x == t.left
           r == t.right
           n == Made(t.key, t.value, t.left, t.right)
           hr == Tree!NodeHeight(r)
           hx == Tree!NodeHeight(x)
           hl == Tree!NodeHeight(x.left)
           hm == Tree!NodeHeight(x.right)
<1>1. Sized(x, A) /\ Sized(r, B)
  BY HoldsSized
<1>2. hr \in Nat /\ hx \in Nat /\ hx = hr + 2
  BY <1>1 DEF Sized, Leaning
<1>3. x # Tree!NoNode
  BY <1>2 DEF Tree!NodeHeight
<1>4. IsNode(x) /\ Weighed(x)
  BY <1>3, HoldsBelow
<1>5. PICK A1, A2 : Holds(x.left, A1) /\ Holds(x.right, A2) /\ Parted(x, A1, A2, A)
  BY <1>3, HoldsBelow
<1>6. Sized(x.left, A1) /\ Sized(x.right, A2)
  BY <1>5, HoldsSized
<1>7. hl \in Nat /\ hm \in Nat /\ hx = Tree!Higher(hl, hm) + 1 /\ hl - hm \in -1 .. 1
  BY <1>3, <1>4, <1>6 DEF Sized, Weighed, Leaning, Tree!NodeHeight
<1>8. /\ IsNode(n) /\ n.left = t.left /\ n.right = t.right /\ n.key = t.key /\ n.value = t.value
  BY MadeIs
<1>9. Tree!Higher(Tree!NodeHeight(t.left), Tree!NodeHeight(t.right)) = hx
  BY <1>2 DEF Tree!Higher
<1>10. /\ x.key \in TreeKeys /\ \A k \in TreeKeys : k \in Int
       /\ A = A1 \cup {Entry(x)} \cup A2
       /\ \A p \in A1 : p.key < x.key /\ p.key \in TreeKeys
       /\ \A p \in A2 : x.key < p.key /\ p.key \in TreeKeys
       /\ \A p \in B : p.key \in TreeKeys
  BY <1>1, <1>5, <1>6, KeysAssumption DEF Parted, TreeKeys, Sized
<1>11. x.key < t.key /\ \A p \in A1 \cup A2 : p.key < t.key
  <2>1. Entry(x) \in A /\ Entry(x).key = x.key
    BY <1>10 DEF Entry
  <2> QED BY <1>10, <2>1
<1>12. CASE ~ Leaning(t.left) < 0
  <2> DEFINE low == Made(t.key, t.value, x.right, r)
             hlow == Tree!NodeHeight(low)
  <2>1. q = Made(x.key, x.value, x.left, low)
    BY <1>4, <1>8, <1>12, RotatedRight
  <2>2. ~ (hl - hm < 0) /\ Leaning(x) = hl - hm
    BY <1>12 DEF Leaning
  <2>3. hl = hr + 1 /\ (hm = hr + 1 \/ hm = hr)
    BY <1>2, <1>7, <2>2 DEF Tree!Higher
  <2>4. hlow = Tree!Higher(hm, hr) + 1
    BY MadeIs
  <2>5. hlow = hm + 1
    BY <1>2, <1>7, <2>3, <2>4 DEF Tree!Higher
  <2>6. Holds(low, A2 \cup {Entry(t)} \cup B)
    <3>1. hm - hr \in -1 .. 1
      BY <1>2, <1>7, <2>3
    <3>2. \A p \in A2 : p.key < t.key
      BY <1>10, <1>11
    <3> QED BY <1>5, <3>1, <3>2, HoldsMade DEF Entry
  <2>7. Holds(q, A1 \cup {Entry(x)} \cup (A2 \cup {Entry(t)} \cup B))
    <3>1. hl - hlow \in -1 .. 1
      BY <1>2, <1>7, <2>3, <2>5
    <3>2. \A p \in A2 \cup {Entry(t)} \cup B : x.key < p.key
      <4>1. Entry(t).key = t.key
        BY DEF Entry
      <4>2. t.key \in Int /\ x.key \in Int /\ \A p \in B : p.key \in Int
        BY <1>10
      <4> QED BY <1>10, <1>11, <4>1, <4>2
    <3> HIDE DEF low
    <3> QED BY <1>5, <1>10, <2>1, <2>6, <3>1, <3>2, HoldsMade DEF Entry
  <2>8. A1 \cup {Entry(x)} \cup (A2 \cup {Entry(t)} \cup B) = A \cup {Entry(t)} \cup B
    BY <1>10
  <2>9. Tree!NodeHeight(q) = Tree!Higher(hl, hlow) + 1
    BY <2>1, MadeIs
  <2>10. Tree!NodeHeight(q) = hx + (IF Leaning(x) = 0 THEN 1 ELSE 0)
    <3> HIDE DEF hlow, hl, hm, hr, hx
    <3> QED BY <1>2, <1>7, <2>2, <2>3, <2>5, <2>9 DEF Tree!Higher
  <2> QED BY <1>2, <1>9, <2>7, <2>8, <2>10
<1>13. CASE Leaning(t.left) < 0
  <2> DEFINE y == x.right
             c == y.left
             d == y.right
             hc == Tree!NodeHeight(c)
             hd == Tree!NodeHeight(d)
             one == Made(x.key, x.value, x.left, c)
             two == Made(t.key, t.value, d, r)
             z == Made(y.key, y.value, one, d)
  <2>1. hl - hm < 0 /\ Leaning(x) = hl - hm
    BY <1>13 DEF Leaning
  <2>2. hm = hr + 1 /\ hl = hr
    BY <1>2, <1>7, <2>1 DEF Tree!Higher
  <2>3. y # Tree!NoNode
    BY <1>2, <2>2 DEF Tree!NodeHeight
  <2>4. IsNode(y) /\ Weighed(y)
    BY <1>5, <2>3, HoldsBelow
  <2>5. PICK C1, C2 : Holds(y.left, C1) /\ Holds(y.right, C2) /\ Parted(y, C1, C2, A2)
    BY <1>5, <2>3, HoldsBelow
  <2>6. Sized(y.left, C1) /\ Sized(y.right, C2)
    BY <2>5, HoldsSized
  <2>7. hc \in Nat /\ hd \in Nat /\ hm = Tree!Higher(hc, hd) + 1 /\ hc - hd \in -1 .. 1
    BY <2>3, <2>4, <2>6 DEF Sized, Weighed, Leaning, Tree!NodeHeight
  <2>8. (hc = hr /\ hd = hr) \/ (hc = hr /\ hd = hr - 1) \/ (hc = hr - 1 /\ hd = hr)
    <3> HIDE DEF hc, hd, hm, hr
    <3> QED BY <1>2, <2>2, <2>7 DEF Tree!Higher
  <2>9. /\ y.key \in TreeKeys /\ A2 = C1 \cup {Entry(y)} \cup C2
        /\ \A p \in C1 : p.key < y.key /\ p.key \in TreeKeys
        /\ \A p \in C2 : y.key < p.key /\ p.key \in TreeKeys
    BY <2>5, <2>6 DEF Parted, Sized
  <2>10. /\ x.key < y.key /\ y.key < t.key
         /\ \A p \in C1 \cup C2 : x.key < p.key /\ p.key < t.key
    <3>1. Entry(y) \in A2 /\ Entry(y).key = y.key
      BY <2>9 DEF Entry
    <3> QED BY <1>10, <1>11, <2>9, <3>1
  <2>11. Tree!RotateLeft(x) = z
    BY <1>4, <2>4, RotatedLeft
  <2>12. q = Made(y.key, y.value, one, two)
    <3>1. IsNode(z) /\ z.left = one /\ z.right = d /\ z.key = y.key /\ z.value = y.value
      BY MadeIs
    <3> HIDE DEF n, z, one
    <3>2. q = Tree!RotateRight([n EXCEPT !.left = z])
      BY <1>13, <2>11 DEF n
    <3>3. Tree!RotateRight([n EXCEPT !.left = z]) = Made(z.key, z.value, z.left, Made(n.key, n.value, z.right, n.right))
      BY <1>8, <3>1, RotatedTwice
    <3> QED BY <1>8, <3>1, <3>2, <3>3
  <2>13. Holds(one, A1 \cup {Entry(x)} \cup C1) /\ Tree!NodeHeight(one) = hr + 1
    <3>1. hl - hc \in -1 .. 1
      BY <1>2, <2>2, <2>8
    <3>2. \A p \in C1 : x.key < p.key
      BY <1>10, <2>10
    <3>3. Holds(one, A1 \cup {Entry(x)} \cup C1)
      BY <1>5, <1>10, <2>5, <3>1, <3>2, HoldsMade DEF Entry
    <3>4. Tree!NodeHeight(one) = Tree!Higher(hl, hc) + 1
      BY MadeIs
    <3>5. Tree!NodeHeight(one) = hr + 1
      <4> HIDE DEF hl, hc, hd, hr, one
      <4> QED BY <1>2, <2>2, <2>8, <3>4 DEF Tree!Higher
    <3> QED BY <3>3, <3>5
  <2>14. Holds(two, C2 \cup {Entry(t)} \cup B) /\ Tree!NodeHeight(two) = hr + 1
    <3>1. hd - hr \in -1 .. 1
      BY <1>2, <2>8
    <3>2. \A p \in C2 : p.key < t.key
      BY <2>10
    <3>3. Holds(two, C2 \cup {Entry(t)} \cup B)
      BY <2>5, <3>1, <3>2, HoldsMade DEF Entry
    <3>4. Tree!NodeHeight(two) = Tree!Higher(hd, hr) + 1
      BY MadeIs
    <3>5. Tree!NodeHeight(two) = hr + 1
      <4> HIDE DEF hl, hc, hd, hr, two
      <4> QED BY <1>2, <2>8, <3>4 DEF Tree!Higher
    <3> QED BY <3>3, <3>5
  <2>15. (\A p \in A1 \cup {Entry(x)} \cup C1 : p.key < y.key) /\ (\A p \in C2 \cup {Entry(t)} \cup B : y.key < p.key)
    <3>1. Entry(x).key = x.key /\ Entry(t).key = t.key
      BY DEF Entry
    <3>2. t.key \in Int /\ x.key \in Int /\ y.key \in Int
      BY <1>10, <2>9
    <3>3. \A p \in A1 \cup A2 \cup C1 \cup C2 \cup B : p.key \in Int
      BY <1>10, <2>9
    <3> QED BY <1>10, <2>9, <2>10, <3>1, <3>2, <3>3
  <2>16. Holds(q, (A1 \cup {Entry(x)} \cup C1) \cup {Entry(y)} \cup (C2 \cup {Entry(t)} \cup B))
    <3>1. Tree!NodeHeight(two) - Tree!NodeHeight(one) \in -1 .. 1 /\ Tree!NodeHeight(one) - Tree!NodeHeight(two) \in -1 .. 1
      BY <1>2, <2>13, <2>14
    <3> HIDE DEF one, two
    <3> QED BY <2>9, <2>12, <2>13, <2>14, <2>15, <3>1, HoldsMade DEF Entry
  <2>17. (A1 \cup {Entry(x)} \cup C1) \cup {Entry(y)} \cup (C2 \cup {Entry(t)} \cup B) = A \cup {Entry(t)} \cup B
    BY <1>10, <2>9
  <2>18. Tree!NodeHeight(q) = hx
    <3>1. Tree!NodeHeight(q) = Tree!Higher(Tree!NodeHeight(one), Tree!NodeHeight(two)) + 1
      BY <2>12, MadeIs
    <3> HIDE DEF one, two, hr, hx
    <3> QED BY <1>2, <2>13, <2>14, <3>1 DEF Tree!Higher
  <2>19. Leaning(x) # 0
    BY <1>7, <2>1, <2>2
  <2>20. Holds(q, A \cup {Entry(t)} \cup B)
    BY <2>16, <2>17
  <2>21. Tree!NodeHeight(q) = hx + (IF Leaning(t.left) = 0 THEN 1 ELSE 0)
    <3> HIDE DEF hx, hr
    <3> QED BY <1>2, <2>18, <2>19 DEF x
  <2> QED BY ONLY <1>2, <1>9, <2>20, <2>21 
<1> QED BY <1>12, <1>13

(***************************************************************************)
(* A node whose right side is two higher: one rotation, or two if the child *)
(* leans inwards.  Unless the child was even, the whole gets one lower.    *)
(***************************************************************************)
LEMMA RightTooHigh ==
  ASSUME NEW t, IsNode(t), t.key \in TreeKeys, NEW A, NEW B, Holds(t.left, A), Holds(t.right, B),
         \A p \in A : p.key < t.key, \A p \in B : t.key < p.key,
         Leaning(t) = -2, NEW q,
         q = IF Leaning(t.right) > 0
             THEN Tree!RotateLeft([Made(t.key, t.value, t.left, t.right) EXCEPT !.right = Tree!RotateRight(t.right)])
             ELSE Tree!RotateLeft(Made(t.key, t.value, t.left, t.right))
  PROVE  /\ Holds(q, A \cup {Entry(t)} \cup B)
         /\ Tree!NodeHeight(t.left) \in Nat /\ Tree!NodeHeight(t.right) \in Nat
         /\ Tree!NodeHeight(q) = Tree!Higher(Tree!NodeHeight(t.left), Tree!NodeHeight(t.right))
                                   + (IF Leaning(t.right) = 0 THEN 1 ELSE 0)
<1> DEFINE x == t.right
           r == t.left
           n == Made(t.key, t.value, t.left, t.right)
           hr == Tree!NodeHeight(r)
           hx == Tree!NodeHeight(x)
           hl == Tree!NodeHeight(x.right)
           hm == Tree!NodeHeight(x.left)
<1>1. Sized(x, B) /\ Sized(r, A)
  BY HoldsSized
<1>2. hr \in Nat /\ hx \in Nat /\ hx = hr + 2
  BY <1>1 DEF Sized, Leaning
<1>3. x # Tree!NoNode
  BY <1>2 DEF Tree!NodeHeight
<1>4. IsNode(x) /\ Weighed(x)
  BY <1>3, HoldsBelow
<1>5. PICK A1, A2 : Holds(x.left, A1) /\ Holds(x.right, A2) /\ Parted(x, A1, A2, B)
  BY <1>3, HoldsBelow
<1>6. Sized(x.right, A2) /\ Sized(x.left, A1)
  BY <1>5, HoldsSized
<1>7. hl \in Nat /\ hm \in Nat /\ hx = Tree!Higher(hm, hl) + 1 /\ hm - hl \in -1 .. 1
  BY <1>3, <1>4, <1>6 DEF Sized, Weighed, Leaning, Tree!NodeHeight
<1>8. /\ IsNode(n) /\ n.left = t.left /\ n.right = t.right /\ n.key = t.key /\ n.value = t.value
  BY MadeIs
<1>9. Tree!Higher(Tree!NodeHeight(t.left), Tree!NodeHeight(t.right)) = hx
  BY <1>2 DEF Tree!Higher
<1>10. /\ x.key \in TreeKeys /\ \A k \in TreeKeys : k \in Int
       /\ B = A1 \cup {Entry(x)} \cup A2
       /\ \A p \in A1 : p.key < x.key /\ p.key \in TreeKeys
       /\ \A p \in A2 : x.key < p.key /\ p.key \in TreeKeys
       /\ \A p \in A : p.key \in TreeKeys
  BY <1>1, <1>5, <1>6, KeysAssumption DEF Parted, TreeKeys, Sized
<1>11. t.key < x.key /\ \A p \in A1 \cup A2 : t.key < p.key
  <2>1. Entry(x) \in B /\ Entry(x).key = x.key
    BY <1>10 DEF Entry
  <2> QED BY <1>10, <2>1
<1>12. CASE ~ Leaning(t.right) > 0
  <2> DEFINE low == Made(t.key, t.value, r, x.left)
             hlow == Tree!NodeHeight(low)
  <2>1. q = Made(x.key, x.value, low, x.right)
    BY <1>4, <1>8, <1>12, RotatedLeft
  <2>2. ~ (hm - hl > 0) /\ Leaning(x) = hm - hl
    BY <1>12 DEF Leaning
  <2>3. hl = hr + 1 /\ (hm = hr + 1 \/ hm = hr)
    BY <1>2, <1>7, <2>2 DEF Tree!Higher
  <2>4. hlow = Tree!Higher(hr, hm) + 1
    BY MadeIs
  <2>5. hlow = hm + 1
    BY <1>2, <1>7, <2>3, <2>4 DEF Tree!Higher
  <2>6. Holds(low, A \cup {Entry(t)} \cup A1)
    <3>1. hr - hm \in -1 .. 1
      BY <1>2, <1>7, <2>3
    <3>2. \A p \in A1 : t.key < p.key
      BY <1>10, <1>11
    <3> QED BY <1>5, <3>1, <3>2, HoldsMade DEF Entry
  <2>7. Holds(q, (A \cup {Entry(t)} \cup A1) \cup {Entry(x)} \cup A2)
    <3>1. hlow - hl \in -1 .. 1
      BY <1>2, <1>7, <2>3, <2>5
    <3>2. \A p \in A \cup {Entry(t)} \cup A1 : p.key < x.key
      <4>1. Entry(t).key = t.key
        BY DEF Entry
      <4>2. t.key \in Int /\ x.key \in Int /\ \A p \in A : p.key \in Int
        BY <1>10
      <4> QED BY <1>10, <1>11, <4>1, <4>2
    <3> HIDE DEF low
    <3> QED BY <1>5, <1>10, <2>1, <2>6, <3>1, <3>2, HoldsMade DEF Entry
  <2>8. (A \cup {Entry(t)} \cup A1) \cup {Entry(x)} \cup A2 = A \cup {Entry(t)} \cup B
    BY <1>10
  <2>9. Tree!NodeHeight(q) = Tree!Higher(hlow, hl) + 1
    BY <2>1, MadeIs
  <2>10. Tree!NodeHeight(q) = hx + (IF Leaning(x) = 0 THEN 1 ELSE 0)
    <3> HIDE DEF hlow, hl, hm, hr, hx
    <3> QED BY <1>2, <1>7, <2>2, <2>3, <2>5, <2>9 DEF Tree!Higher
  <2> QED BY <1>2, <1>9, <2>7, <2>8, <2>10
<1>13. CASE Leaning(t.right) > 0
  <2> DEFINE y == x.left
             c == y.right
             d == y.left
             hc == Tree!NodeHeight(c)
             hd == Tree!NodeHeight(d)
             one == Made(x.key, x.value, c, x.right)
             two == Made(t.key, t.value, r, d)
             z == Made(y.key, y.value, d, one)
  <2>1. hm - hl > 0 /\ Leaning(x) = hm - hl
    BY <1>13 DEF Leaning
  <2>2. hm = hr + 1 /\ hl = hr
    BY <1>2, <1>7, <2>1 DEF Tree!Higher
  <2>3. y # Tree!NoNode
    BY <1>2, <2>2 DEF Tree!NodeHeight
  <2>4. IsNode(y) /\ Weighed(y)
    BY <1>5, <2>3, HoldsBelow
  <2>5. PICK C1, C2 : Holds(y.left, C1) /\ Holds(y.right, C2) /\ Parted(y, C1, C2, A1)
    BY <1>5, <2>3, HoldsBelow
  <2>6. Sized(y.left, C1) /\ Sized(y.right, C2)
    BY <2>5, HoldsSized
  <2>7. hc \in Nat /\ hd \in Nat /\ hm = Tree!Higher(hd, hc) + 1 /\ hc - hd \in -1 .. 1
    BY <2>3, <2>4, <2>6 DEF Sized, Weighed, Leaning, Tree!NodeHeight
  <2>8. (hc = hr /\ hd = hr) \/ (hc = hr /\ hd = hr - 1) \/ (hc = hr - 1 /\ hd = hr)
    <3> HIDE DEF hc, hd, hm, hr
    <3> QED BY <1>2, <2>2, <2>7 DEF Tree!Higher
  <2>9. /\ y.key \in TreeKeys /\ A1 = C1 \cup {Entry(y)} \cup C2
        /\ \A p \in C1 : p.key < y.key /\ p.key \in TreeKeys
        /\ \A p \in C2 : y.key < p.key /\ p.key \in TreeKeys
    BY <2>5, <2>6 DEF Parted, Sized
  <2>10. /\ y.key < x.key /\ t.key < y.key
         /\ \A p \in C1 \cup C2 : p.key < x.key /\ t.key < p.key
    <3>1. Entry(y) \in A1 /\ Entry(y).key = y.key
      BY <2>9 DEF Entry
    <3> QED BY <1>10, <1>11, <2>9, <3>1
  <2>11. Tree!RotateRight(x) = z
    BY <1>4, <2>4, RotatedRight
  <2>12. q = Made(y.key, y.value, two, one)
    <3>1. IsNode(z) /\ z.left = d /\ z.right = one /\ z.key = y.key /\ z.value = y.value
      BY MadeIs
    <3> HIDE DEF n, z, one
    <3>2. q = Tree!RotateLeft([n EXCEPT !.right = z])
      BY <1>13, <2>11 DEF n
    <3>3. Tree!RotateLeft([n EXCEPT !.right = z]) = Made(z.key, z.value, Made(n.key, n.value, n.left, z.left), z.right)
      BY <1>8, <3>1, RotatedTwice
    <3> QED BY <1>8, <3>1, <3>2, <3>3
  <2>13. Holds(one, C2 \cup {Entry(x)} \cup A2) /\ Tree!NodeHeight(one) = hr + 1
    <3>1. hc - hl \in -1 .. 1
      BY <1>2, <2>2, <2>8
    <3>2. \A p \in C2 : p.key < x.key
      BY <1>10, <2>10
    <3>3. Holds(one, C2 \cup {Entry(x)} \cup A2)
      BY <1>5, <1>10, <2>5, <3>1, <3>2, HoldsMade DEF Entry
    <3>4. Tree!NodeHeight(one) = Tree!Higher(hc, hl) + 1
      BY MadeIs
    <3>5. Tree!NodeHeight(one) = hr + 1
      <4> HIDE DEF hl, hc, hd, hr, one
      <4> QED BY <1>2, <2>2, <2>8, <3>4 DEF Tree!Higher
    <3> QED BY <3>3, <3>5
  <2>14. Holds(two, A \cup {Entry(t)} \cup C1) /\ Tree!NodeHeight(two) = hr + 1
    <3>1. hr - hd \in -1 .. 1
      BY <1>2, <2>8
    <3>2. \A p \in C1 : t.key < p.key
      BY <2>10
    <3>3. Holds(two, A \cup {Entry(t)} \cup C1)
      BY <2>5, <3>1, <3>2, HoldsMade DEF Entry
    <3>4. Tree!NodeHeight(two) = Tree!Higher(hr, hd) + 1
      BY MadeIs
    <3>5. Tree!NodeHeight(two) = hr + 1
      <4> HIDE DEF hl, hc, hd, hr, two
      <4> QED BY <1>2, <2>8, <3>4 DEF Tree!Higher
    <3> QED BY <3>3, <3>5
  <2>15. (\A p \in C2 \cup {Entry(x)} \cup A2 : y.key < p.key) /\ (\A p \in A \cup {Entry(t)} \cup C1 : p.key < y.key)
    <3>1. Entry(x).key = x.key /\ Entry(t).key = t.key
      BY DEF Entry
    <3>2. t.key \in Int /\ x.key \in Int /\ y.key \in Int
      BY <1>10, <2>9
    <3>3. \A p \in A1 \cup A2 \cup C1 \cup C2 \cup A : p.key \in Int
      BY <1>10, <2>9
    <3> QED BY <1>10, <2>9, <2>10, <3>1, <3>2, <3>3
  <2>16. Holds(q, (A \cup {Entry(t)} \cup C1) \cup {Entry(y)} \cup (C2 \cup {Entry(x)} \cup A2))
    <3>1. Tree!NodeHeight(two) - Tree!NodeHeight(one) \in -1 .. 1 /\ Tree!NodeHeight(one) - Tree!NodeHeight(two) \in -1 .. 1
      BY <1>2, <2>13, <2>14
    <3> HIDE DEF one, two
    <3> QED BY <2>9, <2>12, <2>13, <2>14, <2>15, <3>1, HoldsMade DEF Entry
  <2>17. (A \cup {Entry(t)} \cup C1) \cup {Entry(y)} \cup (C2 \cup {Entry(x)} \cup A2) = A \cup {Entry(t)} \cup B
    BY <1>10, <2>9
  <2>18. Tree!NodeHeight(q) = hx
    <3>1. Tree!NodeHeight(q) = Tree!Higher(Tree!NodeHeight(two), Tree!NodeHeight(one)) + 1
      BY <2>12, MadeIs
    <3> HIDE DEF one, two, hr, hx
    <3> QED BY <1>2, <2>13, <2>14, <3>1 DEF Tree!Higher
  <2>19. Leaning(x) # 0
    BY <1>7, <2>1, <2>2
  <2>20. Holds(q, A \cup {Entry(t)} \cup B)
    BY <2>16, <2>17
  <2>21. Tree!NodeHeight(q) = hx + (IF Leaning(t.right) = 0 THEN 1 ELSE 0)
    <3> HIDE DEF hx, hr
    <3> QED BY <1>2, <2>18, <2>19 DEF x
  <2> QED BY ONLY <1>2, <1>9, <2>20, <2>21 
<1> QED BY <1>12, <1>13
LEMMA NodeIsMade ==
  ASSUME NEW t, IsNode(t), Weighed(t), NEW v
  PROVE  /\ t = Made(t.key, t.value, t.left, t.right)
         /\ [t EXCEPT !.value = v] = Made(t.key, v, t.left, t.right)
BY DEF IsNode, Weighed, Made

(***************************************************************************)
(* Rebalance of a node with AVL trees below it, told which way a child     *)
(* that is too high leans.                                                 *)
(***************************************************************************)
LEMMA Rebalanced ==
  ASSUME NEW t, IsNode(t), t.key \in TreeKeys, NEW A, NEW B, Holds(t.left, A), Holds(t.right, B),
         \A p \in A : p.key < t.key, \A p \in B : t.key < p.key,
         Leaning(t) \in -2 .. 2, NEW in, NEW out,
         Leaning(t) = 2 => (in <=> Leaning(t.left) < 0),
         Leaning(t) = -2 => (out <=> Leaning(t.right) > 0),
         NEW q, q = Tree!Rebalance(t, in, out)
  PROVE  /\ Holds(q, A \cup {Entry(t)} \cup B)
         /\ Leaning(t) \in -1 .. 1 => q = Made(t.key, t.value, t.left, t.right)
         /\ Leaning(t) = 2 =>
              Tree!NodeHeight(q) = Tree!NodeHeight(t.left) + (IF Leaning(t.left) = 0 THEN 1 ELSE 0)
         /\ Leaning(t) = -2 =>
              Tree!NodeHeight(q) = Tree!NodeHeight(t.right) + (IF Leaning(t.right) = 0 THEN 1 ELSE 0)
<1> DEFINE n == Made(t.key, t.value, t.left, t.right)
<1>1. n.left = t.left /\ n.right = t.right
  BY MadeIs
<1>2. Tree!WithHeight(t) = n
  BY WithHeightIs
<1>3. Tree!Balance(n) = Leaning(t)
  BY <1>1 DEF Tree!Balance, Leaning
<1>4. Tree!NodeHeight(t.left) \in Nat /\ Tree!NodeHeight(t.right) \in Nat
  BY HoldsSized DEF Sized
<1> HIDE DEF n
<1>5. q = IF Leaning(t) > 1 THEN
            Tree!RotateRight(IF in THEN [n EXCEPT !.left = Tree!RotateLeft(t.left)] ELSE n)
          ELSE IF Leaning(t) < -1 THEN
            Tree!RotateLeft(IF out THEN [n EXCEPT !.right = Tree!RotateRight(t.right)] ELSE n)
          ELSE n
  BY <1>1, <1>2, <1>3 DEF Tree!Rebalance
<1>6. CASE Leaning(t) = 2
  <2>1. q = IF Leaning(t.left) < 0
            THEN Tree!RotateRight([n EXCEPT !.left = Tree!RotateLeft(t.left)])
            ELSE Tree!RotateRight(n)
    BY <1>5, <1>6
  <2>2. /\ Holds(q, A \cup {Entry(t)} \cup B)
        /\ Tree!NodeHeight(q) = Tree!Higher(Tree!NodeHeight(t.left), Tree!NodeHeight(t.right))
                                   + (IF Leaning(t.left) = 0 THEN 1 ELSE 0)
    BY <1>6, <2>1, LeftTooHigh DEF n
  <2>3. Tree!Higher(Tree!NodeHeight(t.left), Tree!NodeHeight(t.right)) = Tree!NodeHeight(t.left)
    BY <1>4, <1>6 DEF Leaning, Tree!Higher
  <2> QED BY <1>6, <2>2, <2>3
<1>7. CASE Leaning(t) = -2
  <2>1. q = IF Leaning(t.right) > 0
            THEN Tree!RotateLeft([n EXCEPT !.right = Tree!RotateRight(t.right)])
            ELSE Tree!RotateLeft(n)
    BY <1>5, <1>7
  <2>2. /\ Holds(q, A \cup {Entry(t)} \cup B)
        /\ Tree!NodeHeight(q) = Tree!Higher(Tree!NodeHeight(t.left), Tree!NodeHeight(t.right))
                                   + (IF Leaning(t.right) = 0 THEN 1 ELSE 0)
    BY <1>7, <2>1, RightTooHigh DEF n
  <2>3. Tree!Higher(Tree!NodeHeight(t.left), Tree!NodeHeight(t.right)) = Tree!NodeHeight(t.right)
    BY <1>4, <1>7 DEF Leaning, Tree!Higher
  <2> QED BY <1>7, <2>2, <2>3
<1>8. CASE Leaning(t) \in -1 .. 1
  <2>1. q = n
    BY <1>5, <1>8
  <2>2. Holds(n, A \cup {Entry(t)} \cup B)
    BY <1>8, HoldsMade DEF n, Entry, Leaning
  <2> QED BY <1>8, <2>1, <2>2 DEF n
<1> QED BY <1>6, <1>7, <1>8

-----------------------------------------------------------------------------
(***************************************************************************)
(* Where the recursive functions descend.                                  *)
(***************************************************************************)
\* The trees at a distance of at most n, for every n up to size.
Within(t, w) ==
  w = [n \in 0 .. size |->
        IF n = 0 THEN {t} ELSE UNION {Tree!WithChildren(x) : x \in w[n - 1]}]

LEMMA WithinIs ==
  ASSUME size \in Nat, NEW t
  PROVE  \E w : Within(t, w) /\ Tree!Subtrees(t) = w[size]
<1> DEFINE Level(w, n) == IF n = 0 THEN {t} ELSE UNION {Tree!WithChildren(x) : x \in w[n - 1]}
           Upto(m) == \E w : \A n \in 0 .. m : w[n] = Level(w, n)
           T == {m \in 0 .. size : ~ Upto(m)}
<1> HIDE DEF Upto
<1>1. T = {}
  <2>1. SUFFICES ASSUME T # {} PROVE FALSE
    OBVIOUS
  <2>2. PICK m \in T : \A y \in T : m <= y
    <3>1. T \in SUBSET Nat
      OBVIOUS
    <3> HIDE DEF T
    <3> QED BY <2>1, <3>1, LeastMember
  <2>3. m \in 0 .. size /\ ~ Upto(m)
    BY <2>2
  <2>4. PICK w : \A n \in 0 .. m - 1 : w[n] = Level(w, n)
    <3> USE DEF Upto
    <3>1. CASE m = 0
      BY <3>1
    <3>2. CASE m # 0
      <4>1. m - 1 \in 0 .. size /\ ~ m <= m - 1
        BY <2>3, <3>2
      <4>2. Upto(m - 1)
        <5> HIDE DEF Upto
        <5> QED BY <2>2, <4>1
      <4> QED BY <4>2
    <3> QED BY <3>1, <3>2
  <2> DEFINE u == [n \in 0 .. size |-> Level(w, n)]
  <2>5. ASSUME NEW n \in 0 .. m
        PROVE  u[n] = Level(u, n)
    <3>1. u[n] = Level(w, n)
      BY <2>3
    <3>2. CASE n = 0
      BY <3>1, <3>2
    <3>3. CASE n # 0
      <4>1. n - 1 \in 0 .. m - 1 /\ n - 1 \in 0 .. size
        BY <2>3, <3>3
      <4>2. u[n - 1] = w[n - 1]
        BY <2>4, <4>1
      <4> HIDE DEF u
      <4> QED BY <3>1, <4>2
    <3> QED BY <3>2, <3>3
  <2> HIDE DEF u
  <2>6. Upto(m)
    BY <2>5 DEF Upto
  <2> QED BY <2>3, <2>6
<1>2. PICK v : \A n \in 0 .. size : v[n] = Level(v, n)
  <2>1. Upto(size)
    BY <1>1
  <2> QED BY <2>1 DEF Upto
<1> DEFINE u == [n \in 0 .. size |-> Level(v, n)]
<1>3. \A n \in 0 .. size : u[n] = v[n]
  BY <1>2
<1>4. u = [n \in 0 .. size |-> Level(u, n)]
  <2>1. ASSUME NEW n \in 0 .. size
        PROVE  Level(u, n) = Level(v, n)
    <3>1. CASE n = 0
      BY <3>1
    <3>2. CASE n # 0
      <4>1. u[n - 1] = v[n - 1]
        <5>1. n - 1 \in 0 .. size
          BY <3>2
        <5> HIDE DEF u
        <5> QED BY <1>3, <5>1
      <4> HIDE DEF u
      <4> QED BY <4>1
    <3> QED BY <3>1, <3>2
  <2> QED BY <2>1
<1> HIDE DEF u
<1> DEFINE f == CHOOSE w : w = [n \in 0 .. size |-> Level(w, n)]
<1>5. f = [n \in 0 .. size |-> Level(f, n)]
  BY <1>4
<1>6. Tree!Subtrees(t) = f[size]
  BY DEF Tree!Subtrees
<1> HIDE DEF f
<1>7. Within(t, f)
  BY <1>5 DEF Within
<1> QED BY <1>6, <1>7

LEMMA LowerBelow ==
  ASSUME NEW t, NEW P, Holds(t, P), t # Tree!NoNode
  PROVE  /\ Tree!NodeHeight(t) \in Nat
         /\ Tree!NodeHeight(t.left) \in Nat /\ Tree!NodeHeight(t.left) < Tree!NodeHeight(t)
         /\ Tree!NodeHeight(t.right) \in Nat /\ Tree!NodeHeight(t.right) < Tree!NodeHeight(t)
         /\ Entry(t) \in P /\ t.key \in TreeKeys
         /\ \E A \in SUBSET P : Holds(t.left, A)
         /\ \E B \in SUBSET P : Holds(t.right, B)
<1>1. IsNode(t) /\ Weighed(t)
  BY HoldsBelow
<1>2. PICK A, B : Holds(t.left, A) /\ Holds(t.right, B) /\ Parted(t, A, B, P)
  BY HoldsBelow
<1>3. Tree!NodeHeight(t.left) \in Nat /\ Tree!NodeHeight(t.right) \in Nat
  BY <1>2, HoldsSized DEF Sized
<1>4. Tree!NodeHeight(t) = Tree!Higher(Tree!NodeHeight(t.left), Tree!NodeHeight(t.right)) + 1
  BY <1>1 DEF Weighed, Tree!NodeHeight
<1>5. /\ Tree!NodeHeight(t) \in Nat /\ Tree!NodeHeight(t.left) < Tree!NodeHeight(t)
      /\ Tree!NodeHeight(t.right) < Tree!NodeHeight(t)
  BY <1>3, <1>4 DEF Tree!Higher
<1> QED BY <1>2, <1>3, <1>5 DEF Parted

\* The trees below t, t among them, each an AVL tree with some of its entries.
Below(t, P, s) == Tree!NodeHeight(s) <= Tree!NodeHeight(t) /\ \E Q \in SUBSET P : Holds(s, Q)

LEMMA BelowBelow ==
  ASSUME NEW t, NEW P, Holds(t, P), NEW s, Below(t, P, s), s # Tree!NoNode
  PROVE  Below(t, P, s.left) /\ Below(t, P, s.right)
<1>1. PICK Q \in SUBSET P : Holds(s, Q)
  BY DEF Below
<1>2. /\ Tree!NodeHeight(s) \in Nat
      /\ Tree!NodeHeight(s.left) \in Nat /\ Tree!NodeHeight(s.left) < Tree!NodeHeight(s)
      /\ Tree!NodeHeight(s.right) \in Nat /\ Tree!NodeHeight(s.right) < Tree!NodeHeight(s)
      /\ \E A \in SUBSET Q : Holds(s.left, A)
      /\ \E B \in SUBSET Q : Holds(s.right, B)
  BY <1>1, LowerBelow
<1>3. Tree!NodeHeight(t) \in Nat
  BY HoldsSized DEF Sized
<1>4. Tree!NodeHeight(s.left) <= Tree!NodeHeight(t) /\ Tree!NodeHeight(s.right) <= Tree!NodeHeight(t)
  BY <1>2, <1>3 DEF Below
<1> QED BY <1>1, <1>2, <1>4 DEF Below

LEMMA SubtreesAre ==
  ASSUME size \in Nat, NEW t, NEW P, Holds(t, P), Tree!NodeHeight(t) <= size
  PROVE  /\ t \in Tree!Subtrees(t)
         /\ \A s \in Tree!Subtrees(t) : Below(t, P, s)
         /\ \A s \in Tree!Subtrees(t) :
              s # Tree!NoNode => s.left \in Tree!Subtrees(t) /\ s.right \in Tree!Subtrees(t)
<1> DEFINE h(s) == Tree!NodeHeight(s)
           Kept(W, s) == s # Tree!NoNode => s.left \in W /\ s.right \in W
<1>1. PICK w : Within(t, w) /\ Tree!Subtrees(t) = w[size]
  BY WithinIs
<1>2. w[0] = {t} /\ \A n \in 1 .. size : w[n] = UNION {Tree!WithChildren(x) : x \in w[n - 1]}
  BY <1>1 DEF Within
<1> DEFINE Good(n) == /\ t \in w[n]
                      /\ \A s \in w[n] : Below(t, P, s)
                      /\ \A s \in w[n] : Kept(w[n], s) \/ h(s) <= h(t) - n
<1>3. h(t) \in Nat /\ \A s : Below(t, P, s) => h(s) \in Nat /\ (s # Tree!NoNode => h(s) > 0)
  BY HoldsSized DEF Sized, Below
<1>4. Good(0)
  <2>1. Below(t, P, t)
    BY <1>3 DEF Below
  <2> QED BY <1>2, <1>3, <2>1
<1>5. ASSUME NEW n \in 1 .. size, Good(n - 1)
      PROVE  Good(n)
  <2> DEFINE V == w[n - 1]
             W == w[n]
  <2>1. W = UNION {Tree!WithChildren(x) : x \in V}
    BY <1>2
  <2>2. t \in V /\ \A s \in V : Below(t, P, s)
    BY <1>5
  <2>3. \A s \in V : Kept(V, s) \/ h(s) <= h(t) - (n - 1)
    BY <1>5
  <2> HIDE DEF V, W
  <2>4. \A s \in W : \E x \in V : s = x \/ (x # Tree!NoNode /\ (s = x.left \/ s = x.right))
    BY <2>1 DEF Tree!WithChildren
  <2>5. \A x \in V : x \in W /\ Kept(W, x)
    BY <2>1 DEF Tree!WithChildren
  <2>6. \A s \in W : Below(t, P, s)
    BY <2>2, <2>4, BelowBelow
  <2>7. ASSUME NEW s \in W
        PROVE  Kept(W, s) \/ h(s) <= h(t) - n
    <3>1. PICK x \in V : s = x \/ (x # Tree!NoNode /\ (s = x.left \/ s = x.right))
      BY <2>4
    <3>2. CASE s \in V
      BY <2>5, <3>2
    <3>3. CASE s \notin V
      <4>1. x # Tree!NoNode /\ (s = x.left \/ s = x.right)
        BY <3>1, <3>3
      <4>2. h(x) <= h(t) - (n - 1)
        BY <2>3, <3>3, <4>1
      <4>3. h(x) \in Nat /\ h(s) \in Nat /\ h(s) < h(x)
        <5>1. PICK Q : Holds(x, Q)
          BY <2>2 DEF Below
        <5> QED BY <4>1, <5>1, LowerBelow
      <4> HIDE DEF h
      <4>4. h(s) <= h(t) - n
        BY <1>3, <4>2, <4>3
      <4> QED BY <4>4
    <3> QED BY <3>2, <3>3
  <2> QED BY <2>2, <2>5, <2>6, <2>7 DEF V, W
<1> HIDE DEF Good
<1>6. Good(size)
  <2> DEFINE T == {n \in 0 .. size : ~ Good(n)}
  <2>1. SUFFICES ASSUME T # {} PROVE FALSE
    OBVIOUS
  <2>2. PICK m \in T : \A y \in T : m <= y
    <3>1. T \in SUBSET Nat
      OBVIOUS
    <3> HIDE DEF T
    <3> QED BY <2>1, <3>1, LeastMember
  <2>3. m \in 1 .. size
    BY <1>4, <2>2
  <2>4. Good(m - 1)
    <3>1. m - 1 \in 0 .. size /\ ~ m <= m - 1
      BY <2>3
    <3> QED BY <2>2, <3>1
  <2> QED BY <1>5, <2>2, <2>3, <2>4
<1>7. \A s \in w[size] : Kept(w[size], s)
  <2>1. SUFFICES ASSUME NEW s \in w[size], s # Tree!NoNode, h(s) <= h(t) - size PROVE FALSE
    BY <1>6 DEF Good
  <2>2. h(s) \in Nat /\ h(s) > 0
    BY <1>3, <1>6, <2>1 DEF Good
  <2> HIDE DEF h
  <2>3. h(t) <= size
    BY DEF h
  <2> QED BY <1>3, <2>1, <2>2, <2>3
<1> QED BY <1>1, <1>6, <1>7 DEF Good

\* Every entry is that of one of the subtrees, and the other way round.
LEMMA NodesHold ==
  ASSUME size \in Nat, NEW t, NEW P, Holds(t, P), Tree!NodeHeight(t) <= size
  PROVE  P = {Entry(n) : n \in Tree!NodesOf(t)}
<1> DEFINE S == Tree!Subtrees(t)
           N == Tree!NodesOf(t)
           Met(m) == \A s \in S : \A Q : Holds(s, Q) /\ Tree!NodeHeight(s) = m =>
                       \A p \in Q : \E n \in N : p = Entry(n)
           T == {m \in Nat : ~ Met(m)}
<1>1. t \in S /\ \A s \in S : Below(t, P, s) /\ (s # Tree!NoNode => s.left \in S /\ s.right \in S)
  BY SubtreesAre
<1>2. N = S \ {Tree!NoNode}
  BY DEF Tree!NodesOf
<1> HIDE DEF S, N
<1>3. T = {}
  <2> HIDE DEF Met
  <2>1. SUFFICES ASSUME T # {} PROVE FALSE
    OBVIOUS
  <2>2. PICK m \in T : \A y \in T : m <= y
    <3>1. T \in SUBSET Nat
      OBVIOUS
    <3> HIDE DEF T
    <3> QED BY <2>1, <3>1, LeastMember
  <2>3. m \in Nat /\ \A y \in 0 .. m - 1 : Met(y)
    BY <2>2
  <2>4. Met(m)
    <3>1. SUFFICES ASSUME NEW s \in S, NEW Q, Holds(s, Q), Tree!NodeHeight(s) = m, NEW p \in Q
                   PROVE  \E n \in N : p = Entry(n)
      BY DEF Met
    <3>2. s # Tree!NoNode
      BY <3>1, HoldsOnlyNull
    <3>3. PICK A, B : Holds(s.left, A) /\ Holds(s.right, B) /\ Parted(s, A, B, Q)
      BY <3>1, <3>2, HoldsBelow
    <3>4. /\ Tree!NodeHeight(s.left) \in 0 .. m - 1 /\ s.left \in S
          /\ Tree!NodeHeight(s.right) \in 0 .. m - 1 /\ s.right \in S
      BY <1>1, <2>3, <3>1, <3>2, LowerBelow
    <3>5. CASE p = Entry(s)
      BY <1>2, <3>2, <3>5
    <3>6. CASE p \in A
      BY <2>3, <3>3, <3>4, <3>6 DEF Met
    <3>7. CASE p \in B
      BY <2>3, <3>3, <3>4, <3>7 DEF Met
    <3> QED BY <3>1, <3>3, <3>5, <3>6, <3>7 DEF Parted
  <2> QED BY <2>2, <2>4
<1>4. \A p \in P : \E n \in N : p = Entry(n)
  <2>1. Tree!NodeHeight(t) \in Nat
    BY HoldsSized DEF Sized
  <2>2. Met(Tree!NodeHeight(t))
    <3> HIDE DEF Met
    <3> QED BY <1>3, <2>1
  <2> QED BY <1>1, <2>2
<1>5. \A n \in N : Entry(n) \in P
  <2>1. TAKE n \in N
  <2>2. PICK Q \in SUBSET P : Holds(n, Q)
    BY <1>1, <1>2 DEF Below
  <2> QED BY <1>2, <2>2, LowerBelow
<1> QED BY <1>4, <1>5 DEF N

LEMMA LowerIn ==
  ASSUME size \in Nat, NEW u, NEW P, Holds(u, P), Tree!NodeHeight(u) <= size,
         NEW t \in Tree!Subtrees(u)
  PROVE  /\ Tree!NodeHeight(t) \in Nat /\ Tree!NodeHeight(t) <= Tree!NodeHeight(u)
         /\ t # Tree!NoNode =>
              /\ t.left \in Tree!Subtrees(u) /\ Tree!NodeHeight(t.left) < Tree!NodeHeight(t)
              /\ t.right \in Tree!Subtrees(u) /\ Tree!NodeHeight(t.right) < Tree!NodeHeight(t)
              /\ \A k : Tree!Toward(t, k) \in Tree!Subtrees(u)
                        /\ Tree!NodeHeight(Tree!Toward(t, k)) < Tree!NodeHeight(t)
<1>1. PICK Q \in SUBSET P : Holds(t, Q)
  BY SubtreesAre DEF Below
<1>2. Tree!NodeHeight(t) \in Nat
  BY <1>1, HoldsSized DEF Sized
<1>3. Tree!NodeHeight(t) <= Tree!NodeHeight(u)
  BY SubtreesAre DEF Below
<1>4. ASSUME t # Tree!NoNode
      PROVE  /\ t.left \in Tree!Subtrees(u) /\ Tree!NodeHeight(t.left) < Tree!NodeHeight(t)
             /\ t.right \in Tree!Subtrees(u) /\ Tree!NodeHeight(t.right) < Tree!NodeHeight(t)
  BY <1>1, <1>4, SubtreesAre, LowerBelow
<1> QED BY <1>2, <1>3, <1>4 DEF Tree!Toward

\* What insertNode makes of a tree, told what it makes of those below it.
InsertedFrom(f, t, k, v) ==
  IF t = Tree!NoNode THEN [node |-> Tree!Leaf(k, v), wasNew |-> TRUE]
  ELSE IF k = t.key THEN [node |-> [t EXCEPT !.value = v], wasNew |-> FALSE]
  ELSE LET result == f[Tree!Toward(t, k)]
           n == Tree!WithChild(t, k, result.node)
       IN  [node |-> Tree!Rebalance(n, Tree!InsertedAt(k, n.left, "right"), Tree!InsertedAt(k, n.right, "left")),
            wasNew |-> result.wasNew]

LEMMA InsertNodeIs ==
  ASSUME size \in Nat, NEW u, NEW P, Holds(u, P), Tree!NodeHeight(u) <= size, NEW k, NEW v
  PROVE  \E f : /\ Tree!InsertNode(u, k, v) = f[u]
                /\ \A t \in Tree!Subtrees(u) : f[t] = InsertedFrom(f, t, k, v)
<1> DEFINE S == Tree!Subtrees(u)
           h(t) == Tree!NodeHeight(t)
           Told(f, t) == InsertedFrom(f, t, k, v)
           Known(f, m) == \A t \in S : h(t) < m => f[t] = Told(f, t)
           Knowable(m) == \E f : Known(f, m)
           T == {m \in Nat : ~ Knowable(m)}
<1>1. \A t \in S : h(t) \in Nat /\ h(t) <= h(u)
  BY LowerIn
<1>2. ASSUME NEW t \in S, NEW f, NEW g, \A s \in S : h(s) < h(t) => f[s] = g[s]
      PROVE  Told(f, t) = Told(g, t)
  <2>1. CASE t = Tree!NoNode
    BY <2>1 DEF InsertedFrom
  <2>2. CASE t # Tree!NoNode
    <3>1. f[Tree!Toward(t, k)] = g[Tree!Toward(t, k)]
      BY <1>2, <2>2, LowerIn
    <3> QED BY <3>1 DEF InsertedFrom
  <2> QED BY <2>1, <2>2
<1>3. Tree!InsertNode(u, k, v) = (CHOOSE f : f = [t \in S |-> Told(f, t)])[u]
  BY DEF Tree!InsertNode, InsertedFrom
<1> HIDE DEF S, h, Told
<1>4. ASSUME NEW m \in Nat, NEW f, Known(f, m), NEW g, g = [t \in S |-> Told(f, t)]
      PROVE  Known(g, m + 1)
  <2> SUFFICES ASSUME NEW t \in S, h(t) < m + 1 PROVE g[t] = Told(g, t)
    OBVIOUS
  <2>1. \A s \in S : h(s) < h(t) => f[s] = g[s]
    BY <1>1, <1>4
  <2> QED BY <1>2, <1>4, <2>1
<1>5. T = {}
  <2>1. SUFFICES ASSUME T # {} PROVE FALSE
    OBVIOUS
  <2>2. PICK m \in T : \A y \in T : m <= y
    <3>1. T \in SUBSET Nat
      OBVIOUS
    <3> HIDE DEF T
    <3> QED BY <2>1, <3>1, LeastMember
  <2>3. m # 0
    BY <1>1, <2>2
  <2>4. m - 1 \in Nat /\ ~ m <= m - 1
    BY <2>2, <2>3
  <2>5. PICK f : Known(f, m - 1)
    BY <2>2, <2>4
  <2>6. Known([t \in S |-> Told(f, t)], m)
    <3> DEFINE g == [t \in S |-> Told(f, t)]
    <3> HIDE DEF Known
    <3>1. Known(g, m - 1 + 1)
      BY <1>4, <2>4, <2>5
    <3> QED BY <2>2, <3>1
  <2> QED BY <2>2, <2>6
<1>6. PICK f : \A t \in S : f[t] = Told(f, t)
  <2>1. h(u) \in Nat
    BY HoldsSized DEF Sized, h
  <2>2. Knowable(h(u) + 1)
    <3> HIDE DEF Knowable
    <3> QED BY <1>5, <2>1
  <2> QED BY <1>1, <2>1, <2>2
<1> DEFINE g == [t \in S |-> Told(f, t)]
<1>7. \A t \in S : g[t] = f[t]
  BY <1>6
<1>8. g = [t \in S |-> Told(g, t)]
  <2> HIDE DEF g
  <2>1. \A t \in S : Told(f, t) = Told(g, t)
    BY <1>2, <1>7
  <2> QED BY <2>1 DEF g
<1> DEFINE i == CHOOSE c : c = [t \in S |-> Told(c, t)]
<1>9. i = [t \in S |-> Told(i, t)]
  <2> HIDE DEF g
  <2> QED BY <1>8
<1>10. \A t \in S : i[t] = Told(i, t)
  BY <1>9
<1>11. Tree!InsertNode(u, k, v) = i[u]
  BY <1>3
<1> HIDE DEF i
<1>12. \A t \in S : i[t] = InsertedFrom(i, t, k, v)
  BY <1>10 DEF Told
<1> QED BY <1>11, <1>12 DEF S

\* The same for minValueNode, which is only asked about nodes.
LeastFrom(f, t) == IF t.left = Tree!NoNode THEN t ELSE f[t.left]

LEMMA MinValueNodeIs ==
  ASSUME size \in Nat, NEW u, NEW P, Holds(u, P), Tree!NodeHeight(u) <= size, u # Tree!NoNode
  PROVE  \E f : /\ Tree!MinValueNode(u) = f[u]
                /\ \A t \in Tree!Subtrees(u) \ {Tree!NoNode} : f[t] = LeastFrom(f, t)
<1> DEFINE S == Tree!Subtrees(u) \ {Tree!NoNode}
           h(t) == Tree!NodeHeight(t)
           Told(f, t) == LeastFrom(f, t)
           Known(f, m) == \A t \in S : h(t) < m => f[t] = Told(f, t)
           Knowable(m) == \E f : Known(f, m)
           T == {m \in Nat : ~ Knowable(m)}
<1>1. \A t \in S : h(t) \in Nat /\ h(t) <= h(u)
  BY LowerIn
<1>2. ASSUME NEW t \in S, NEW f, NEW g, \A s \in S : h(s) < h(t) => f[s] = g[s]
      PROVE  Told(f, t) = Told(g, t)
  <2>1. CASE t.left = Tree!NoNode
    BY <2>1 DEF LeastFrom
  <2>2. CASE t.left # Tree!NoNode
    <3>1. f[t.left] = g[t.left]
      BY <1>2, <2>2, LowerIn
    <3> QED BY <3>1 DEF LeastFrom
  <2> QED BY <2>1, <2>2
<1>3. Tree!MinValueNode(u) = (CHOOSE f : f = [t \in S |-> Told(f, t)])[u]
  BY DEF Tree!MinValueNode, LeastFrom
<1> HIDE DEF S, h, Told
<1>4. ASSUME NEW m \in Nat, NEW f, Known(f, m), NEW g, g = [t \in S |-> Told(f, t)]
      PROVE  Known(g, m + 1)
  <2> SUFFICES ASSUME NEW t \in S, h(t) < m + 1 PROVE g[t] = Told(g, t)
    OBVIOUS
  <2>1. \A s \in S : h(s) < h(t) => f[s] = g[s]
    BY <1>1, <1>4
  <2> QED BY <1>2, <1>4, <2>1
<1>5. T = {}
  <2>1. SUFFICES ASSUME T # {} PROVE FALSE
    OBVIOUS
  <2>2. PICK m \in T : \A y \in T : m <= y
    <3>1. T \in SUBSET Nat
      OBVIOUS
    <3> HIDE DEF T
    <3> QED BY <2>1, <3>1, LeastMember
  <2>3. m # 0
    BY <1>1, <2>2
  <2>4. m - 1 \in Nat /\ ~ m <= m - 1
    BY <2>2, <2>3
  <2>5. PICK f : Known(f, m - 1)
    BY <2>2, <2>4
  <2>6. Known([t \in S |-> Told(f, t)], m)
    <3> DEFINE g == [t \in S |-> Told(f, t)]
    <3> HIDE DEF Known
    <3>1. Known(g, m - 1 + 1)
      BY <1>4, <2>4, <2>5
    <3> QED BY <2>2, <3>1
  <2> QED BY <2>2, <2>6
<1>6. PICK f : \A t \in S : f[t] = Told(f, t)
  <2>1. h(u) \in Nat
    BY HoldsSized DEF Sized, h
  <2>2. Knowable(h(u) + 1)
    <3> HIDE DEF Knowable
    <3> QED BY <1>5, <2>1
  <2> QED BY <1>1, <2>1, <2>2
<1> DEFINE g == [t \in S |-> Told(f, t)]
<1>7. \A t \in S : g[t] = f[t]
  BY <1>6
<1>8. g = [t \in S |-> Told(g, t)]
  <2> HIDE DEF g
  <2>1. \A t \in S : Told(f, t) = Told(g, t)
    BY <1>2, <1>7
  <2> QED BY <2>1 DEF g
<1> DEFINE i == CHOOSE c : c = [t \in S |-> Told(c, t)]
<1>9. i = [t \in S |-> Told(i, t)]
  <2> HIDE DEF g
  <2> QED BY <1>8
<1>10. \A t \in S : i[t] = Told(i, t)
  BY <1>9
<1>11. Tree!MinValueNode(u) = i[u]
  BY <1>3
<1> HIDE DEF i
<1>12. \A t \in S : i[t] = LeastFrom(i, t)
  BY <1>10 DEF Told
<1> QED BY <1>11, <1>12 DEF S

\* For removeNode, which may be told to remove any key,
RemovedFrom(f, t) ==
  [k \in TreeKeys |->
    IF t = Tree!NoNode THEN [node |-> Tree!NoNode, wasRemoved |-> FALSE]
    ELSE IF k # t.key THEN
      LET result == f[Tree!Toward(t, k)][k]
      IN  [node |-> Tree!RebalanceRemoved(Tree!WithChild(t, k, result.node)),
           wasRemoved |-> result.wasRemoved]
    ELSE IF t.left = Tree!NoNode THEN [node |-> t.right, wasRemoved |-> TRUE]
    ELSE IF t.right = Tree!NoNode THEN [node |-> t.left, wasRemoved |-> TRUE]
    ELSE LET successor == Tree!MinValueNode(t.right)
         IN  [node |-> Tree!RebalanceRemoved(
                         Tree!Succeeded(t, successor, f[t.right][successor.key].node)),
              wasRemoved |-> TRUE]]

LEMMA RemoveNodeIs ==
  ASSUME size \in Nat, NEW u, NEW P, Holds(u, P), Tree!NodeHeight(u) <= size, NEW k
  PROVE  \E f : /\ Tree!RemoveNode(u, k) = f[u][k]
                /\ \A t \in Tree!Subtrees(u) : f[t] = RemovedFrom(f, t)
<1> DEFINE S == Tree!Subtrees(u)
           h(t) == Tree!NodeHeight(t)
           Told(f, t) == RemovedFrom(f, t)
           Known(f, m) == \A t \in S : h(t) < m => f[t] = Told(f, t)
           Knowable(m) == \E f : Known(f, m)
           T == {m \in Nat : ~ Knowable(m)}
<1>1. \A t \in S : h(t) \in Nat /\ h(t) <= h(u)
  BY LowerIn
<1>2. ASSUME NEW t \in S, NEW f, NEW g, \A s \in S : h(s) < h(t) => f[s] = g[s]
      PROVE  Told(f, t) = Told(g, t)
  <2>1. CASE t = Tree!NoNode
    BY <2>1 DEF RemovedFrom
  <2>2. CASE t # Tree!NoNode
    <3>1. \A k1 : f[Tree!Toward(t, k1)] = g[Tree!Toward(t, k1)]
      BY <1>2, <2>2, LowerIn
    <3>2. f[t.right] = g[t.right]
      BY <1>2, <2>2, LowerIn
    <3> QED BY <3>1, <3>2 DEF RemovedFrom
  <2> QED BY <2>1, <2>2
<1>3. Tree!RemoveNode(u, k) = (CHOOSE f : f = [t \in S |-> Told(f, t)])[u][k]
  BY DEF Tree!RemoveNode, TreeKeys, RemovedFrom
<1> HIDE DEF S, h, Told
<1>4. ASSUME NEW m \in Nat, NEW f, Known(f, m), NEW g, g = [t \in S |-> Told(f, t)]
      PROVE  Known(g, m + 1)
  <2> SUFFICES ASSUME NEW t \in S, h(t) < m + 1 PROVE g[t] = Told(g, t)
    OBVIOUS
  <2>1. \A s \in S : h(s) < h(t) => f[s] = g[s]
    BY <1>1, <1>4
  <2> QED BY <1>2, <1>4, <2>1
<1>5. T = {}
  <2>1. SUFFICES ASSUME T # {} PROVE FALSE
    OBVIOUS
  <2>2. PICK m \in T : \A y \in T : m <= y
    <3>1. T \in SUBSET Nat
      OBVIOUS
    <3> HIDE DEF T
    <3> QED BY <2>1, <3>1, LeastMember
  <2>3. m # 0
    BY <1>1, <2>2
  <2>4. m - 1 \in Nat /\ ~ m <= m - 1
    BY <2>2, <2>3
  <2>5. PICK f : Known(f, m - 1)
    BY <2>2, <2>4
  <2>6. Known([t \in S |-> Told(f, t)], m)
    <3> DEFINE g == [t \in S |-> Told(f, t)]
    <3> HIDE DEF Known
    <3>1. Known(g, m - 1 + 1)
      BY <1>4, <2>4, <2>5
    <3> QED BY <2>2, <3>1
  <2> QED BY <2>2, <2>6
<1>6. PICK f : \A t \in S : f[t] = Told(f, t)
  <2>1. h(u) \in Nat
    BY HoldsSized DEF Sized, h
  <2>2. Knowable(h(u) + 1)
    <3> HIDE DEF Knowable
    <3> QED BY <1>5, <2>1
  <2> QED BY <1>1, <2>1, <2>2
<1> DEFINE g == [t \in S |-> Told(f, t)]
<1>7. \A t \in S : g[t] = f[t]
  BY <1>6
<1>8. g = [t \in S |-> Told(g, t)]
  <2> HIDE DEF g
  <2>1. \A t \in S : Told(f, t) = Told(g, t)
    BY <1>2, <1>7
  <2> QED BY <2>1 DEF g
<1> DEFINE i == CHOOSE c : c = [t \in S |-> Told(c, t)]
<1>9. i = [t \in S |-> Told(i, t)]
  <2> HIDE DEF g
  <2> QED BY <1>8
<1>10. \A t \in S : i[t] = Told(i, t)
  BY <1>9
<1>11. Tree!RemoveNode(u, k) = i[u][k]
  BY <1>3
<1> HIDE DEF i
<1>12. \A t \in S : i[t] = RemovedFrom(i, t)
  BY <1>10 DEF Told
<1> QED BY <1>11, <1>12 DEF S

\* for the search,
FoundFrom(f, t, k) ==
  IF t = Tree!NoNode THEN {} ELSE IF k = t.key THEN {t.value} ELSE f[Tree!Toward(t, k)]

LEMMA SearchIs ==
  ASSUME size \in Nat, NEW u, NEW P, Holds(u, P), Tree!NodeHeight(u) <= size, NEW k
  PROVE  \E f : /\ Tree!Search(u, k) = f[u]
                /\ \A t \in Tree!Subtrees(u) : f[t] = FoundFrom(f, t, k)
<1> DEFINE S == Tree!Subtrees(u)
           h(t) == Tree!NodeHeight(t)
           Told(f, t) == FoundFrom(f, t, k)
           Known(f, m) == \A t \in S : h(t) < m => f[t] = Told(f, t)
           Knowable(m) == \E f : Known(f, m)
           T == {m \in Nat : ~ Knowable(m)}
<1>1. \A t \in S : h(t) \in Nat /\ h(t) <= h(u)
  BY LowerIn
<1>2. ASSUME NEW t \in S, NEW f, NEW g, \A s \in S : h(s) < h(t) => f[s] = g[s]
      PROVE  Told(f, t) = Told(g, t)
  <2>1. CASE t = Tree!NoNode
    BY <2>1 DEF FoundFrom
  <2>2. CASE t # Tree!NoNode
    <3>1. f[Tree!Toward(t, k)] = g[Tree!Toward(t, k)]
      BY <1>2, <2>2, LowerIn
    <3> QED BY <3>1 DEF FoundFrom
  <2> QED BY <2>1, <2>2
<1>3. Tree!Search(u, k) = (CHOOSE f : f = [t \in S |-> Told(f, t)])[u]
  BY DEF Tree!Search, FoundFrom
<1> HIDE DEF S, h, Told
<1>4. ASSUME NEW m \in Nat, NEW f, Known(f, m), NEW g, g = [t \in S |-> Told(f, t)]
      PROVE  Known(g, m + 1)
  <2> SUFFICES ASSUME NEW t \in S, h(t) < m + 1 PROVE g[t] = Told(g, t)
    OBVIOUS
  <2>1. \A s \in S : h(s) < h(t) => f[s] = g[s]
    BY <1>1, <1>4
  <2> QED BY <1>2, <1>4, <2>1
<1>5. T = {}
  <2>1. SUFFICES ASSUME T # {} PROVE FALSE
    OBVIOUS
  <2>2. PICK m \in T : \A y \in T : m <= y
    <3>1. T \in SUBSET Nat
      OBVIOUS
    <3> HIDE DEF T
    <3> QED BY <2>1, <3>1, LeastMember
  <2>3. m # 0
    BY <1>1, <2>2
  <2>4. m - 1 \in Nat /\ ~ m <= m - 1
    BY <2>2, <2>3
  <2>5. PICK f : Known(f, m - 1)
    BY <2>2, <2>4
  <2>6. Known([t \in S |-> Told(f, t)], m)
    <3> DEFINE g == [t \in S |-> Told(f, t)]
    <3> HIDE DEF Known
    <3>1. Known(g, m - 1 + 1)
      BY <1>4, <2>4, <2>5
    <3> QED BY <2>2, <3>1
  <2> QED BY <2>2, <2>6
<1>6. PICK f : \A t \in S : f[t] = Told(f, t)
  <2>1. h(u) \in Nat
    BY HoldsSized DEF Sized, h
  <2>2. Knowable(h(u) + 1)
    <3> HIDE DEF Knowable
    <3> QED BY <1>5, <2>1
  <2> QED BY <1>1, <2>1, <2>2
<1> DEFINE g == [t \in S |-> Told(f, t)]
<1>7. \A t \in S : g[t] = f[t]
  BY <1>6
<1>8. g = [t \in S |-> Told(g, t)]
  <2> HIDE DEF g
  <2>1. \A t \in S : Told(f, t) = Told(g, t)
    BY <1>2, <1>7
  <2> QED BY <2>1 DEF g
<1> DEFINE i == CHOOSE c : c = [t \in S |-> Told(c, t)]
<1>9. i = [t \in S |-> Told(i, t)]
  <2> HIDE DEF g
  <2> QED BY <1>8
<1>10. \A t \in S : i[t] = Told(i, t)
  BY <1>9
<1>11. Tree!Search(u, k) = i[u]
  BY <1>3
<1> HIDE DEF i
<1>12. \A t \in S : i[t] = FoundFrom(i, t, k)
  BY <1>10 DEF Told
<1> QED BY <1>11, <1>12 DEF S

\* and for the true height.
HeightFrom(f, t) == IF t = Tree!NoNode THEN 0 ELSE 1 + Tree!Higher(f[t.left], f[t.right])

HeightsOf(u) == CHOOSE f : f = [t \in Tree!Subtrees(u) |-> HeightFrom(f, t)]

LEMMA HeightsAre ==
  ASSUME size \in Nat, NEW u, NEW P, Holds(u, P), Tree!NodeHeight(u) <= size
  PROVE  \E f : /\ HeightsOf(u) = f
                /\ \A t \in Tree!Subtrees(u) : f[t] = HeightFrom(f, t)
<1> DEFINE S == Tree!Subtrees(u)
           h(t) == Tree!NodeHeight(t)
           Told(f, t) == HeightFrom(f, t)
           Known(f, m) == \A t \in S : h(t) < m => f[t] = Told(f, t)
           Knowable(m) == \E f : Known(f, m)
           T == {m \in Nat : ~ Knowable(m)}
<1>1. \A t \in S : h(t) \in Nat /\ h(t) <= h(u)
  BY LowerIn
<1>2. ASSUME NEW t \in S, NEW f, NEW g, \A s \in S : h(s) < h(t) => f[s] = g[s]
      PROVE  Told(f, t) = Told(g, t)
  <2>1. CASE t = Tree!NoNode
    BY <2>1 DEF HeightFrom
  <2>2. CASE t # Tree!NoNode
    <3>1. f[t.left] = g[t.left] /\ f[t.right] = g[t.right]
      BY <1>2, <2>2, LowerIn
    <3> QED BY <3>1 DEF HeightFrom
  <2> QED BY <2>1, <2>2
<1>3. HeightsOf(u) = (CHOOSE f : f = [t \in S |-> Told(f, t)])
  BY DEF HeightsOf, HeightFrom
<1> HIDE DEF S, h, Told
<1>4. ASSUME NEW m \in Nat, NEW f, Known(f, m), NEW g, g = [t \in S |-> Told(f, t)]
      PROVE  Known(g, m + 1)
  <2> SUFFICES ASSUME NEW t \in S, h(t) < m + 1 PROVE g[t] = Told(g, t)
    OBVIOUS
  <2>1. \A s \in S : h(s) < h(t) => f[s] = g[s]
    BY <1>1, <1>4
  <2> QED BY <1>2, <1>4, <2>1
<1>5. T = {}
  <2>1. SUFFICES ASSUME T # {} PROVE FALSE
    OBVIOUS
  <2>2. PICK m \in T : \A y \in T : m <= y
    <3>1. T \in SUBSET Nat
      OBVIOUS
    <3> HIDE DEF T
    <3> QED BY <2>1, <3>1, LeastMember
  <2>3. m # 0
    BY <1>1, <2>2
  <2>4. m - 1 \in Nat /\ ~ m <= m - 1
    BY <2>2, <2>3
  <2>5. PICK f : Known(f, m - 1)
    BY <2>2, <2>4
  <2>6. Known([t \in S |-> Told(f, t)], m)
    <3> DEFINE g == [t \in S |-> Told(f, t)]
    <3> HIDE DEF Known
    <3>1. Known(g, m - 1 + 1)
      BY <1>4, <2>4, <2>5
    <3> QED BY <2>2, <3>1
  <2> QED BY <2>2, <2>6
<1>6. PICK f : \A t \in S : f[t] = Told(f, t)
  <2>1. h(u) \in Nat
    BY HoldsSized DEF Sized, h
  <2>2. Knowable(h(u) + 1)
    <3> HIDE DEF Knowable
    <3> QED BY <1>5, <2>1
  <2> QED BY <1>1, <2>1, <2>2
<1> DEFINE g == [t \in S |-> Told(f, t)]
<1>7. \A t \in S : g[t] = f[t]
  BY <1>6
<1>8. g = [t \in S |-> Told(g, t)]
  <2> HIDE DEF g
  <2>1. \A t \in S : Told(f, t) = Told(g, t)
    BY <1>2, <1>7
  <2> QED BY <2>1 DEF g
<1> DEFINE i == CHOOSE c : c = [t \in S |-> Told(c, t)]
<1>9. i = [t \in S |-> Told(i, t)]
  <2> HIDE DEF g
  <2> QED BY <1>8
<1>10. \A t \in S : i[t] = Told(i, t)
  BY <1>9
<1>11. HeightsOf(u) = i
  BY <1>3
<1> HIDE DEF i
<1>12. \A t \in S : i[t] = HeightFrom(i, t)
  BY <1>10 DEF Told
<1> QED BY <1>11, <1>12 DEF S

-----------------------------------------------------------------------------
(***************************************************************************)
(* What the functions do to the entries.                                   *)
(***************************************************************************)
Has(P, k) == \E p \in P : p.key = k

Without(P, k) == {p \in P : p.key # k}

Replaced(P, k, v) == Without(P, k) \cup {[key |-> k, value |-> v]}

LEMMA SidesOf ==
  ASSUME NEW t, NEW P, NEW A, NEW B, Parted(t, A, B, P), \A p \in A \cup B : p.key \in TreeKeys,
         NEW k \in TreeKeys
  PROVE  /\ k < t.key => /\ Without(P, k) = Without(A, k) \cup {Entry(t)} \cup B
                         /\ Has(P, k) <=> Has(A, k)
         /\ t.key < k => /\ Without(P, k) = A \cup {Entry(t)} \cup Without(B, k)
                         /\ Has(P, k) <=> Has(B, k)
         /\ k = t.key => Without(P, k) = A \cup B /\ Has(P, k)
<1>1. k \in Int /\ t.key \in Int /\ \A p \in A \cup B : p.key \in Int
  BY KeysAssumption DEF TreeKeys, Parted
<1>2. Entry(t).key = t.key
  BY DEF Entry
<1>3. /\ P = A \cup {Entry(t)} \cup B
      /\ \A p \in A : p.key < t.key
      /\ \A p \in B : t.key < p.key
  BY DEF Parted
<1>4. ASSUME k < t.key
      PROVE  /\ \A p \in B : p.key # k
             /\ Entry(t).key # k
  BY <1>1, <1>2, <1>3, <1>4
<1>5. ASSUME t.key < k
      PROVE  /\ \A p \in A : p.key # k
             /\ Entry(t).key # k
  BY <1>1, <1>2, <1>3, <1>5
<1>6. ASSUME k = t.key
      PROVE  /\ \A p \in A \cup B : p.key # k
  BY <1>1, <1>2, <1>3, <1>6
<1>7. k < t.key => Without(P, k) = Without(A, k) \cup {Entry(t)} \cup B
  BY <1>3, <1>4 DEF Without
<1>8. t.key < k => Without(P, k) = A \cup {Entry(t)} \cup Without(B, k)
  BY <1>3, <1>5 DEF Without
<1>9. k = t.key => Without(P, k) = A \cup B
  BY <1>2, <1>3, <1>6 DEF Without
<1>10. k < t.key => (Has(P, k) <=> Has(A, k))
  BY <1>3, <1>4 DEF Has
<1>11. t.key < k => (Has(P, k) <=> Has(B, k))
  BY <1>3, <1>5 DEF Has
<1>12. k = t.key => Has(P, k)
  BY <1>2, <1>3 DEF Has
<1> QED BY <1>7, <1>8, <1>9, <1>10, <1>11, <1>12

\* An AVL tree and the two below it.
LEMMA Opened ==
  ASSUME NEW t, NEW P, Holds(t, P), t # Tree!NoNode
  PROVE  \E A, B :
           /\ Holds(t.left, A) /\ Holds(t.right, B) /\ Parted(t, A, B, P)
           /\ Sized(t.left, A) /\ Sized(t.right, B) /\ \A p \in A \cup B : p.key \in TreeKeys
<1>1. PICK A, B : Holds(t.left, A) /\ Holds(t.right, B) /\ Parted(t, A, B, P)
  BY HoldsBelow
<1>2. Sized(t.left, A) /\ Sized(t.right, B)
  BY <1>1, HoldsSized
<1>3. \A p \in A \cup B : p.key \in TreeKeys
  BY <1>2 DEF Sized
<1> QED BY <1>1, <1>2, <1>3

(***************************************************************************)
(* An insertion makes the tree higher by at most one, and then only as a   *)
(* leaf or leaning to where the key went: that is why the comparison with  *)
(* the child's key tells the rotation.                                     *)
(***************************************************************************)
Grown(k, t, q) ==
  \/ Tree!NodeHeight(q) = Tree!NodeHeight(t)
  \/ /\ Tree!NodeHeight(q) = Tree!NodeHeight(t) + 1
     /\ \/ t = Tree!NoNode
        \/ k < q.key /\ Leaning(q) > 0
        \/ q.key < k /\ Leaning(q) < 0

Inserted(r, t, P, k, v) ==
  /\ Holds(r.node, Replaced(P, k, v))
  /\ r.wasNew = ~ Has(P, k)
  /\ Grown(k, t, r.node)

LEMMA InsertedIntoNull ==
  ASSUME NEW k \in TreeKeys, NEW v, NEW f
  PROVE  Inserted(InsertedFrom(f, Tree!NoNode, k, v), Tree!NoNode, {}, k, v)
<1> DEFINE r == [node |-> Tree!Leaf(k, v), wasNew |-> TRUE]
           l == Made(k, v, Tree!NoNode, Tree!NoNode)
<1>1. Tree!NodeHeight(Tree!NoNode) = 0
  BY DEF Tree!NodeHeight
<1>2. Tree!Higher(0, 0) = 0
  BY DEF Tree!Higher
<1>3. Tree!Leaf(k, v) = l
  BY <1>1, <1>2 DEF Tree!Leaf, Made
<1>4. Holds(l, {} \cup {[key |-> k, value |-> v]} \cup {})
  <2> HIDE DEF l
  <2>1. Tree!NodeHeight(Tree!NoNode) - Tree!NodeHeight(Tree!NoNode) \in -1 .. 1
    BY <1>1
  <2> QED BY <2>1, HoldsNull, HoldsMade DEF l
<1>5. Tree!NodeHeight(l) = 1
  BY <1>1, <1>2, MadeIs
<1> HIDE DEF l
<1>6. InsertedFrom(f, Tree!NoNode, k, v) = r
  BY DEF InsertedFrom
<1>7. Replaced({}, k, v) = {} \cup {[key |-> k, value |-> v]} \cup {} /\ ~ Has({}, k)
  BY DEF Replaced, Without, Has
<1>8. r.node = l /\ r.wasNew = TRUE
  BY <1>3
<1>9. Grown(k, Tree!NoNode, l)
  BY <1>1, <1>5 DEF Grown
<1> HIDE DEF r
<1> QED BY <1>4, <1>6, <1>7, <1>8, <1>9 DEF Inserted

LEMMA InsertedHere ==
  ASSUME NEW t, NEW P, Holds(t, P), t # Tree!NoNode, NEW k \in TreeKeys, k = t.key, NEW v, NEW f
  PROVE  Inserted(InsertedFrom(f, t, k, v), t, P, k, v)
<1> DEFINE q == [t EXCEPT !.value = v]
<1>1. PICK A, B : /\ Holds(t.left, A) /\ Holds(t.right, B) /\ Parted(t, A, B, P)
                  /\ Sized(t.left, A) /\ Sized(t.right, B) /\ \A p \in A \cup B : p.key \in TreeKeys
  BY Opened
<1>2. IsNode(t) /\ Weighed(t)
  BY HoldsBelow
<1>3. q = Made(k, v, t.left, t.right)
  BY <1>2, NodeIsMade
<1>4. Holds(q, A \cup {[key |-> k, value |-> v]} \cup B)
  <2> HIDE DEF q
  <2>1. Tree!NodeHeight(t.left) - Tree!NodeHeight(t.right) \in -1 .. 1
    BY <1>2 DEF Weighed, Leaning
  <2>2. (\A p \in A : p.key < k) /\ (\A p \in B : k < p.key)
    BY <1>1 DEF Parted
  <2> QED BY <1>1, <1>3, <2>1, <2>2, HoldsMade
<1>5. Tree!NodeHeight(q) = Tree!NodeHeight(t)
  <2>1. Tree!NodeHeight(q) = Tree!Higher(Tree!NodeHeight(t.left), Tree!NodeHeight(t.right)) + 1
    BY <1>3, MadeIs
  <2> QED BY <1>2, <2>1 DEF Weighed, Tree!NodeHeight
<1>6. Without(P, k) = A \cup B /\ Has(P, k)
  BY <1>1, SidesOf
<1>7. Replaced(P, k, v) = A \cup {[key |-> k, value |-> v]} \cup B
  BY <1>6 DEF Replaced
<1> HIDE DEF q
<1> DEFINE r == [node |-> q, wasNew |-> FALSE]
<1>8. InsertedFrom(f, t, k, v) = r
  BY DEF InsertedFrom, q
<1>9. r.node = q /\ r.wasNew = FALSE
  OBVIOUS
<1> HIDE DEF r
<1> QED BY <1>4, <1>5, <1>6, <1>7, <1>8, <1>9 DEF Inserted, Grown

LEMMA InsertedLeftwards ==
  ASSUME NEW t, NEW P, Holds(t, P), t # Tree!NoNode, NEW k \in TreeKeys, k < t.key, NEW v, NEW f,
         \A Q : Holds(t.left, Q) => Inserted(f[t.left], t.left, Q, k, v)
  PROVE  Inserted(InsertedFrom(f, t, k, v), t, P, k, v)
<1>1. PICK A, B : /\ Holds(t.left, A) /\ Holds(t.right, B) /\ Parted(t, A, B, P)
                  /\ Sized(t.left, A) /\ Sized(t.right, B) /\ \A p \in A \cup B : p.key \in TreeKeys
  BY Opened
<1>2. IsNode(t) /\ Weighed(t)
  BY HoldsBelow
<1> DEFINE r == f[t.left]
           z == r.node
           C == Replaced(A, k, v)
           n == [t EXCEPT !.left = z]
           q == Tree!Rebalance(n, Tree!InsertedAt(k, n.left, "right"), Tree!InsertedAt(k, n.right, "left"))
           hl == Tree!NodeHeight(t.left)
           hr == Tree!NodeHeight(t.right)
           hz == Tree!NodeHeight(z)
<1>3. Holds(z, C) /\ r.wasNew = ~ Has(A, k) /\ Grown(k, t.left, z)
  BY <1>1 DEF Inserted
<1>4. k \in Int /\ t.key \in Int /\ k # t.key /\ ~ t.key < k /\ t.key \in TreeKeys
  BY <1>1, KeysAssumption DEF TreeKeys, Parted
<1>5. /\ IsNode(n) /\ n.left = z /\ n.right = t.right /\ n.key = t.key /\ n.value = t.value
  <2> HIDE DEF z
  <2> QED BY ONLY <1>2 DEF IsNode
<1>6. Tree!WithChild(t, k, z) = n /\ Tree!Toward(t, k) = t.left
  BY <1>4 DEF Tree!WithChild, Tree!Toward
<1>7. InsertedFrom(f, t, k, v) = [node |-> q, wasNew |-> r.wasNew]
  BY <1>4, <1>6 DEF InsertedFrom
<1> HIDE DEF r, z, C, n, q
<1>8. hl \in Nat /\ hr \in Nat /\ hz \in Nat /\ hl - hr \in -1 .. 1
  <2>1. Leaning(t) \in -1 .. 1
    BY <1>2 DEF Weighed
  <2>2. hl \in Nat /\ hr \in Nat /\ hz \in Nat
    BY <1>1, <1>3, HoldsSized DEF Sized
  <2> QED BY <2>1, <2>2 DEF Leaning
<1>9. \A p \in C : p.key < t.key
  <2>1. \A p \in A : p.key < t.key
    BY <1>1 DEF Parted
  <2> QED BY <2>1 DEF C, Replaced, Without
<1>10. \A p \in B : t.key < p.key
  BY <1>1 DEF Parted
<1>11. Leaning(n) = hz - hr /\ Entry(n) = Entry(t)
  BY <1>5 DEF Leaning, Entry
<1>12. /\ Tree!NodeHeight(t) = Tree!Higher(hl, hr) + 1
       /\ hz = hl \/ hz = hl + 1
  BY <1>2, <1>3 DEF Weighed, Grown, Tree!NodeHeight
<1>13. Leaning(n) \in -2 .. 2 /\ Leaning(n) # -2
  BY <1>8, <1>11, <1>12
<1>14. ASSUME Leaning(n) = 2
       PROVE  /\ Tree!InsertedAt(k, n.left, "right") <=> Leaning(z) < 0
              /\ Leaning(z) # 0
              /\ hl = hr + 1 /\ hz = hl + 1
  <2>1. hz = hr + 2
    BY <1>8, <1>11, <1>14
  <2>2. hl = hr + 1 /\ hz = hl + 1
    BY <1>8, <1>12, <2>1
  <2>3. t.left # Tree!NoNode
    BY <1>8, <2>2 DEF Tree!NodeHeight
  <2>4. z # Tree!NoNode
    BY <1>8, <2>2 DEF Tree!NodeHeight
  <2>5. z.key \in Int /\ Leaning(z) \in Int
    <3>1. z.key \in TreeKeys /\ Tree!NodeHeight(z.left) \in Nat /\ Tree!NodeHeight(z.right) \in Nat
      BY <1>3, <2>4, LowerBelow
    <3> QED BY <3>1, KeysAssumption DEF TreeKeys, Leaning
  <2>6. (k < z.key /\ Leaning(z) > 0) \/ (z.key < k /\ Leaning(z) < 0)
    BY <1>3, <1>8, <2>2, <2>3 DEF Grown
  <2>7. Tree!InsertedAt(k, n.left, "right") <=> z.key <= k
    BY <1>5 DEF Tree!InsertedAt
  <2>8. (z.key <= k <=> Leaning(z) < 0) /\ Leaning(z) # 0
    BY <1>4, <2>5, <2>6
  <2> QED BY <2>2, <2>7, <2>8
<1>15. /\ Holds(q, C \cup {Entry(t)} \cup B)
       /\ Leaning(n) \in -1 .. 1 => q = Made(t.key, t.value, z, t.right)
       /\ Leaning(n) = 2 => Tree!NodeHeight(q) = hz
  <2> DEFINE in == Tree!InsertedAt(k, n.left, "right")
             out == Tree!InsertedAt(k, n.right, "left")
  <2>1. Leaning(n) = 2 => (in <=> Leaning(n.left) < 0)
    BY <1>5, <1>13, <1>14
  <2>2. Leaning(n) = -2 => (out <=> Leaning(n.right) > 0)
    BY <1>5, <1>13, <1>14
  <2> HIDE DEF in, out
  <2>3. q = Tree!Rebalance(n, in, out)
    BY DEF q, in, out
  <2>4. n.key \in TreeKeys
    BY <1>4, <1>5
  <2>5. Holds(n.left, C) /\ Holds(n.right, B)
    BY <1>1, <1>3, <1>5
  <2>6. (\A p \in C : p.key < n.key) /\ (\A p \in B : n.key < p.key)
    BY <1>5, <1>9, <1>10
  <2>9. IsNode(n) /\ Leaning(n) \in -2 .. 2 /\ Holds(n.left, C) /\ Holds(n.right, B)
    BY <1>5, <1>13, <2>5
  <2>7. /\ Holds(q, C \cup {Entry(n)} \cup B)
        /\ Leaning(n) \in -1 .. 1 => q = Made(n.key, n.value, n.left, n.right)
        /\ Leaning(n) = 2 =>
             Tree!NodeHeight(q) = Tree!NodeHeight(n.left) + (IF Leaning(n.left) = 0 THEN 1 ELSE 0)
        /\ Leaning(n) = -2 =>
             Tree!NodeHeight(q) = Tree!NodeHeight(n.right) + (IF Leaning(n.right) = 0 THEN 1 ELSE 0)
    BY ONLY <2>1, <2>2, <2>3, <2>4, <2>6, <2>9, Rebalanced
  <2>8. Leaning(n) = 2 => Tree!NodeHeight(q) = hz + 0
    BY <1>5, <1>14, <2>7
  <2> QED BY <1>5, <1>8, <1>11, <2>7, <2>8
<1>16. Grown(k, t, q)
  <2>1. CASE Leaning(n) = 2
    <3>1. Tree!NodeHeight(q) = hz /\ hl = hr + 1 /\ hz = hl + 1
      BY <1>14, <1>15, <2>1
    <3>2. Tree!NodeHeight(q) = Tree!NodeHeight(t)
      BY <1>8, <1>12, <3>1 DEF Tree!Higher
    <3> QED BY <3>2 DEF Grown
  <2>2. CASE Leaning(n) \in -1 .. 1
    <3>1. q = Made(t.key, t.value, z, t.right)
      BY <1>15, <2>2
    <3>2. /\ q.key = t.key /\ q.left = z /\ q.right = t.right
          /\ Tree!NodeHeight(q) = Tree!Higher(hz, hr) + 1
      BY <3>1, MadeIs
    <3>3. Leaning(q) = hz - hr
      BY <3>2 DEF Leaning
    <3> HIDE DEF hl, hr, hz
    <3>4. CASE hz = hl
      BY <1>12, <3>2, <3>4 DEF Grown
    <3>5. CASE hz = hl + 1 /\ hl < hr
      <4>1. Tree!NodeHeight(q) = Tree!NodeHeight(t)
        BY <1>8, <1>12, <3>2, <3>5 DEF Tree!Higher
      <4> QED BY <4>1 DEF Grown
    <3>6. CASE hz = hl + 1 /\ ~ hl < hr
      <4>1. hl = hr
        BY <1>8, <1>11, <2>2, <3>6
      <4>2. Tree!NodeHeight(q) = Tree!NodeHeight(t) + 1
        BY <1>8, <1>12, <3>2, <3>6, <4>1 DEF Tree!Higher
      <4>3. Leaning(q) > 0
        BY <1>8, <3>3, <3>6, <4>1
      <4> QED BY <3>2, <4>2, <4>3 DEF Grown
    <3> QED BY <1>12, <3>4, <3>5, <3>6
  <2> QED BY <1>13, <2>1, <2>2
<1>17. Holds(q, Replaced(P, k, v)) /\ r.wasNew = ~ Has(P, k)
  <2>1. Without(P, k) = Without(A, k) \cup {Entry(t)} \cup B /\ (Has(P, k) <=> Has(A, k))
    BY <1>1, SidesOf
  <2>2. Replaced(P, k, v) = C \cup {Entry(t)} \cup B
    BY <2>1 DEF C, Replaced
  <2> QED BY <1>3, <1>15, <2>1, <2>2
<1> DEFINE i == [node |-> q, wasNew |-> r.wasNew]
<1>18. i.node = q /\ i.wasNew = r.wasNew
  OBVIOUS
<1>19. InsertedFrom(f, t, k, v) = i
  BY <1>7
<1> HIDE DEF i
<1> QED BY <1>16, <1>17, <1>18, <1>19 DEF Inserted

LEMMA InsertedRightwards ==
  ASSUME NEW t, NEW P, Holds(t, P), t # Tree!NoNode, NEW k \in TreeKeys, t.key < k, NEW v, NEW f,
         \A Q : Holds(t.right, Q) => Inserted(f[t.right], t.right, Q, k, v)
  PROVE  Inserted(InsertedFrom(f, t, k, v), t, P, k, v)
<1>1. PICK A, B : /\ Holds(t.left, A) /\ Holds(t.right, B) /\ Parted(t, A, B, P)
                  /\ Sized(t.left, A) /\ Sized(t.right, B) /\ \A p \in A \cup B : p.key \in TreeKeys
  BY Opened
<1>2. IsNode(t) /\ Weighed(t)
  BY HoldsBelow
<1> DEFINE r == f[t.right]
           z == r.node
           C == Replaced(B, k, v)
           n == [t EXCEPT !.right = z]
           q == Tree!Rebalance(n, Tree!InsertedAt(k, n.left, "right"), Tree!InsertedAt(k, n.right, "left"))
           hl == Tree!NodeHeight(t.right)
           hr == Tree!NodeHeight(t.left)
           hz == Tree!NodeHeight(z)
<1>3. Holds(z, C) /\ r.wasNew = ~ Has(B, k) /\ Grown(k, t.right, z)
  BY <1>1 DEF Inserted
<1>4. k \in Int /\ t.key \in Int /\ k # t.key /\ ~ k < t.key /\ t.key \in TreeKeys
  BY <1>1, KeysAssumption DEF TreeKeys, Parted
<1>5. /\ IsNode(n) /\ n.right = z /\ n.left = t.left /\ n.key = t.key /\ n.value = t.value
  <2> HIDE DEF z
  <2> QED BY ONLY <1>2 DEF IsNode
<1>6. Tree!WithChild(t, k, z) = n /\ Tree!Toward(t, k) = t.right
  BY <1>4 DEF Tree!WithChild, Tree!Toward
<1>7. InsertedFrom(f, t, k, v) = [node |-> q, wasNew |-> r.wasNew]
  BY <1>4, <1>6 DEF InsertedFrom
<1> HIDE DEF r, z, C, n, q
<1>8. hl \in Nat /\ hr \in Nat /\ hz \in Nat /\ hl - hr \in -1 .. 1
  <2>1. Leaning(t) \in -1 .. 1
    BY <1>2 DEF Weighed
  <2>2. hl \in Nat /\ hr \in Nat /\ hz \in Nat
    BY <1>1, <1>3, HoldsSized DEF Sized
  <2> QED BY <2>1, <2>2 DEF Leaning
<1>9. \A p \in C : t.key < p.key
  <2>1. \A p \in B : t.key < p.key
    BY <1>1 DEF Parted
  <2> QED BY <2>1 DEF C, Replaced, Without
<1>10. \A p \in A : p.key < t.key
  BY <1>1 DEF Parted
<1>11. Leaning(n) = hr - hz /\ Entry(n) = Entry(t)
  BY <1>5 DEF Leaning, Entry
<1>12. /\ Tree!NodeHeight(t) = Tree!Higher(hr, hl) + 1
       /\ hz = hl \/ hz = hl + 1
  BY <1>2, <1>3 DEF Weighed, Grown, Tree!NodeHeight
<1>13. Leaning(n) \in -2 .. 2 /\ Leaning(n) # 2
  BY <1>8, <1>11, <1>12
<1>14. ASSUME Leaning(n) = -2
       PROVE  /\ Tree!InsertedAt(k, n.right, "left") <=> Leaning(z) > 0
              /\ Leaning(z) # 0
              /\ hl = hr + 1 /\ hz = hl + 1
  <2>1. hz = hr + 2
    BY <1>8, <1>11, <1>14
  <2>2. hl = hr + 1 /\ hz = hl + 1
    BY <1>8, <1>12, <2>1
  <2>3. t.right # Tree!NoNode
    BY <1>8, <2>2 DEF Tree!NodeHeight
  <2>4. z # Tree!NoNode
    BY <1>8, <2>2 DEF Tree!NodeHeight
  <2>5. z.key \in Int /\ Leaning(z) \in Int
    <3>1. z.key \in TreeKeys /\ Tree!NodeHeight(z.left) \in Nat /\ Tree!NodeHeight(z.right) \in Nat
      BY <1>3, <2>4, LowerBelow
    <3> QED BY <3>1, KeysAssumption DEF TreeKeys, Leaning
  <2>6. (k < z.key /\ Leaning(z) > 0) \/ (z.key < k /\ Leaning(z) < 0)
    BY <1>3, <1>8, <2>2, <2>3 DEF Grown
  <2>7. Tree!InsertedAt(k, n.right, "left") <=> k <= z.key
    BY <1>5 DEF Tree!InsertedAt
  <2>8. (k <= z.key <=> Leaning(z) > 0) /\ Leaning(z) # 0
    BY <1>4, <2>5, <2>6
  <2> QED BY <2>2, <2>7, <2>8
<1>15. /\ Holds(q, A \cup {Entry(t)} \cup C)
       /\ Leaning(n) \in -1 .. 1 => q = Made(t.key, t.value, t.left, z)
       /\ Leaning(n) = -2 => Tree!NodeHeight(q) = hz
  <2> DEFINE in == Tree!InsertedAt(k, n.left, "right")
             out == Tree!InsertedAt(k, n.right, "left")
  <2>1. Leaning(n) = 2 => (in <=> Leaning(n.left) < 0)
    BY <1>5, <1>13, <1>14
  <2>2. Leaning(n) = -2 => (out <=> Leaning(n.right) > 0)
    BY <1>5, <1>13, <1>14
  <2> HIDE DEF in, out
  <2>3. q = Tree!Rebalance(n, in, out)
    BY DEF q, in, out
  <2>4. n.key \in TreeKeys
    BY <1>4, <1>5
  <2>5. Holds(n.left, A) /\ Holds(n.right, C)
    BY <1>1, <1>3, <1>5
  <2>6. (\A p \in A : p.key < n.key) /\ (\A p \in C : n.key < p.key)
    BY <1>5, <1>9, <1>10
  <2>9. IsNode(n) /\ Leaning(n) \in -2 .. 2 /\ Holds(n.left, A) /\ Holds(n.right, C)
    BY <1>5, <1>13, <2>5
  <2>7. /\ Holds(q, A \cup {Entry(n)} \cup C)
        /\ Leaning(n) \in -1 .. 1 => q = Made(n.key, n.value, n.left, n.right)
        /\ Leaning(n) = 2 =>
             Tree!NodeHeight(q) = Tree!NodeHeight(n.left) + (IF Leaning(n.left) = 0 THEN 1 ELSE 0)
        /\ Leaning(n) = -2 =>
             Tree!NodeHeight(q) = Tree!NodeHeight(n.right) + (IF Leaning(n.right) = 0 THEN 1 ELSE 0)
    BY ONLY <2>1, <2>2, <2>3, <2>4, <2>6, <2>9, Rebalanced
  <2>8. Leaning(n) = -2 => Tree!NodeHeight(q) = hz + 0
    BY <1>5, <1>14, <2>7
  <2> QED BY <1>5, <1>8, <1>11, <2>7, <2>8
<1>16. Grown(k, t, q)
  <2>1. CASE Leaning(n) = -2
    <3>1. Tree!NodeHeight(q) = hz /\ hl = hr + 1 /\ hz = hl + 1
      BY <1>14, <1>15, <2>1
    <3>2. Tree!NodeHeight(q) = Tree!NodeHeight(t)
      BY <1>8, <1>12, <3>1 DEF Tree!Higher
    <3> QED BY <3>2 DEF Grown
  <2>2. CASE Leaning(n) \in -1 .. 1
    <3>1. q = Made(t.key, t.value, t.left, z)
      BY <1>15, <2>2
    <3>2. /\ q.key = t.key /\ q.right = z /\ q.left = t.left
          /\ Tree!NodeHeight(q) = Tree!Higher(hr, hz) + 1
      BY <3>1, MadeIs
    <3>3. Leaning(q) = hr - hz
      BY <3>2 DEF Leaning
    <3> HIDE DEF hl, hr, hz
    <3>4. CASE hz = hl
      BY <1>12, <3>2, <3>4 DEF Grown
    <3>5. CASE hz = hl + 1 /\ hl < hr
      <4>1. Tree!NodeHeight(q) = Tree!NodeHeight(t)
        BY <1>8, <1>12, <3>2, <3>5 DEF Tree!Higher
      <4> QED BY <4>1 DEF Grown
    <3>6. CASE hz = hl + 1 /\ ~ hl < hr
      <4>1. hl = hr
        BY <1>8, <1>11, <2>2, <3>6
      <4>2. Tree!NodeHeight(q) = Tree!NodeHeight(t) + 1
        BY <1>8, <1>12, <3>2, <3>6, <4>1 DEF Tree!Higher
      <4>3. Leaning(q) < 0
        BY <1>8, <3>3, <3>6, <4>1
      <4> QED BY <3>2, <4>2, <4>3 DEF Grown
    <3> QED BY <1>12, <3>4, <3>5, <3>6
  <2> QED BY <1>13, <2>1, <2>2
<1>17. Holds(q, Replaced(P, k, v)) /\ r.wasNew = ~ Has(P, k)
  <2>1. Without(P, k) = A \cup {Entry(t)} \cup Without(B, k) /\ (Has(P, k) <=> Has(B, k))
    BY <1>1, SidesOf
  <2>2. Replaced(P, k, v) = A \cup {Entry(t)} \cup C
    BY <2>1 DEF C, Replaced
  <2> QED BY <1>3, <1>15, <2>1, <2>2
<1> DEFINE i == [node |-> q, wasNew |-> r.wasNew]
<1>18. i.node = q /\ i.wasNew = r.wasNew
  OBVIOUS
<1>19. InsertedFrom(f, t, k, v) = i
  BY <1>7
<1> HIDE DEF i
<1> QED BY <1>16, <1>17, <1>18, <1>19 DEF Inserted

\* A removal makes the tree lower by at most one.
Lowered(q, t) ==
  Tree!NodeHeight(q) = Tree!NodeHeight(t) \/ Tree!NodeHeight(q) = Tree!NodeHeight(t) - 1

Removed(r, t, P, k) ==
  /\ Holds(r.node, Without(P, k))
  /\ r.wasRemoved = Has(P, k)
  /\ Lowered(r.node, t)

LEMMA RemovedRebalanced ==
  ASSUME NEW n, IsNode(n), n.key \in TreeKeys, NEW A, NEW B, Holds(n.left, A), Holds(n.right, B),
         \A p \in A : p.key < n.key, \A p \in B : n.key < p.key,
         Leaning(n) \in -2 .. 2, NEW q, q = Tree!RebalanceRemoved(n),
         NEW hh, hh = Tree!Higher(Tree!NodeHeight(n.left), Tree!NodeHeight(n.right))
  PROVE  /\ Holds(q, A \cup {Entry(n)} \cup B)
         /\ Tree!NodeHeight(q) = hh \/ Tree!NodeHeight(q) = hh + 1
         /\ Leaning(n) \in -1 .. 1 => Tree!NodeHeight(q) = hh + 1
<1> DEFINE in == Tree!DeeperAt(n.left, "right")
           out == Tree!DeeperAt(n.right, "left")
<1>1. /\ Leaning(n) = 2 => (in <=> Leaning(n.left) < 0)
      /\ Leaning(n) = -2 => (out <=> Leaning(n.right) > 0)
  BY DEF Tree!DeeperAt, Tree!Balance, Leaning
<1> HIDE DEF in, out
<1>2. q = Tree!Rebalance(n, in, out)
  BY DEF Tree!RebalanceRemoved, in, out
<1>3. /\ Holds(q, A \cup {Entry(n)} \cup B)
      /\ Leaning(n) \in -1 .. 1 => q = Made(n.key, n.value, n.left, n.right)
      /\ Leaning(n) = 2 =>
           Tree!NodeHeight(q) = Tree!NodeHeight(n.left) + (IF Leaning(n.left) = 0 THEN 1 ELSE 0)
      /\ Leaning(n) = -2 =>
           Tree!NodeHeight(q) = Tree!NodeHeight(n.right) + (IF Leaning(n.right) = 0 THEN 1 ELSE 0)
  BY <1>1, <1>2, Rebalanced
<1> DEFINE nl == Tree!NodeHeight(n.left)
           nr == Tree!NodeHeight(n.right)
<1>4. nl \in Nat /\ nr \in Nat
  BY HoldsSized DEF Sized
<1>5. Leaning(n) \in -1 .. 1 => Tree!NodeHeight(q) = hh + 1
  BY <1>3, MadeIs
<1>6. Leaning(n) = nl - nr /\ hh = Tree!Higher(nl, nr)
  BY DEF Leaning
<1> HIDE DEF nl, nr
<1>7. (Leaning(n) = 2 => hh = nl) /\ (Leaning(n) = -2 => hh = nr)
  BY <1>4, <1>6 DEF Tree!Higher
<1>8. /\ Leaning(n) = 2 => Tree!NodeHeight(q) = nl \/ Tree!NodeHeight(q) = nl + 1
      /\ Leaning(n) = -2 => Tree!NodeHeight(q) = nr \/ Tree!NodeHeight(q) = nr + 1
  BY <1>3, <1>4 DEF nl, nr
<1> QED BY <1>3, <1>5, <1>7, <1>8

\* A node one of whose subtrees has been replaced by one as high or one lower.
LEMMA RemovedBelow ==
  ASSUME NEW t, NEW P, Holds(t, P), t # Tree!NoNode,
         NEW n, IsNode(n), n.key \in TreeKeys, NEW A, NEW B, Holds(n.left, A), Holds(n.right, B),
         \A p \in A : p.key < n.key, \A p \in B : n.key < p.key,
         \/ Lowered(n.left, t.left) /\ n.right = t.right
         \/ Lowered(n.right, t.right) /\ n.left = t.left,
         NEW q, q = Tree!RebalanceRemoved(n)
  PROVE  Holds(q, A \cup {Entry(n)} \cup B) /\ Lowered(q, t)
<1> DEFINE hl == Tree!NodeHeight(t.left)
           hr == Tree!NodeHeight(t.right)
           nl == Tree!NodeHeight(n.left)
           nr == Tree!NodeHeight(n.right)
           hh == Tree!Higher(nl, nr)
<1>1. IsNode(t) /\ Weighed(t)
  BY HoldsBelow
<1>2. hl \in Nat /\ hr \in Nat /\ nl \in Nat /\ nr \in Nat
  <2>1. Tree!NodeHeight(t.left) \in Nat /\ Tree!NodeHeight(t.right) \in Nat
    BY LowerBelow
  <2>2. Tree!NodeHeight(n.left) \in Nat /\ Tree!NodeHeight(n.right) \in Nat
    BY HoldsSized DEF Sized
  <2> QED BY <2>1, <2>2
<1>3. Tree!NodeHeight(t) = Tree!Higher(hl, hr) + 1 /\ hl - hr \in -1 .. 1
  BY <1>1 DEF Weighed, Leaning, Tree!NodeHeight
<1>4. \/ nr = hr /\ (nl = hl \/ nl = hl - 1)
      \/ nl = hl /\ (nr = hr \/ nr = hr - 1)
  BY DEF Lowered
<1>5. Leaning(n) = nl - nr
  BY DEF Leaning
<1>6. Leaning(n) \in -2 .. 2
  <2> HIDE DEF hl, hr, nl, nr
  <2> QED BY <1>2, <1>3, <1>4, <1>5
<1>7. /\ Holds(q, A \cup {Entry(n)} \cup B)
      /\ Tree!NodeHeight(q) = hh \/ Tree!NodeHeight(q) = hh + 1
      /\ Leaning(n) \in -1 .. 1 => Tree!NodeHeight(q) = hh + 1
  BY <1>6, RemovedRebalanced
<1>8. hh = IF nl > nr THEN nl ELSE nr
  BY DEF Tree!Higher
<1>9. Tree!NodeHeight(t) = (IF hl > hr THEN hl ELSE hr) + 1
  BY <1>3 DEF Tree!Higher
<1> HIDE DEF hl, hr, nl, nr, hh
<1>10. Lowered(q, t)
  <2>1. CASE Leaning(n) \in -1 .. 1
    BY <1>2, <1>4, <1>7, <1>8, <1>9, <2>1 DEF Lowered
  <2>2. CASE Leaning(n) \notin -1 .. 1
    <3>1. Leaning(n) = 2 \/ Leaning(n) = -2
      BY <1>6, <2>2
    <3>2. hh = Tree!NodeHeight(t) - 1
      BY <1>2, <1>3, <1>4, <1>5, <1>8, <1>9, <3>1
    <3>3. hh \in Int /\ Tree!NodeHeight(t) \in Int
      BY <1>2, <1>8, <1>9
    <3> QED BY <1>7, <3>2, <3>3 DEF Lowered
  <2> QED BY <2>1, <2>2
<1> QED BY <1>7, <1>10

LEMMA RemovedFromNull ==
  ASSUME NEW k \in TreeKeys, NEW f
  PROVE  Removed(RemovedFrom(f, Tree!NoNode)[k], Tree!NoNode, {}, k)
<1> DEFINE r == [node |-> Tree!NoNode, wasRemoved |-> FALSE]
<1>1. RemovedFrom(f, Tree!NoNode)[k] = r
  BY DEF RemovedFrom
<1>2. r.node = Tree!NoNode /\ r.wasRemoved = FALSE
  OBVIOUS
<1>3. Without({}, k) = {} /\ Has({}, k) = FALSE
  BY DEF Without, Has
<1> HIDE DEF r
<1> QED BY <1>1, <1>2, <1>3, HoldsNull DEF Removed, Lowered

LEMMA RemovedLeftwards ==
  ASSUME NEW t, NEW P, Holds(t, P), t # Tree!NoNode, NEW k \in TreeKeys, k < t.key, NEW f,
         \A Q : Holds(t.left, Q) => Removed(f[t.left][k], t.left, Q, k)
  PROVE  Removed(RemovedFrom(f, t)[k], t, P, k)
<1>1. PICK A, B : /\ Holds(t.left, A) /\ Holds(t.right, B) /\ Parted(t, A, B, P)
                  /\ Sized(t.left, A) /\ Sized(t.right, B) /\ \A p \in A \cup B : p.key \in TreeKeys
  BY Opened
<1>2. IsNode(t)
  BY HoldsBelow
<1> DEFINE r == f[t.left][k]
           z == r.node
           C == Without(A, k)
           n == [t EXCEPT !.left = z]
           q == Tree!RebalanceRemoved(n)
<1>3. Holds(z, C) /\ r.wasRemoved = Has(A, k) /\ Lowered(z, t.left)
  BY <1>1 DEF Removed
<1>4. k # t.key /\ ~ t.key < k /\ t.key \in TreeKeys
  BY <1>1, KeysAssumption DEF TreeKeys, Parted
<1>5. /\ IsNode(n) /\ n.left = z /\ n.right = t.right /\ n.key = t.key /\ n.value = t.value
  <2> HIDE DEF z
  <2> QED BY ONLY <1>2 DEF IsNode
<1>6. Tree!WithChild(t, k, z) = n /\ Tree!Toward(t, k) = t.left
  BY <1>4 DEF Tree!WithChild, Tree!Toward
<1>7. RemovedFrom(f, t)[k] = [node |-> q, wasRemoved |-> r.wasRemoved]
  BY <1>4, <1>6 DEF RemovedFrom
<1> HIDE DEF r, z, C, n, q
<1>8. (\A p \in C : p.key < n.key) /\ (\A p \in B : n.key < p.key)
  BY <1>1, <1>5 DEF C, Without, Parted
<1>9. Holds(q, C \cup {Entry(n)} \cup B) /\ Lowered(q, t)
  <2>1. Holds(n.left, C) /\ Holds(n.right, B) /\ n.key \in TreeKeys
    BY <1>1, <1>3, <1>4, <1>5
  <2>2. Lowered(n.left, t.left) /\ n.right = t.right
    BY <1>3, <1>5
  <2>3. q = Tree!RebalanceRemoved(n)
    BY DEF q
  <2> QED BY <1>5, <1>8, <2>1, <2>2, <2>3, RemovedBelow
<1>10. Holds(q, Without(P, k)) /\ r.wasRemoved = Has(P, k)
  <2>1. Without(P, k) = Without(A, k) \cup {Entry(t)} \cup B /\ (Has(P, k) <=> Has(A, k))
    BY <1>1, SidesOf
  <2>2. Entry(n) = Entry(t)
    BY <1>5 DEF Entry
  <2>3. Has(P, k) = Has(A, k)
    BY <2>1 DEF Has
  <2> QED BY <1>3, <1>9, <2>1, <2>2, <2>3 DEF C
<1> DEFINE i == [node |-> q, wasRemoved |-> r.wasRemoved]
<1>11. i.node = q /\ i.wasRemoved = r.wasRemoved
  OBVIOUS
<1>12. RemovedFrom(f, t)[k] = i
  BY <1>7
<1> HIDE DEF i
<1> QED BY <1>9, <1>10, <1>11, <1>12 DEF Removed

LEMMA RemovedRightwards ==
  ASSUME NEW t, NEW P, Holds(t, P), t # Tree!NoNode, NEW k \in TreeKeys, t.key < k, NEW f,
         \A Q : Holds(t.right, Q) => Removed(f[t.right][k], t.right, Q, k)
  PROVE  Removed(RemovedFrom(f, t)[k], t, P, k)
<1>1. PICK A, B : /\ Holds(t.left, A) /\ Holds(t.right, B) /\ Parted(t, A, B, P)
                  /\ Sized(t.left, A) /\ Sized(t.right, B) /\ \A p \in A \cup B : p.key \in TreeKeys
  BY Opened
<1>2. IsNode(t)
  BY HoldsBelow
<1> DEFINE r == f[t.right][k]
           z == r.node
           C == Without(B, k)
           n == [t EXCEPT !.right = z]
           q == Tree!RebalanceRemoved(n)
<1>3. Holds(z, C) /\ r.wasRemoved = Has(B, k) /\ Lowered(z, t.right)
  BY <1>1 DEF Removed
<1>4. k # t.key /\ ~ k < t.key /\ t.key \in TreeKeys
  BY <1>1, KeysAssumption DEF TreeKeys, Parted
<1>5. /\ IsNode(n) /\ n.right = z /\ n.left = t.left /\ n.key = t.key /\ n.value = t.value
  <2> HIDE DEF z
  <2> QED BY ONLY <1>2 DEF IsNode
<1>6. Tree!WithChild(t, k, z) = n /\ Tree!Toward(t, k) = t.right
  BY <1>4 DEF Tree!WithChild, Tree!Toward
<1>7. RemovedFrom(f, t)[k] = [node |-> q, wasRemoved |-> r.wasRemoved]
  BY <1>4, <1>6 DEF RemovedFrom
<1> HIDE DEF r, z, C, n, q
<1>8. (\A p \in A : p.key < n.key) /\ (\A p \in C : n.key < p.key)
  BY <1>1, <1>5 DEF C, Without, Parted
<1>9. Holds(q, A \cup {Entry(n)} \cup C) /\ Lowered(q, t)
  <2>1. Holds(n.left, A) /\ Holds(n.right, C) /\ n.key \in TreeKeys
    BY <1>1, <1>3, <1>4, <1>5
  <2>2. Lowered(n.right, t.right) /\ n.left = t.left
    BY <1>3, <1>5
  <2>3. q = Tree!RebalanceRemoved(n)
    BY DEF q
  <2> QED BY <1>5, <1>8, <2>1, <2>2, <2>3, RemovedBelow
<1>10. Holds(q, Without(P, k)) /\ r.wasRemoved = Has(P, k)
  <2>1. Without(P, k) = A \cup {Entry(t)} \cup Without(B, k) /\ (Has(P, k) <=> Has(B, k))
    BY <1>1, SidesOf
  <2>2. Entry(n) = Entry(t)
    BY <1>5 DEF Entry
  <2>3. Has(P, k) = Has(B, k)
    BY <2>1 DEF Has
  <2> QED BY <1>3, <1>9, <2>1, <2>2, <2>3 DEF C
<1> DEFINE i == [node |-> q, wasRemoved |-> r.wasRemoved]
<1>11. i.node = q /\ i.wasRemoved = r.wasRemoved
  OBVIOUS
<1>12. RemovedFrom(f, t)[k] = i
  BY <1>7
<1> HIDE DEF i
<1> QED BY <1>9, <1>10, <1>11, <1>12 DEF Removed

LEMMA MinValueNodeIsLeast ==
  ASSUME size \in Nat, NEW u, NEW P, Holds(u, P), Tree!NodeHeight(u) <= size, u # Tree!NoNode,
         NEW s, s = Tree!MinValueNode(u)
  PROVE  Entry(s) \in P /\ s.key \in TreeKeys /\ \A p \in P : p = Entry(s) \/ s.key < p.key
<1> DEFINE S == Tree!Subtrees(u) \ {Tree!NoNode}
           Least(n, Q) == Entry(n) \in Q /\ n.key \in TreeKeys /\ \A p \in Q : p = Entry(n) \/ n.key < p.key
<1>1. PICK f : Tree!MinValueNode(u) = f[u] /\ \A t \in S : f[t] = LeastFrom(f, t)
  BY MinValueNodeIs
<1> DEFINE Met(m) == \A t \in S : \A Q : Holds(t, Q) /\ Tree!NodeHeight(t) = m => Least(f[t], Q)
           T == {m \in Nat : ~ Met(m)}
<1>2. T = {}
  <2> HIDE DEF Met
  <2>1. SUFFICES ASSUME T # {} PROVE FALSE
    OBVIOUS
  <2>2. PICK m \in T : \A y \in T : m <= y
    <3>1. T \in SUBSET Nat
      OBVIOUS
    <3> HIDE DEF T
    <3> QED BY <2>1, <3>1, LeastMember
  <2>3. m \in Nat /\ \A y \in 0 .. m - 1 : Met(y)
    BY <2>2
  <2>4. Met(m)
    <3>1. SUFFICES ASSUME NEW t \in S, NEW Q, Holds(t, Q), Tree!NodeHeight(t) = m
                   PROVE  Least(f[t], Q)
      BY DEF Met
    <3>2. PICK A, B : /\ Holds(t.left, A) /\ Holds(t.right, B) /\ Parted(t, A, B, Q)
                      /\ Sized(t.left, A) /\ Sized(t.right, B) /\ \A p \in A \cup B : p.key \in TreeKeys
      BY <3>1, Opened
    <3>3. /\ t.left \in Tree!Subtrees(u) /\ Tree!NodeHeight(t.left) < Tree!NodeHeight(t)
          /\ Tree!NodeHeight(t.left) \in Nat
      BY <3>1, <3>2, LowerIn DEF Sized
    <3>4. f[t] = IF t.left = Tree!NoNode THEN t ELSE f[t.left]
      BY <1>1 DEF LeastFrom
    <3>5. Entry(t).key = t.key
      BY DEF Entry
    <3>6. CASE t.left = Tree!NoNode
      <4>1. A = {}
        BY <3>2, <3>6, HoldsOnlyNull
      <4> QED BY <3>2, <3>4, <3>6, <4>1 DEF Parted
    <3>7. CASE t.left # Tree!NoNode
      <4>1. Met(Tree!NodeHeight(t.left))
        BY <2>3, <3>1, <3>3
      <4>2. Least(f[t.left], A)
        BY <3>2, <3>3, <3>7, <4>1 DEF Met
      <4> DEFINE n == f[t.left]
      <4>3. Entry(n).key = n.key
        BY DEF Entry
      <4> HIDE DEF n
      <4>4. /\ Entry(n) \in A /\ n.key \in TreeKeys /\ \A p \in A : p = Entry(n) \/ n.key < p.key
        BY <4>2 DEF n
      <4>5. n.key < t.key
        BY <3>2, <4>3, <4>4 DEF Parted
      <4>6. n.key \in Int /\ t.key \in Int /\ \A p \in B : p.key \in Int
        BY <3>2, <4>4, KeysAssumption DEF TreeKeys, Parted
      <4>7. \A p \in B \cup {Entry(t)} : n.key < p.key
        BY <3>2, <3>5, <4>5, <4>6 DEF Parted
      <4>8. Least(n, Q)
        BY <3>2, <4>4, <4>7 DEF Parted
      <4> QED BY <3>4, <3>7, <4>8 DEF n
    <3> QED BY <3>6, <3>7
  <2> QED BY <2>2, <2>4
<1>3. u \in S /\ Tree!NodeHeight(u) \in Nat
  BY SubtreesAre, HoldsSized DEF Sized
<1>4. Met(Tree!NodeHeight(u))
  <2> HIDE DEF Met
  <2> QED BY <1>2, <1>3
<1> QED BY <1>1, <1>3, <1>4

\* A node with the entry of its successor.
LEMMA SucceededIs ==
  ASSUME NEW t, IsNode(t), NEW s, NEW z, NEW n, n = Tree!Succeeded(t, s, z), NEW k, k = s.key, NEW v, v = s.value
  PROVE  IsNode(n) /\ n.left = t.left /\ n.right = z /\ n.key = k /\ n.value = v
<1> DEFINE u == [t EXCEPT !.key = k]
           w == [u EXCEPT !.value = v]
<1>1. u = [key |-> k, value |-> t.value, height |-> t.height, left |-> t.left, right |-> t.right]
  BY DEF IsNode
<1>2. IsNode(u) /\ u.left = t.left /\ u.key = k
  BY <1>1 DEF IsNode
<1> HIDE DEF u
<1>3. w = [key |-> u.key, value |-> v, height |-> u.height, left |-> u.left, right |-> u.right]
  BY <1>2 DEF IsNode
<1>4. IsNode(w) /\ w.left = t.left /\ w.key = k /\ w.value = v
  BY <1>2, <1>3 DEF IsNode
<1> HIDE DEF w
<1>5. n = [w EXCEPT !.right = z]
  <2>1. [t EXCEPT !.key = k, !.value = v, !.right = z] = [w EXCEPT !.right = z]
    BY ONLY DEF w, u
  <2>2. Tree!Succeeded(t, s, z) = [t EXCEPT !.key = k, !.value = v, !.right = z]
    BY ONLY k = s.key, v = s.value DEF Tree!Succeeded
  <2> QED BY ONLY <2>1, <2>2, n = Tree!Succeeded(t, s, z)
<1> DEFINE o == [w EXCEPT !.right = z]
<1>6. IsNode(o) /\ o.left = w.left /\ o.right = z /\ o.key = w.key /\ o.value = w.value
  BY ONLY <1>4 DEF IsNode
<1> HIDE DEF o
<1>7. n = o
  BY <1>5 DEF o
<1> QED BY ONLY <1>4, <1>6, <1>7

LEMMA RemovedHere ==
  ASSUME size \in Nat, NEW t, NEW P, Holds(t, P), t # Tree!NoNode, Tree!NodeHeight(t) <= size,
         NEW k \in TreeKeys, k = t.key, NEW f,
         \A Q, y : Holds(t.right, Q) /\ y \in TreeKeys => Removed(f[t.right][y], t.right, Q, y)
  PROVE  Removed(RemovedFrom(f, t)[k], t, P, k)
<1>1. PICK A, B : /\ Holds(t.left, A) /\ Holds(t.right, B) /\ Parted(t, A, B, P)
                  /\ Sized(t.left, A) /\ Sized(t.right, B) /\ \A p \in A \cup B : p.key \in TreeKeys
  BY Opened
<1>2. IsNode(t) /\ Weighed(t)
  BY HoldsBelow
<1>3. Without(P, k) = A \cup B /\ Has(P, k) = TRUE
  BY <1>1, SidesOf DEF Has
<1> DEFINE hl == Tree!NodeHeight(t.left)
           hr == Tree!NodeHeight(t.right)
<1>4. /\ hl \in Nat /\ hr \in Nat /\ hl - hr \in -1 .. 1
      /\ Tree!NodeHeight(t) = Tree!Higher(hl, hr) + 1
  <2>1. Tree!NodeHeight(t.left) \in Nat /\ Tree!NodeHeight(t.right) \in Nat
    BY LowerBelow
  <2> QED BY <1>2, <2>1 DEF Weighed, Leaning, Tree!NodeHeight
<1>5. Tree!NodeHeight(Tree!NoNode) = 0
  BY DEF Tree!NodeHeight
<1>6. ASSUME NEW z, Holds(z, A \cup B), Lowered(z, t), NEW r, r = [node |-> z, wasRemoved |-> TRUE],
             RemovedFrom(f, t)[k] = r
      PROVE  Removed(RemovedFrom(f, t)[k], t, P, k)
  <2>1. r.node = z /\ r.wasRemoved = TRUE
    BY <1>6
  <2> QED BY <1>3, <1>6, <2>1 DEF Removed
<1>7. CASE t.left = Tree!NoNode
  <2>1. RemovedFrom(f, t)[k] = [node |-> t.right, wasRemoved |-> TRUE]
    BY <1>7 DEF RemovedFrom
  <2>2. A = {}
    BY <1>1, <1>7, HoldsOnlyNull
  <2>3. hl = 0
    BY <1>5, <1>7
  <2> HIDE DEF hl, hr
  <2>4. Tree!NodeHeight(t) = hr + 1
    BY <1>4, <2>3 DEF Tree!Higher
  <2>5. Lowered(t.right, t)
    BY <1>4, <2>4 DEF Lowered, hr
  <2> QED BY <1>1, <1>6, <2>1, <2>2, <2>5
<1>8. CASE t.left # Tree!NoNode /\ t.right = Tree!NoNode
  <2>1. RemovedFrom(f, t)[k] = [node |-> t.left, wasRemoved |-> TRUE]
    BY <1>8 DEF RemovedFrom
  <2>2. B = {}
    BY <1>1, <1>8, HoldsOnlyNull
  <2>3. hr = 0
    BY <1>5, <1>8
  <2> HIDE DEF hl, hr
  <2>4. Tree!NodeHeight(t) = hl + 1
    BY <1>4, <2>3 DEF Tree!Higher
  <2>5. Lowered(t.left, t)
    BY <1>4, <2>4 DEF Lowered, hl
  <2> QED BY <1>1, <1>6, <2>1, <2>2, <2>5
<1>9. CASE t.left # Tree!NoNode /\ t.right # Tree!NoNode
  <2> DEFINE s == Tree!MinValueNode(t.right)
             z == f[t.right][s.key].node
             C == Without(B, s.key)
             n == Tree!Succeeded(t, s, z)
             q == Tree!RebalanceRemoved(n)
  <2>1. RemovedFrom(f, t)[k] = [node |-> q, wasRemoved |-> TRUE]
    BY <1>9 DEF RemovedFrom, Tree!Succeeded
  <2> HIDE DEF s, z, C, n, q
  <2>2. Entry(s) \in B /\ s.key \in TreeKeys /\ \A p \in B : p = Entry(s) \/ s.key < p.key
    <3>1. Tree!NodeHeight(t.right) <= size
      <4>1. hr <= Tree!NodeHeight(t) /\ Tree!NodeHeight(t) \in Nat
        <5> HIDE DEF hl, hr
        <5> QED BY <1>4 DEF Tree!Higher
      <4> QED BY <1>4, <4>1
    <3> QED BY <1>1, <1>9, <3>1, MinValueNodeIsLeast DEF s
  <2>3. Holds(z, C) /\ Lowered(z, t.right)
    BY <1>1, <2>2 DEF Removed, z, C
  <2>4. /\ IsNode(n) /\ n.left = t.left /\ n.right = z /\ n.key = s.key /\ n.value = s.value
    <3>1. n = Tree!Succeeded(t, s, z)
      BY DEF n
    <3> QED BY <1>2, <3>1, SucceededIs
  <2>5. Entry(s).key = s.key /\ Entry(n) = Entry(s)
    BY <2>4 DEF Entry
  <2>6. \A p \in A : p.key < n.key
    <3>1. t.key < s.key
      BY <1>1, <2>2, <2>5 DEF Parted
    <3>2. t.key \in Int /\ s.key \in Int /\ \A p \in A : p.key \in Int /\ p.key < t.key
      BY <1>1, <2>2, KeysAssumption DEF TreeKeys, Parted
    <3> QED BY <2>4, <3>1, <3>2
  <2>7. \A p \in C : n.key < p.key
    BY <2>2, <2>4, <2>5 DEF C, Without
  <2>8. C = B \ {Entry(s)}
    <3>1. \A p \in B : p.key = s.key => p = Entry(s)
      BY <1>1, <2>2, <2>5 DEF Sized
    <3> QED BY <2>5, <3>1 DEF C, Without
  <2>9. Holds(q, A \cup {Entry(n)} \cup C) /\ Lowered(q, t)
    <3>1. n.key \in TreeKeys /\ Holds(n.left, A) /\ Holds(n.right, C)
      BY <1>1, <2>2, <2>3, <2>4
    <3>2. Lowered(n.right, t.right) /\ n.left = t.left
      BY <2>3, <2>4
    <3>3. q = Tree!RebalanceRemoved(n)
      BY DEF q
    <3> QED BY <2>4, <2>6, <2>7, <3>1, <3>2, <3>3, RemovedBelow
  <2>10. A \cup {Entry(n)} \cup C = A \cup B
    BY <2>2, <2>5, <2>8
  <2> QED BY <1>6, <2>1, <2>9, <2>10
<1> QED BY <1>7, <1>8, <1>9

LEMMA InsertNodeInserts ==
  ASSUME size \in Nat, NEW u, NEW P, Holds(u, P), Tree!NodeHeight(u) <= size, NEW k \in TreeKeys, NEW v
  PROVE  Inserted(Tree!InsertNode(u, k, v), u, P, k, v)
<1>1. PICK f : Tree!InsertNode(u, k, v) = f[u] /\ \A t \in Tree!Subtrees(u) : f[t] = InsertedFrom(f, t, k, v)
  BY InsertNodeIs
<1> DEFINE S == Tree!Subtrees(u)
           Met(m) == \A t \in S : \A Q : Holds(t, Q) /\ Tree!NodeHeight(t) = m => Inserted(f[t], t, Q, k, v)
           T == {m \in Nat : ~ Met(m)}
<1>2. T = {}
  <2> HIDE DEF Met
  <2>1. SUFFICES ASSUME T # {} PROVE FALSE
    OBVIOUS
  <2>2. PICK m \in T : \A y \in T : m <= y
    <3>1. T \in SUBSET Nat
      OBVIOUS
    <3> HIDE DEF T
    <3> QED BY <2>1, <3>1, LeastMember
  <2>3. m \in Nat /\ \A y \in 0 .. m - 1 : Met(y)
    BY <2>2
  <2>4. Met(m)
    <3>1. SUFFICES ASSUME NEW t \in S, NEW Q, Holds(t, Q), Tree!NodeHeight(t) = m
                   PROVE  Inserted(f[t], t, Q, k, v)
      BY DEF Met
    <3>2. f[t] = InsertedFrom(f, t, k, v)
      BY <1>1
    <3>3. /\ Tree!NodeHeight(t) \in Nat /\ Tree!NodeHeight(t) <= Tree!NodeHeight(u)
          /\ t # Tree!NoNode =>
               /\ t.left \in S /\ Tree!NodeHeight(t.left) < m
               /\ t.right \in S /\ Tree!NodeHeight(t.right) < m
      BY <3>1, LowerIn
    <3>4. CASE t = Tree!NoNode
      <4>1. Q = {}
        BY <3>1, <3>4, HoldsOnlyNull
      <4> QED BY <3>2, <3>4, <4>1, InsertedIntoNull
    <3>5. CASE t # Tree!NoNode
      <4>1. PICK A, B : /\ Holds(t.left, A) /\ Holds(t.right, B) /\ Parted(t, A, B, Q)
                        /\ Sized(t.left, A) /\ Sized(t.right, B) /\ \A p \in A \cup B : p.key \in TreeKeys
        BY <3>1, <3>5, Opened
      <4>2. Met(Tree!NodeHeight(t.left)) /\ Met(Tree!NodeHeight(t.right))
        BY <2>3, <3>3, <3>5, <4>1 DEF Sized
      <4>3. /\ \A C : Holds(t.left, C) => Inserted(f[t.left], t.left, C, k, v)
            /\ \A C : Holds(t.right, C) => Inserted(f[t.right], t.right, C, k, v)
        BY <3>3, <3>5, <4>2 DEF Met
      <4>4. k \in Int /\ t.key \in Int
        BY <4>1, KeysAssumption DEF TreeKeys, Parted
      <4>5. CASE k = t.key
        BY <3>1, <3>2, <3>5, <4>5, InsertedHere
      <4>6. CASE k < t.key
        BY <3>1, <3>2, <3>5, <4>3, <4>6, InsertedLeftwards
      <4>7. CASE t.key < k
        BY <3>1, <3>2, <3>5, <4>3, <4>7, InsertedRightwards
      <4> QED BY <4>4, <4>5, <4>6, <4>7
    <3> QED BY <3>4, <3>5
  <2> QED BY <2>2, <2>4
<1>3. u \in S /\ Tree!NodeHeight(u) \in Nat
  BY SubtreesAre, HoldsSized DEF Sized
<1>4. Met(Tree!NodeHeight(u))
  <2> HIDE DEF Met
  <2> QED BY <1>2, <1>3
<1> QED BY <1>1, <1>3, <1>4

LEMMA RemoveNodeRemoves ==
  ASSUME size \in Nat, NEW u, NEW P, Holds(u, P), Tree!NodeHeight(u) <= size, NEW c \in TreeKeys
  PROVE  Removed(Tree!RemoveNode(u, c), u, P, c)
<1>1. PICK f : Tree!RemoveNode(u, c) = f[u][c] /\ \A t \in Tree!Subtrees(u) : f[t] = RemovedFrom(f, t)
  BY RemoveNodeIs
<1> DEFINE S == Tree!Subtrees(u)
           Met(m) == \A t \in S : \A Q : Holds(t, Q) /\ Tree!NodeHeight(t) = m => \A k \in TreeKeys : Removed(f[t][k], t, Q, k)
           T == {m \in Nat : ~ Met(m)}
<1>2. T = {}
  <2> HIDE DEF Met
  <2>1. SUFFICES ASSUME T # {} PROVE FALSE
    OBVIOUS
  <2>2. PICK m \in T : \A y \in T : m <= y
    <3>1. T \in SUBSET Nat
      OBVIOUS
    <3> HIDE DEF T
    <3> QED BY <2>1, <3>1, LeastMember
  <2>3. m \in Nat /\ \A y \in 0 .. m - 1 : Met(y)
    BY <2>2
  <2>4. Met(m)
    <3>1. SUFFICES ASSUME NEW t \in S, NEW Q, Holds(t, Q), Tree!NodeHeight(t) = m, NEW k \in TreeKeys
                   PROVE  Removed(f[t][k], t, Q, k)
      BY DEF Met
    <3>2. f[t] = RemovedFrom(f, t)
      BY <1>1
    <3>3. /\ Tree!NodeHeight(t) \in Nat /\ Tree!NodeHeight(t) <= Tree!NodeHeight(u)
          /\ t # Tree!NoNode =>
               /\ t.left \in S /\ Tree!NodeHeight(t.left) < m
               /\ t.right \in S /\ Tree!NodeHeight(t.right) < m
      BY <3>1, LowerIn
    <3>4. CASE t = Tree!NoNode
      <4>1. Q = {}
        BY <3>1, <3>4, HoldsOnlyNull
      <4> QED BY <3>2, <3>4, <4>1, RemovedFromNull
    <3>5. CASE t # Tree!NoNode
      <4>1. PICK A, B : /\ Holds(t.left, A) /\ Holds(t.right, B) /\ Parted(t, A, B, Q)
                        /\ Sized(t.left, A) /\ Sized(t.right, B) /\ \A p \in A \cup B : p.key \in TreeKeys
        BY <3>1, <3>5, Opened
      <4>2. Met(Tree!NodeHeight(t.left)) /\ Met(Tree!NodeHeight(t.right))
        BY <2>3, <3>3, <3>5, <4>1 DEF Sized
      <4>3. /\ \A C : Holds(t.left, C) => \A y \in TreeKeys : Removed(f[t.left][y], t.left, C, y)
            /\ \A C : Holds(t.right, C) => \A y \in TreeKeys : Removed(f[t.right][y], t.right, C, y)
        BY <3>3, <3>5, <4>2 DEF Met
      <4>4. k \in Int /\ t.key \in Int
        BY <4>1, KeysAssumption DEF TreeKeys, Parted
      <4>5. CASE k = t.key
        <5>1. Tree!NodeHeight(t) <= size
          <6>1. Tree!NodeHeight(u) \in Nat
            BY HoldsSized DEF Sized
          <6> QED BY <3>3, <6>1
        <5> QED BY <3>1, <3>2, <3>5, <4>3, <4>5, <5>1, RemovedHere
      <4>6. CASE k < t.key
        BY <3>1, <3>2, <3>5, <4>3, <4>6, RemovedLeftwards
      <4>7. CASE t.key < k
        BY <3>1, <3>2, <3>5, <4>3, <4>7, RemovedRightwards
      <4> QED BY <4>4, <4>5, <4>6, <4>7
    <3> QED BY <3>4, <3>5
  <2> QED BY <2>2, <2>4
<1>3. u \in S /\ Tree!NodeHeight(u) \in Nat
  BY SubtreesAre, HoldsSized DEF Sized
<1>4. Met(Tree!NodeHeight(u))
  <2> HIDE DEF Met
  <2> QED BY <1>2, <1>3
<1> QED BY <1>1, <1>3, <1>4

\* The values a dictionary with these entries has for a key: one or none.
ValuesOf(P, k) == {p.value : p \in {o \in P : o.key = k}}

LEMMA SearchIsRight ==
  ASSUME size \in Nat, NEW u, NEW P, Holds(u, P), Tree!NodeHeight(u) <= size, NEW k \in TreeKeys
  PROVE  Tree!Search(u, k) = ValuesOf(P, k)
<1>1. PICK f : Tree!Search(u, k) = f[u] /\ \A t \in Tree!Subtrees(u) : f[t] = FoundFrom(f, t, k)
  BY SearchIs
<1> DEFINE S == Tree!Subtrees(u)
           Met(m) == \A t \in S : \A Q : Holds(t, Q) /\ Tree!NodeHeight(t) = m => f[t] = ValuesOf(Q, k)
           T == {m \in Nat : ~ Met(m)}
<1>2. T = {}
  <2> HIDE DEF Met
  <2>1. SUFFICES ASSUME T # {} PROVE FALSE
    OBVIOUS
  <2>2. PICK m \in T : \A y \in T : m <= y
    <3>1. T \in SUBSET Nat
      OBVIOUS
    <3> HIDE DEF T
    <3> QED BY <2>1, <3>1, LeastMember
  <2>3. m \in Nat /\ \A y \in 0 .. m - 1 : Met(y)
    BY <2>2
  <2>4. Met(m)
    <3>1. SUFFICES ASSUME NEW t \in S, NEW Q, Holds(t, Q), Tree!NodeHeight(t) = m
                   PROVE  f[t] = ValuesOf(Q, k)
      BY DEF Met
    <3>2. f[t] = FoundFrom(f, t, k)
      BY <1>1
    <3>3. /\ Tree!NodeHeight(t) \in Nat /\ Tree!NodeHeight(t) <= Tree!NodeHeight(u)
          /\ t # Tree!NoNode =>
               /\ t.left \in S /\ Tree!NodeHeight(t.left) < m
               /\ t.right \in S /\ Tree!NodeHeight(t.right) < m
      BY <3>1, LowerIn
    <3>4. CASE t = Tree!NoNode
      <4>1. Q = {}
        BY <3>1, <3>4, HoldsOnlyNull
      <4> QED BY <3>2, <3>4, <4>1 DEF FoundFrom, ValuesOf
    <3>5. CASE t # Tree!NoNode
      <4>1. PICK A, B : /\ Holds(t.left, A) /\ Holds(t.right, B) /\ Parted(t, A, B, Q)
                        /\ Sized(t.left, A) /\ Sized(t.right, B) /\ \A p \in A \cup B : p.key \in TreeKeys
        BY <3>1, <3>5, Opened
      <4>2. Met(Tree!NodeHeight(t.left)) /\ Met(Tree!NodeHeight(t.right))
        BY <2>3, <3>3, <3>5, <4>1 DEF Sized
      <4>3. /\ \A C : Holds(t.left, C) => f[t.left] = ValuesOf(C, k)
            /\ \A C : Holds(t.right, C) => f[t.right] = ValuesOf(C, k)
        BY <3>3, <3>5, <4>2 DEF Met
      <4>4. k \in Int /\ t.key \in Int
        BY <4>1, KeysAssumption DEF TreeKeys, Parted
      <4>5. Entry(t).key = t.key /\ Entry(t).value = t.value
        BY DEF Entry
      <4>6. /\ \A p \in A : p.key \in Int /\ p.key < t.key
            /\ \A p \in B : p.key \in Int /\ t.key < p.key
            /\ Q = A \cup {Entry(t)} \cup B
        BY <4>1, KeysAssumption DEF TreeKeys, Parted
      <4>7. CASE k = t.key
        <5>1. {o \in Q : o.key = k} = {Entry(t)}
          BY <4>4, <4>5, <4>6, <4>7
        <5>2. f[t] = {t.value}
          BY <3>2, <3>5, <4>7 DEF FoundFrom
        <5> QED BY <4>5, <5>1, <5>2 DEF ValuesOf
      <4>8. CASE k < t.key
        <5>1. {o \in Q : o.key = k} = {o \in A : o.key = k}
          BY <4>4, <4>5, <4>6, <4>8
        <5>2. f[t] = f[t.left]
          BY <3>2, <3>5, <4>4, <4>8 DEF FoundFrom, Tree!Toward
        <5> QED BY <4>1, <4>3, <5>1, <5>2 DEF ValuesOf
      <4>9. CASE t.key < k
        <5>1. {o \in Q : o.key = k} = {o \in B : o.key = k}
          BY <4>4, <4>5, <4>6, <4>9
        <5>2. f[t] = f[t.right]
          BY <3>2, <3>5, <4>4, <4>9 DEF FoundFrom, Tree!Toward
        <5> QED BY <4>1, <4>3, <5>1, <5>2 DEF ValuesOf
      <4> QED BY <4>4, <4>7, <4>8, <4>9
    <3> QED BY <3>4, <3>5
  <2> QED BY <2>2, <2>4
<1>3. u \in S /\ Tree!NodeHeight(u) \in Nat
  BY SubtreesAre, HoldsSized DEF Sized
<1>4. Met(Tree!NodeHeight(u))
  <2> HIDE DEF Met
  <2> QED BY <1>2, <1>3
<1> QED BY <1>1, <1>3, <1>4

LEMMA HeightsAreTrue ==
  ASSUME size \in Nat, NEW u, NEW P, Holds(u, P), Tree!NodeHeight(u) <= size
  PROVE  \A t \in Tree!Subtrees(u) : HeightsOf(u)[t] = Tree!NodeHeight(t)
<1>1. PICK f : HeightsOf(u) = f /\ \A t \in Tree!Subtrees(u) : f[t] = HeightFrom(f, t)
  BY HeightsAre
<1> DEFINE S == Tree!Subtrees(u)
           Met(m) == \A t \in S : \A Q : Holds(t, Q) /\ Tree!NodeHeight(t) = m => f[t] = Tree!NodeHeight(t)
           T == {m \in Nat : ~ Met(m)}
<1>2. T = {}
  <2> HIDE DEF Met
  <2>1. SUFFICES ASSUME T # {} PROVE FALSE
    OBVIOUS
  <2>2. PICK m \in T : \A y \in T : m <= y
    <3>1. T \in SUBSET Nat
      OBVIOUS
    <3> HIDE DEF T
    <3> QED BY <2>1, <3>1, LeastMember
  <2>3. m \in Nat /\ \A y \in 0 .. m - 1 : Met(y)
    BY <2>2
  <2>4. Met(m)
    <3>1. SUFFICES ASSUME NEW t \in S, NEW Q, Holds(t, Q), Tree!NodeHeight(t) = m
                   PROVE  f[t] = Tree!NodeHeight(t)
      BY DEF Met
    <3>2. f[t] = HeightFrom(f, t)
      BY <1>1
    <3>3. /\ Tree!NodeHeight(t) \in Nat /\ Tree!NodeHeight(t) <= Tree!NodeHeight(u)
          /\ t # Tree!NoNode =>
               /\ t.left \in S /\ Tree!NodeHeight(t.left) < m
               /\ t.right \in S /\ Tree!NodeHeight(t.right) < m
      BY <3>1, LowerIn
    <3>4. CASE t = Tree!NoNode
      <4>1. Q = {}
        BY <3>1, <3>4, HoldsOnlyNull
      <4> QED BY <3>2, <3>4 DEF HeightFrom, Tree!NodeHeight
    <3>5. CASE t # Tree!NoNode
      <4>1. PICK A, B : /\ Holds(t.left, A) /\ Holds(t.right, B) /\ Parted(t, A, B, Q)
                        /\ Sized(t.left, A) /\ Sized(t.right, B) /\ \A p \in A \cup B : p.key \in TreeKeys
        BY <3>1, <3>5, Opened
      <4>2. Met(Tree!NodeHeight(t.left)) /\ Met(Tree!NodeHeight(t.right))
        BY <2>3, <3>3, <3>5, <4>1 DEF Sized
      <4>3. f[t.left] = Tree!NodeHeight(t.left) /\ f[t.right] = Tree!NodeHeight(t.right)
        BY <3>3, <3>5, <4>1, <4>2 DEF Met
      <4>4. Tree!NodeHeight(t) = Tree!Higher(Tree!NodeHeight(t.left), Tree!NodeHeight(t.right)) + 1
        BY <3>1, <3>5, HoldsBelow DEF Weighed, Tree!NodeHeight
      <4>5. Tree!Higher(Tree!NodeHeight(t.left), Tree!NodeHeight(t.right)) \in Nat
        BY <4>1, HigherIs DEF Sized
      <4>6. f[t] = 1 + Tree!Higher(f[t.left], f[t.right])
        BY <3>2, <3>5 DEF HeightFrom
      <4> QED BY <4>3, <4>4, <4>5, <4>6
    <3> QED BY <3>4, <3>5
  <2> QED BY <2>2, <2>4
<1>3. u \in S /\ Tree!NodeHeight(u) \in Nat
  BY SubtreesAre, HoldsSized DEF Sized
<1>4. \A m \in Nat : Met(m)
  <2> HIDE DEF Met
  <2> QED BY <1>2
<1>5. ASSUME NEW t \in S PROVE f[t] = Tree!NodeHeight(t)
  <2>1. \E Q : Holds(t, Q)
    BY SubtreesAre DEF Below
  <2>2. Met(Tree!NodeHeight(t))
    <3>1. Tree!NodeHeight(t) \in Nat
      BY LowerIn
    <3> HIDE DEF Met
    <3> QED BY <1>4, <3>1
  <2> QED BY <2>1, <2>2
<1> QED BY <1>1, <1>5

-----------------------------------------------------------------------------
(***************************************************************************)
(* The inductive invariant: the root is an AVL tree of size entries, and   *)
(* what was called names a key.                                            *)
(***************************************************************************)
RootHolds(P) == Holds(root, P) /\ size = Cardinality(P)

Calling == treeCall.op \in {"set", "remove"} => treeCall.key \in TreeKeys

TreeInv == Calling /\ \E P : RootHolds(P)

LEMMA SizeBounds ==
  ASSUME NEW P, RootHolds(P)
  PROVE  /\ Holds(root, P) /\ size \in Nat /\ size = Cardinality(P) /\ Tree!NodeHeight(root) <= size
         /\ IsFiniteSet(P) /\ \A p \in P : p.key \in TreeKeys
         /\ \A p, o \in P : p.key = o.key => p = o
<1>1. Holds(root, P) /\ Sized(root, P) /\ size = Cardinality(P)
  BY HoldsSized DEF RootHolds
<1>2. Cardinality(P) \in Nat
  BY <1>1, FS_CardinalityType DEF Sized
<1> QED BY <1>1, <1>2 DEF Sized

LEMMA EntriesCounted ==
  ASSUME NEW P, IsFiniteSet(P), \A p, o \in P : p.key = o.key => p = o, NEW k, NEW v
  PROVE  /\ Cardinality(Without(P, k)) = IF Has(P, k) THEN Cardinality(P) - 1 ELSE Cardinality(P)
         /\ Cardinality(Replaced(P, k, v)) = IF Has(P, k) THEN Cardinality(P) ELSE Cardinality(P) + 1
<1> DEFINE W == Without(P, k)
           e == [key |-> k, value |-> v]
<1>1. W \subseteq P /\ IsFiniteSet(W)
  <2>1. W \in SUBSET P
    BY DEF Without
  <2> HIDE DEF W
  <2> QED BY <2>1, FS_Subset
<1>2. e.key = k
  OBVIOUS
<1>3. e \notin W
  BY <1>2 DEF Without
<1> HIDE DEF e
<1>4. Cardinality(W \cup {e}) = Cardinality(W) + 1
  <2> HIDE DEF W
  <2> QED BY <1>1, <1>3, FS_AddElement
<1>5. Replaced(P, k, v) = W \cup {e}
  BY DEF Replaced, e
<1>6. Cardinality(P) \in Nat /\ Cardinality(W) \in Nat
  <2> HIDE DEF W
  <2> QED BY <1>1, FS_CardinalityType
<1>7. CASE Has(P, k)
  <2>1. PICK p \in P : p.key = k
    BY <1>7 DEF Has
  <2>2. W = P \ {p}
    BY <2>1 DEF Without
  <2> HIDE DEF W
  <2>3. Cardinality(P \ {p}) = Cardinality(P) - 1
    BY FS_RemoveElement
  <2> QED BY <1>4, <1>5, <1>6, <1>7, <2>2, <2>3 DEF W
<1>8. CASE ~ Has(P, k)
  <2>1. W = P
    BY <1>8 DEF Without, Has
  <2> HIDE DEF W
  <2> QED BY <1>4, <1>5, <1>8, <2>1 DEF W
<1> QED BY <1>7, <1>8

\* What set and remove do to the entries.
LEMMA SetReplaces ==
  ASSUME NEW P, RootHolds(P), Calling, Tree!Set, NEW k, k = treeCall.key, NEW v, v = treeCall.value
  PROVE  RootHolds(Replaced(P, k, v))'
<1> DEFINE r == Tree!InsertNode(root, k, v)
           Q == Replaced(P, k, v)
<1>1. /\ Holds(root, P) /\ size \in Nat /\ size = Cardinality(P) /\ Tree!NodeHeight(root) <= size
      /\ IsFiniteSet(P) /\ \A p, o \in P : p.key = o.key => p = o
  BY SizeBounds
<1> k \in TreeKeys
  BY DEF Calling, Tree!Set
<1>2. Holds(r.node, Q) /\ r.wasNew = ~ Has(P, k)
  BY <1>1, InsertNodeInserts DEF Inserted
<1>3. root' = r.node /\ size' = IF r.wasNew THEN size + 1 ELSE size
  BY DEF Tree!Set, Tree!Count
<1>4. Cardinality(Q) = IF Has(P, k) THEN Cardinality(P) ELSE Cardinality(P) + 1
  BY <1>1, EntriesCounted
<1> HIDE DEF r, Q
<1>5. Holds(root', Q) /\ size' = Cardinality(Q)
  BY <1>1, <1>2, <1>3, <1>4
<1> QED BY <1>5 DEF RootHolds, Q

LEMMA RemoveTakesOut ==
  ASSUME NEW P, RootHolds(P), Calling, Tree!Remove, NEW k, k = treeCall.key
  PROVE  RootHolds(Without(P, k))'
<1> DEFINE r == Tree!RemoveNode(root, k)
           Q == Without(P, k)
<1>1. /\ Holds(root, P) /\ size \in Nat /\ size = Cardinality(P) /\ Tree!NodeHeight(root) <= size
      /\ IsFiniteSet(P) /\ \A p, o \in P : p.key = o.key => p = o
  BY SizeBounds
<1> k \in TreeKeys
  BY DEF Calling, Tree!Remove
<1>2. Holds(r.node, Q) /\ r.wasRemoved = Has(P, k)
  BY <1>1, RemoveNodeRemoves DEF Removed
<1>3. root' = r.node /\ size' = IF r.wasRemoved THEN size - 1 ELSE size
  BY DEF Tree!Remove
<1>4. Cardinality(Q) = IF Has(P, k) THEN Cardinality(P) - 1 ELSE Cardinality(P)
  BY <1>1, EntriesCounted
<1> HIDE DEF r, Q
<1>5. Holds(root', Q) /\ size' = Cardinality(Q)
  BY <1>1, <1>2, <1>3, <1>4
<1> QED BY <1>5 DEF RootHolds, Q

ContainerNext == UsesHash \/ UsesTree
containerVars == <<vars, container, root, size, treeCall>>

\* A step calls set or remove, is the one that was called, or leaves the tree alone.
LEMMA TreeSteps ==
  ASSUME [ContainerNext]_containerVars
  PROVE  \/ Tree!Set \/ Tree!Remove
         \/ \E k \in TreeKeys : Tree!CallRemove(k) \/ \E v \in Values : Tree!CallSet(k, v)
         \/ UNCHANGED <<root, size, treeCall>>
BY KeysAssumption DEF ContainerNext, containerVars, UsesHash, UsesTree, TreeKeys

LEMMA EmptyTree ==
  ASSUME MCInit
  PROVE  RootHolds({})
BY HoldsNull, FS_EmptySet DEF MCInit, Tree!Init, RootHolds

\* A call leaves the tree alone.
LEMMA Called ==
  ASSUME NEW k \in TreeKeys, Tree!CallRemove(k) \/ \E v \in Values : Tree!CallSet(k, v)
  PROVE  UNCHANGED <<root, size>> /\ Calling'
BY DEF Tree!CallRemove, Tree!CallSet, Tree!Call, Calling

LEMMA RootHeldOnly ==
  ASSUME NEW P, RootHolds(P), UNCHANGED <<root, size>>
  PROVE  RootHolds(P)'
BY DEF RootHolds

\* The root is always an AVL tree whose entries are counted.
THEOREM TreeInvariance == MCSpec => []TreeInv
<1>1. MCInit => TreeInv
  <2>1. MCInit => Calling
    BY DEF MCInit, Tree!Init, Tree!NoCall, Calling
  <2> QED BY <2>1, EmptyTree DEF TreeInv
<1>2. TreeInv /\ [ContainerNext]_containerVars => TreeInv'
  <2> SUFFICES ASSUME NEW P, RootHolds(P), Calling, [ContainerNext]_containerVars
               PROVE  TreeInv'
    BY DEF TreeInv
  <2>1. CASE Tree!Remove
    <3>1. Calling'
      BY <2>1 DEF Tree!Remove, Tree!NoCall, Calling
    <3> QED BY <2>1, <3>1, RemoveTakesOut DEF TreeInv
  <2>2. CASE Tree!Set
    <3>1. Calling'
      BY <2>2 DEF Tree!Set, Tree!NoCall, Calling
    <3> QED BY <2>2, <3>1, SetReplaces DEF TreeInv
  <2>3. ASSUME NEW k \in TreeKeys, Tree!CallRemove(k) \/ \E v \in Values : Tree!CallSet(k, v)
        PROVE  TreeInv'
    <3>1. UNCHANGED <<root, size>> /\ Calling'
      BY <2>3, Called
    <3> QED BY <3>1, RootHeldOnly DEF TreeInv
  <2>4. CASE UNCHANGED <<root, size, treeCall>>
    <3>1. Calling'
      BY <2>4 DEF Calling
    <3> QED BY <2>4, <3>1, RootHeldOnly DEF TreeInv
  <2> QED BY <2>1, <2>2, <2>3, <2>4, TreeSteps
<1> QED BY <1>1, <1>2, PTL DEF MCSpec, ContainerNext, containerVars
-----------------------------------------------------------------------------
\* What the tree holds is what its entries hold.
ContentHolds(P) ==
  /\ DOMAIN Tree!Content = {p.key : p \in P}
  /\ \A p \in P : Tree!Content[p.key] = p.value
  /\ Tree!Content = [k \in DOMAIN Tree!Content |-> Tree!Content[k]]

LEMMA TreeContentIs ==
  ASSUME NEW P, RootHolds(P)
  PROVE  ContentHolds(P)
<1> DEFINE N == Tree!NodesOf(root)
           c == [k \in {n.key : n \in N} |-> (CHOOSE n \in N : n.key = k).value]
<1>1. Tree!Content = c
  BY DEF Tree!Content
<1>2. P = {Entry(n) : n \in N} /\ \A p, o \in P : p.key = o.key => p = o
  BY SizeBounds, NodesHold
<1> HIDE DEF N
<1>3. \A n : Entry(n).key = n.key /\ Entry(n).value = n.value
  BY DEF Entry
<1>4. {n.key : n \in N} = {p.key : p \in P}
  BY <1>2, <1>3
<1>5. ASSUME NEW n \in N
      PROVE  c[n.key] = n.value
  <2> DEFINE m == CHOOSE x \in N : x.key = n.key
  <2>1. c[n.key] = m.value
    OBVIOUS
  <2>2. m \in N /\ m.key = n.key
    OBVIOUS
  <2> HIDE DEF m
  <2>3. Entry(m) = Entry(n)
    BY <1>2, <1>3, <2>2
  <2> QED BY <1>3, <2>1, <2>3
<1>6. DOMAIN c = {n.key : n \in N} /\ c = [k \in DOMAIN c |-> c[k]]
  OBVIOUS
<1> HIDE DEF c
<1>7. \A p \in P : c[p.key] = p.value
  BY <1>2, <1>3, <1>5
<1> QED BY <1>1, <1>4, <1>6, <1>7 DEF ContentHolds

LEMMA TreeContentAfter ==
  ASSUME NEW P
  PROVE  RootHolds(P)' => ContentHolds(P)'
<1>1. RootHolds(P) => ContentHolds(P)
  BY TreeContentIs
<1> QED BY <1>1, PTL

\* contains and get find exactly what is there, and length counts the keys.
THEOREM SearchFindsHolds == MCSpec => []SearchFinds
<1>1. TreeInv => SearchFinds
  <2> SUFFICES ASSUME NEW P, RootHolds(P)
               PROVE  SearchFinds
    BY DEF TreeInv
  <2>1. /\ Holds(root, P) /\ size \in Nat /\ size = Cardinality(P) /\ Tree!NodeHeight(root) <= size
        /\ IsFiniteSet(P) /\ \A p, o \in P : p.key = o.key => p = o
    BY SizeBounds
  <2> DEFINE c == Tree!Content
  <2>2. DOMAIN c = {p.key : p \in P} /\ \A p \in P : c[p.key] = p.value
    BY TreeContentIs DEF ContentHolds
  <2> HIDE DEF c
  <2>3. ASSUME NEW k \in TreeKeys
        PROVE  Tree!Search(root, k) = IF k \in DOMAIN c THEN {c[k]} ELSE {}
    <3>1. Tree!Search(root, k) = ValuesOf(P, k)
      BY <2>1, SearchIsRight
    <3>2. CASE k \in DOMAIN c
      <4>1. PICK p \in P : p.key = k
        BY <2>2, <3>2
      <4>2. {o \in P : o.key = k} = {p}
        BY <2>1, <4>1
      <4>3. c[k] = p.value
        BY <2>2, <4>1
      <4> QED BY <3>1, <3>2, <4>2, <4>3 DEF ValuesOf
    <3>3. CASE k \notin DOMAIN c
      <4>1. {o \in P : o.key = k} = {}
        BY <2>2, <3>3
      <4> QED BY <3>1, <3>3, <4>1 DEF ValuesOf
    <3> QED BY <3>2, <3>3
  <2>4. size = Cardinality(DOMAIN c)
    <3> DEFINE keyOf == [p \in P |-> p.key]
    <3>1. keyOf \in Bijection(P, DOMAIN c)
      BY <2>1, <2>2 DEF Bijection, Injection, Surjection, IsInjective
    <3> HIDE DEF keyOf
    <3>2. ExistsBijection(P, DOMAIN c)
      BY <3>1 DEF ExistsBijection
    <3>3. Cardinality(P) = Cardinality(DOMAIN c)
      BY <2>1, <3>2, FS_Bijection
    <3> QED BY <2>1, <3>3
  <2>5. Tree!SearchFinds = /\ \A k \in TreeKeys : Tree!Search(root, k) = IF k \in DOMAIN c THEN {c[k]} ELSE {}
                           /\ size = Cardinality(DOMAIN c)
    <3>1. Tree!Cardinality(DOMAIN c) = Cardinality(DOMAIN c)
      BY DEF Tree!Cardinality, Cardinality
    <3> QED BY <3>1 DEF Tree!SearchFinds, TreeKeys, c
  <2> QED BY <2>3, <2>4, <2>5 DEF SearchFinds
<1> QED BY <1>1, TreeInvariance, PTL

\* The heights the nodes store are the true ones, and no node leans by more than one.
THEOREM TreeStaysBalanced == MCSpec => []TreeIsBalanced
<1>1. TreeInv => TreeIsBalanced
  <2> SUFFICES ASSUME NEW P, RootHolds(P)
               PROVE  TreeIsBalanced
    BY DEF TreeInv
  <2>1. Holds(root, P) /\ size \in Nat /\ Tree!NodeHeight(root) <= size
    BY SizeBounds
  <2> DEFINE S == Tree!Subtrees(root)
             height == HeightsOf(root)
  <2>2. \A t \in S : height[t] = Tree!NodeHeight(t)
    BY <2>1, HeightsAreTrue
  <2>3. ASSUME NEW n \in S \ {Tree!NoNode}
        PROVE  n.height = height[n] /\ height[n.left] - height[n.right] \in -1 .. 1
    <3>1. \E Q : Holds(n, Q)
      BY <2>1, SubtreesAre DEF Below
    <3>2. Weighed(n) /\ n.left \in S /\ n.right \in S
      BY <2>1, <3>1, HoldsBelow, LowerIn
    <3>3. n.height = Tree!NodeHeight(n)
      BY DEF Tree!NodeHeight
    <3> HIDE DEF height, S
    <3> QED BY <2>2, <3>2, <3>3 DEF Weighed, Leaning
  <2>4. Tree!TreeIsBalanced =
          \A n \in S \ {Tree!NoNode} : n.height = height[n] /\ height[n.left] - height[n.right] \in -1 .. 1
    BY DEF Tree!TreeIsBalanced, Tree!NodesOf, HeightsOf, HeightFrom
  <2> QED BY <2>3, <2>4 DEF TreeIsBalanced
<1> QED BY <1>1, TreeInvariance, PTL

LEMMA SetIsSet ==
  ASSUME NEW P, RootHolds(P), Calling, Tree!Set, NEW k, k = treeCall.key, NEW v, v = treeCall.value
  PROVE  Tree!D!Set
<1> DEFINE c == Tree!Content
           e == [key |-> k, value |-> v]
           Q == Replaced(P, k, v)
           d == [x \in DOMAIN c \cup {k} |-> IF x = k THEN v ELSE c[x]]
<1>1. ContentHolds(P)
  BY TreeContentIs
<1>2. ContentHolds(Q)'
  <2>1. RootHolds(Q)'
    BY SetReplaces
  <2> HIDE DEF Q
  <2> QED BY <2>1, TreeContentAfter
<1>3. DOMAIN c = {p.key : p \in P} /\ \A p \in P : c[p.key] = p.value
  BY <1>1 DEF ContentHolds
<1>4. /\ DOMAIN c' = {p.key : p \in Q} /\ \A p \in Q : c'[p.key] = p.value
      /\ c' = [x \in DOMAIN c' |-> c'[x]]
  BY <1>2 DEF ContentHolds
<1>5. e.key = k /\ e.value = v
  OBVIOUS
<1>6. Q = {p \in P : p.key # k} \cup {e}
  BY DEF Replaced, Without
<1> HIDE DEF c, e, Q
<1>7. DOMAIN c' = DOMAIN c \cup {k}
  BY <1>3, <1>4, <1>5, <1>6
<1>8. ASSUME NEW x \in DOMAIN c'
      PROVE  c'[x] = IF x = k THEN v ELSE c[x]
  <2>1. PICK p \in Q : p.key = x
    BY <1>4
  <2>2. c'[x] = p.value
    BY <1>4, <2>1
  <2>3. CASE x = k
    BY <1>4, <1>5, <1>6, <2>3
  <2>4. CASE x # k
    <3>1. p \in P
      BY <1>5, <1>6, <2>1, <2>4
    <3> QED BY <1>3, <2>1, <2>2, <2>4, <3>1
  <2> QED BY <2>3, <2>4
<1>9. c' = d
  BY <1>4, <1>7, <1>8
<1> QED BY <1>9 DEF Tree!D!Set, Tree!D!With, Tree!D!NoCall, Tree!Set, Tree!NoCall, c

LEMMA RemoveIsRemove ==
  ASSUME NEW P, RootHolds(P), Calling, Tree!Remove, NEW k, k = treeCall.key
  PROVE  Tree!D!Remove
<1> DEFINE c == Tree!Content
           Q == Without(P, k)
           d == [x \in DOMAIN c \ {k} |-> c[x]]
<1>1. ContentHolds(P)
  BY TreeContentIs
<1>2. ContentHolds(Q)'
  <2>1. RootHolds(Q)'
    BY RemoveTakesOut
  <2> HIDE DEF Q
  <2> QED BY <2>1, TreeContentAfter
<1>3. DOMAIN c = {p.key : p \in P} /\ \A p \in P : c[p.key] = p.value
  BY <1>1 DEF ContentHolds
<1>4. /\ DOMAIN c' = {p.key : p \in Q} /\ \A p \in Q : c'[p.key] = p.value
      /\ c' = [x \in DOMAIN c' |-> c'[x]]
  BY <1>2 DEF ContentHolds
<1>5. Q = {p \in P : p.key # k}
  BY DEF Without
<1> HIDE DEF c, Q
<1>6. DOMAIN c' = DOMAIN c \ {k}
  BY <1>3, <1>4, <1>5
<1>7. ASSUME NEW x \in DOMAIN c'
      PROVE  c'[x] = c[x]
  BY <1>3, <1>4, <1>5
<1>8. c' = d
  BY <1>4, <1>6, <1>7
<1> QED BY <1>8 DEF Tree!D!Remove, Tree!D!Without, Tree!D!NoCall, Tree!Remove, Tree!NoCall, c

\* What was called is called of the dictionary, which it leaves alone.
LEMMA CallIsCall ==
  ASSUME NEW c, c.op # "get", Tree!Call(c)
  PROVE  Tree!D!Call(c)
<1>1. Tree!Content' = Tree!Content
  BY DEF Tree!Call, Tree!Content, Tree!NodesOf, Tree!Subtrees
<1> QED BY <1>1 DEF Tree!D!Call, Tree!D!NoCall, Tree!Call, Tree!NoCall

\* Each set and each remove of the tree is that operation, on the key and with
\* the value it was called with, of the dictionary the tree holds.
THEOREM TreeIsDictionary == MCSpec => TreeImplementsDictionary
<1>1. MCInit => Tree!D!Init
  <2> SUFFICES ASSUME MCInit PROVE Tree!D!Init
    OBVIOUS
  <2>1. ContentHolds({})
    BY EmptyTree, TreeContentIs
  <2>2. DOMAIN Tree!Content = {} /\ Tree!Content = [k \in DOMAIN Tree!Content |-> Tree!Content[k]]
    BY <2>1 DEF ContentHolds
  <2>3. treeCall = Tree!D!NoCall
    BY DEF MCInit, Tree!Init, Tree!NoCall, Tree!D!NoCall
  <2> QED BY <2>2, <2>3 DEF Tree!D!Init, Tree!D!Empty
<1>2. TreeInv /\ [ContainerNext]_containerVars => [Tree!D!Next]_(Tree!D!vars)
  <2> SUFFICES ASSUME NEW P, RootHolds(P), Calling, [ContainerNext]_containerVars
               PROVE  [Tree!D!Next]_(Tree!D!vars)
    BY DEF TreeInv
  <2>1. CASE Tree!Remove
    BY <2>1, RemoveIsRemove DEF Tree!D!Next
  <2>2. CASE Tree!Set
    BY <2>2, SetIsSet DEF Tree!D!Next
  <2>3. ASSUME NEW k \in TreeKeys, Tree!CallRemove(k)
        PROVE  Tree!D!Next
    <3>1. Tree!D!Call([op |-> "remove", key |-> k])
      BY <2>3, CallIsCall DEF Tree!CallRemove
    <3> QED BY <3>1 DEF Tree!D!Next, TreeKeys
  <2>4. ASSUME NEW k \in TreeKeys, NEW v \in Values, Tree!CallSet(k, v)
        PROVE  Tree!D!Next
    <3>1. Tree!D!Call([op |-> "set", key |-> k, value |-> v])
      BY <2>4, CallIsCall DEF Tree!CallSet
    <3> QED BY <3>1 DEF Tree!D!Next, TreeKeys
  <2>5. CASE UNCHANGED <<root, size, treeCall>>
    BY <2>5 DEF Tree!Content, Tree!NodesOf, Tree!Subtrees, Tree!D!vars
  <2> QED BY <2>1, <2>2, <2>3, <2>4, <2>5, TreeSteps
<1> QED BY <1>1, <1>2, TreeInvariance, PTL
      DEF MCSpec, ContainerNext, containerVars, TreeImplementsDictionary, Tree!ImplementsDictionary, Tree!D!Spec
-----------------------------------------------------------------------------
(***************************************************************************)
(* A Set is a table whose keys all have one value.                         *)
(***************************************************************************)
LEMMA SetIsTable == HashSet!Next => Next
BY KeysAssumption DEF
  Next, HashSet!Next, Call, HashSet!Call, Step, HashSet!Step, Walking, HashSet!Walking,
  SetFound, HashSet!SetFound, SetNew, HashSet!SetNew, Full, HashSet!Full, NewEntry, HashSet!NewEntry,
  ResizeEntry, HashSet!ResizeEntry, ResizeBucket, HashSet!ResizeBucket, ResizeEnd, HashSet!ResizeEnd,
  ReturnAnswer, HashSet!ReturnAnswer, Answers, HashSet!Answers, RemoveFound, HashSet!RemoveFound,
  RemoveMissing, HashSet!RemoveMissing, Unlink, HashSet!Unlink, Return, HashSet!Return,
  Found, HashSet!Found, Missing, HashSet!Missing, NewBucket, HashSet!NewBucket, NextNode, HashSet!NextNode,
  Bucket, HashSet!Bucket, BucketIn, HashSet!BucketIn, Count, HashSet!Count, Here, HashSet!Here,
  EmptyArray, HashSet!EmptyArray, NoCall, HashSet!NoCall, Resizing, HashSet!Resizing,
  Heads, HashSet!Heads, Reached, HashSet!Reached, From, HashSet!From, Closed, HashSet!Closed,
  HashSet!Cardinality, Cardinality

(***************************************************************************)
(* What is proved of one table holds of Map and of Set as they are used,   *)
(* beside the trees.                                                       *)
(***************************************************************************)
THEOREM UsesTheTable == MCSpec => [](AnswersAreRight /\ LengthAndLoad) /\ ImplementsDictionary
<1>1. MCInit => Init
  BY DEF MCInit
<1>2. [ContainerNext]_containerVars => [Next]_vars
  BY SetIsTable DEF ContainerNext, containerVars, UsesHash, UsesTree
<1>3. MCSpec => Spec
  BY <1>1, <1>2, PTL DEF MCSpec, Spec, ContainerNext, containerVars
<1> QED BY <1>3, AnswersHold, LengthAndLoadHold, TableImplementsDictionary, PTL
=============================================================================
