--------------------------- MODULE SequencesProofs ----------------------------
(***************************************************************************)
(* What the sequential containers of the standard library promise, for any *)
(* values, however long they get: the heap of PriorityQueue is ordered     *)
(* between operations and its pops take a least value; List, Stack, Deque, *)
(* Queue and LinkedList are sequences that change at their ends.           *)
(***************************************************************************)
EXTENDS MCSequences, FiniteSetTheorems, NaturalsInduction, WellFoundedInduction, SequenceTheorems, TLAPS

LEMMA LeastMember ==
  ASSUME NEW T \in SUBSET Nat, T # {}
  PROVE  \E x \in T : \A y \in T : x <= y
<1>1. \E less : /\ IsWellFoundedOn(less, Nat)
                /\ \A x, y \in Nat : x < y => <<x, y>> \in less
  <2> DEFINE less == OpToRel(<, Nat)
  <2>1. IsWellFoundedOn(less, Nat)
    BY NatLessThanWellFounded
  <2>2. \A x, y \in Nat : x < y => <<x, y>> \in less
    BY DEF OpToRel
  <2> QED BY <2>1, <2>2
<1>2. PICK less : /\ IsWellFoundedOn(less, Nat)
                  /\ \A x, y \in Nat : x < y => <<x, y>> \in less
  BY <1>1
<1>3. PICK x \in T : \A y \in T : ~ (<<y, x>> \in less)
  <2>1. IsWellFoundedOn(less, Nat) /\ T \subseteq Nat
    BY <1>2
  <2> QED BY ONLY <2>1, T # {}, WFMin
<1>4. \A y \in T : ~ (y < x)
  BY <1>2, <1>3
<1> QED BY <1>4

LEMMA ParentIsBelow ==
  ASSUME NEW k \in Nat, k > 0
  PROVE  Parent(k) \in Nat /\ Parent(k) < k
BY DEF Parent

\* A node's children are the two places after twice its own.
LEMMA Children ==
  ASSUME NEW k \in Nat, NEW p \in Nat, k > 0
  PROVE  Parent(k) = p <=> k = 2 * p + 1 \/ k = 2 * p + 2
BY DEF Parent

\* The smallest of a node and its children is one of them, within the queue,
\* and no greater than any of them.
LEMMA SmallestIsLeast ==
  ASSUME TypeOK, NEW p \in Index(size)
  PROVE  /\ Smallest(p) \in Index(size)
         /\ Smallest(p) # p => Smallest(p) > 0 /\ Parent(Smallest(p)) = p
         /\ items[Smallest(p)] <= items[p]
         /\ \A k \in 1 .. size - 1 : Parent(k) = p => items[Smallest(p)] <= items[k]
<1>. USE PrioritiesAssumption DEF TypeOK, Index
<1>1. \A k \in Index(size) : items[k] \in Int
  OBVIOUS
<1>2. \A k \in 1 .. size - 1 : Parent(k) = p => k = 2 * p + 1 \/ k = 2 * p + 2
  BY Children
<1>3. p \in Nat
  OBVIOUS
<1>4. Smallest(p) # p => Smallest(p) \in {2 * p + 1, 2 * p + 2}
  BY DEF Smallest, Lesser
<1>5. Smallest(p) # p => Smallest(p) > 0 /\ Parent(Smallest(p)) = p
  BY <1>3, <1>4, Children
<1>6. /\ Smallest(p) \in Index(size)
      /\ items[Smallest(p)] <= items[p]
      /\ 2 * p + 1 < size => items[Smallest(p)] <= items[2 * p + 1]
      /\ 2 * p + 2 < size => items[Smallest(p)] <= items[2 * p + 2]
  BY <1>1, <1>3 DEF Smallest, Lesser
<1>. QED
  BY <1>2, <1>5, <1>6

\* What a swap does to each place.
LEMMA Swapping ==
  ASSUME TypeOK, NEW a \in Index(size), NEW b \in Index(size)
  PROVE  /\ Swapped(a, b) \in [Index(size) -> Priorities]
         /\ Swapped(a, b)[a] = items[b] /\ Swapped(a, b)[b] = items[a]
         /\ \A k \in Index(size) : k # a /\ k # b => Swapped(a, b)[k] = items[k]
BY DEF TypeOK, Swapped

LEMMA InitInvariant == Init => IInv
BY DEF Init, IInv, TypeOK, HeapOrdered, Sifting, Index

LEMMA PushPreserves ==
  ASSUME IInv, NEW v \in Priorities, Push(v)
  PROVE  IInv'
<1>. USE PrioritiesAssumption DEF IInv, TypeOK, Index
<1>1. TypeOK'
  BY DEF Push
<1>2. ASSUME NEW k \in 1 .. size' - 1, k # i'
      PROVE  Ordered(k)'
  <2>1. k \in Index(size) /\ k > 0
    BY <1>2 DEF Push
  <2>2. Parent(k) \in Index(size)
    BY <2>1, ParentIsBelow
  <2>3. items'[k] = items[k] /\ items'[Parent(k)] = items[Parent(k)]
    BY <2>1, <2>2 DEF Push
  <2>4. Ordered(k)
    BY <2>1 DEF Push, HeapOrdered
  <2>. QED
    BY <2>3, <2>4 DEF Ordered
<1>3. ASSUME NEW k \in 1 .. size' - 1
      PROVE  Parent(k) # i'
  BY ParentIsBelow DEF Push
<1>. QED
  BY <1>1, <1>2, <1>3 DEF Push, HeapOrdered, Sifting

LEMMA PopPreserves ==
  ASSUME IInv, Pop
  PROVE  IInv'
<1>. USE PrioritiesAssumption DEF IInv, TypeOK, Index
<1>1. TypeOK'
  BY DEF Pop
<1>2. ASSUME NEW k \in 1 .. size' - 1, Parent(k) # 0
      PROVE  Ordered(k)'
  <2>1. size' = size - 1 /\ k \in 1 .. size - 2
    BY DEF Pop
  <2>2. Parent(k) \in 1 .. size - 2
    BY <1>2, <2>1, ParentIsBelow
  <2>3. items'[k] = items[k] /\ items'[Parent(k)] = items[Parent(k)]
    BY <2>1, <2>2 DEF Pop
  <2>4. Ordered(k)
    BY <2>1 DEF Pop, HeapOrdered
  <2>. QED
    BY <2>3, <2>4 DEF Ordered
<1>. QED
  BY <1>1, <1>2 DEF Pop, HeapOrdered, Sifting

LEMMA SiftUpPreserves ==
  ASSUME IInv, SiftUp
  PROVE  IInv'
<1>. USE PrioritiesAssumption DEF IInv
<1>1. CASE i > 0 /\ items[i] < items[Parent(i)]
  <2>. DEFINE p == Parent(i)
  <2>1. i \in Index(size) /\ p \in Index(size) /\ p < i /\ i > 0 /\ size \in Nat
    BY <1>1, ParentIsBelow DEF SiftUp, TypeOK, Index
  <2>2. /\ items' = Swapped(i, p) /\ i' = p
        /\ size' = size /\ mode' = "up" /\ mode = "up"
    BY <1>1 DEF SiftUp
  <2>3. items' \in [Index(size) -> Priorities]
    BY <2>1, <2>2, Swapping
  <2>4. /\ items'[i] = items[p] /\ items'[p] = items[i]
        /\ \A k \in Index(size) : k # i /\ k # p => items'[k] = items[k]
    BY <2>1, <2>2, Swapping
  <2>5. TypeOK'
    BY <2>1, <2>2, <2>3 DEF TypeOK, Index
  <2>6. \A k \in Index(size) : items[k] \in Int /\ items'[k] \in Int
    BY <2>3 DEF TypeOK
  <2>7. ASSUME NEW k \in 1 .. size - 1
        PROVE  k \in Index(size) /\ k > 0 /\ Parent(k) \in Index(size) /\ Parent(k) < k
    BY <2>1, ParentIsBelow DEF Index
  <2>8. ASSUME NEW k \in 1 .. size - 1, k # p
        PROVE  items'[Parent(k)] <= items'[k]
    <3>1. CASE k = i
      BY <1>1, <2>1, <2>4, <2>6, <3>1
    <3>2. CASE k # i /\ Parent(k) = i
      BY <2>1, <2>2, <2>4, <2>6, <2>7, <2>8, <3>2 DEF Sifting
    <3>3. CASE k # i /\ Parent(k) = p
      <4>1. items[p] <= items[k]
        BY <2>2, <3>3 DEF Sifting, Ordered
      <4>2. items'[k] = items[k] /\ items'[p] = items[i]
        BY <2>4, <2>7, <2>8, <3>3
      <4>. QED
        BY <1>1, <2>1, <2>6, <2>7, <3>3, <4>1, <4>2
    <3>4. CASE k # i /\ Parent(k) # i /\ Parent(k) # p
      BY <2>2, <2>4, <2>7, <2>8, <3>4 DEF Sifting, Ordered
    <3>. QED
      BY <3>1, <3>2, <3>3, <3>4
  <2>9. ASSUME p > 0, NEW k \in 1 .. size - 1, Parent(k) = p
        PROVE  items'[Parent(p)] <= items'[k]
    <3>1. Parent(p) \in Index(size) /\ Parent(p) < p
      BY <2>1, <2>9, ParentIsBelow DEF Index
    <3>2. items[Parent(p)] <= items[p]
      BY <2>1, <2>2, <2>9 DEF Sifting, Ordered, Index
    <3>3. items'[Parent(p)] = items[Parent(p)]
      BY <2>1, <2>4, <3>1 DEF Index
    <3>4. CASE k = i
      BY <2>4, <3>2, <3>3, <3>4
    <3>5. CASE k # i
      <4>1. items[p] <= items[k]
        BY <2>2, <2>9, <3>5 DEF Sifting, Ordered
      <4>2. items'[k] = items[k]
        BY <2>4, <2>7, <2>9, <3>5
      <4>. QED
        BY <2>1, <2>6, <2>7, <3>1, <3>2, <3>3, <4>1, <4>2
    <3>. QED
      BY <3>4, <3>5
  <2>. QED
    BY <2>2, <2>5, <2>8, <2>9 DEF HeapOrdered, Sifting, Ordered
<1>2. CASE ~ (i > 0 /\ items[i] < items[Parent(i)])
  <2>1. mode = "up" /\ mode' = "idle" /\ items' = items /\ size' = size /\ i' = 0
    BY <1>2 DEF SiftUp
  <2>2. ASSUME NEW k \in 1 .. size - 1
        PROVE  Ordered(k)
    <3>1. CASE k # i
      BY <2>1, <2>2, <3>1 DEF Sifting
    <3>2. CASE k = i
      <4>1. i > 0 /\ i \in Index(size) /\ Parent(i) \in Index(size)
        BY <2>1, <2>2, <3>2, ParentIsBelow DEF TypeOK, Index
      <4>2. items[i] \in Int /\ items[Parent(i)] \in Int
        BY <4>1 DEF TypeOK
      <4>. QED
        BY <1>2, <3>2, <4>1, <4>2 DEF Ordered
    <3>. QED
      BY <3>1, <3>2
  <2>. QED
    BY <2>1, <2>2 DEF TypeOK, HeapOrdered, Sifting, Ordered
<1>. QED
  BY <1>1, <1>2

LEMMA SiftDownPreserves ==
  ASSUME IInv, SiftDown
  PROVE  IInv'
<1>. USE PrioritiesAssumption DEF IInv
<1>. DEFINE s == Smallest(i)
<1>1. i \in Index(size) /\ size \in Nat /\ mode = "down"
  BY DEF SiftDown, TypeOK, Index
<1>2. /\ s \in Index(size)
      /\ s # i => s > 0 /\ Parent(s) = i
      /\ items[s] <= items[i]
      /\ \A k \in 1 .. size - 1 : Parent(k) = i => items[s] <= items[k]
  BY <1>1, SmallestIsLeast
<1>3. ASSUME NEW k \in 1 .. size - 1
      PROVE  k \in Index(size) /\ k > 0 /\ Parent(k) \in Index(size) /\ Parent(k) < k
  BY <1>1, ParentIsBelow DEF Index
<1>4. CASE s # i
  <2>1. /\ items' = Swapped(i, s) /\ i' = s
        /\ size' = size /\ mode' = "down"
    BY <1>4 DEF SiftDown
  <2>2. items' \in [Index(size) -> Priorities]
    BY <1>1, <1>2, <2>1, Swapping
  <2>3. /\ items'[i] = items[s] /\ items'[s] = items[i]
        /\ \A k \in Index(size) : k # i /\ k # s => items'[k] = items[k]
    BY <1>1, <1>2, <2>1, Swapping
  <2>4. TypeOK'
    BY <1>1, <1>2, <2>1, <2>2 DEF TypeOK, Index
  <2>5. \A k \in Index(size) : items[k] \in Int /\ items'[k] \in Int
    BY <2>2 DEF TypeOK
  <2>6. s > 0 /\ Parent(s) = i /\ i < s
    BY <1>1, <1>2, <1>4, ParentIsBelow DEF Index
  <2>7. ASSUME NEW k \in 1 .. size - 1, Parent(k) # s
        PROVE  items'[Parent(k)] <= items'[k]
    <3>1. CASE Parent(k) = i /\ k = s
      BY <1>2, <2>3, <3>1
    <3>2. CASE Parent(k) = i /\ k # s
      <4>1. items'[k] = items[k]
        BY <1>3, <2>3, <2>7, <3>2
      <4>. QED
        BY <1>2, <2>3, <2>7, <3>2, <4>1
    <3>3. CASE Parent(k) # i /\ k = i
      <4>1. items[Parent(i)] <= items[s]
        BY <1>1, <1>2, <1>3, <2>6, <2>7, <3>3 DEF Sifting, Index
      <4>2. items'[Parent(i)] = items[Parent(i)]
        BY <1>3, <2>3, <2>7, <3>3
      <4>. QED
        BY <2>3, <3>3, <4>1, <4>2
    <3>4. CASE Parent(k) # i /\ k # i
      <4>1. k # s
        BY <2>6, <3>4
      <4>2. items'[k] = items[k] /\ items'[Parent(k)] = items[Parent(k)]
        BY <1>3, <2>3, <2>7, <3>4, <4>1
      <4>. QED
        BY <1>1, <2>7, <3>4, <4>2 DEF Sifting, Ordered
    <3>. QED
      BY <3>1, <3>2, <3>3, <3>4
  <2>8. ASSUME NEW k \in 1 .. size - 1, Parent(k) = s
        PROVE  items'[Parent(s)] <= items'[k]
    <3>1. k # s /\ k # i
      BY <1>3, <2>6, <2>8 DEF Index
    <3>2. items'[k] = items[k]
      BY <1>3, <2>3, <2>8, <3>1
    <3>3. items[s] <= items[k]
      BY <1>1, <2>6, <2>8 DEF Sifting, Ordered
    <3>. QED
      BY <2>3, <2>6, <3>2, <3>3
  <2>. QED
    BY <1>1, <2>1, <2>4, <2>7, <2>8 DEF HeapOrdered, Sifting, Ordered
<1>5. CASE s = i
  <2>1. mode' = "idle" /\ items' = items /\ size' = size /\ i' = 0
    BY <1>5 DEF SiftDown
  <2>2. ASSUME NEW k \in 1 .. size - 1
        PROVE  Ordered(k)
    BY <1>1, <1>2, <1>5, <2>2 DEF Sifting, Ordered
  <2>. QED
    BY <2>1, <2>2 DEF TypeOK, HeapOrdered, Sifting, Ordered
<1>. QED
  BY <1>4, <1>5

\* No step of the queue, a turn of a loop or a call, breaks the invariant.
THEOREM Invariance == Spec => []IInv
<1>1. IInv /\ [Next]_vars => IInv'
  <2>. SUFFICES ASSUME IInv, [Next]_vars PROVE IInv'
    OBVIOUS
  <2>1. CASE \E v \in Priorities : Push(v)
    BY <2>1, PushPreserves
  <2>2. CASE SiftUp
    BY <2>2, SiftUpPreserves
  <2>3. CASE Pop
    BY <2>3, PopPreserves
  <2>4. CASE SiftDown
    BY <2>4, SiftDownPreserves
  <2>5. CASE UNCHANGED vars
    BY <2>5 DEF vars, IInv, TypeOK, HeapOrdered, Sifting, Ordered
  <2>. QED
    BY <2>1, <2>2, <2>3, <2>4, <2>5 DEF Next
<1>. QED
  BY <1>1, InitInvariant, PTL DEF Spec

\* Whenever no operation runs, no value of the queue is less than the one above
\* it: the first is never greater than the values right below it.
THEOREM HeapIsOrdered == Spec => []HeapOrdered
BY Invariance, PTL DEF IInv

-----------------------------------------------------------------------------
(***************************************************************************)
(* What the heap holds is a bag: sifting keeps it, a push adds one, a pop  *)
(* takes a least value.                                                    *)
(***************************************************************************)
Occurrences(S, f, v) == Cardinality({k \in S : f[k] = v})

LEMMA OccurrencesOne ==
  ASSUME NEW S, IsFiniteSet(S), NEW f, NEW v, NEW a \in S
  PROVE  /\ Occurrences(S \ {a}, f, v) \in Nat
         /\ Occurrences(S, f, v) = Occurrences(S \ {a}, f, v) + (IF f[a] = v THEN 1 ELSE 0)
<1> DEFINE whole == {k \in S : f[k] = v}
           rest == {k \in S \ {a} : f[k] = v}
<1>1. IsFiniteSet(rest)
  <2>1. rest \in SUBSET S
    OBVIOUS
  <2> QED BY <2>1, FS_Subset
<1>2. Cardinality(rest) \in Nat
  BY <1>1, FS_CardinalityType
<1>3. CASE f[a] = v
  <2>1. whole = rest \cup {a} /\ a \notin rest
    BY <1>3
  <2>2. Cardinality(rest \cup {a}) = Cardinality(rest) + 1
    BY <1>1, <2>1, FS_AddElement
  <2> QED BY <1>2, <1>3, <2>1, <2>2 DEF Occurrences
<1>4. CASE f[a] # v
  <2>1. whole = rest
    BY <1>4
  <2> QED BY <1>2, <1>4, <2>1 DEF Occurrences
<1> QED BY <1>3, <1>4

\* Occurrences within a set depend on the values there only.
LEMMA OccurrencesSame ==
  ASSUME NEW S, NEW f, NEW g, NEW v, \A k \in S : f[k] = g[k]
  PROVE  Occurrences(S, f, v) = Occurrences(S, g, v)
<1>1. {k \in S : f[k] = v} = {k \in S : g[k] = v}
  OBVIOUS
<1> QED BY <1>1 DEF Occurrences

LEMMA FiniteIndex ==
  ASSUME NEW n \in Nat
  PROVE  IsFiniteSet(Index(n))
<1>1. n - 1 \in Int /\ 0 \in Int
  OBVIOUS
<1> QED BY <1>1, FS_Interval DEF Index

LEMMA CopiesAre ==
  Copies = [v \in Priorities |-> Occurrences(Index(size), items, v)]
BY DEF Copies, Occurrences

LEMMA SwapKeepsCopies ==
  ASSUME TypeOK, NEW a \in Index(size), NEW b \in Index(size), a # b,
         items' = Swapped(a, b), size' = size
  PROVE  Copies' = Copies
<1> DEFINE S == Index(size)
           R == (S \ {a}) \ {b}
<1>1. IsFiniteSet(S) /\ IsFiniteSet(S \ {a})
  <2>1. IsFiniteSet(S)
    BY FiniteIndex DEF TypeOK
  <2>2. S \ {a} \in SUBSET S
    OBVIOUS
  <2> QED BY <2>1, <2>2, FS_Subset
<1>2. /\ items'[a] = items[b] /\ items'[b] = items[a]
      /\ \A k \in R : items'[k] = items[k]
  BY Swapping
<1>3. ASSUME NEW v \in Priorities
      PROVE  Occurrences(S, items', v) = Occurrences(S, items, v)
  <2>1. b \in S \ {a}
    OBVIOUS
  <2>2. \A f : /\ Occurrences(R, f, v) \in Nat
               /\ Occurrences(S \ {a}, f, v) = Occurrences(R, f, v) + (IF f[b] = v THEN 1 ELSE 0)
               /\ Occurrences(S, f, v) = Occurrences(S \ {a}, f, v) + (IF f[a] = v THEN 1 ELSE 0)
    BY <1>1, <2>1, OccurrencesOne
  <2>3. Occurrences(R, items', v) = Occurrences(R, items, v)
    BY <1>2, OccurrencesSame
  <2> HIDE DEF S, R
  <2> QED BY <1>2, <2>2, <2>3
<1>4. Copies' = [v \in Priorities |-> Occurrences(S, items', v)]
  BY DEF Copies, Occurrences
<1> QED BY <1>3, <1>4, CopiesAre

\* Between operations the first value is a least one: the first place, in the
\* order of the list, where a value less than it stood would have a parent.
LEMMA FirstIsLeast ==
  ASSUME IInv, mode = "idle", NEW k \in Index(size)
  PROVE  items[0] <= items[k]
<1> DEFINE T == {p \in Index(size) : ~ (items[0] <= items[p])}
<1>1. \A p \in Index(size) : p \in Nat /\ p < size /\ items[p] \in Int
  <2>1. size \in Nat /\ items \in [Index(size) -> Priorities]
    BY DEF IInv, TypeOK
  <2>2. \A p \in Index(size) : p \in Nat /\ p < size
    BY <2>1 DEF Index
  <2>3. \A p \in Index(size) : items[p] \in Priorities
    BY <2>1
  <2>4. \A p \in Index(size) : items[p] \in Int
    BY <2>3, PrioritiesAssumption
  <2> QED BY <2>2, <2>4
<1>2. size \in Nat /\ 0 \in Index(size)
  BY DEF IInv, TypeOK, Index
<1>3. T # {} => FALSE
  <2> SUFFICES ASSUME T # {} PROVE FALSE
    OBVIOUS
  <2>1. T \in SUBSET Nat
    BY <1>1
  <2>2. PICK p \in T : \A q \in T : p <= q
    BY <2>1, LeastMember
  <2>3. p \in Index(size) /\ p # 0 /\ p \in Nat /\ p < size /\ ~ (items[0] <= items[p])
    BY <1>1, <1>2
  <2>4. Parent(p) \in Nat /\ Parent(p) < p
    BY <2>3, ParentIsBelow
  <2>5. Parent(p) \in Index(size) /\ ~ (p <= Parent(p)) /\ p \in 1 .. size - 1
    BY <1>2, <2>3, <2>4 DEF Index
  <2>6. items[0] <= items[Parent(p)]
    BY <2>2, <2>5
  <2>7. items[Parent(p)] <= items[p]
    BY <2>5 DEF IInv, HeapOrdered, Ordered
  <2>8. items[0] \in Int /\ items[p] \in Int /\ items[Parent(p)] \in Int
    BY <1>1, <1>2, <2>3, <2>5
  <2> QED BY <2>3, <2>6, <2>7, <2>8
<1> QED BY <1>3

LEMMA PushAddsOne ==
  ASSUME TypeOK, NEW v \in Priorities, Push(v)
  PROVE  Copies' = [Copies EXCEPT ![v] = @ + 1]
<1> DEFINE S == Index(size)
           R == Index(size + 1)
<1>1. IsFiniteSet(R) /\ R \ {size} = S /\ size \in R
  <2>1. size \in Nat /\ size + 1 \in Nat
    BY DEF TypeOK
  <2> QED BY <2>1, FiniteIndex DEF Index
<1>2. items'[size] = v /\ \A k \in S : items'[k] = items[k]
  BY <1>1 DEF Push, TypeOK, Index
<1>3. ASSUME NEW w \in Priorities
      PROVE  /\ Occurrences(S, items, w) \in Nat
             /\ Occurrences(R, items', w) = Occurrences(S, items, w) + (IF w = v THEN 1 ELSE 0)
  <2>1. /\ Occurrences(R \ {size}, items', w) \in Nat
        /\ Occurrences(R, items', w) = Occurrences(R \ {size}, items', w) + (IF items'[size] = w THEN 1 ELSE 0)
    BY <1>1, OccurrencesOne
  <2>2. Occurrences(S, items', w) = Occurrences(S, items, w)
    BY <1>2, OccurrencesSame
  <2> QED BY <1>1, <1>2, <2>1, <2>2
<1>4. Copies' = [w \in Priorities |-> Occurrences(R, items', w)]
  BY DEF Push, Copies, Occurrences
<1> HIDE DEF S, R
<1>5. Copies = [w \in Priorities |-> Occurrences(S, items, w)]
  BY CopiesAre DEF S
<1>6. Copies' = [w \in Priorities |-> Copies[w] + (IF w = v THEN 1 ELSE 0)]
  BY <1>3, <1>4, <1>5
<1>7. \A w \in Priorities : Copies[w] \in Nat
  BY <1>3, <1>5
<1> QED BY <1>5, <1>6, <1>7

LEMMA PopTakesOne ==
  ASSUME TypeOK, Pop
  PROVE  /\ items[0] \in Priorities /\ Copies[items[0]] > 0
         /\ Copies' = [Copies EXCEPT ![items[0]] = @ - 1]
<1> DEFINE S == Index(size)
           R == Index(size - 1)
           last == size - 1
<1>1. /\ size \in Nat /\ last \in Nat /\ 0 \in S /\ last \in S /\ S \ {last} = R
      /\ last # 0 => 0 \in R
      /\ last = 0 => R = {}
  BY DEF Pop, TypeOK, Index
<1>2. IsFiniteSet(S) /\ IsFiniteSet(R)
  BY <1>1, FiniteIndex
<1>3. /\ last # 0 => items'[0] = items[last]
      /\ \A k \in R \ {0} : items'[k] = items[k]
      /\ items[0] \in Priorities
  BY <1>1 DEF Pop, TypeOK, Index
<1>4. ASSUME NEW w \in Priorities
      PROVE  /\ Occurrences(R, items', w) \in Nat
             /\ Occurrences(S, items, w) = Occurrences(R, items', w) + (IF items[0] = w THEN 1 ELSE 0)
  <2> HIDE DEF last
  <2>1. /\ Occurrences(S \ {last}, items, w) \in Nat
        /\ Occurrences(S, items, w) = Occurrences(S \ {last}, items, w) + (IF items[last] = w THEN 1 ELSE 0)
    BY <1>1, <1>2, OccurrencesOne
  <2>2. CASE last = 0
    <3>1. Occurrences(R, items', w) = 0 /\ Occurrences(R, items, w) = 0
      BY <1>1, <2>2, FS_EmptySet DEF Occurrences
    <3> HIDE DEF S, R
    <3> QED BY <1>1, <2>1, <2>2, <3>1
  <2>3. CASE last # 0
    <3>1. \A f : /\ Occurrences(R \ {0}, f, w) \in Nat
                 /\ Occurrences(R, f, w) = Occurrences(R \ {0}, f, w) + (IF f[0] = w THEN 1 ELSE 0)
      BY <1>1, <1>2, <2>3, OccurrencesOne
    <3>2. Occurrences(R \ {0}, items', w) = Occurrences(R \ {0}, items, w)
      BY <1>3, OccurrencesSame
    <3> HIDE DEF S, R
    <3> QED BY <1>1, <1>3, <2>1, <2>3, <3>1, <3>2
  <2> QED BY <2>2, <2>3
<1>5. Copies' = [w \in Priorities |-> Occurrences(R, items', w)]
  BY DEF Pop, Copies, Occurrences
<1> HIDE DEF S, R, last
<1>6. Copies = [w \in Priorities |-> Occurrences(S, items, w)]
  BY CopiesAre DEF S
<1>7. \A w \in Priorities : Copies'[w] \in Nat /\ Copies[w] = Copies'[w] + (IF items[0] = w THEN 1 ELSE 0)
  BY <1>4, <1>5, <1>6
<1>8. Copies' = [w \in Priorities |-> IF w = items[0] THEN Copies[w] - 1 ELSE Copies[w]]
  BY <1>5, <1>7
<1> QED BY <1>3, <1>6, <1>7, <1>8

\* What the queue holds at least once stands at some place.
LEMMA HeldSomewhere ==
  ASSUME NEW w \in Priorities, Copies[w] > 0
  PROVE  \E k \in Index(size) : items[k] = w
<1> SUFFICES ASSUME ~ \E k \in Index(size) : items[k] = w PROVE FALSE
  OBVIOUS
<1>1. {k \in Index(size) : items[k] = w} = {}
  OBVIOUS
<1>2. Copies[w] = 0
  BY <1>1, FS_EmptySet DEF Copies
<1> QED BY <1>2

LEMMA PopTakesLeast ==
  ASSUME IInv, Pop
  PROVE  B!Pop(items[0])
<1>1. TypeOK /\ mode = "idle"
  BY DEF IInv, Pop
<1>2. /\ items[0] \in Priorities /\ Copies[items[0]] > 0
      /\ Copies' = [Copies EXCEPT ![items[0]] = @ - 1]
  BY <1>1, PopTakesOne
<1>3. \A w \in Priorities : Copies[w] > 0 => items[0] <= w
  BY <1>1, FirstIsLeast, HeldSomewhere
<1>4. top' = <<items[0]>>
  BY DEF Pop
<1> QED BY <1>2, <1>3, <1>4 DEF B!Pop

\* Every step of the heap is one of the bag, or one it does not see.
LEMMA BagStep == IInv /\ [Next]_vars => [B!Next]_<<Copies, top>>
<1> SUFFICES ASSUME IInv, [Next]_vars PROVE [B!Next]_<<Copies, top>>
  OBVIOUS
<1>1. TypeOK
  BY DEF IInv
<1>2. CASE \E v \in Priorities : Push(v)
  <2>1. PICK v \in Priorities : Push(v)
    BY <1>2
  <2>2. B!Push(v)
    BY <1>1, <2>1, PushAddsOne DEF B!Push, Push
  <2> QED BY <2>2 DEF B!Next
<1>3. CASE Pop
  <2>1. items[0] \in Priorities
    BY <1>1, <1>3, PopTakesOne
  <2> QED BY <1>3, <2>1, PopTakesLeast DEF B!Next
<1>4. ASSUME NEW a \in Index(size), NEW b \in Index(size), a # b,
             items' = Swapped(a, b), size' = size, top' = top
      PROVE  UNCHANGED <<Copies, top>>
  BY <1>1, <1>4, SwapKeepsCopies
<1>5. ASSUME items' = items, size' = size, top' = top
      PROVE  UNCHANGED <<Copies, top>>
  BY <1>5 DEF Copies
<1>6. CASE SiftUp
  <2>1. CASE i > 0 /\ items[i] < items[Parent(i)]
    <3>1. i \in Index(size) /\ Parent(i) \in Index(size) /\ Parent(i) # i
      BY <1>1, <1>6, <2>1, ParentIsBelow DEF SiftUp, TypeOK, Index
    <3> QED BY <1>4, <1>6, <2>1, <3>1 DEF SiftUp
  <2> QED BY <1>5, <1>6, <2>1 DEF SiftUp
<1>7. CASE SiftDown
  <2>1. CASE Smallest(i) # i
    <3>1. i \in Index(size) /\ Smallest(i) \in Index(size)
      BY <1>1, <1>7, SmallestIsLeast DEF SiftDown, TypeOK
    <3> QED BY <1>4, <1>7, <2>1, <3>1 DEF SiftDown
  <2> QED BY <1>5, <1>7, <2>1 DEF SiftDown
<1>8. CASE UNCHANGED vars
  BY <1>5, <1>8 DEF vars
<1> QED BY <1>2, <1>3, <1>6, <1>7, <1>8 DEF Next

\* The queue is a bag: every pop takes out a least of the values in it and
\* returns that one, every push adds its value once, and sifting neither loses
\* nor duplicates a value.
THEOREM QueueIsBag == Spec => ImplementsBag
<1>1. Init => B!Init
  <2> SUFFICES ASSUME Init PROVE B!Init
    OBVIOUS
  <2>1. \A v : {k \in Index(size) : items[k] = v} = {}
    BY DEF Init, Index
  <2>2. Copies = [v \in Priorities |-> 0]
    BY <2>1, FS_EmptySet DEF Copies
  <2> QED BY <2>2 DEF Init, B!Init
<1> QED BY <1>1, BagStep, Invariance, PTL DEF Spec, ImplementsBag, B!Spec

-----------------------------------------------------------------------------
(***************************************************************************)
(* A sequence told place by place: what the operations at its ends are.    *)
(***************************************************************************)
LEMMA Listed ==
  ASSUME NEW S, NEW n \in Nat, NEW s, s = [k \in 1 .. n |-> s[k]], \A k \in 1 .. n : s[k] \in S
  PROVE  s \in Seq(S) /\ Len(s) = n
<1>1. s \in [1 .. n -> S]
  OBVIOUS
<1> QED BY <1>1

LEMMA IsAppend ==
  ASSUME NEW S, NEW s \in Seq(S), NEW t \in Seq(S), NEW v \in S, Len(t) = Len(s) + 1,
         \A k \in 1 .. Len(s) : t[k] = s[k], t[Len(t)] = v
  PROVE  t = Append(s, v)
<1>1. /\ Append(s, v) \in Seq(S) /\ Len(Append(s, v)) = Len(s) + 1
      /\ \A k \in 1 .. Len(s) : Append(s, v)[k] = s[k]
      /\ Append(s, v)[Len(s) + 1] = v
  OBVIOUS
<1>2. \A k \in 1 .. Len(t) : k \in 1 .. Len(s) \/ k = Len(s) + 1
  OBVIOUS
<1>3. \A k \in 1 .. Len(t) : t[k] = Append(s, v)[k]
  BY <1>1, <1>2
<1> QED BY <1>1, <1>3, SeqEqual

LEMMA IsPrepend ==
  ASSUME NEW S, NEW s \in Seq(S), NEW t \in Seq(S), NEW v \in S, Len(t) = Len(s) + 1,
         \A k \in 1 .. Len(s) : t[k + 1] = s[k], t[1] = v
  PROVE  t = <<v>> \o s
<1>1. <<v>> \in Seq(S) /\ Len(<<v>>) = 1 /\ <<v>>[1] = v
  OBVIOUS
<1>2. /\ <<v>> \o s \in Seq(S) /\ Len(<<v>> \o s) = Len(s) + 1
      /\ \A k \in 1 .. Len(s) + 1 : (<<v>> \o s)[k] = IF k <= 1 THEN <<v>>[k] ELSE s[k - 1]
  BY <1>1, ConcatProperties
<1>3. ASSUME NEW k \in 1 .. Len(t) PROVE t[k] = (<<v>> \o s)[k]
  <2>1. CASE k = 1
    BY <1>1, <1>2, <2>1
  <2>2. CASE k # 1
    <3>1. k - 1 \in 1 .. Len(s) /\ k - 1 + 1 = k /\ k \in 1 .. Len(s) + 1 /\ ~ (k <= 1)
      BY <2>2
    <3>2. t[k] = s[k - 1]
      BY <3>1
    <3> QED BY <1>2, <3>1, <3>2
  <2> QED BY <2>1, <2>2
<1> QED BY <1>2, <1>3, SeqEqual

LEMMA IsFront ==
  ASSUME NEW S, NEW s \in Seq(S), NEW t \in Seq(S), Len(s) = Len(t) + 1,
         \A k \in 1 .. Len(t) : t[k] = s[k]
  PROVE  t = SubSeq(s, 1, Len(s) - 1)
<1>1. \A k \in 1 .. Len(s) - 1 : s[k] \in S
  OBVIOUS
<1>2. Len(s) - 1 \in Int /\ Len(s) - 1 = Len(t) /\ Len(t) \in Nat /\ 1 \in Int
  OBVIOUS
<1>3. /\ SubSeq(s, 1, Len(s) - 1) \in Seq(S)
      /\ Len(SubSeq(s, 1, Len(s) - 1)) = IF 1 <= Len(s) - 1 THEN Len(s) - 1 - 1 + 1 ELSE 0
      /\ \A k \in 1 .. Len(s) - 1 - 1 + 1 : SubSeq(s, 1, Len(s) - 1)[k] = s[1 + k - 1]
  BY <1>1, <1>2, SubSeqProperties
<1>4. Len(SubSeq(s, 1, Len(s) - 1)) = Len(t)
  BY <1>2, <1>3
<1>5. \A k \in 1 .. Len(t) : SubSeq(s, 1, Len(s) - 1)[k] = s[k]
  <2>1. \A k \in 1 .. Len(t) : k \in 1 .. Len(s) - 1 - 1 + 1 /\ 1 + k - 1 = k
    BY <1>2
  <2> QED BY <1>3, <2>1
<1> QED BY <1>3, <1>4, <1>5, SeqEqual

LEMMA IsTail ==
  ASSUME NEW S, NEW s \in Seq(S), NEW t \in Seq(S), Len(s) = Len(t) + 1,
         \A k \in 1 .. Len(t) : t[k] = s[k + 1]
  PROVE  s # <<>> /\ t = Tail(s)
<1>1. s # <<>>
  OBVIOUS
<1>2. Tail(s) \in Seq(S) /\ Len(Tail(s)) = Len(t) /\ \A k \in 1 .. Len(t) : Tail(s)[k] = s[k + 1]
  BY <1>1, HeadTailProperties
<1> QED BY <1>1, <1>2, SeqEqual

LEMMA IsReplaced ==
  ASSUME NEW S, NEW s \in Seq(S), NEW t \in Seq(S), Len(t) = Len(s), NEW at \in 1 .. Len(s), NEW v \in S,
         \A k \in 1 .. Len(s) : t[k] = IF k = at THEN v ELSE s[k]
  PROVE  t = [s EXCEPT ![at] = v]
<1>1. /\ [s EXCEPT ![at] = v] \in Seq(S) /\ Len([s EXCEPT ![at] = v]) = Len(s)
      /\ \A k \in 1 .. Len(s) : [s EXCEPT ![at] = v][k] = IF k = at THEN v ELSE s[k]
  BY ExceptSeq
<1> DEFINE u == [s EXCEPT ![at] = v]
<1>2. u \in Seq(S) /\ Len(t) = Len(u) /\ \A k \in 1 .. Len(t) : t[k] = u[k]
  BY <1>1
<1> HIDE DEF u
<1>3. t = u
  BY <1>2, SeqEqual
<1> QED BY <1>3 DEF u

-----------------------------------------------------------------------------
(***************************************************************************)
(* List: the first length places of the buffer hold values.  When it is    *)
(* full the next buffer has room for one more.                             *)
(***************************************************************************)
ListInv ==
  /\ length \in Nat /\ capacity \in Nat /\ length <= capacity /\ capacity > 0
  /\ DOMAIN data = 0 .. capacity - 1
  /\ data = [k \in DOMAIN data |-> data[k]]
  /\ \A k \in L!InUse : data[k] \in Values

ListHolds ==
  /\ L!Content \in Seq(Values) /\ Len(L!Content) = length
  /\ \A k \in 1 .. length : L!Content[k] = data[k - 1]

LEMMA ListContent == ListInv => ListHolds
<1> SUFFICES ASSUME ListInv PROVE ListHolds
  OBVIOUS
<1>1. \A k \in 1 .. length : L!Content[k] = data[k - 1] /\ k - 1 \in L!InUse
  BY DEF L!Content, ListInv, L!InUse
<1>2. L!Content = [k \in 1 .. length |-> L!Content[k]]
  BY DEF L!Content
<1>3. length \in Nat /\ \A k \in 1 .. length : L!Content[k] \in Values
  BY <1>1 DEF ListInv
<1> QED BY <1>1, <1>2, <1>3, Listed DEF ListHolds

LEMMA ListPush ==
  ASSUME ListInv, NEW v \in Values, L!Push(v)
  PROVE  ListInv' /\ L!Content' = Append(L!Content, v) /\ returned' = Nothing
<1> DEFINE full == length + 1 > capacity
           buffer == IF full THEN L!Copied(L!NewCapacity) ELSE data
           room == IF full THEN L!NewCapacity ELSE capacity
<1>1. /\ data' = [buffer EXCEPT ![length] = v] /\ capacity' = room
      /\ length' = length + 1 /\ returned' = Nothing
  BY DEF L!Push
<1>2. length \in Nat /\ room \in Nat /\ length + 1 <= room
  BY DEF ListInv, L!NewCapacity
<1>3. /\ DOMAIN buffer = 0 .. room - 1
      /\ buffer = [k \in DOMAIN buffer |-> buffer[k]]
      /\ \A k \in 0 .. length - 1 : buffer[k] = data[k]
  <2>1. CASE full
    <3>1. buffer = [k \in 0 .. room - 1 |-> IF k \in L!InUse THEN data[k] ELSE Nothing]
      BY <2>1 DEF L!Copied, L!HeapArray
    <3>2. \A k \in 0 .. length - 1 : k \in 0 .. room - 1 /\ k \in L!InUse
      BY <1>2 DEF L!InUse
    <3> HIDE DEF buffer, room
    <3> QED BY <3>1, <3>2
  <2>2. CASE ~ full
    BY <2>2 DEF ListInv
  <2> QED BY <2>1, <2>2
<1> HIDE DEF full, buffer, room
<1>4. length \in 0 .. room - 1 /\ \A k \in 0 .. length - 1 : k \in 0 .. room - 1 /\ k # length
  BY <1>2
<1>5. /\ DOMAIN data' = 0 .. room - 1 /\ data' = [k \in DOMAIN data' |-> data'[k]]
      /\ data'[length] = v
      /\ \A k \in 0 .. length - 1 : data'[k] = data[k]
  BY <1>1, <1>3, <1>4
<1>6. ListInv'
  <2>1. \A k \in 0 .. length' - 1 : k \in 0 .. length - 1 \/ k = length
    BY <1>1, <1>2
  <2>2. \A k \in 0 .. length' - 1 : data'[k] \in Values
    BY <1>5, <2>1 DEF ListInv, L!InUse
  <2>3. length' \in Nat /\ length' <= capacity' /\ capacity' \in Nat /\ capacity' > 0
    BY <1>1, <1>2
  <2> QED BY <1>1, <1>5, <2>2, <2>3 DEF ListInv, L!InUse
<1>7. L!Content' = Append(L!Content, v)
  <2>0. ListHolds /\ ListHolds'
    BY <1>6, ListContent, PTL
  <2>1. /\ L!Content \in Seq(Values) /\ Len(L!Content) = length
        /\ \A k \in 1 .. length : L!Content[k] = data[k - 1]
    BY <2>0 DEF ListHolds
  <2>2. /\ L!Content' \in Seq(Values) /\ Len(L!Content') = length'
        /\ \A k \in 1 .. length' : L!Content'[k] = data'[k - 1]
    BY <2>0 DEF ListHolds
  <2>3. \A k \in 1 .. length : k - 1 \in 0 .. length - 1 /\ k \in 1 .. length + 1
    BY <1>2
  <2>4. \A k \in 1 .. length : L!Content'[k] = L!Content[k]
    BY <1>1, <1>5, <2>1, <2>2, <2>3
  <2>5. length \in Nat /\ length + 1 \in 1 .. length + 1 /\ length + 1 - 1 = length
    BY <1>2
  <2> DEFINE s == L!Content
             t == L!Content'
  <2>6. t[length + 1] = v
    <3>1. \A k \in 1 .. length + 1 : t[k] = data'[k - 1]
      BY <1>1, <2>2
    <3>2. data'[length] = v
      BY <1>5
    <3> HIDE DEF t
    <3> QED BY ONLY <2>5, <3>1, <3>2
  <2>7. s \in Seq(Values) /\ t \in Seq(Values) /\ Len(t) = Len(s) + 1
        /\ (\A k \in 1 .. Len(s) : t[k] = s[k]) /\ t[Len(t)] = v
    BY <1>1, <2>1, <2>2, <2>4, <2>6
  <2> HIDE DEF s, t
  <2>8. t = Append(s, v)
    BY <2>7, IsAppend
  <2> QED BY <2>8 DEF s, t
<1> QED BY <1>1, <1>6, <1>7

LEMMA ListPop ==
  ASSUME ListInv, L!Pop
  PROVE  /\ ListInv' /\ L!Content # <<>> /\ returned' = L!Content[Len(L!Content)]
         /\ L!Content' = SubSeq(L!Content, 1, Len(L!Content) - 1)
<1>1. /\ length \in Nat /\ length > 0 /\ length' = length - 1 /\ returned' = data[length - 1]
      /\ data' = data /\ capacity' = capacity
  BY DEF L!Pop, ListInv
<1>2. \A k \in 0 .. length' - 1 : k \in L!InUse
  BY <1>1 DEF L!InUse
<1>3. ListInv'
  BY <1>1, <1>2 DEF ListInv, L!InUse
<1>a. ListHolds /\ ListHolds'
  BY <1>3, ListContent, PTL
<1>4. /\ L!Content \in Seq(Values) /\ Len(L!Content) = length
      /\ \A k \in 1 .. length : L!Content[k] = data[k - 1]
  BY <1>a DEF ListHolds
<1>5. /\ L!Content' \in Seq(Values) /\ Len(L!Content') = length'
      /\ \A k \in 1 .. length' : L!Content'[k] = data'[k - 1]
  BY <1>a DEF ListHolds
<1> DEFINE s == L!Content
           t == L!Content'
<1>6. /\ s \in Seq(Values) /\ t \in Seq(Values) /\ Len(s) = Len(t) + 1
      /\ \A k \in 1 .. Len(t) : t[k] = s[k]
  <2>1. \A k \in 1 .. length' : k \in 1 .. length
    BY <1>1
  <2> QED BY <1>1, <1>4, <1>5, <2>1
<1>7. s # <<>> /\ returned' = s[Len(s)]
  BY <1>1, <1>4
<1> HIDE DEF s, t
<1>8. t = SubSeq(s, 1, Len(s) - 1)
  BY <1>6, IsFront
<1> QED BY <1>3, <1>7, <1>8 DEF s, t

LEMMA ListSet ==
  ASSUME ListInv, NEW v \in Values, NEW index \in L!InUse, L!Set(index, v)
  PROVE  /\ ListInv' /\ index + 1 \in 1 .. Len(L!Content) /\ returned' = Nothing
         /\ L!Content' = [L!Content EXCEPT ![index + 1] = v]
<1>1. /\ data' = [data EXCEPT ![index] = v] /\ returned' = Nothing
      /\ capacity' = capacity /\ length' = length
  BY DEF L!Set
<1>2. length \in Nat /\ index \in DOMAIN data /\ index + 1 \in 1 .. length
      /\ \A k \in 1 .. length : k - 1 \in DOMAIN data /\ k - 1 \in L!InUse /\ (k - 1 = index <=> k = index + 1)
  BY DEF ListInv, L!InUse
<1>3. /\ DOMAIN data' = DOMAIN data /\ data' = [k \in DOMAIN data' |-> data'[k]]
      /\ \A k \in DOMAIN data : data'[k] = IF k = index THEN v ELSE data[k]
  BY <1>1, <1>2 DEF ListInv
<1>4. ListInv'
  <2>1. \A k \in L!InUse : k \in DOMAIN data
    BY DEF ListInv, L!InUse
  <2>2. \A k \in L!InUse : data'[k] \in Values
    BY <1>3, <2>1 DEF ListInv
  <2> QED BY <1>1, <1>3, <2>2 DEF ListInv, L!InUse
<1>a. ListHolds /\ ListHolds'
  BY <1>4, ListContent, PTL
<1>5. /\ L!Content \in Seq(Values) /\ Len(L!Content) = length
      /\ \A k \in 1 .. length : L!Content[k] = data[k - 1]
  BY <1>a DEF ListHolds
<1>6. /\ L!Content' \in Seq(Values) /\ Len(L!Content') = length'
      /\ \A k \in 1 .. length' : L!Content'[k] = data'[k - 1]
  BY <1>a DEF ListHolds
<1>7. \A k \in 1 .. length : L!Content'[k] = IF k = index + 1 THEN v ELSE L!Content[k]
  BY <1>1, <1>2, <1>3, <1>5, <1>6
<1> DEFINE s == L!Content
           t == L!Content'
<1>8. /\ s \in Seq(Values) /\ t \in Seq(Values) /\ Len(t) = Len(s) /\ index + 1 \in 1 .. Len(s)
      /\ \A k \in 1 .. Len(s) : t[k] = IF k = index + 1 THEN v ELSE s[k]
  BY <1>1, <1>2, <1>5, <1>6, <1>7
<1> HIDE DEF s, t
<1>9. t = [s EXCEPT ![index + 1] = v]
  BY <1>8, IsReplaced
<1> QED BY <1>1, <1>4, <1>8, <1>9 DEF s, t

-----------------------------------------------------------------------------
(***************************************************************************)
(* Deque: length places of the buffer from start on hold values, wherever  *)
(* the pops at the front have moved start to.                              *)
(***************************************************************************)
DequeInv ==
  /\ length \in Nat /\ start \in Nat
  /\ data = [k \in DOMAIN data |-> data[k]]
  /\ \A k \in 0 .. length - 1 : start + k \in DOMAIN data /\ data[start + k] \in Values

DequeHolds ==
  /\ Q!Content \in Seq(Values) /\ Len(Q!Content) = length
  /\ \A k \in 1 .. length : Q!Content[k] = data[start + (k - 1)]

LEMMA DequeContent == DequeInv => DequeHolds
<1> SUFFICES ASSUME DequeInv PROVE DequeHolds
  OBVIOUS
<1>1. \A k \in 1 .. length : k - 1 \in 0 .. length - 1 /\ start + k - 1 = start + (k - 1)
  BY DEF DequeInv
<1>2. \A k \in 1 .. length : Q!Content[k] = data[start + (k - 1)]
  BY <1>1 DEF Q!Content
<1>3. Q!Content = [k \in 1 .. length |-> Q!Content[k]]
  BY DEF Q!Content
<1>4. length \in Nat /\ \A k \in 1 .. length : Q!Content[k] \in Values
  BY <1>1, <1>2 DEF DequeInv
<1> QED BY <1>2, <1>3, <1>4, Listed DEF DequeHolds

\* A push writes a new buffer with one place for each value.
LEMMA DequeGrown ==
  ASSUME DequeInv, NEW buffer, Q!Grown(buffer),
         buffer = [k \in 0 .. length |-> buffer[k]], \A k \in 0 .. length : buffer[k] \in Values
  PROVE  /\ DequeInv' /\ returned' = Nothing
         /\ Q!Content' \in Seq(Values) /\ Len(Q!Content') = length + 1
         /\ \A k \in 1 .. length + 1 : Q!Content'[k] = buffer[k - 1]
<1>1. data' = buffer /\ start' = 0 /\ length' = length + 1 /\ returned' = Nothing
  BY DEF Q!Grown
<1>2. length \in Nat /\ DOMAIN buffer = 0 .. length
  BY DEF DequeInv
<1>3. \A k \in 0 .. length' - 1 : k \in 0 .. length /\ 0 + k = k
  BY <1>1, <1>2
<1>4. DequeInv'
  BY <1>1, <1>2, <1>3 DEF DequeInv
<1>5. DequeHolds'
  BY <1>4, DequeContent, PTL
<1>6. \A k \in 1 .. length' : 0 + (k - 1) = k - 1
  BY <1>1, <1>2
<1>7. /\ Q!Content' \in Seq(Values) /\ Len(Q!Content') = length'
      /\ \A k \in 1 .. length' : Q!Content'[k] = data'[start' + (k - 1)]
  BY <1>5 DEF DequeHolds
<1> QED BY <1>1, <1>4, <1>6, <1>7

LEMMA DequePushBack ==
  ASSUME DequeInv, NEW v \in Values, Q!PushBack(v)
  PROVE  DequeInv' /\ Q!Content' = Append(Q!Content, v) /\ returned' = Nothing
<1> DEFINE buffer == [k \in 0 .. length |-> IF k = length THEN v ELSE data[start + k]]
           s == Q!Content
           t == Q!Content'
<1>0. length \in Nat /\ \A k \in 0 .. length : k # length => k \in 0 .. length - 1
  BY DEF DequeInv
<1>1. Q!Grown(buffer)
  BY DEF Q!PushBack, Q!At
<1>2. \A k \in 0 .. length : buffer[k] = IF k = length THEN v ELSE data[start + k]
  OBVIOUS
<1>3. buffer = [k \in 0 .. length |-> buffer[k]]
  OBVIOUS
<1> HIDE DEF buffer
<1>4. \A k \in 0 .. length : buffer[k] \in Values
  BY <1>0, <1>2 DEF DequeInv
<1>5. /\ DequeInv' /\ returned' = Nothing /\ t \in Seq(Values) /\ Len(t) = length + 1
      /\ \A k \in 1 .. length + 1 : t[k] = buffer[k - 1]
  BY <1>1, <1>3, <1>4, DequeGrown
<1>6. s \in Seq(Values) /\ Len(s) = length /\ \A k \in 1 .. length : s[k] = data[start + (k - 1)]
  BY DequeContent DEF DequeHolds
<1> HIDE DEF s, t
<1>7. \A k \in 1 .. length : k \in 1 .. length + 1 /\ k - 1 \in 0 .. length /\ k - 1 # length
  BY <1>0
<1>8. \A k \in 1 .. length : t[k] = s[k]
  BY <1>2, <1>5, <1>6, <1>7
<1>9. t[length + 1] = v
  <2>1. length + 1 \in 1 .. length + 1 /\ (length + 1) - 1 = length /\ length \in 0 .. length
    BY <1>0
  <2> QED BY <1>2, <1>5, <2>1
<1>10. t = Append(s, v)
  BY <1>5, <1>6, <1>8, <1>9, IsAppend
<1> QED BY <1>5, <1>10 DEF s, t

LEMMA DequePushFront ==
  ASSUME DequeInv, NEW v \in Values, Q!PushFront(v)
  PROVE  DequeInv' /\ Q!Content' = <<v>> \o Q!Content /\ returned' = Nothing
<1> DEFINE buffer == [k \in 0 .. length |-> IF k = 0 THEN v ELSE data[start + (k - 1)]]
           s == Q!Content
           t == Q!Content'
<1>0. length \in Nat /\ \A k \in 0 .. length : k # 0 => k - 1 \in 0 .. length - 1
  BY DEF DequeInv
<1>1. Q!Grown(buffer)
  BY DEF Q!PushFront, Q!At
<1>2. \A k \in 0 .. length : buffer[k] = IF k = 0 THEN v ELSE data[start + (k - 1)]
  OBVIOUS
<1>3. buffer = [k \in 0 .. length |-> buffer[k]]
  OBVIOUS
<1> HIDE DEF buffer
<1>4. \A k \in 0 .. length : buffer[k] \in Values
  BY <1>0, <1>2 DEF DequeInv
<1>5. /\ DequeInv' /\ returned' = Nothing /\ t \in Seq(Values) /\ Len(t) = length + 1
      /\ \A k \in 1 .. length + 1 : t[k] = buffer[k - 1]
  BY <1>1, <1>3, <1>4, DequeGrown
<1>6. s \in Seq(Values) /\ Len(s) = length /\ \A k \in 1 .. length : s[k] = data[start + (k - 1)]
  BY DequeContent DEF DequeHolds
<1> HIDE DEF s, t
<1>7. \A k \in 1 .. length : k + 1 \in 1 .. length + 1 /\ (k + 1) - 1 = k /\ k \in 0 .. length /\ k # 0
  BY <1>0
<1>8. ASSUME NEW k \in 1 .. length PROVE t[k + 1] = s[k]
  <2>1. t[k + 1] = buffer[(k + 1) - 1]
    BY <1>5, <1>7
  <2>2. buffer[k] = data[start + (k - 1)]
    BY <1>2, <1>7
  <2> QED BY <1>6, <1>7, <2>1, <2>2
<1>9. t[1] = v
  <2>1. 1 \in 1 .. length + 1 /\ 1 - 1 = 0 /\ 0 \in 0 .. length
    BY <1>0
  <2> QED BY <1>2, <1>5, <2>1
<1>10. t = <<v>> \o s
  BY <1>5, <1>6, <1>8, <1>9, IsPrepend
<1> QED BY <1>5, <1>10 DEF s, t

LEMMA DequePopBack ==
  ASSUME DequeInv, Q!PopBack
  PROVE  /\ DequeInv' /\ Q!Content # <<>> /\ returned' = Q!Content[Len(Q!Content)]
         /\ Q!Content' = SubSeq(Q!Content, 1, Len(Q!Content) - 1)
<1> DEFINE s == Q!Content
           t == Q!Content'
<1>1. /\ length \in Nat /\ length > 0 /\ length' = length - 1 /\ start \in Nat /\ start' = start
      /\ returned' = data[start + length - 1] /\ data' = data
  BY DEF Q!PopBack, DequeInv
<1>2. \A k \in 0 .. length' - 1 : k \in 0 .. length - 1
  BY <1>1
<1>3. DequeInv'
  BY <1>1, <1>2 DEF DequeInv
<1>4. DequeHolds /\ DequeHolds'
  BY <1>3, DequeContent, PTL
<1>5. s \in Seq(Values) /\ Len(s) = length /\ \A k \in 1 .. length : s[k] = data[start + (k - 1)]
  BY <1>4 DEF DequeHolds
<1>6. t \in Seq(Values) /\ Len(t) = length' /\ \A k \in 1 .. length' : t[k] = data'[start' + (k - 1)]
  BY <1>4 DEF DequeHolds
<1> HIDE DEF s, t
<1>7. Len(s) = Len(t) + 1 /\ \A k \in 1 .. Len(t) : t[k] = s[k]
  <2>1. \A k \in 1 .. length' : k \in 1 .. length
    BY <1>1
  <2> QED BY <1>1, <1>5, <1>6, <2>1
<1>8. s # <<>> /\ returned' = s[Len(s)]
  <2>1. length \in 1 .. length /\ start + length - 1 = start + (length - 1)
    BY <1>1
  <2> QED BY <1>1, <1>5, <2>1
<1>9. t = SubSeq(s, 1, Len(s) - 1)
  BY <1>5, <1>6, <1>7, IsFront
<1> QED BY <1>3, <1>8, <1>9 DEF s, t

LEMMA DequePopFront ==
  ASSUME DequeInv, Q!PopFront
  PROVE  /\ DequeInv' /\ Q!Content # <<>> /\ returned' = Q!Content[1]
         /\ Q!Content' = Tail(Q!Content)
<1> DEFINE s == Q!Content
           t == Q!Content'
<1>1. /\ length \in Nat /\ length > 0 /\ length' = length - 1 /\ start \in Nat /\ start' = start + 1
      /\ returned' = data[start] /\ data' = data
  BY DEF Q!PopFront, DequeInv
<1>2. \A k \in 0 .. length' - 1 : k + 1 \in 0 .. length - 1 /\ start' + k = start + (k + 1)
  BY <1>1
<1>3. DequeInv'
  <2>1. start' \in Nat /\ length' \in Nat
    BY <1>1
  <2> QED BY <1>1, <1>2, <2>1 DEF DequeInv
<1>4. DequeHolds /\ DequeHolds'
  BY <1>3, DequeContent, PTL
<1>5. s \in Seq(Values) /\ Len(s) = length /\ \A k \in 1 .. length : s[k] = data[start + (k - 1)]
  BY <1>4 DEF DequeHolds
<1>6. t \in Seq(Values) /\ Len(t) = length' /\ \A k \in 1 .. length' : t[k] = data'[start' + (k - 1)]
  BY <1>4 DEF DequeHolds
<1> HIDE DEF s, t
<1>7. Len(s) = Len(t) + 1 /\ \A k \in 1 .. Len(t) : t[k] = s[k + 1]
  <2>1. \A k \in 1 .. length' : k + 1 \in 1 .. length /\ start' + (k - 1) = start + ((k + 1) - 1)
    BY <1>1
  <2>2. Len(s) = Len(t) + 1 /\ Len(t) = length'
    BY <1>1, <1>5, <1>6
  <2>3. ASSUME NEW k \in 1 .. length' PROVE t[k] = s[k + 1]
    <3>1. t[k] = data[start' + (k - 1)]
      BY <1>1, <1>6
    <3>2. s[k + 1] = data[start + ((k + 1) - 1)]
      BY <1>5, <2>1
    <3> QED BY <2>1, <3>1, <3>2
  <2> QED BY <2>2, <2>3
<1>8. returned' = s[1]
  <2>1. 1 \in 1 .. length /\ start + (1 - 1) = start
    BY <1>1
  <2> QED BY <1>1, <1>5, <2>1
<1>9. s # <<>> /\ t = Tail(s)
  BY <1>5, <1>6, <1>7, IsTail
<1> QED BY <1>3, <1>8, <1>9 DEF s, t

LEMMA DequeSet ==
  ASSUME DequeInv, NEW v \in Values, NEW index \in 0 .. length - 1, Q!Set(index, v)
  PROVE  /\ DequeInv' /\ index + 1 \in 1 .. Len(Q!Content) /\ returned' = Nothing
         /\ Q!Content' = [Q!Content EXCEPT ![index + 1] = v]
<1> DEFINE s == Q!Content
           t == Q!Content'
<1>1. /\ data' = [data EXCEPT ![start + index] = v] /\ returned' = Nothing
      /\ start' = start /\ length' = length /\ length \in Nat /\ start \in Nat
  BY DEF Q!Set, DequeInv
<1>2. /\ DOMAIN data' = DOMAIN data /\ data' = [k \in DOMAIN data' |-> data'[k]]
      /\ \A k \in DOMAIN data : data'[k] = IF k = start + index THEN v ELSE data[k]
  BY <1>1 DEF DequeInv
<1>3. DequeInv'
  <2>1. \A k \in 0 .. length' - 1 : start' + k \in DOMAIN data' /\ data'[start' + k] \in Values
    BY <1>1, <1>2 DEF DequeInv
  <2> QED BY <1>1, <1>2, <2>1 DEF DequeInv
<1>4. DequeHolds /\ DequeHolds'
  BY <1>3, DequeContent, PTL
<1>5. s \in Seq(Values) /\ Len(s) = length /\ \A k \in 1 .. length : s[k] = data[start + (k - 1)]
  BY <1>4 DEF DequeHolds
<1>6. t \in Seq(Values) /\ Len(t) = length' /\ \A k \in 1 .. length' : t[k] = data'[start' + (k - 1)]
  BY <1>4 DEF DequeHolds
<1> HIDE DEF s, t
<1>7. \A k \in 1 .. length : k - 1 \in 0 .. length - 1 /\ (start + (k - 1) = start + index <=> k = index + 1)
  BY <1>1
<1>8. \A k \in 1 .. length : start + (k - 1) \in DOMAIN data
  BY <1>7 DEF DequeInv
<1>9. \A k \in 1 .. length : t[k] = IF k = index + 1 THEN v ELSE s[k]
  BY <1>1, <1>2, <1>5, <1>6, <1>7, <1>8
<1>10. index + 1 \in 1 .. Len(s) /\ Len(t) = Len(s)
  BY <1>1, <1>5, <1>6
<1>11. t = [s EXCEPT ![index + 1] = v]
  BY <1>1, <1>5, <1>6, <1>9, <1>10, IsReplaced
<1> QED BY <1>1, <1>3, <1>10, <1>11 DEF s, t

-----------------------------------------------------------------------------
(***************************************************************************)
(* LinkedList: the nodes lie along a path, each linked to the next by one  *)
(* link and to the one before by the other.  Read from its other end with  *)
(* the links swapped a path is a path, so what is shown of one end holds   *)
(* of both.                                                                *)
(***************************************************************************)
Links == {"prev", "next"}

NodeFields == {"value", "prev", "next"}

\* n nodes of a heap ns, from one end along the links "to" up to another.
Chained(p, ns, one, another, n, to, back) ==
  /\ p \in Seq(Nodes) /\ Len(p) = n
  /\ \A j, k \in 1 .. n : p[j] = p[k] => j = k
  /\ DOMAIN ns = {p[k] : k \in 1 .. n}
  /\ \A k \in 1 .. n :
       /\ DOMAIN ns[p[k]] = NodeFields /\ ns[p[k]].value \in Values
       /\ ns[p[k]][back] = IF k = 1 THEN Null ELSE p[k - 1]
       /\ ns[p[k]][to] = IF k = n THEN Null ELSE p[k + 1]
  /\ one = IF n = 0 THEN Null ELSE p[1]
  /\ another = IF n = 0 THEN Null ELSE p[n]

Backwards(p) == [k \in 1 .. Len(p) |-> p[Len(p) + 1 - k]]

LEMMA ChainedBackwards ==
  ASSUME NEW p, NEW ns, NEW one, NEW another, NEW n \in Nat, NEW to, NEW back,
         Chained(p, ns, one, another, n, to, back)
  PROVE  Chained(Backwards(p), ns, another, one, n, back, to)
<1> DEFINE q == Backwards(p)
<1>1. /\ p \in Seq(Nodes) /\ Len(p) = n
      /\ \A j, k \in 1 .. n : p[j] = p[k] => j = k
      /\ DOMAIN ns = {p[k] : k \in 1 .. n}
      /\ \A k \in 1 .. n :
           /\ DOMAIN ns[p[k]] = NodeFields /\ ns[p[k]].value \in Values
           /\ ns[p[k]][back] = IF k = 1 THEN Null ELSE p[k - 1]
           /\ ns[p[k]][to] = IF k = n THEN Null ELSE p[k + 1]
      /\ one = IF n = 0 THEN Null ELSE p[1]
      /\ another = IF n = 0 THEN Null ELSE p[n]
  BY DEF Chained
<1>2. \A k \in 1 .. n : n + 1 - k \in 1 .. n /\ n + 1 - (n + 1 - k) = k
  OBVIOUS
<1>3. q = [k \in 1 .. n |-> q[k]] /\ \A k \in 1 .. n : q[k] = p[n + 1 - k]
  BY <1>1 DEF Backwards
<1> HIDE DEF q
<1>4. q \in Seq(Nodes) /\ Len(q) = n
  <2>1. \A k \in 1 .. n : p[k] \in Nodes
    BY <1>1
  <2>2. \A k \in 1 .. n : q[k] \in Nodes
    BY <1>2, <1>3, <2>1
  <2> QED BY <1>3, <2>2, Listed
<1>5. \A j, k \in 1 .. n : q[j] = q[k] => j = k
  <2> SUFFICES ASSUME NEW j \in 1 .. n, NEW k \in 1 .. n, q[j] = q[k] PROVE j = k
    OBVIOUS
  <2>1. n + 1 - j = n + 1 - k
    BY <1>1, <1>2, <1>3
  <2> QED BY <2>1
<1>6. DOMAIN ns = {q[k] : k \in 1 .. n}
  <2>1. ASSUME NEW k \in 1 .. n PROVE p[k] = q[n + 1 - k] /\ q[k] = p[n + 1 - k]
    BY <1>2, <1>3
  <2>2. ASSUME NEW k \in 1 .. n
        PROVE  (\E j \in 1 .. n : p[k] = q[j]) /\ (\E j \in 1 .. n : q[k] = p[j])
    BY <1>2, <2>1
  <2>3. \A a : (\E k \in 1 .. n : a = p[k]) <=> (\E k \in 1 .. n : a = q[k])
    <3> TAKE a
    <3>1. ASSUME NEW k \in 1 .. n, a = p[k] PROVE \E h \in 1 .. n : a = q[h]
      BY ONLY <2>2, <3>1
    <3>2. ASSUME NEW k \in 1 .. n, a = q[k] PROVE \E h \in 1 .. n : a = p[h]
      BY ONLY <2>2, <3>2
    <3> QED BY ONLY <3>1, <3>2
  <2>4. DOMAIN ns = {p[k] : k \in 1 .. n}
    BY <1>1
  <2> QED BY ONLY <2>3, <2>4
<1>7. ASSUME NEW k \in 1 .. n
      PROVE  /\ DOMAIN ns[q[k]] = NodeFields /\ ns[q[k]].value \in Values
             /\ ns[q[k]][to] = IF k = 1 THEN Null ELSE q[k - 1]
             /\ ns[q[k]][back] = IF k = n THEN Null ELSE q[k + 1]
  <2> DEFINE at == n + 1 - k
  <2>1. at \in 1 .. n /\ (at = n <=> k = 1) /\ (at = 1 <=> k = n) /\ q[k] = p[at]
    BY <1>3
  <2>2. ASSUME k # 1 PROVE q[k - 1] = p[at + 1]
    <3>1. k - 1 \in 1 .. n /\ n + 1 - (k - 1) = at + 1
      BY <2>2
    <3> QED BY <1>3, <3>1
  <2>3. ASSUME k # n PROVE q[k + 1] = p[at - 1]
    <3>1. k + 1 \in 1 .. n /\ n + 1 - (k + 1) = at - 1
      BY <2>3
    <3> QED BY <1>3, <3>1
  <2> HIDE DEF at
  <2> QED BY <1>1, <2>1, <2>2, <2>3
<1>8. another = (IF n = 0 THEN Null ELSE q[1]) /\ one = (IF n = 0 THEN Null ELSE q[n])
  <2>1. CASE n = 0
    BY <1>1, <2>1
  <2>2. CASE n # 0
    <3>1. 1 \in 1 .. n /\ n \in 1 .. n /\ n + 1 - 1 = n /\ n + 1 - n = 1
      BY <2>2
    <3> QED BY <1>1, <1>3, <2>2, <3>1
  <2> QED BY <2>1, <2>2
<1>9. Chained(q, ns, another, one, n, back, to)
  BY <1>4, <1>5, <1>6, <1>7, <1>8 DEF Chained
<1> QED BY <1>9 DEF q

\* A push at one end: a new node before the first one.
NewFirst(ns, new, node, one, another, last, to, back) ==
  /\ to \in Links /\ back \in Links /\ to # back
  /\ new \in Nodes /\ new \notin DOMAIN nodes
  /\ DOMAIN node = NodeFields /\ node.value \in Values /\ node[back] = Null /\ node[to] = one
  /\ ns = K!With(new, one, back, node)
  /\ last = IF one = Null THEN new ELSE another

\* A path like p, of n nodes, with a new node before the first one.
Longer(p, ns, new, last, n, to, back) ==
  \E q : /\ Chained(q, ns, new, last, n + 1, to, back)
         /\ q[1] = new /\ \A k \in 1 .. n : q[k + 1] = p[k]

LEMMA ChainedWith ==
  ASSUME NEW p, NEW one, NEW another, NEW n \in Nat, NEW to, NEW back,
         Chained(p, nodes, one, another, n, to, back),
         NEW ns, NEW new, NEW node, NEW last, NewFirst(ns, new, node, one, another, last, to, back)
  PROVE  Longer(p, ns, new, last, n, to, back)
<1> DEFINE q == [k \in 1 .. n + 1 |-> IF k = 1 THEN new ELSE p[k - 1]]
<1>a. /\ to \in Links /\ back \in Links /\ to # back
      /\ new \in Nodes /\ new \notin DOMAIN nodes
      /\ DOMAIN node = NodeFields /\ node.value \in Values /\ node[back] = Null /\ node[to] = one
      /\ ns = K!With(new, one, back, node)
      /\ last = IF one = Null THEN new ELSE another
  BY DEF NewFirst
<1>0. Null \notin Nodes
  BY NodesAssumption
<1>1. /\ p \in Seq(Nodes) /\ Len(p) = n
      /\ \A j, k \in 1 .. n : p[j] = p[k] => j = k
      /\ DOMAIN nodes = {p[k] : k \in 1 .. n}
      /\ \A k \in 1 .. n :
           /\ DOMAIN nodes[p[k]] = NodeFields /\ nodes[p[k]].value \in Values
           /\ nodes[p[k]][back] = IF k = 1 THEN Null ELSE p[k - 1]
           /\ nodes[p[k]][to] = IF k = n THEN Null ELSE p[k + 1]
      /\ one = IF n = 0 THEN Null ELSE p[1]
      /\ another = IF n = 0 THEN Null ELSE p[n]
  BY DEF Chained
<1>2. \A k \in 1 .. n : p[k] \in Nodes /\ p[k] \in DOMAIN nodes /\ p[k] # new
  BY <1>a, <1>1
<1>3. q = [k \in 1 .. n + 1 |-> q[k]] /\ q[1] = new /\ \A k \in 1 .. n + 1 : k # 1 => q[k] = p[k - 1]
  <2>1. 1 \in 1 .. n + 1
    OBVIOUS
  <2> QED BY <2>1
<1> HIDE DEF q
<1>4. \A k \in 1 .. n + 1 : k # 1 => k - 1 \in 1 .. n /\ (k - 1 = n <=> k = n + 1)
  OBVIOUS
<1>5. \A k \in 1 .. n : k + 1 \in 1 .. n + 1 /\ k + 1 # 1 /\ (k + 1) - 1 = k
  OBVIOUS
<1>6. \A k \in 1 .. n : q[k + 1] = p[k]
  <2> SUFFICES ASSUME NEW k \in 1 .. n PROVE q[k + 1] = p[k]
    OBVIOUS
  <2>1. q[k + 1] = p[(k + 1) - 1]
    BY <1>3, <1>5
  <2> QED BY <1>5, <2>1
<1>7. q \in Seq(Nodes) /\ Len(q) = n + 1
  <2>1. \A k \in 1 .. n + 1 : q[k] \in Nodes
    BY <1>a, <1>2, <1>3, <1>4
  <2>2. n + 1 \in Nat
    OBVIOUS
  <2> QED BY <1>3, <2>1, <2>2, Listed
<1>8. \A j, k \in 1 .. n + 1 : q[j] = q[k] => j = k
  <2> SUFFICES ASSUME NEW j \in 1 .. n + 1, NEW k \in 1 .. n + 1, q[j] = q[k] PROVE j = k
    OBVIOUS
  <2>1. CASE j = 1 \/ k = 1
    BY <1>2, <1>3, <1>4, <2>1
  <2>2. CASE j # 1 /\ k # 1
    <3>1. j - 1 = k - 1
      BY <1>1, <1>3, <1>4, <2>2
    <3> QED BY <3>1
  <2> QED BY <2>1, <2>2
<1>9. /\ DOMAIN ns = DOMAIN nodes \cup {new} /\ ns[new] = node
      /\ \A a \in DOMAIN nodes : a # one => ns[a] = nodes[a]
      /\ one \in DOMAIN nodes => ns[one] = [nodes[one] EXCEPT ![back] = new]
  BY <1>a DEF K!With
<1>10. DOMAIN ns = {q[k] : k \in 1 .. n + 1}
  <2>1. 1 \in 1 .. n + 1
    OBVIOUS
  <2>2. \A a : a \in DOMAIN ns <=> a = new \/ \E k \in 1 .. n : a = p[k]
    BY <1>1, <1>9
  <2>3. ASSUME NEW k \in 1 .. n + 1 PROVE q[k] = new \/ \E j \in 1 .. n : q[k] = p[j]
    BY <1>3, <1>4
  <2>4. ASSUME NEW j \in 1 .. n PROVE \E k \in 1 .. n + 1 : p[j] = q[k]
    BY <1>5, <1>6
  <2>5. \A a : (\E k \in 1 .. n + 1 : a = q[k]) <=> a = new \/ \E k \in 1 .. n : a = p[k]
    <3>1. q[1] = new
      BY <1>3
    <3> QED BY ONLY <2>1, <2>3, <2>4, <3>1, Zenon
  <2> QED BY <2>2, <2>5
<1>11. ASSUME NEW k \in 1 .. n + 1
       PROVE  /\ DOMAIN ns[q[k]] = NodeFields /\ ns[q[k]].value \in Values
              /\ ns[q[k]][back] = IF k = 1 THEN Null ELSE q[k - 1]
              /\ ns[q[k]][to] = IF k = n + 1 THEN Null ELSE q[k + 1]
  <2>1. CASE k = 1
    <3>1. ns[q[k]] = node
      BY <1>3, <1>9, <2>1
    <3>2. one = IF k = n + 1 THEN Null ELSE q[k + 1]
      <4>1. CASE n = 0
        BY <1>1, <2>1, <4>1
      <4>2. CASE n # 0
        <5>1. 1 \in 1 .. n /\ k # n + 1
          BY <2>1, <4>2
        <5>2. q[k + 1] = p[1]
          BY <1>6, <2>1, <5>1
        <5> QED BY <1>1, <4>2, <5>1, <5>2
      <4> QED BY <4>1, <4>2
    <3> QED BY <1>a, <2>1, <3>1, <3>2
  <2>2. CASE k # 1
    <3> DEFINE at == k - 1
    <3>1. at \in 1 .. n /\ q[k] = p[at] /\ (at = n <=> k = n + 1) /\ k = at + 1
      BY <1>3, <1>4, <2>2
    <3>2. ASSUME at # n PROVE q[k + 1] = p[at + 1]
      <4>1. at + 1 \in 1 .. n /\ k + 1 = (at + 1) + 1
        BY <3>1, <3>2
      <4> QED BY <1>6, <4>1
    <3>3. q[k - 1] = IF at = 1 THEN new ELSE p[at - 1]
      <4>1. CASE at = 1
        BY <1>3, <4>1
      <4>2. CASE at # 1
        <5>1. at - 1 \in 1 .. n /\ (at - 1) + 1 = k - 1
          BY <3>1, <4>2
        <5> QED BY <1>6, <4>2, <5>1
      <4> QED BY <4>1, <4>2
    <3>4. p[at] \in DOMAIN nodes /\ n # 0 /\ one = p[1] /\ 1 \in 1 .. n /\ (p[at] = one <=> at = 1)
      <4>1. n # 0 /\ 1 \in 1 .. n
        BY <3>1
      <4> QED BY <1>1, <1>2, <3>1, <4>1
    <3>5. DOMAIN nodes[p[at]] = NodeFields /\ back \in NodeFields /\ back # "value"
      BY <1>a, <1>1, <3>1 DEF Links, NodeFields
    <3>6. /\ DOMAIN ns[p[at]] = NodeFields /\ ns[p[at]].value = nodes[p[at]].value
          /\ ns[p[at]][to] = nodes[p[at]][to]
          /\ ns[p[at]][back] = IF at = 1 THEN new ELSE nodes[p[at]][back]
      <4>1. CASE at = 1
        <5>1. ns[p[at]] = [nodes[p[at]] EXCEPT ![back] = new]
          BY <1>9, <3>4, <4>1
        <5> QED BY <1>a, <3>5, <4>1, <5>1 DEF NodeFields, Links
      <4>2. CASE at # 1
        BY <1>9, <3>4, <3>5, <4>2
      <4> QED BY <4>1, <4>2
    <3> HIDE DEF at
    <3>7. /\ nodes[p[at]].value \in Values
          /\ nodes[p[at]][back] = IF at = 1 THEN Null ELSE p[at - 1]
          /\ nodes[p[at]][to] = IF at = n THEN Null ELSE p[at + 1]
      BY <1>1, <3>1
    <3> QED BY <2>2, <3>1, <3>2, <3>3, <3>6, <3>7
  <2> QED BY <2>1, <2>2
<1>12. last = q[n + 1]
  <2>1. CASE n = 0
    BY <1>a, <1>1, <1>3, <2>1
  <2>2. CASE n # 0
    <3>1. 1 \in 1 .. n /\ n \in 1 .. n
      BY <2>2
    <3>2. one # Null /\ another = p[n]
      BY <1>0, <1>1, <1>2, <2>2, <3>1
    <3> QED BY <1>a, <1>6, <3>1, <3>2
  <2> QED BY <2>1, <2>2
<1>13. n + 1 # 0 /\ new = q[1]
  BY <1>3
<1>14. Chained(q, ns, new, last, n + 1, to, back)
  BY <1>7, <1>8, <1>10, <1>11, <1>12, <1>13 DEF Chained
<1> QED BY <1>3, <1>6, <1>14 DEF Longer

\* A pop at one end: the first node taken away.
FirstGone(ns, one, second, another, last, to, back) ==
  /\ to \in Links /\ back \in Links /\ to # back
  /\ one # Null /\ second = nodes[one][to]
  /\ ns = K!Without(one, second, back)
  /\ last = IF second = Null THEN Null ELSE another

\* A path like p, of n nodes, without the first one.
Shorter(p, ns, one, second, last, n, to, back) ==
  \E q : /\ Chained(q, ns, second, last, n - 1, to, back)
         /\ n > 0 /\ one = p[1] /\ \A k \in 1 .. n - 1 : q[k] = p[k + 1]

LEMMA ChainedWithout ==
  ASSUME NEW p, NEW one, NEW another, NEW n \in Nat, NEW to, NEW back,
         Chained(p, nodes, one, another, n, to, back),
         NEW ns, NEW second, NEW last, FirstGone(ns, one, second, another, last, to, back)
  PROVE  Shorter(p, ns, one, second, last, n, to, back)
<1> DEFINE q == [k \in 1 .. n - 1 |-> p[k + 1]]
<1>a. /\ to \in Links /\ back \in Links /\ to # back
      /\ one # Null /\ second = nodes[one][to]
      /\ ns = K!Without(one, second, back)
      /\ last = IF second = Null THEN Null ELSE another
  BY DEF FirstGone
<1>0. Null \notin Nodes
  BY NodesAssumption
<1>1. /\ p \in Seq(Nodes) /\ Len(p) = n
      /\ \A j, k \in 1 .. n : p[j] = p[k] => j = k
      /\ DOMAIN nodes = {p[k] : k \in 1 .. n}
      /\ \A k \in 1 .. n :
           /\ DOMAIN nodes[p[k]] = NodeFields /\ nodes[p[k]].value \in Values
           /\ nodes[p[k]][back] = IF k = 1 THEN Null ELSE p[k - 1]
           /\ nodes[p[k]][to] = IF k = n THEN Null ELSE p[k + 1]
      /\ one = IF n = 0 THEN Null ELSE p[1]
      /\ another = IF n = 0 THEN Null ELSE p[n]
  BY DEF Chained
<1>2. \A k \in 1 .. n : p[k] \in Nodes /\ p[k] \in DOMAIN nodes
  BY <1>1
<1>3. n > 0 /\ 1 \in 1 .. n /\ n \in 1 .. n /\ n - 1 \in Nat /\ one = p[1]
  <2>1. n # 0
    BY <1>a, <1>1
  <2> QED BY <1>1, <2>1
<1>4. \A k \in 1 .. n - 1 : k + 1 \in 1 .. n /\ k + 1 # 1 /\ (k = n - 1 <=> k + 1 = n)
  BY <1>3
<1>5. \A k \in 2 .. n : k - 1 \in 1 .. n - 1 /\ (k - 1) + 1 = k /\ k \in 1 .. n /\ k # 1
  BY <1>3
<1>6. q = [k \in 1 .. n - 1 |-> q[k]] /\ \A k \in 1 .. n - 1 : q[k] = p[k + 1]
  OBVIOUS
<1>7. second = IF n = 1 THEN Null ELSE p[2]
  <2>1. nodes[p[1]][to] = IF 1 = n THEN Null ELSE p[1 + 1]
    BY <1>1, <1>3
  <2>2. 1 + 1 = 2
    OBVIOUS
  <2> QED BY <1>a, <1>3, <2>1, <2>2
<1> HIDE DEF q
<1>8. q \in Seq(Nodes) /\ Len(q) = n - 1
  <2>1. \A k \in 1 .. n - 1 : q[k] \in Nodes
    BY <1>2, <1>4, <1>6
  <2> QED BY <1>3, <1>6, <2>1, Listed
<1>9. \A j, k \in 1 .. n - 1 : q[j] = q[k] => j = k
  <2> SUFFICES ASSUME NEW j \in 1 .. n - 1, NEW k \in 1 .. n - 1, q[j] = q[k] PROVE j = k
    OBVIOUS
  <2>1. j + 1 = k + 1
    BY <1>1, <1>4, <1>6
  <2> QED BY <2>1
<1>10. /\ DOMAIN ns = DOMAIN nodes \ {one}
       /\ \A a \in DOMAIN nodes : a # one /\ a # second => ns[a] = nodes[a]
       /\ second \in DOMAIN nodes /\ second # one => ns[second] = [nodes[second] EXCEPT ![back] = Null]
  BY <1>a DEF K!Without
<1>11. DOMAIN ns = {q[k] : k \in 1 .. n - 1}
  <2>1. \A a : a \in DOMAIN ns <=> \E k \in 1 .. n : a = p[k] /\ k # 1
    BY <1>1, <1>3, <1>10
  <2>2. ASSUME NEW k \in 1 .. n, k # 1 PROVE \E j \in 1 .. n - 1 : p[k] = q[j]
    <3>1. k \in 2 .. n
      BY <2>2
    <3>2. q[k - 1] = p[k]
      <4>1. q[k - 1] = p[(k - 1) + 1]
        BY <1>5, <1>6, <3>1
      <4> QED BY <1>5, <3>1, <4>1
    <3> QED BY <1>5, <3>1, <3>2
  <2>3. ASSUME NEW j \in 1 .. n - 1 PROVE \E k \in 1 .. n : q[j] = p[k] /\ k # 1
    BY <1>4, <1>6
  <2>4. \A a : (\E k \in 1 .. n - 1 : a = q[k]) <=> \E k \in 1 .. n : a = p[k] /\ k # 1
    BY ONLY <2>2, <2>3, Zenon
  <2>5. DOMAIN ns = DOMAIN nodes \ {one}
    BY <1>10
  <2> DEFINE X == {q[k] : k \in 1 .. n - 1}
  <2>6. \A a : a \in X <=> \E k \in 1 .. n - 1 : a = q[k]
    OBVIOUS
  <2> HIDE DEF X
  <2>7. \A a : a \in DOMAIN nodes \ {one} <=> a \in X
    BY ONLY <2>1, <2>4, <2>5, <2>6
  <2>8. DOMAIN ns = X
    BY ONLY <2>5, <2>7
  <2> QED BY <2>8 DEF X
<1>12. ASSUME NEW k \in 1 .. n - 1
       PROVE  /\ DOMAIN ns[q[k]] = NodeFields /\ ns[q[k]].value \in Values
              /\ ns[q[k]][back] = IF k = 1 THEN Null ELSE q[k - 1]
              /\ ns[q[k]][to] = IF k = n - 1 THEN Null ELSE q[k + 1]
  <2> DEFINE at == k + 1
  <2>1. at \in 1 .. n /\ q[k] = p[at] /\ (at = n <=> k = n - 1) /\ at # 1 /\ (at = 2 <=> k = 1) /\ at - 1 = k
    BY <1>4, <1>6
  <2>2. ASSUME k # n - 1 PROVE q[k + 1] = p[at + 1]
    <3>1. k + 1 \in 1 .. n - 1 /\ (k + 1) + 1 = at + 1
      BY <2>2
    <3> QED BY <1>6, <3>1
  <2>3. ASSUME k # 1 PROVE q[k - 1] = p[at - 1]
    <3>1. k - 1 \in 1 .. n - 1 /\ (k - 1) + 1 = at - 1
      BY <2>3
    <3> QED BY <1>6, <3>1
  <2>4. p[at] \in DOMAIN nodes /\ p[at] # one /\ second = p[2] /\ (p[at] = second <=> at = 2)
    <3>1. n # 1 /\ 2 \in 1 .. n
      BY <1>3
    <3> QED BY <1>1, <1>2, <1>3, <1>7, <2>1, <3>1
  <2>5. DOMAIN nodes[p[at]] = NodeFields /\ back \in NodeFields /\ back # "value"
    BY <1>a, <1>1, <2>1 DEF Links, NodeFields
  <2>6. /\ DOMAIN ns[p[at]] = NodeFields /\ ns[p[at]].value = nodes[p[at]].value
        /\ ns[p[at]][to] = nodes[p[at]][to]
        /\ ns[p[at]][back] = IF at = 2 THEN Null ELSE nodes[p[at]][back]
    <3>1. CASE at = 2
      <4>1. ns[p[at]] = [nodes[p[at]] EXCEPT ![back] = Null]
        BY <1>10, <2>4, <3>1
      <4> QED BY <1>a, <2>5, <3>1, <4>1 DEF NodeFields, Links
    <3>2. CASE at # 2
      BY <1>10, <2>4, <2>5, <3>2
    <3> QED BY <3>1, <3>2
  <2> HIDE DEF at
  <2>7. /\ nodes[p[at]].value \in Values
        /\ nodes[p[at]][back] = IF at = 1 THEN Null ELSE p[at - 1]
        /\ nodes[p[at]][to] = IF at = n THEN Null ELSE p[at + 1]
    BY <1>1, <2>1
  <2> QED BY <2>1, <2>2, <2>3, <2>6, <2>7
<1>13. second = (IF n - 1 = 0 THEN Null ELSE q[1])
  <2>1. CASE n = 1
    BY <1>7, <2>1
  <2>2. CASE n # 1
    <3>1. 1 \in 1 .. n - 1 /\ n - 1 # 0 /\ 1 + 1 = 2
      BY <1>3, <2>2
    <3> QED BY <1>6, <1>7, <2>2, <3>1
  <2> QED BY <2>1, <2>2
<1>14. last = (IF n - 1 = 0 THEN Null ELSE q[n - 1])
  <2>1. CASE n = 1
    BY <1>a, <1>7, <2>1
  <2>2. CASE n # 1
    <3>1. n - 1 \in 1 .. n - 1 /\ n - 1 # 0 /\ (n - 1) + 1 = n /\ 2 \in 1 .. n
      BY <1>3, <2>2
    <3>2. second # Null /\ another = p[n]
      BY <1>0, <1>1, <1>2, <1>3, <1>7, <2>2, <3>1
    <3>3. q[n - 1] = p[n]
      BY <1>6, <3>1
    <3> QED BY <1>a, <3>1, <3>2, <3>3
  <2> QED BY <2>1, <2>2
<1>15. Chained(q, ns, second, last, n - 1, to, back)
  BY <1>8, <1>9, <1>11, <1>12, <1>13, <1>14 DEF Chained
<1> QED BY <1>3, <1>6, <1>15 DEF Shorter

-----------------------------------------------------------------------------
(***************************************************************************)
(* What Walk reads along a path: the values on it, in their order.         *)
(***************************************************************************)
\* The recursive function of Walk: what n steps read from a node on.
Reads(f, link) ==
  f = [n \in Nat |->
        [a \in Nodes \cup {Null} |->
           IF n = 0 \/ a \notin DOMAIN nodes THEN <<>>
           ELSE <<nodes[a].value>> \o f[n - 1][nodes[a][link]]]]

\* At most n values of the path from a place on.
Some(p, at, n) ==
  [k \in 1 .. (IF n <= Len(p) + 1 - at THEN n ELSE Len(p) + 1 - at) |-> nodes[p[at + k - 1]].value]

LEMMA SomeIs ==
  ASSUME NEW p \in Seq(Nodes), \A k \in 1 .. Len(p) : nodes[p[k]].value \in Values,
         NEW at \in 1 .. Len(p), NEW n \in Nat
  PROVE  /\ Some(p, at, n) \in Seq(Values)
         /\ Len(Some(p, at, n)) = IF n <= Len(p) + 1 - at THEN n ELSE Len(p) + 1 - at
         /\ \A k \in 1 .. Len(Some(p, at, n)) : Some(p, at, n)[k] = nodes[p[at + k - 1]].value
<1> DEFINE m == IF n <= Len(p) + 1 - at THEN n ELSE Len(p) + 1 - at
           s == Some(p, at, n)
<1>1. m \in Nat /\ \A k \in 1 .. m : at + k - 1 \in 1 .. Len(p)
  OBVIOUS
<1>2. s = [k \in 1 .. m |-> nodes[p[at + k - 1]].value]
  BY DEF Some
<1> HIDE DEF m, s
<1>3. s = [k \in 1 .. m |-> s[k]] /\ \A k \in 1 .. m : s[k] = nodes[p[at + k - 1]].value
  BY <1>2
<1>4. \A k \in 1 .. m : s[k] \in Values
  BY <1>1, <1>3
<1>5. s \in Seq(Values) /\ Len(s) = m
  BY <1>1, <1>3, <1>4, Listed
<1> QED BY <1>3, <1>5 DEF m, s

\* One more step reads the value here, then what is read from the next place on.
LEMMA SomeMore ==
  ASSUME NEW p \in Seq(Nodes), \A k \in 1 .. Len(p) : nodes[p[k]].value \in Values,
         NEW at \in 1 .. Len(p), NEW n \in Nat, n # 0
  PROVE  Some(p, at, n) = <<nodes[p[at]].value>> \o (IF at = Len(p) THEN <<>> ELSE Some(p, at + 1, n - 1))
<1> DEFINE v == nodes[p[at]].value
           t == Some(p, at, n)
           s == IF at = Len(p) THEN <<>> ELSE Some(p, at + 1, n - 1)
<1>0. n - 1 \in Nat /\ at \in Nat /\ Len(p) \in Nat /\ at <= Len(p) /\ v \in Values
  OBVIOUS
<1>1. /\ t \in Seq(Values)
      /\ Len(t) = IF n <= Len(p) + 1 - at THEN n ELSE Len(p) + 1 - at
      /\ \A k \in 1 .. Len(t) : t[k] = nodes[p[at + k - 1]].value
  BY SomeIs
<1>2. /\ s \in Seq(Values)
      /\ Len(s) = IF n - 1 <= Len(p) - at THEN n - 1 ELSE Len(p) - at
      /\ \A k \in 1 .. Len(s) : s[k] = nodes[p[at + k]].value
  <2>1. CASE at = Len(p)
    <3>1. s = <<>>
      BY <2>1
    <3> HIDE DEF s
    <3>2. Len(s) = 0 /\ s \in Seq(Values)
      BY <3>1
    <3> QED BY <1>0, <2>1, <3>2
  <2>2. CASE at # Len(p)
    <3>1. at + 1 \in 1 .. Len(p) /\ Len(p) + 1 - (at + 1) = Len(p) - at
      BY <1>0, <2>2
    <3>2. s = Some(p, at + 1, n - 1)
      BY <2>2
    <3> HIDE DEF s
    <3>3. /\ s \in Seq(Values)
          /\ Len(s) = IF n - 1 <= Len(p) + 1 - (at + 1) THEN n - 1 ELSE Len(p) + 1 - (at + 1)
          /\ \A k \in 1 .. Len(s) : s[k] = nodes[p[at + 1 + k - 1]].value
      BY <1>0, <3>1, <3>2, SomeIs
    <3>4. \A k \in 1 .. Len(s) : at + 1 + k - 1 = at + k
      BY <1>0, <3>3
    <3> QED BY <3>1, <3>3, <3>4
  <2> QED BY <2>1, <2>2
<1> HIDE DEF t, s, v
<1>3. Len(t) = Len(s) + 1
  BY <1>0, <1>1, <1>2
<1>4. t[1] = v
  <2>1. 1 \in 1 .. Len(t) /\ at + 1 - 1 = at
    BY <1>0, <1>1, <1>2, <1>3
  <2> QED BY <1>1, <2>1 DEF v
<1>5. \A k \in 1 .. Len(s) : t[k + 1] = s[k]
  <2> SUFFICES ASSUME NEW k \in 1 .. Len(s) PROVE t[k + 1] = s[k]
    OBVIOUS
  <2>1. k + 1 \in 1 .. Len(t) /\ at + (k + 1) - 1 = at + k
    BY <1>0, <1>2, <1>3
  <2> QED BY <1>1, <1>2, <2>1
<1>6. t = <<v>> \o s
  BY <1>0, <1>1, <1>2, <1>3, <1>4, <1>5, IsPrepend
<1> QED BY <1>6 DEF t, s, v

\* The path's own account of it satisfies the equation of Reads, and two
\* functions that satisfy it agree at every number of steps.
LEMMA ReadsOne ==
  ASSUME NEW p, NEW one, NEW another, NEW n \in Nat, NEW to, NEW back,
         Chained(p, nodes, one, another, n, to, back)
  PROVE  \E f : Reads(f, to) /\ \A m \in Nat, at \in 1 .. n : f[m][p[at]] = Some(p, at, m)
<1>0. Null \notin Nodes
  BY NodesAssumption
<1>1. /\ p \in Seq(Nodes) /\ Len(p) = n
      /\ \A j, k \in 1 .. n : p[j] = p[k] => j = k
      /\ DOMAIN nodes = {p[k] : k \in 1 .. n}
      /\ \A k \in 1 .. n :
           /\ nodes[p[k]].value \in Values
           /\ nodes[p[k]][to] = IF k = n THEN Null ELSE p[k + 1]
  BY DEF Chained
<1> DEFINE Place(a) == CHOOSE at \in 1 .. n : p[at] = a
           f == [m \in Nat |-> [a \in Nodes \cup {Null} |->
                   IF a \notin DOMAIN nodes THEN <<>> ELSE Some(p, Place(a), m)]]
<1>2. \A at \in 1 .. n : p[at] \in Nodes /\ p[at] \in DOMAIN nodes /\ Place(p[at]) = at
  BY <1>1
<1>3. \A m \in Nat, at \in 1 .. n : f[m][p[at]] = Some(p, at, m)
  BY <1>2
<1>4. \A m \in Nat, a \in Nodes \cup {Null} : a \notin DOMAIN nodes => f[m][a] = <<>>
  OBVIOUS
<1>5. Null \in Nodes \cup {Null} /\ Null \notin DOMAIN nodes
  BY <1>0, <1>1, <1>2
<1>6. f = [m \in Nat |-> [a \in Nodes \cup {Null} |-> f[m][a]]]
  OBVIOUS
<1> HIDE DEF f, Place
<1>7. ASSUME NEW m \in Nat, NEW a \in Nodes \cup {Null}
      PROVE  f[m][a] = IF m = 0 \/ a \notin DOMAIN nodes THEN <<>>
                       ELSE <<nodes[a].value>> \o f[m - 1][nodes[a][to]]
  <2>1. CASE a \notin DOMAIN nodes
    BY <1>4, <2>1
  <2>2. CASE a \in DOMAIN nodes
    <3>1. PICK at \in 1 .. n : a = p[at]
      BY <1>1, <2>2
    <3>2. f[m][a] = Some(p, at, m)
      BY <1>3, <3>1
    <3>3. CASE m = 0
      <4>1. Some(p, at, m) \in Seq(Values) /\ Len(Some(p, at, m)) = 0
        <5>1. 0 <= Len(p) + 1 - at
          BY <1>1
        <5> QED BY <1>1, <3>3, <5>1, SomeIs
      <4>2. Some(p, at, m) = <<>>
        BY <4>1, EmptySeq
      <4> QED BY <3>2, <3>3, <4>2
    <3>4. CASE m # 0
      <4>1. Some(p, at, m) = <<nodes[p[at]].value>> \o (IF at = n THEN <<>> ELSE Some(p, at + 1, m - 1))
        BY <1>1, <3>4, SomeMore
      <4>2. f[m - 1][nodes[a][to]] = IF at = n THEN <<>> ELSE Some(p, at + 1, m - 1)
        <5>1. m - 1 \in Nat /\ (at # n => at + 1 \in 1 .. n)
          BY <3>4
        <5>2. nodes[a][to] = IF at = n THEN Null ELSE p[at + 1]
          BY <1>1, <3>1
        <5> QED BY <1>3, <1>4, <1>5, <5>1, <5>2
      <4> QED BY <2>2, <3>1, <3>2, <3>4, <4>1, <4>2
    <3> QED BY <3>3, <3>4
  <2> QED BY <2>1, <2>2
<1>8. Reads(f, to)
  BY <1>6, <1>7 DEF Reads
<1> QED BY <1>3, <1>8

LEMMA ReadsAt ==
  ASSUME NEW link, NEW f, Reads(f, link), NEW m \in Nat, NEW a \in Nodes \cup {Null}
  PROVE  f[m][a] = IF m = 0 \/ a \notin DOMAIN nodes THEN <<>>
                   ELSE <<nodes[a].value>> \o f[m - 1][nodes[a][link]]
<1> DEFINE h == [k \in Nat |-> [b \in Nodes \cup {Null} |->
                   IF k = 0 \/ b \notin DOMAIN nodes THEN <<>>
                   ELSE <<nodes[b].value>> \o f[k - 1][nodes[b][link]]]]
<1>1. f = h
  BY DEF Reads
<1>2. h[m][a] = IF m = 0 \/ a \notin DOMAIN nodes THEN <<>>
                ELSE <<nodes[a].value>> \o f[m - 1][nodes[a][link]]
  OBVIOUS
<1> HIDE DEF h
<1>3. f[m][a] = h[m][a]
  BY <1>1
<1> QED BY <1>2, <1>3

LEMMA ReadsSame ==
  ASSUME NEW p, NEW one, NEW another, NEW n \in Nat, NEW to, NEW back,
         Chained(p, nodes, one, another, n, to, back),
         NEW f, NEW g, Reads(f, to), Reads(g, to)
  PROVE  \A m \in Nat : \A a \in Nodes \cup {Null} : f[m][a] = g[m][a]
<1> DEFINE T == {m \in Nat : \E a \in Nodes \cup {Null} : f[m][a] # g[m][a]}
<1>1. /\ p \in Seq(Nodes) /\ Len(p) = n
      /\ DOMAIN nodes = {p[k] : k \in 1 .. n}
      /\ \A k \in 1 .. n : nodes[p[k]][to] = IF k = n THEN Null ELSE p[k + 1]
  BY DEF Chained
<1>2. \A a \in DOMAIN nodes : nodes[a][to] \in Nodes \cup {Null}
  <2> SUFFICES ASSUME NEW k \in 1 .. n PROVE nodes[p[k]][to] \in Nodes \cup {Null}
    BY <1>1
  <2>1. k # n => k + 1 \in 1 .. n
    OBVIOUS
  <2> QED BY <1>1, <2>1
<1>3. \A m \in Nat : \A a \in Nodes \cup {Null} :
        /\ f[m][a] = IF m = 0 \/ a \notin DOMAIN nodes THEN <<>>
                     ELSE <<nodes[a].value>> \o f[m - 1][nodes[a][to]]
        /\ g[m][a] = IF m = 0 \/ a \notin DOMAIN nodes THEN <<>>
                     ELSE <<nodes[a].value>> \o g[m - 1][nodes[a][to]]
  <2> SUFFICES ASSUME NEW m \in Nat, NEW a \in Nodes \cup {Null}
               PROVE  /\ f[m][a] = IF m = 0 \/ a \notin DOMAIN nodes THEN <<>>
                                   ELSE <<nodes[a].value>> \o f[m - 1][nodes[a][to]]
                      /\ g[m][a] = IF m = 0 \/ a \notin DOMAIN nodes THEN <<>>
                                   ELSE <<nodes[a].value>> \o g[m - 1][nodes[a][to]]
    OBVIOUS
  <2> QED BY ONLY Reads(f, to), Reads(g, to), m \in Nat, a \in Nodes \cup {Null}, ReadsAt
<1>4. SUFFICES ASSUME T # {} PROVE FALSE
  OBVIOUS
<1>5. PICK m \in T : \A k \in T : m <= k
  <2>1. T \in SUBSET Nat
    OBVIOUS
  <2> HIDE DEF T
  <2> QED BY <1>4, <2>1, LeastMember
<1>6. PICK a \in Nodes \cup {Null} : f[m][a] # g[m][a]
  BY <1>5
<1>7. m \in Nat /\ m # 0 /\ a \in DOMAIN nodes
  BY <1>3, <1>5, <1>6
<1>8. m - 1 \in Nat /\ ~ (m <= m - 1)
  BY <1>7
<1>9. f[m - 1][nodes[a][to]] = g[m - 1][nodes[a][to]]
  <2>1. m - 1 \notin T
    <3> HIDE DEF T
    <3> QED BY <1>5, <1>8
  <2> QED BY <1>2, <1>7, <1>8, <2>1
<1>10. f[m][a] = <<nodes[a].value>> \o f[m - 1][nodes[a][to]]
  BY <1>3, <1>7
<1>11. g[m][a] = <<nodes[a].value>> \o g[m - 1][nodes[a][to]]
  BY <1>3, <1>7
<1> QED BY <1>6, <1>9, <1>10, <1>11, Zenon

LEMMA WalkReads ==
  ASSUME NEW link, NEW node, NEW g, Reads(g, link)
  PROVE  \E f : Reads(f, link) /\ K!Walk(node, link) = f[length + 1][node]
BY DEF K!Walk, Reads

\* What Walk gives from the first node of a path on.
LEMMA WalkAlong ==
  ASSUME NEW p, NEW one, NEW another, length \in Nat, NEW to, NEW back,
         Chained(p, nodes, one, another, length, to, back)
  PROVE  /\ K!Walk(one, to) \in Seq(Values) /\ Len(K!Walk(one, to)) = length
         /\ \A k \in 1 .. length : K!Walk(one, to)[k] = nodes[p[k]].value
<1> DEFINE w == K!Walk(one, to)
<1>0. Null \notin Nodes
  BY NodesAssumption
<1>1. /\ p \in Seq(Nodes) /\ Len(p) = length
      /\ DOMAIN nodes = {p[k] : k \in 1 .. length}
      /\ \A k \in 1 .. length : nodes[p[k]].value \in Values
      /\ one = IF length = 0 THEN Null ELSE p[1]
  BY DEF Chained
<1>2. PICK g : Reads(g, to) /\ \A m \in Nat, at \in 1 .. length : g[m][p[at]] = Some(p, at, m)
  BY ReadsOne
<1>3. PICK f : Reads(f, to) /\ w = f[length + 1][one]
  BY <1>2, WalkReads
<1> HIDE DEF w
<1>4. length + 1 \in Nat
  OBVIOUS
<1>5. CASE length = 0
  <2>1. one = Null /\ Null \notin DOMAIN nodes
    BY <1>0, <1>1, <1>5
  <2>2. w = <<>>
    BY <1>3, <1>4, <2>1 DEF Reads
  <2>3. w \in Seq(Values) /\ Len(w) = 0
    BY <2>2
  <2> QED BY <1>5, <2>3 DEF w
<1>6. CASE length # 0
  <2>1. 1 \in 1 .. length /\ one = p[1] /\ one \in Nodes
    BY <1>1, <1>6
  <2>2. f[length + 1][one] = g[length + 1][one]
    <3>1. \A m \in Nat : \A a \in Nodes \cup {Null} : f[m][a] = g[m][a]
      BY <1>2, <1>3, ReadsSame
    <3> QED BY <1>4, <2>1, <3>1
  <2>3. w = Some(p, 1, length + 1)
    BY <1>2, <1>3, <1>4, <2>1, <2>2
  <2>4. ~ (length + 1 <= length + 1 - 1) /\ length + 1 - 1 = length
    OBVIOUS
  <2>5. 1 \in 1 .. Len(p) /\ \A k \in 1 .. Len(p) : nodes[p[k]].value \in Values
    BY <1>1, <2>1
  <2>6. /\ w \in Seq(Values) /\ Len(w) = length
        /\ \A k \in 1 .. Len(w) : w[k] = nodes[p[1 + k - 1]].value
    BY <1>1, <1>4, <2>3, <2>4, <2>5, SomeIs
  <2>7. \A k \in 1 .. length : 1 + k - 1 = k
    OBVIOUS
  <2> QED BY <2>6, <2>7 DEF w
<1> QED BY <1>5, <1>6

-----------------------------------------------------------------------------
(***************************************************************************)
(* The four operations of LinkedList.                                      *)
(***************************************************************************)
LEMMA WithValues ==
  ASSUME NEW new, new \notin DOMAIN nodes, NEW one, NEW back \in Links, NEW node,
         \A a \in DOMAIN nodes : DOMAIN nodes[a] = NodeFields
  PROVE  /\ K!With(new, one, back, node)[new] = node
         /\ \A a \in DOMAIN nodes : K!With(new, one, back, node)[a].value = nodes[a].value
<1> DEFINE ns == K!With(new, one, back, node)
<1>1. /\ ns[new] = node
      /\ \A a \in DOMAIN nodes : ns[a] = IF a = one THEN [nodes[a] EXCEPT ![back] = new] ELSE nodes[a]
  BY DEF K!With
<1> HIDE DEF ns
<1>2. \A a \in DOMAIN nodes : [nodes[a] EXCEPT ![back] = new].value = nodes[a].value
  BY DEF Links, NodeFields
<1>3. \A a \in DOMAIN nodes : ns[a].value = nodes[a].value
  BY <1>1, <1>2
<1> QED BY <1>1, <1>3 DEF ns

LEMMA WithoutValues ==
  ASSUME NEW one, NEW second, NEW back \in Links,
         \A a \in DOMAIN nodes : DOMAIN nodes[a] = NodeFields
  PROVE  \A a \in DOMAIN nodes : a # one => K!Without(one, second, back)[a].value = nodes[a].value
<1> DEFINE ns == K!Without(one, second, back)
<1>1. \A a \in DOMAIN nodes : a # one =>
        ns[a] = IF a = second THEN [nodes[a] EXCEPT ![back] = Null] ELSE nodes[a]
  BY DEF K!Without
<1> HIDE DEF ns
<1>2. \A a \in DOMAIN nodes : [nodes[a] EXCEPT ![back] = Null].value = nodes[a].value
  BY DEF Links, NodeFields
<1>3. \A a \in DOMAIN nodes : a # one => ns[a].value = nodes[a].value
  BY <1>1, <1>2
<1> QED BY <1>3 DEF ns

\* There is an address for one more node.
LEMMA MallocIsFresh ==
  ASSUME NEW p, NEW one, NEW another, NEW n \in Nat, NEW to, NEW back,
         Chained(p, nodes, one, another, n, to, back), n + 1 <= MaxLength
  PROVE  K!Malloc \in Nodes /\ K!Malloc \notin DOMAIN nodes
<1>1. \E a \in Nodes : a \notin DOMAIN nodes
  <2> SUFFICES ASSUME \A a \in Nodes : a \in DOMAIN nodes PROVE FALSE
    OBVIOUS
  <2>1. /\ p \in Seq(Nodes) /\ Len(p) = n
        /\ DOMAIN nodes = {p[k] : k \in 1 .. n}
    BY DEF Chained
  <2>2. p \in [1 .. n -> Nodes] /\ \A a \in Nodes : \E k \in 1 .. n : p[k] = a
    BY <2>1
  <2>3. ExistsSurjection(1 .. n, Nodes)
    BY <2>2 DEF ExistsSurjection, Surjection
  <2>4. Cardinality(Nodes) <= n /\ Cardinality(Nodes) \in Nat
    BY <2>3, FS_SurjCardinalityBound, FS_CardinalityType, NodesAssumption
  <2> QED BY <2>4, NodesAssumption
<1> QED BY <1>1 DEF K!Malloc

Forward(p) == Chained(p, nodes, head, tail, length, "next", "prev")
Backward(p) == Chained(p, nodes, tail, head, length, "prev", "next")

LinkedInv == length \in Nat /\ \E p : Forward(p)

BackwardInv == length \in Nat /\ \E p : Backward(p)

LEMMA BothWays == BackwardInv <=> LinkedInv
<1>1. ASSUME length \in Nat, NEW p, Forward(p) PROVE \E q : Backward(q)
  <2>1. Backward(Backwards(p))
    BY <1>1, ChainedBackwards DEF Forward, Backward
  <2> QED BY <2>1
<1>2. ASSUME length \in Nat, NEW p, Backward(p) PROVE \E q : Forward(q)
  <2>1. Forward(Backwards(p))
    BY <1>2, ChainedBackwards DEF Forward, Backward
  <2> QED BY <2>1
<1> QED BY <1>1, <1>2 DEF LinkedInv, BackwardInv

\* What the list holds, told along a path from either end.
LinkedHolds ==
  \A p : length \in Nat =>
    /\ Forward(p) =>
         /\ K!Content \in Seq(Values) /\ Len(K!Content) = length
         /\ \A k \in 1 .. length : K!Content[k] = nodes[p[k]].value
    /\ Backward(p) =>
         /\ K!Content \in Seq(Values) /\ Len(K!Content) = length
         /\ \A k \in 1 .. length : K!Content[k] = nodes[p[length + 1 - k]].value

LEMMA LinkedForward ==
  ASSUME length \in Nat, NEW p, Forward(p)
  PROVE  /\ K!Content \in Seq(Values) /\ Len(K!Content) = length
         /\ \A k \in 1 .. length : K!Content[k] = nodes[p[k]].value
BY WalkAlong DEF Forward, K!Content

LEMMA LinkedContent == LinkedHolds
<1>1. ASSUME length \in Nat, NEW p, Backward(p)
      PROVE  /\ K!Content \in Seq(Values) /\ Len(K!Content) = length
             /\ \A k \in 1 .. length : K!Content[k] = nodes[p[length + 1 - k]].value
  <2>1. Forward(Backwards(p))
    BY <1>1, ChainedBackwards DEF Forward, Backward
  <2>2. /\ K!Content \in Seq(Values) /\ Len(K!Content) = length
        /\ \A k \in 1 .. length : K!Content[k] = nodes[Backwards(p)[k]].value
    BY <1>1, <2>1, LinkedForward
  <2>3. Len(p) = length
    BY <1>1 DEF Backward, Chained
  <2>4. \A k \in 1 .. length : Backwards(p)[k] = p[length + 1 - k]
    BY <2>3 DEF Backwards
  <2> QED BY <2>2, <2>4
<1> QED BY <1>1, LinkedForward DEF LinkedHolds

LEMMA PathOf ==
  ASSUME NEW p, NEW one, NEW another, NEW n \in Nat, NEW to, NEW back,
         Chained(p, nodes, one, another, n, to, back)
  PROVE  /\ \A k \in 1 .. n : p[k] \in DOMAIN nodes
         /\ \A j, k \in 1 .. n : p[j] = p[k] => j = k
         /\ \A a \in DOMAIN nodes : DOMAIN nodes[a] = NodeFields
BY DEF Chained

LEMMA LinkedPushFront ==
  ASSUME LinkedInv, NEW v \in Values, K!PushFront(v), length' <= MaxLength
  PROVE  LinkedInv' /\ K!Content' = <<v>> \o K!Content /\ returned' = Nothing
<1> DEFINE new == K!Malloc
           node == [value |-> v, prev |-> Null, next |-> head]
           s == K!Content
           t == K!Content'
<1>1. /\ nodes' = K!With(new, head, "prev", node) /\ head' = new
      /\ tail' = (IF head = Null THEN new ELSE tail)
      /\ length' = length + 1 /\ returned' = Nothing /\ length \in Nat
  BY DEF K!PushFront, LinkedInv
<1>2. PICK p : Forward(p)
  BY DEF LinkedInv
<1>3. new \in Nodes /\ new \notin DOMAIN nodes
  BY <1>1, <1>2, MallocIsFresh DEF Forward
<1>4. node.value = v /\ node["prev"] = Null /\ node["next"] = head /\ DOMAIN node = NodeFields
  BY DEF NodeFields
<1> HIDE DEF new, node
<1>5. "next" \in Links /\ "prev" \in Links /\ "next" # "prev"
  BY DEF Links
<1>6. PICK q : /\ Chained(q, nodes', head', tail', length', "next", "prev")
               /\ q[1] = new /\ \A k \in 1 .. length : q[k + 1] = p[k]
  <2>1. Chained(p, nodes, head, tail, length, "next", "prev")
    BY <1>2 DEF Forward
  <2>2. NewFirst(nodes', new, node, head, tail, tail', "next", "prev")
    BY <1>1, <1>3, <1>4, <1>5 DEF NewFirst
  <2>3. Longer(p, nodes', new, tail', length, "next", "prev")
    BY <1>1, <2>1, <2>2, ChainedWith
  <2> QED BY <1>1, <2>3 DEF Longer
<1>7. LinkedInv'
  BY <1>1, <1>6 DEF LinkedInv, Forward
<1>8. LinkedHolds /\ LinkedHolds'
  BY LinkedContent, PTL
<1>9. s \in Seq(Values) /\ Len(s) = length /\ \A k \in 1 .. length : s[k] = nodes[p[k]].value
  BY <1>1, <1>2, <1>8 DEF LinkedHolds
<1>10. t \in Seq(Values) /\ Len(t) = length' /\ \A k \in 1 .. length' : t[k] = nodes'[q[k]].value
  BY <1>1, <1>6, <1>8 DEF LinkedHolds, Forward
<1> HIDE DEF s, t
<1>11. /\ nodes'[new] = node /\ \A a \in DOMAIN nodes : nodes'[a].value = nodes[a].value
       /\ \A k \in 1 .. length : p[k] \in DOMAIN nodes
  <2>1. /\ \A a \in DOMAIN nodes : DOMAIN nodes[a] = NodeFields
        /\ \A k \in 1 .. length : p[k] \in DOMAIN nodes
    BY <1>1, <1>2, PathOf DEF Forward
  <2> QED BY <1>1, <1>3, <1>5, <2>1, WithValues
<1>12. \A k \in 1 .. Len(s) : t[k + 1] = s[k]
  <2> SUFFICES ASSUME NEW k \in 1 .. length PROVE t[k + 1] = s[k]
    BY <1>9
  <2>1. k + 1 \in 1 .. length'
    BY <1>1
  <2>2. t[k + 1] = nodes'[p[k]].value
    BY <1>6, <1>10, <2>1
  <2> QED BY <1>9, <1>11, <2>2
<1>13. t[1] = v
  <2>1. 1 \in 1 .. length'
    BY <1>1
  <2> QED BY <1>4, <1>6, <1>10, <1>11, <2>1
<1>14. t = <<v>> \o s
  BY <1>1, <1>9, <1>10, <1>12, <1>13, IsPrepend
<1> QED BY <1>1, <1>7, <1>14 DEF s, t

LEMMA LinkedPushBack ==
  ASSUME LinkedInv, NEW v \in Values, K!PushBack(v), length' <= MaxLength
  PROVE  LinkedInv' /\ K!Content' = Append(K!Content, v) /\ returned' = Nothing
<1> DEFINE new == K!Malloc
           node == [value |-> v, prev |-> tail, next |-> Null]
           s == K!Content
           t == K!Content'
<1>1. /\ nodes' = K!With(new, tail, "next", node) /\ tail' = new
      /\ head' = (IF tail = Null THEN new ELSE head)
      /\ length' = length + 1 /\ returned' = Nothing /\ length \in Nat
  BY DEF K!PushBack, LinkedInv
<1>2. PICK p : Backward(p)
  BY BothWays DEF BackwardInv
<1>3. new \in Nodes /\ new \notin DOMAIN nodes
  BY <1>1, <1>2, MallocIsFresh DEF Backward
<1>4. node.value = v /\ node["next"] = Null /\ node["prev"] = tail /\ DOMAIN node = NodeFields
  BY DEF NodeFields
<1> HIDE DEF new, node
<1>5. "next" \in Links /\ "prev" \in Links /\ "next" # "prev"
  BY DEF Links
<1>6. PICK q : /\ Chained(q, nodes', tail', head', length', "prev", "next")
               /\ q[1] = new /\ \A k \in 1 .. length : q[k + 1] = p[k]
  <2>1. Chained(p, nodes, tail, head, length, "prev", "next")
    BY <1>2 DEF Backward
  <2>2. NewFirst(nodes', new, node, tail, head, head', "prev", "next")
    BY <1>1, <1>3, <1>4, <1>5 DEF NewFirst
  <2>3. Longer(p, nodes', new, head', length, "prev", "next")
    BY <1>1, <2>1, <2>2, ChainedWith
  <2> QED BY <1>1, <2>3 DEF Longer
<1>7. LinkedInv'
  <2>1. BackwardInv'
    BY <1>1, <1>6 DEF BackwardInv, Backward
  <2> QED BY <2>1, BothWays, PTL
<1>8. LinkedHolds /\ LinkedHolds'
  BY LinkedContent, PTL
<1>9. /\ s \in Seq(Values) /\ Len(s) = length
      /\ \A k \in 1 .. length : s[k] = nodes[p[length + 1 - k]].value
  BY <1>1, <1>2, <1>8 DEF LinkedHolds
<1>10. /\ t \in Seq(Values) /\ Len(t) = length'
       /\ \A k \in 1 .. length' : t[k] = nodes'[q[length' + 1 - k]].value
  BY <1>1, <1>6, <1>8 DEF LinkedHolds, Backward
<1> HIDE DEF s, t
<1>11. /\ nodes'[new] = node /\ \A a \in DOMAIN nodes : nodes'[a].value = nodes[a].value
       /\ \A k \in 1 .. length : p[k] \in DOMAIN nodes
  <2>1. /\ \A a \in DOMAIN nodes : DOMAIN nodes[a] = NodeFields
        /\ \A k \in 1 .. length : p[k] \in DOMAIN nodes
    BY <1>1, <1>2, PathOf DEF Backward
  <2> QED BY <1>1, <1>3, <1>5, <2>1, WithValues
<1>12. \A k \in 1 .. Len(s) : t[k] = s[k]
  <2> SUFFICES ASSUME NEW k \in 1 .. length PROVE t[k] = s[k]
    BY <1>9
  <2> DEFINE at == length + 1 - k
  <2>1. at \in 1 .. length /\ k \in 1 .. length' /\ length' + 1 - k = at + 1
    BY <1>1
  <2>2. t[k] = nodes'[q[at + 1]].value
    BY <1>10, <2>1
  <2>3. s[k] = nodes[p[at]].value
    BY <1>9
  <2> HIDE DEF at
  <2> QED BY <1>6, <1>11, <2>1, <2>2, <2>3
<1>13. t[Len(t)] = v
  <2>1. length' \in 1 .. length' /\ length' + 1 - length' = 1
    BY <1>1
  <2> QED BY <1>4, <1>6, <1>10, <1>11, <2>1
<1>14. t = Append(s, v)
  BY <1>1, <1>9, <1>10, <1>12, <1>13, IsAppend
<1> QED BY <1>1, <1>7, <1>14 DEF s, t

LEMMA LinkedPopFront ==
  ASSUME LinkedInv, K!PopFront
  PROVE  /\ LinkedInv' /\ K!Content # <<>> /\ returned' = K!Content[1]
         /\ K!Content' = Tail(K!Content)
<1> DEFINE second == nodes[head]["next"]
           s == K!Content
           t == K!Content'
<1>1. /\ head # Null /\ nodes' = K!Without(head, second, "prev") /\ head' = second
      /\ tail' = (IF second = Null THEN Null ELSE tail)
      /\ returned' = nodes[head].value /\ length' = length - 1 /\ length \in Nat
  BY DEF K!PopFront, LinkedInv
<1>2. PICK p : Forward(p)
  BY DEF LinkedInv
<1>3. "next" \in Links /\ "prev" \in Links /\ "next" # "prev"
  BY DEF Links
<1>4. PICK q : /\ Chained(q, nodes', second, tail', length - 1, "next", "prev")
               /\ length > 0 /\ head = p[1] /\ \A k \in 1 .. length - 1 : q[k] = p[k + 1]
  <2>1. Chained(p, nodes, head, tail, length, "next", "prev")
    BY <1>2 DEF Forward
  <2>2. FirstGone(nodes', head, second, tail, tail', "next", "prev")
    BY <1>1, <1>3 DEF FirstGone
  <2> HIDE DEF second
  <2>3. Shorter(p, nodes', head, second, tail', length, "next", "prev")
    BY <1>1, <2>1, <2>2, ChainedWithout
  <2> QED BY <2>3 DEF Shorter
<1> HIDE DEF second
<1>5. Chained(q, nodes', head', tail', length', "next", "prev") /\ length' \in Nat
  BY <1>1, <1>4
<1>6. LinkedInv'
  BY <1>5 DEF LinkedInv, Forward
<1>7. LinkedHolds /\ LinkedHolds'
  BY LinkedContent, PTL
<1>8. s \in Seq(Values) /\ Len(s) = length /\ \A k \in 1 .. length : s[k] = nodes[p[k]].value
  BY <1>1, <1>2, <1>7 DEF LinkedHolds
<1>9. t \in Seq(Values) /\ Len(t) = length' /\ \A k \in 1 .. length' : t[k] = nodes'[q[k]].value
  BY <1>5, <1>7 DEF LinkedHolds, Forward
<1> HIDE DEF s, t
<1>10. /\ \A a \in DOMAIN nodes : a # head => nodes'[a].value = nodes[a].value
       /\ \A k \in 1 .. length : p[k] \in DOMAIN nodes
       /\ \A k \in 1 .. length : p[k] = head => k = 1
  <2>1. /\ \A a \in DOMAIN nodes : DOMAIN nodes[a] = NodeFields
        /\ \A k \in 1 .. length : p[k] \in DOMAIN nodes
        /\ \A j, k \in 1 .. length : p[j] = p[k] => j = k
    BY <1>1, <1>2, PathOf DEF Forward
  <2>2. \A a \in DOMAIN nodes : a # head => nodes'[a].value = nodes[a].value
    BY <1>1, <1>3, <2>1, WithoutValues
  <2>3. 1 \in 1 .. length
    BY <1>1, <1>4
  <2> QED BY <1>4, <2>1, <2>2, <2>3
<1>11. \A k \in 1 .. Len(t) : t[k] = s[k + 1]
  <2> SUFFICES ASSUME NEW k \in 1 .. length - 1 PROVE t[k] = s[k + 1]
    BY <1>1, <1>9
  <2>1. k + 1 \in 1 .. length /\ k + 1 # 1 /\ k \in 1 .. length'
    BY <1>1
  <2>2. t[k] = nodes'[p[k + 1]].value
    BY <1>4, <1>9, <2>1
  <2>3. s[k + 1] = nodes[p[k + 1]].value
    BY <1>8, <2>1
  <2> QED BY <1>10, <2>1, <2>2, <2>3
<1>12. returned' = s[1]
  <2>1. 1 \in 1 .. length
    BY <1>1, <1>4
  <2> QED BY <1>1, <1>4, <1>8, <2>1
<1>13. s # <<>> /\ t = Tail(s)
  BY <1>1, <1>8, <1>9, <1>11, IsTail
<1> QED BY <1>6, <1>12, <1>13 DEF s, t

LEMMA LinkedPopBack ==
  ASSUME LinkedInv, K!PopBack
  PROVE  /\ LinkedInv' /\ K!Content # <<>> /\ returned' = K!Content[Len(K!Content)]
         /\ K!Content' = SubSeq(K!Content, 1, Len(K!Content) - 1)
<1> DEFINE second == nodes[tail]["prev"]
           s == K!Content
           t == K!Content'
<1>1. /\ tail # Null /\ nodes' = K!Without(tail, second, "next") /\ tail' = second
      /\ head' = (IF second = Null THEN Null ELSE head)
      /\ returned' = nodes[tail].value /\ length' = length - 1 /\ length \in Nat
  BY DEF K!PopBack, LinkedInv
<1>2. PICK p : Backward(p)
  BY BothWays DEF BackwardInv
<1>3. "next" \in Links /\ "prev" \in Links /\ "next" # "prev"
  BY DEF Links
<1>4. PICK q : /\ Chained(q, nodes', second, head', length - 1, "prev", "next")
               /\ length > 0 /\ tail = p[1] /\ \A k \in 1 .. length - 1 : q[k] = p[k + 1]
  <2>1. Chained(p, nodes, tail, head, length, "prev", "next")
    BY <1>2 DEF Backward
  <2>2. FirstGone(nodes', tail, second, head, head', "prev", "next")
    BY <1>1, <1>3 DEF FirstGone
  <2> HIDE DEF second
  <2>3. Shorter(p, nodes', tail, second, head', length, "prev", "next")
    BY <1>1, <2>1, <2>2, ChainedWithout
  <2> QED BY <2>3 DEF Shorter
<1> HIDE DEF second
<1>5. Chained(q, nodes', tail', head', length', "prev", "next") /\ length' \in Nat
  BY <1>1, <1>4
<1>6. LinkedInv'
  <2>1. BackwardInv'
    BY <1>5 DEF BackwardInv, Backward
  <2> QED BY <2>1, BothWays, PTL
<1>7. LinkedHolds /\ LinkedHolds'
  BY LinkedContent, PTL
<1>8. /\ s \in Seq(Values) /\ Len(s) = length
      /\ \A k \in 1 .. length : s[k] = nodes[p[length + 1 - k]].value
  BY <1>1, <1>2, <1>7 DEF LinkedHolds
<1>9. /\ t \in Seq(Values) /\ Len(t) = length'
      /\ \A k \in 1 .. length' : t[k] = nodes'[q[length' + 1 - k]].value
  BY <1>5, <1>7 DEF LinkedHolds, Backward
<1> HIDE DEF s, t
<1>10. /\ \A a \in DOMAIN nodes : a # tail => nodes'[a].value = nodes[a].value
       /\ \A k \in 1 .. length : p[k] \in DOMAIN nodes
       /\ \A k \in 1 .. length : p[k] = tail => k = 1
  <2>1. /\ \A a \in DOMAIN nodes : DOMAIN nodes[a] = NodeFields
        /\ \A k \in 1 .. length : p[k] \in DOMAIN nodes
        /\ \A j, k \in 1 .. length : p[j] = p[k] => j = k
    BY <1>1, <1>2, PathOf DEF Backward
  <2>2. \A a \in DOMAIN nodes : a # tail => nodes'[a].value = nodes[a].value
    BY <1>1, <1>3, <2>1, WithoutValues
  <2>3. 1 \in 1 .. length
    BY <1>1, <1>4
  <2> QED BY <1>4, <2>1, <2>2, <2>3
<1>11. \A k \in 1 .. Len(t) : t[k] = s[k]
  <2> SUFFICES ASSUME NEW k \in 1 .. length - 1 PROVE t[k] = s[k]
    BY <1>1, <1>9
  <2> DEFINE at == length - k
  <2>1. /\ at \in 1 .. length - 1 /\ at + 1 \in 1 .. length /\ at + 1 # 1
        /\ k \in 1 .. length' /\ length' + 1 - k = at
        /\ k \in 1 .. length /\ length + 1 - k = at + 1
    BY <1>1
  <2> HIDE DEF at
  <2>2. t[k] = nodes'[p[at + 1]].value
    BY <1>4, <1>9, <2>1
  <2>3. s[k] = nodes[p[at + 1]].value
    BY <1>8, <2>1
  <2> QED BY <1>10, <2>1, <2>2, <2>3
<1>12. s # <<>> /\ returned' = s[Len(s)]
  <2>1. length \in 1 .. length /\ length + 1 - length = 1
    BY <1>1, <1>4
  <2> QED BY <1>1, <1>4, <1>8, <2>1
<1>13. t = SubSeq(s, 1, Len(s) - 1)
  BY <1>1, <1>8, <1>9, <1>11, IsFront
<1> QED BY <1>6, <1>12, <1>13 DEF s, t

-----------------------------------------------------------------------------
(***************************************************************************)
(* Whichever container a program uses.  What the priority queue leaves     *)
(* alone is an empty list all the time.                                    *)
(***************************************************************************)
Holding ==
  /\ container \in Containers
  /\ container \in {"List", "Stack"} => ListInv
  /\ container \in {"Deque", "Queue"} => DequeInv
  /\ container \in {"LinkedList", "PriorityQueue"} => LinkedInv

\* Nobody called a method that cannot be called now.
Called == asked = NoCall \/ asked \in Calls

SequencesInv == Holding /\ Called

LEMMA CallsAre ==
  ASSUME NEW c \in Calls
  PROVE  /\ c.op \in Methods /\ c.op \in Pushes \cup Pops \cup {"set"}
         /\ c.op \in Pushes => c.value \in Values /\ length < MaxLength
         /\ c.op \in Pops => length > 0
         /\ c.op = "set" => c.value \in Values /\ c.index \in 0 .. length - 1
BY DEF Calls, Pushes, Pops

\* A method that runs is one that was called.
LEMMA AskedIs ==
  ASSUME Called, asked.op \in Pushes \cup Pops \cup {"set"}
  PROVE  asked \in Calls
BY DEF Called, NoCall, Pushes, Pops

\* What each method means for a sequence; when it ended, nothing is called.
LEMMA MethodMeans ==
  ASSUME asked' = NoCall
  PROVE  /\ /\ asked.op \in {"push", "enqueue", "push_back"}
            /\ Content' = Append(Content, asked.value) /\ returned' = Nothing
            => D!Next
         /\ /\ asked.op = "push_front"
            /\ Content' = <<asked.value>> \o Content /\ returned' = Nothing
            => D!Next
         /\ /\ asked.op \in {"pop", "pop_back"}
            /\ Content' = SubSeq(Content, 1, Len(Content) - 1) /\ returned' = Content[Len(Content)]
            => D!Next
         /\ /\ asked.op \in {"dequeue", "pop_front"}
            /\ Content' = Tail(Content) /\ returned' = Content[1]
            => D!Next
         /\ /\ asked.op = "set"
            /\ Content' = [Content EXCEPT ![asked.index + 1] = asked.value] /\ returned' = Nothing
            => D!Next
<1>1. Meant' = D!NoCall
  BY DEF Meant, NoCall, D!NoCall
<1>2. asked.op \in {"push", "enqueue", "push_back"} => Meant = [op |-> "pushBack", value |-> asked.value]
  BY DEF Meant
<1>3. asked.op = "push_front" => Meant = [op |-> "pushFront", value |-> asked.value]
  BY DEF Meant
<1>4. asked.op \in {"pop", "pop_back"} => Meant = [op |-> "popBack"]
  BY DEF Meant
<1>5. asked.op \in {"dequeue", "pop_front"} => Meant = [op |-> "popFront"]
  BY DEF Meant
<1>6. asked.op = "set" => Meant = [op |-> "replace", place |-> asked.index + 1, value |-> asked.value]
  BY DEF Meant
<1> QED BY <1>1, <1>2, <1>3, <1>4, <1>5, <1>6
        DEF D!Next, D!Change, D!PushBack, D!PushFront, D!PopBack, D!PopFront, D!Replace

LEMMA StartsEmpty ==
  ASSUME MCInit
  PROVE  SequencesInv /\ D!Init
<1>1. container \in Containers /\ length = 0 /\ returned = Nothing
  BY DEF MCInit
<1>2. Called /\ Meant = D!NoCall
  BY DEF MCInit, Called, Meant, NoCall, D!NoCall
<1>3. CASE container \in {"List", "Stack"}
  <2>1. ListInv
    BY <1>3 DEF MCInit, ListInv, L!InUse
  <2>2. L!Content = <<>>
    BY <1>1 DEF L!Content
  <2>3. Content = <<>>
    BY <1>3, <2>2 DEF Content
  <2> QED BY <1>1, <1>2, <1>3, <2>1, <2>3 DEF SequencesInv, Holding, D!Init
<1>4. CASE container \in {"Deque", "Queue"}
  <2>1. DequeInv
    BY <1>4 DEF MCInit, DequeInv
  <2>2. Q!Content = <<>>
    BY <1>1 DEF Q!Content
  <2>3. Content = <<>>
    BY <1>4, <2>2 DEF Content
  <2> QED BY <1>1, <1>2, <1>4, <2>1, <2>3 DEF SequencesInv, Holding, D!Init
<1>5. CASE container \in {"LinkedList", "PriorityQueue"}
  <2>1. Forward(<<>>) /\ length \in Nat
    <3>1. DOMAIN nodes = {} /\ head = Null /\ tail = Null
      BY DEF MCInit
    <3>2. <<>> \in Seq(Nodes) /\ Len(<<>>) = 0 /\ 1 .. 0 = {}
      OBVIOUS
    <3> QED BY <1>1, <3>1, <3>2 DEF Forward, Chained
  <2>2. K!Content \in Seq(Values) /\ Len(K!Content) = 0
    BY <1>1, <2>1, LinkedForward
  <2>3. K!Content = <<>>
    BY <2>2
  <2>4. Content = <<>>
    BY <1>5, <2>3 DEF Content
  <2> QED BY <1>1, <1>2, <1>5, <2>1, <2>4 DEF SequencesInv, Holding, D!Init, LinkedInv
<1> QED BY <1>1, <1>3, <1>4, <1>5 DEF Containers

LEMMA ListStep ==
  ASSUME SequencesInv, UsesList \/ UsesStack, container' = container, asked' = NoCall
  PROVE  Holding' /\ D!Next
<1>1. container \in {"List", "Stack"} /\ ListInv /\ container \in Containers
  BY DEF UsesList, UsesStack, SequencesInv, Holding
<1>2. Content = L!Content /\ Content' = L!Content'
  BY <1>1 DEF Content
<1>3. ASSUME ListInv'
      PROVE  Holding'
  BY <1>1, <1>3 DEF Holding
<1>4. CASE asked.op = "pop" /\ L!Pop
  <2>1. ListInv' /\ D!Next
    BY <1>1, <1>2, <1>4, ListPop, MethodMeans
  <2> QED BY <1>3, <2>1
<1>5. CASE asked.op = "push" /\ L!Push(asked.value)
  <2>1. asked.value \in Values
    BY <1>5, AskedIs, CallsAre DEF Pushes, SequencesInv
  <2>2. ListInv' /\ D!Next
    BY <1>1, <1>2, <1>5, <2>1, ListPush, MethodMeans
  <2> QED BY <1>3, <2>2
<1>6. CASE asked.op = "set" /\ L!Set(asked.index, asked.value)
  <2>1. asked.value \in Values /\ asked.index \in L!InUse
    BY <1>6, AskedIs, CallsAre DEF L!InUse, SequencesInv
  <2>2. ListInv' /\ D!Next
    BY <1>1, <1>2, <1>6, <2>1, ListSet, MethodMeans
  <2> QED BY <1>3, <2>2
<1> QED BY <1>4, <1>5, <1>6 DEF UsesList, UsesStack, L!Method

LEMMA DequeStep ==
  ASSUME SequencesInv, UsesDeque \/ UsesQueue, container' = container, asked' = NoCall
  PROVE  Holding' /\ D!Next
<1>1. container \in {"Deque", "Queue"} /\ DequeInv /\ container \in Containers
  BY DEF UsesDeque, UsesQueue, SequencesInv, Holding
<1>2. Content = Q!Content /\ Content' = Q!Content'
  BY <1>1 DEF Content
<1>3. ASSUME DequeInv'
      PROVE  Holding'
  BY <1>1, <1>3 DEF Holding
<1>4. CASE asked.op \in {"dequeue", "pop_front"} /\ Q!PopFront
  <2>1. DequeInv' /\ D!Next
    BY <1>1, <1>2, <1>4, DequePopFront, MethodMeans
  <2> QED BY <1>3, <2>1
<1>5. CASE asked.op = "pop_back" /\ Q!PopBack
  <2>1. DequeInv' /\ D!Next
    BY <1>1, <1>2, <1>5, DequePopBack, MethodMeans
  <2> QED BY <1>3, <2>1
<1>6. CASE asked.op \in {"enqueue", "push_back"} /\ Q!PushBack(asked.value)
  <2>1. asked.value \in Values
    BY <1>6, AskedIs, CallsAre DEF Pushes, SequencesInv
  <2>2. DequeInv' /\ D!Next
    BY <1>1, <1>2, <1>6, <2>1, DequePushBack, MethodMeans
  <2> QED BY <1>3, <2>2
<1>7. CASE asked.op = "push_front" /\ Q!PushFront(asked.value)
  <2>1. asked.value \in Values
    BY <1>7, AskedIs, CallsAre DEF Pushes, SequencesInv
  <2>2. DequeInv' /\ D!Next
    BY <1>1, <1>2, <1>7, <2>1, DequePushFront, MethodMeans
  <2> QED BY <1>3, <2>2
<1>8. CASE asked.op = "set" /\ Q!Set(asked.index, asked.value)
  <2>1. asked.value \in Values /\ asked.index \in 0 .. length - 1
    BY <1>8, AskedIs, CallsAre DEF SequencesInv
  <2>2. DequeInv' /\ D!Next
    BY <1>1, <1>2, <1>8, <2>1, DequeSet, MethodMeans
  <2> QED BY <1>3, <2>2
<1> QED BY <1>4, <1>5, <1>6, <1>7, <1>8 DEF UsesDeque, UsesQueue, Dequeue, Q!Method

LEMMA LinkedStep ==
  ASSUME SequencesInv, UsesLinkedList, container' = container, asked' = NoCall
  PROVE  Holding' /\ D!Next
<1>1. container = "LinkedList" /\ LinkedInv /\ container \in Containers /\ length \in Nat
  BY DEF UsesLinkedList, SequencesInv, Holding, LinkedInv
<1>2. Content = K!Content /\ Content' = K!Content'
  BY <1>1 DEF Content
<1>3. ASSUME LinkedInv'
      PROVE  Holding'
  BY <1>1, <1>3 DEF Holding
<1>4. CASE asked.op = "pop_front" /\ K!PopFront
  <2>1. LinkedInv' /\ D!Next
    BY <1>1, <1>2, <1>4, LinkedPopFront, MethodMeans
  <2> QED BY <1>3, <2>1
<1>5. CASE asked.op = "pop_back" /\ K!PopBack
  <2>1. LinkedInv' /\ D!Next
    BY <1>1, <1>2, <1>5, LinkedPopBack, MethodMeans
  <2> QED BY <1>3, <2>1
<1>6. ASSUME asked.op \in {"push_front", "push_back"}, length' = length + 1
      PROVE  asked.value \in Values /\ length' <= MaxLength
  <2>1. asked.value \in Values /\ length < MaxLength
    BY <1>6, AskedIs, CallsAre DEF Pushes, SequencesInv
  <2> QED BY <1>1, <1>6, <2>1, NodesAssumption
<1>7. CASE asked.op = "push_front" /\ K!PushFront(asked.value)
  <2>1. asked.value \in Values /\ length' <= MaxLength
    BY <1>6, <1>7 DEF K!PushFront
  <2>2. LinkedInv' /\ D!Next
    BY <1>1, <1>2, <1>7, <2>1, LinkedPushFront, MethodMeans
  <2> QED BY <1>3, <2>2
<1>8. CASE asked.op = "push_back" /\ K!PushBack(asked.value)
  <2>1. asked.value \in Values /\ length' <= MaxLength
    BY <1>6, <1>8 DEF K!PushBack
  <2>2. LinkedInv' /\ D!Next
    BY <1>1, <1>2, <1>8, <2>1, LinkedPushBack, MethodMeans
  <2> QED BY <1>3, <2>2
<1> QED BY <1>4, <1>5, <1>7, <1>8 DEF UsesLinkedList, K!Method

LEMMA ElsewhereUnchanged ==
  ASSUME Holding, UNCHANGED <<container, shared>>
  PROVE  Holding' /\ UNCHANGED <<Content, returned>>
<1>1. /\ container' = container /\ returned' = returned
      /\ data' = data /\ capacity' = capacity /\ start' = start
      /\ nodes' = nodes /\ head' = head /\ tail' = tail /\ length' = length
  BY DEF shared
<1>2. (ListInv => ListInv') /\ (DequeInv => DequeInv') /\ (LinkedInv => LinkedInv')
  BY <1>1 DEF ListInv, L!InUse, DequeInv, LinkedInv, Forward
<1>3. L!Content' = L!Content /\ Q!Content' = Q!Content /\ K!Content' = K!Content
  BY <1>1 DEF L!Content, Q!Content, K!Content, K!Walk
<1> QED BY <1>1, <1>2, <1>3 DEF Holding, Content

\* What can be called does not change while nothing is done.
LEMMA CallsUnchanged ==
  ASSUME UNCHANGED <<container, shared>>
  PROVE  Calls' = Calls
BY DEF Calls, Methods, shared

LEMMA ContentLength ==
  ASSUME Holding
  PROVE  length \in Nat /\ Content \in Seq(Values) /\ Len(Content) = length
<1>1. CASE container \in {"List", "Stack"}
  BY <1>1, ListContent DEF Holding, Content, ListHolds, ListInv
<1>2. CASE container \in {"Deque", "Queue"}
  BY <1>2, DequeContent DEF Holding, Content, DequeHolds, DequeInv
<1>3. CASE container \in {"LinkedList", "PriorityQueue"}
  BY <1>3, LinkedForward DEF Holding, Content, LinkedInv
<1> QED BY <1>1, <1>2, <1>3 DEF Holding, Containers

LEMMA AskStep ==
  ASSUME SequencesInv, Ask
  PROVE  SequencesInv' /\ D!Call
<1>1. UNCHANGED <<container, shared>> /\ asked = NoCall /\ asked' \in Calls
  BY DEF Ask
<1>2. Holding' /\ UNCHANGED <<Content, returned>> /\ Calls' = Calls
  BY <1>1, ElsewhereUnchanged, CallsUnchanged DEF SequencesInv
<1>3. Meant = D!NoCall
  BY <1>1 DEF Meant, NoCall, D!NoCall
<1>4. length \in Nat /\ Len(Content) = length
  BY ContentLength DEF SequencesInv
<1>5. PICK c \in Calls : asked' = c
  BY <1>1
<1>6. Meant' \in D!Calls
  <2>1. CASE c.op \in Pushes
    <3>1. c.value \in Values
      BY <2>1, CallsAre
    <3>2. Meant' \in [op : {"pushBack", "pushFront"}, value : Values]
      BY <1>5, <2>1, <3>1 DEF Meant, Pushes
    <3> QED BY <3>2 DEF D!Calls
  <2>2. CASE c.op \in Pops
    <3>1. Content # <<>>
      BY <1>4, <2>2, CallsAre
    <3>2. Meant' \in [op : {"popBack", "popFront"}]
      BY <1>5, <2>2 DEF Meant, Pops
    <3> QED BY <3>1, <3>2 DEF D!Calls
  <2>3. CASE c.op = "set"
    <3>1. c.value \in Values /\ c.index \in 0 .. length - 1
      BY <2>3, CallsAre
    <3>2. Meant' = [op |-> "replace", place |-> c.index + 1, value |-> c.value]
      BY <1>5, <2>3 DEF Meant
    <3>3. c.index + 1 \in 1 .. Len(Content)
      BY <1>4, <3>1
    <3> QED BY <3>1, <3>2, <3>3 DEF D!Calls
  <2> QED BY <2>1, <2>2, <2>3, CallsAre
<1>7. D!Call
  BY <1>2, <1>3, <1>6 DEF D!Call
<1> QED BY <1>1, <1>2, <1>7 DEF SequencesInv, Called

LEMMA SequencesStep ==
  SequencesInv /\ [MCNext]_<<container, asked, shared, vars>>
    => SequencesInv' /\ [D!Next]_(D!vars)
<1> SUFFICES ASSUME SequencesInv, [MCNext]_<<container, asked, shared, vars>>
             PROVE  SequencesInv' /\ [D!Next]_(D!vars)
  OBVIOUS
<1>1. CASE UsesSequence
  <2>1. container' = container /\ asked' = NoCall
    BY <1>1 DEF UsesSequence
  <2>2. Holding' /\ D!Next
    BY <1>1, <2>1, ListStep, DequeStep, LinkedStep DEF UsesSequence
  <2> QED BY <2>1, <2>2 DEF SequencesInv, Called
<1>2. CASE Ask
  BY <1>2, AskStep DEF D!Next
<1>3. CASE UNCHANGED <<container, asked, shared>>
  <2>1. Holding' /\ UNCHANGED <<Content, returned>> /\ Calls' = Calls
    BY <1>3, ElsewhereUnchanged, CallsUnchanged DEF SequencesInv
  <2>2. Called' /\ Meant' = Meant
    BY <1>3, <2>1 DEF SequencesInv, Called, Meant
  <2> QED BY <2>1, <2>2 DEF SequencesInv, D!vars
<1> QED BY <1>1, <1>2, <1>3 DEF MCNext, UsesPriorityQueue

LEMMA SequencesInvariance == MCSpec => []SequencesInv
BY StartsEmpty, SequencesStep, PTL DEF MCSpec

\* List, Stack, Deque, Queue and LinkedList are sequences: whatever methods
\* were called before, through every reallocation, with a start that moved, by
\* any mix of ends, the method that was called changes what the container holds
\* at the end, and by the value, that it names: a Stack pops the value pushed
\* last, a Queue dequeues the one enqueued first; each pop returns what was there.
THEOREM ContainersAreSequences == MCSpec => ImplementsSequence
BY StartsEmpty, SequencesStep, SequencesInvariance, PTL DEF MCSpec, ImplementsSequence, D!Spec

LEMMA LinkedBothWays ==
  ASSUME LinkedInv
  PROVE  K!SameBothWays
<1>1. PICK p : Forward(p)
  BY DEF LinkedInv
<1>2. length \in Nat
  BY DEF LinkedInv
<1>3. /\ Len(K!Content) = length
      /\ \A k \in 1 .. length : K!Content[k] = nodes[p[k]].value
  BY <1>1, <1>2, LinkedForward
<1> DEFINE q == Backwards(p)
           walk == K!Walk(tail, "prev")
<1>4. Chained(q, nodes, tail, head, length, "prev", "next")
  BY <1>1, <1>2, ChainedBackwards DEF Forward
<1>5. q = [k \in 1 .. length |-> p[length + 1 - k]]
  BY <1>1 DEF Backwards, Forward, Chained
<1> HIDE DEF q
<1>6. /\ Len(walk) = length
      /\ \A k \in 1 .. length : walk[k] = nodes[q[k]].value
  BY <1>2, <1>4, WalkAlong
<1> HIDE DEF walk
<1>7. \A k \in 1 .. length : walk[k] = K!Content[length + 1 - k]
  <2>1. SUFFICES ASSUME NEW k \in 1 .. length PROVE walk[k] = K!Content[length + 1 - k]
    OBVIOUS
  <2>2. length + 1 - k \in 1 .. length
    BY <1>2
  <2> QED BY <1>3, <1>5, <1>6, <2>2
<1> QED BY <1>3, <1>6, <1>7 DEF K!SameBothWays, walk

\* The links of LinkedList agree: read backwards from its tail the list is the
\* list read from its head, reversed, and as long as its length says.
THEOREM LinksAgree == MCSpec => []SameBothWays
<1>1. SequencesInv => SameBothWays
  BY LinkedBothWays DEF SequencesInv, Holding, SameBothWays
<1> QED BY <1>1, SequencesInvariance, PTL

\* A program that uses one of the containers uses the queue as the queue's own
\* specification says, so that what is proved of that one holds here too.
THEOREM UsesTheQueue == MCSpec => []HeapOrdered /\ ImplementsBag
<1>1. MCInit => Init
  BY DEF MCInit
<1>2. [MCNext]_<<container, asked, shared, vars>> => [Next]_vars
  BY DEF MCNext, Ask, UsesSequence, UsesPriorityQueue, vars
<1>3. MCSpec => Spec
  BY <1>1, <1>2, PTL DEF MCSpec, Spec
<1> QED BY <1>3, HeapIsOrdered, QueueIsBag, PTL
=============================================================================
