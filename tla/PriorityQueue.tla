----------------------------- MODULE PriorityQueue -----------------------------
(***************************************************************************)
(* PriorityQueue<T>: a binary heap in a List, least value first.  One      *)
(* action per turn of the two sifting loops.                               *)
(***************************************************************************)
EXTENDS Integers, FiniteSets

CONSTANTS Priorities, MaxSize  \* the bound of the model on the queue's length

ASSUME PrioritiesAssumption == Priorities \subseteq Int

VARIABLES
  items,  \* the list: its values by index
  size,   \* items.length
  mode,   \* the loop that runs
  i,      \* its position
  top     \* what the last pop returned

vars == <<items, size, mode, i, top>>

Index(n) == 0 .. n - 1

Init ==
  /\ items = [k \in {} |-> 0] /\ size = 0
  /\ mode = "idle" /\ i = 0
  /\ top = <<>>

Parent_Half(k) == k \div 2
Parent(k) == (k - 1) \div 2

Swapped(a, b) ==
  [k \in Index(size) |-> IF k = a THEN items[b] ELSE IF k = b THEN items[a] ELSE items[k]]

Push(v) ==
  /\ mode = "idle"
  /\ size < MaxSize
  /\ items' = [k \in Index(size + 1) |-> IF k = size THEN v ELSE items[k]]
  /\ size' = size + 1
  /\ mode' = "up"
  /\ i' = size
  /\ top' = <<>>

SiftUp ==
  /\ mode = "up"
  /\ IF i > 0 /\ items[i] < items[Parent(i)]
     THEN /\ items' = Swapped(i, Parent(i))
          /\ i' = Parent(i)
          /\ UNCHANGED mode
     ELSE /\ mode' = "idle" /\ i' = 0
          /\ UNCHANGED items
  /\ UNCHANGED <<size, top>>

\* The last value takes the place of the first, if any is left.
Pop ==
  /\ mode = "idle"
  /\ size > 0
  /\ top' = <<items[0]>>
  /\ items' = [k \in Index(size - 1) |-> IF k = 0 THEN items[size - 1] ELSE items[k]]
  /\ size' = size - 1
  /\ mode' = IF size > 1 THEN "down" ELSE "idle"
  /\ i' = 0

Lesser(a, b) == IF a < size /\ items[a] < items[b] THEN a ELSE b

Smallest_LeftOnly(k) == Lesser(2 * k + 1, k)
Smallest(k) == Lesser(2 * k + 2, Lesser(2 * k + 1, k))

SiftDown ==
  /\ mode = "down"
  /\ IF Smallest(i) # i
     THEN /\ items' = Swapped(i, Smallest(i))
          /\ i' = Smallest(i)
          /\ UNCHANGED mode
     ELSE /\ mode' = "idle" /\ i' = 0
          /\ UNCHANGED items
  /\ UNCHANGED <<size, top>>

Next == (\E v \in Priorities : Push(v)) \/ SiftUp \/ Pop \/ SiftDown

Spec == Init /\ [][Next]_vars
-----------------------------------------------------------------------------
TypeOK ==
  /\ size \in Nat
  /\ items \in [Index(size) -> Priorities]
  /\ mode \in {"idle", "up", "down"}
  /\ i \in Nat
  /\ mode # "idle" => i \in Index(size)

Ordered(k) == items[Parent(k)] <= items[k]

\* Between operations no value is less than the one above it.
HeapOrdered == mode = "idle" => \A k \in 1 .. size - 1 : Ordered(k)

\* While a value climbs it may only be less than the one above it; while one
\* sinks, only greater than those below it.  What is above it is no greater
\* than what is below it, so that it can change places.
Sifting ==
  /\ mode = "up" => \A k \in 1 .. size - 1 : k # i => Ordered(k)
  /\ mode = "down" => \A k \in 1 .. size - 1 : Parent(k) # i => Ordered(k)
  /\ mode # "idle" /\ i > 0 =>
       \A k \in 1 .. size - 1 : Parent(k) = i => items[Parent(i)] <= items[k]

IInv == TypeOK /\ HeapOrdered /\ Sifting
-----------------------------------------------------------------------------
Copies == [v \in Priorities |-> Cardinality({k \in Index(size) : items[k] = v})]

\* Each pop takes out a least value and returns it, each push puts one in, and
\* sifting neither loses nor duplicates a value.
B == INSTANCE PriorityBag WITH content <- Copies
ImplementsBag == B!Spec
=============================================================================
