--------------------------------- MODULE List ----------------------------------
(***************************************************************************)
(* List<T>: a buffer of which the first length places are in use, replaced *)
(* by one twice as large when it is full.  A pop of an empty list is the   *)
(* caller's mistake.                                                       *)
(***************************************************************************)
EXTENDS Integers

CONSTANTS Values,
          Nothing  \* a place nobody wrote to yet, and what a push returns

VARIABLES data, capacity, length, returned

vars == <<data, capacity, length, returned>>

HeapArray(size) == [k \in 0 .. size - 1 |-> Nothing]

Init ==
  /\ length = 0 /\ capacity = 1
  /\ data = HeapArray(capacity)
  /\ returned = Nothing

NewCapacity == IF length + 1 > 2 * capacity THEN length + 1 ELSE 2 * capacity

InUse == 0 .. length - 1

Copied(size) == [k \in DOMAIN HeapArray(size) |-> IF k \in InUse THEN data[k] ELSE Nothing]

Push(v) ==
  LET full == length + 1 > capacity
      buffer == IF full THEN Copied(NewCapacity) ELSE data
  IN  /\ data' = [buffer EXCEPT ![length] = v]
      /\ capacity' = IF full THEN NewCapacity ELSE capacity
      /\ length' = length + 1
      /\ returned' = Nothing

Pop ==
  /\ length > 0
  /\ length' = length - 1
  /\ returned' = data[length - 1]
  /\ UNCHANGED <<data, capacity>>

Set(index, v) ==
  /\ data' = [data EXCEPT ![index] = v]
  /\ returned' = Nothing
  /\ UNCHANGED <<capacity, length>>

\* What a call does; an index is one in use.
Method(call) ==
  \/ call.op = "push" /\ Push(call.value)
  \/ call.op = "pop" /\ Pop
  \/ call.op = "set" /\ Set(call.index, call.value)

\* What get returns for each index.
Content == [k \in 1 .. length |-> data[k - 1]]
=============================================================================
