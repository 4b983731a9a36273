--------------------------------- MODULE Deque ---------------------------------
(***************************************************************************)
(* Deque<T>: length places of a buffer from start on are in use.  A pop    *)
(* only moves the bounds, a push copies what is in use to the front of a   *)
(* buffer that is just large enough.                                       *)
(***************************************************************************)
EXTENDS Integers

CONSTANTS Values, Nothing

VARIABLES data, start, length, returned

vars == <<data, start, length, returned>>

Init ==
  /\ length = 0 /\ start = 0
  /\ data = [k \in {} |-> Nothing]
  /\ returned = Nothing

At(index) == data[start + index]

Grown(buffer) ==
  /\ data' = buffer
  /\ start' = 0
  /\ length' = length + 1
  /\ returned' = Nothing

PushBack(v) == Grown([k \in 0 .. length |-> IF k = length THEN v ELSE At(k)])

PushFront(v) == Grown([k \in 0 .. length |-> IF k = 0 THEN v ELSE At(k - 1)])

PopFront ==
  /\ length > 0
  /\ returned' = data[start]
  /\ start' = start + 1
  /\ length' = length - 1
  /\ UNCHANGED data

PopBack ==
  /\ length > 0
  /\ returned' = data[start + length - 1]
  /\ length' = length - 1
  /\ UNCHANGED <<data, start>>

Set(index, v) ==
  /\ data' = [data EXCEPT ![start + index] = v]
  /\ returned' = Nothing
  /\ UNCHANGED <<start, length>>

\* What a call does; an index is one in use.
Method(call) ==
  \/ call.op = "push_back" /\ PushBack(call.value)
  \/ call.op = "push_front" /\ PushFront(call.value)
  \/ call.op = "pop_front" /\ PopFront
  \/ call.op = "pop_back" /\ PopBack
  \/ call.op = "set" /\ Set(call.index, call.value)

\* What get returns for each index.
Content == [k \in 1 .. length |-> data[start + k - 1]]
=============================================================================
