------------------------------ MODULE DoubleEnded ------------------------------
(***************************************************************************)
(* What List, Deque and LinkedList (and Stack and Queue, which use fewer   *)
(* of the operations) of the standard library promise: a sequence that     *)
(* grows and shrinks at its ends, and the value each pop returns.  The     *)
(* operation that was called is part of the state, so that what happens    *)
(* next happens at the end, and with the value, that it names.             *)
(***************************************************************************)
EXTENDS Sequences, Naturals

CONSTANTS Values, Nothing

VARIABLES
  content,
  call,      \* the operation that was called and its arguments
  returned   \* by the last operation that ended

vars == <<content, call, returned>>

NoCall == [op |-> "none"]

Init == content = <<>> /\ call = NoCall /\ returned = Nothing

Calls ==
  [op : {"pushBack", "pushFront"}, value : Values]
  \cup (IF content = <<>> THEN {} ELSE [op : {"popBack", "popFront"}])
  \cup [op : {"replace"}, place : 1 .. Len(content), value : Values]

Call == call = NoCall /\ call' \in Calls /\ UNCHANGED <<content, returned>>

Change(op, sequence, value) ==
  /\ call.op = op
  /\ content' = sequence
  /\ returned' = value
  /\ call' = NoCall

PushBack == Change("pushBack", Append(content, call.value), Nothing)
PushFront == Change("pushFront", <<call.value>> \o content, Nothing)
PopBack == Change("popBack", SubSeq(content, 1, Len(content) - 1), content[Len(content)])
PopFront == Change("popFront", Tail(content), content[1])
Replace == Change("replace", [content EXCEPT ![call.place] = call.value], Nothing)

Next == Call \/ PushBack \/ PushFront \/ PopBack \/ PopFront \/ Replace

Spec == Init /\ [][Next]_vars
=============================================================================
