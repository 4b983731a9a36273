------------------------------ MODULE PriorityBag ------------------------------
(***************************************************************************)
(* What PriorityQueue of the standard library promises: a bag from which a *)
(* pop takes a least value and returns it.                                 *)
(***************************************************************************)
EXTENDS Integers

CONSTANT Priorities

VARIABLES content, top

Init == content = [v \in Priorities |-> 0] /\ top = <<>>

Push(v) == content' = [content EXCEPT ![v] = @ + 1] /\ top' = <<>>

Pop(v) ==
  /\ content[v] > 0
  /\ \A w \in Priorities : content[w] > 0 => v <= w
  /\ content' = [content EXCEPT ![v] = @ - 1]
  /\ top' = <<v>>

Next == \E v \in Priorities : Push(v) \/ Pop(v)

Spec == Init /\ [][Next]_<<content, top>>
=============================================================================
