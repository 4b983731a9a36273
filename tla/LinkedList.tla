------------------------------ MODULE LinkedList -------------------------------
(***************************************************************************)
(* LinkedList<T>: nodes with pointers both ways.  A node that was popped   *)
(* is never seen again and never freed; the model forgets it, so that      *)
(* malloc may hand out its address once more and Nodes can be finite.      *)
(***************************************************************************)
EXTENDS Integers, Sequences

CONSTANTS Values, Nothing,
          Nodes,  \* addresses
          Null

VARIABLES nodes, head, tail, length, returned

vars == <<nodes, head, tail, length, returned>>

Init ==
  /\ nodes = [a \in {} |-> Null]
  /\ head = Null /\ tail = Null
  /\ length = 0
  /\ returned = Nothing

Malloc == CHOOSE a \in Nodes : a \notin DOMAIN nodes

\* The heap with a new node, linked from its neighbour.
With(new, neighbour, link, node) ==
  [a \in DOMAIN nodes \cup {new} |->
     CASE a = new -> node
       [] a # new /\ a = neighbour -> [nodes[a] EXCEPT ![link] = new]
       [] OTHER -> nodes[a]]

PushFront(v) ==
  /\ nodes' = With(Malloc, head, "prev", [value |-> v, prev |-> Null, next |-> head])
  /\ tail' = IF head = Null THEN Malloc ELSE tail
  /\ head' = Malloc
  /\ length' = length + 1
  /\ returned' = Nothing

PushBack(v) ==
  /\ nodes' = With(Malloc, tail, "next", [value |-> v, prev |-> tail, next |-> Null])
  /\ head' = IF tail = Null THEN Malloc ELSE head
  /\ tail' = Malloc
  /\ length' = length + 1
  /\ returned' = Nothing

Without_Unlinked(old, neighbour, link) == [a \in DOMAIN nodes \ {old} |-> nodes[a]]

\* The heap without a node, nobody linked to it.
Without(old, neighbour, link) ==
  [a \in DOMAIN nodes \ {old} |->
     IF a = neighbour THEN [nodes[a] EXCEPT ![link] = Null] ELSE nodes[a]]

PopFront ==
  LET newHead == nodes[head].next
  IN  /\ head # Null
      /\ returned' = nodes[head].value
      /\ nodes' = Without(head, newHead, "prev")
      /\ tail' = IF newHead = Null THEN Null ELSE tail
      /\ head' = newHead
      /\ length' = length - 1

PopBack ==
  LET newTail == nodes[tail].prev
  IN  /\ tail # Null
      /\ returned' = nodes[tail].value
      /\ nodes' = Without(tail, newTail, "next")
      /\ head' = IF newTail = Null THEN Null ELSE head
      /\ tail' = newTail
      /\ length' = length - 1

\* What a call does.
Method(call) ==
  \/ call.op = "push_front" /\ PushFront(call.value)
  \/ call.op = "push_back" /\ PushBack(call.value)
  \/ call.op = "pop_front" /\ PopFront
  \/ call.op = "pop_back" /\ PopBack

\* The values met from a node on, following one of the two links.
Walk(node, link) ==
  LET values[n \in Nat] ==
        [a \in Nodes \cup {Null} |->
           IF n = 0 \/ a \notin DOMAIN nodes THEN <<>>
           ELSE <<nodes[a].value>> \o values[n - 1][nodes[a][link]]]
  IN  values[length + 1][node]

Content == Walk(head, "next")
-----------------------------------------------------------------------------
(***************************************************************************)
(* The list read backwards is the list reversed: the prev links, which no  *)
(* forward traversal ever tests, are right whichever ends were pushed and  *)
(* popped; and length agrees with both.                                    *)
(***************************************************************************)
SameBothWays ==
  LET backwards == Walk(tail, "prev")
  IN  /\ Len(Content) = length
      /\ Len(backwards) = length
      /\ \A k \in 1 .. length : backwards[k] = Content[length + 1 - k]
=============================================================================
