----------------------------- MODULE MCSequences ------------------------------
(***************************************************************************)
(* The sequential containers of the standard library at small sizes.  A    *)
(* behaviour uses one of them.                                             *)
(***************************************************************************)
EXTENDS PriorityQueue, Sequences

CONSTANTS Values, Nothing, Nodes, Null,
          MaxLength  \* the bound of the model on a container's length

\* An address for each node a list may have: no code looks whether malloc found one.
ASSUME NodesAssumption ==
  /\ IsFiniteSet(Nodes) /\ Null \notin Nodes
  /\ MaxLength \in Nat /\ MaxLength <= Cardinality(Nodes)

VARIABLES
  container,
  asked,     \* the method that was called and its arguments
  data, capacity, start, nodes, head, tail, length, returned

shared == <<data, capacity, start, nodes, head, tail, length, returned>>

L == INSTANCE List
Q == INSTANCE Deque
K == INSTANCE LinkedList

Containers == {"List", "Stack", "Deque", "Queue", "LinkedList", "PriorityQueue"}

NoCall == [op |-> "none"]

\* The buffer of a list has one place from the start, that of a deque none.
MCInit ==
  /\ container \in Containers
  /\ Init
  /\ asked = NoCall
  /\ capacity = IF container \in {"List", "Stack"} THEN 1 ELSE 0
  /\ data = [k \in 0 .. capacity - 1 |-> Nothing]
  /\ start = 0 /\ length = 0 /\ returned = Nothing
  /\ nodes = [a \in {} |-> Null] /\ head = Null /\ tail = Null
-----------------------------------------------------------------------------
Ends == {"push_back", "push_front", "pop_back", "pop_front"}

\* The methods of each container that change it.
Methods ==
  CASE container = "List" -> {"push", "pop", "set"}
    [] container = "Stack" -> {"push", "pop"}
    [] container = "Deque" -> Ends \cup {"set"}
    [] container = "Queue" -> {"enqueue", "dequeue"}
    [] container = "LinkedList" -> Ends
    [] OTHER -> {}

Pushes == {"push", "enqueue", "push_back", "push_front"}
Pops == {"pop", "dequeue", "pop_back", "pop_front"}

\* To pop from an empty container and to set what is not there are mistakes of
\* the caller.
Calls ==
  {c \in (IF length < MaxLength THEN [op : Pushes, value : Values] ELSE {})
         \cup (IF length > 0 THEN [op : Pops] ELSE {})
         \cup [op : {"set"}, index : 0 .. length - 1, value : Values] : c.op \in Methods}

Ask ==
  /\ asked = NoCall
  /\ asked' \in Calls
  /\ UNCHANGED <<container, shared, vars>>

UsesList ==
  /\ container = "List"
  /\ L!Method(asked)
  /\ UNCHANGED <<start, nodes, head, tail>>

UsesStack ==
  /\ container = "Stack"
  /\ \/ asked.op = "push" /\ L!Push(asked.value)
     \/ asked.op = "pop" /\ L!Pop
  /\ UNCHANGED <<start, nodes, head, tail>>

UsesDeque ==
  /\ container = "Deque"
  /\ Q!Method(asked)
  /\ UNCHANGED <<capacity, nodes, head, tail>>

Dequeue_Back == Q!PopBack
Dequeue == Q!PopFront

UsesQueue ==
  /\ container = "Queue"
  /\ \/ asked.op = "enqueue" /\ Q!PushBack(asked.value)
     \/ asked.op = "dequeue" /\ Dequeue
  /\ UNCHANGED <<capacity, nodes, head, tail>>

UsesLinkedList ==
  /\ container = "LinkedList"
  /\ K!Method(asked)
  /\ UNCHANGED <<data, capacity, start>>

UsesSequence ==
  /\ UsesList \/ UsesStack \/ UsesDeque \/ UsesQueue \/ UsesLinkedList
  /\ asked' = NoCall
  /\ UNCHANGED <<container, vars>>

UsesPriorityQueue ==
  /\ container = "PriorityQueue"
  /\ Next
  /\ UNCHANGED <<container, asked, shared>>

MCNext == Ask \/ UsesSequence \/ UsesPriorityQueue

MCSpec == MCInit /\ [][MCNext]_<<container, asked, shared, vars>>
-----------------------------------------------------------------------------
Content ==
  CASE container \in {"List", "Stack"} -> L!Content
    [] container \in {"Deque", "Queue"} -> Q!Content
    [] OTHER -> K!Content

\* What the method that was called means for a sequence: the last value pushed
\* on a list or a stack is popped first, the first value enqueued is dequeued first.
Meant ==
  CASE asked.op \in {"push", "enqueue", "push_back"} -> [op |-> "pushBack", value |-> asked.value]
    [] asked.op = "push_front" -> [op |-> "pushFront", value |-> asked.value]
    [] asked.op \in {"pop", "pop_back"} -> [op |-> "popBack"]
    [] asked.op \in {"dequeue", "pop_front"} -> [op |-> "popFront"]
    [] asked.op = "set" -> [op |-> "replace", place |-> asked.index + 1, value |-> asked.value]
    [] OTHER -> NoCall

(***************************************************************************)
(* Whichever container it is, a method does to what it holds what it means *)
(* for a sequence, at the end and with the value it names, and a pop       *)
(* returns what was at its end: through a reallocation, with a start that  *)
(* moved, by any mix of ends.                                              *)
(***************************************************************************)
D == INSTANCE DoubleEnded WITH content <- Content, call <- Meant
ImplementsSequence == D!Spec

SameBothWays == container = "LinkedList" => K!SameBothWays
=============================================================================
