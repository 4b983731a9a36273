------------------------------ MODULE Dictionary ------------------------------
(***************************************************************************)
(* What Map, Set, SortedMap and SortedSet of the standard library promise: *)
(* a value for each key that was set and not removed since.  A set is a    *)
(* dictionary whose keys all have the same value.  The operation that was  *)
(* called is part of the state: what happens to the content before it      *)
(* returns is that operation on that key, and nothing else.                *)
(***************************************************************************)
CONSTANTS Keys, Values

VARIABLES
  content,
  call      \* the operation that was called and its arguments

vars == <<content, call>>

Empty == [k \in {} |-> k]

NoCall == [op |-> "none"]

Init == content = Empty /\ call = NoCall

\* get of a missing key is undefined and never called.
Call(c) ==
  /\ call = NoCall
  /\ c.op = "get" => c.key \in DOMAIN content
  /\ call' = c
  /\ UNCHANGED content

With(k, v) == [x \in DOMAIN content \cup {k} |-> IF x = k THEN v ELSE content[x]]

Without(k) == [x \in DOMAIN content \ {k} |-> content[x]]

Set ==
  /\ call.op = "set"
  /\ content' = With(call.key, call.value)
  /\ call' = NoCall

Remove ==
  /\ call.op = "remove"
  /\ content' = Without(call.key)
  /\ call' = NoCall

Look ==
  /\ call.op \in {"contains", "get"}
  /\ call' = NoCall
  /\ UNCHANGED content

Next ==
  \/ \E k \in Keys : \E v \in Values : Call([op |-> "set", key |-> k, value |-> v])
  \/ \E k \in Keys, op \in {"contains", "get", "remove"} : Call([op |-> op, key |-> k])
  \/ Set \/ Remove \/ Look

Spec == Init /\ [][Next]_vars
=============================================================================
