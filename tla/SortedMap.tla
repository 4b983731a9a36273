------------------------------ MODULE SortedMap -------------------------------
(***************************************************************************)
(* SortedMap<K,V> (and, with a single value, SortedSet<T>): an AVL tree    *)
(* whose nodes store their height.  Every node has one owner, its parent   *)
(* or the root pointer, so a node is modelled by its value and a pointer   *)
(* by the node it points to.                                               *)
(***************************************************************************)
EXTENDS Integers, FiniteSets

CONSTANTS Keys,  \* integers, for any type with an order
          Values

VARIABLES
  root, length,
  call     \* the running operation and its arguments

vars == <<root, length, call>>

NoCall == [op |-> "none"]

NoNode == << >>  \* the null pointer

Leaf(k, v) == [key |-> k, value |-> v, height |-> 1, left |-> NoNode, right |-> NoNode]

Higher(a, b) == IF a > b THEN a ELSE b

NodeHeight(node) == IF node = NoNode THEN 0 ELSE node.height

Balance(node) == NodeHeight(node.left) - NodeHeight(node.right)

WithHeight(node) ==
  [node EXCEPT !.height = Higher(NodeHeight(node.left), NodeHeight(node.right)) + 1]

RotateRight_StaleHeight(y) ==
  LET x == y.left
  IN  WithHeight([x EXCEPT !.right = [y EXCEPT !.left = x.right]])

RotateRight(y) ==
  LET x == y.left
  IN  WithHeight([x EXCEPT !.right = WithHeight([y EXCEPT !.left = x.right])])

RotateLeft(x) ==
  LET y == x.right
  IN  WithHeight([y EXCEPT !.left = WithHeight([x EXCEPT !.right = y.left])])

(***************************************************************************)
(* The end of insertNode and removeNode: the height, then at most one      *)
(* rotation, before which a child leaning inwards is rotated itself.       *)
(***************************************************************************)
Rebalance(node, leftLeansIn, rightLeansIn) ==
  LET n == WithHeight(node)
  IN  IF Balance(n) > 1 THEN
        RotateRight(IF leftLeansIn
                    THEN [n EXCEPT !.left = RotateLeft(n.left)] ELSE n)
      ELSE IF Balance(n) < -1 THEN
        RotateLeft(IF rightLeansIn
                   THEN [n EXCEPT !.right = RotateRight(n.right)] ELSE n)
      ELSE n

(***************************************************************************)
(* A tree and all below it, NoNode included: where the recursive           *)
(* functions descend.  No path is longer than the tree has nodes.          *)
(***************************************************************************)
WithChildren(t) == IF t = NoNode THEN {t} ELSE {t, t.left, t.right}

Subtrees(tree) ==
  LET within[n \in 0 .. length] ==
        IF n = 0 THEN {tree} ELSE UNION {WithChildren(t) : t \in within[n - 1]}
  IN  within[length]

\* The key just inserted went to that side of the child.
InsertedAt(k, child, side) ==
  IF side = "right" THEN child.key <= k ELSE k <= child.key

DeeperAt_OrEqual(child, side) ==
  IF side = "right" THEN Balance(child) <= 0 ELSE Balance(child) >= 0

\* After a removal the child's own balance decides.
DeeperAt(child, side) ==
  IF side = "right" THEN Balance(child) < 0 ELSE Balance(child) > 0

\* The child the search for a key goes on in, and the node with another one there.
Toward(node, k) == IF k < node.key THEN node.left ELSE node.right
WithChild(node, k, child) ==
  IF k < node.key THEN [node EXCEPT !.left = child] ELSE [node EXCEPT !.right = child]

InsertNode(node, k, v) ==
  LET inserted[t \in Subtrees(node)] ==
        IF t = NoNode THEN [node |-> Leaf(k, v), wasNew |-> TRUE]
        ELSE IF k = t.key THEN [node |-> [t EXCEPT !.value = v], wasNew |-> FALSE]
        ELSE LET result == inserted[Toward(t, k)]
                 n == WithChild(t, k, result.node)
             IN  [node |-> Rebalance(n, InsertedAt(k, n.left, "right"), InsertedAt(k, n.right, "left")),
                  wasNew |-> result.wasNew]
  IN  inserted[node]

MinValueNode_Once(node) == IF node.left = NoNode THEN node ELSE node.left

MinValueNode(node) ==
  LET least[t \in Subtrees(node) \ {NoNode}] == IF t.left = NoNode THEN t ELSE least[t.left]
  IN  least[node]

RebalanceRemoved(n) == Rebalance(n, DeeperAt(n.left, "right"), DeeperAt(n.right, "left"))

Succeeded_KeepsKey(node, successor, right) ==
  [node EXCEPT !.value = successor.value, !.right = right]

\* A node with two children takes the entry of its successor, which is removed below it.
Succeeded(node, successor, right) ==
  [node EXCEPT !.key = successor.key, !.value = successor.value, !.right = right]

RemoveNode(node, key) ==
  LET removed[t \in Subtrees(node)] == [k \in Keys |->
        IF t = NoNode THEN [node |-> NoNode, wasRemoved |-> FALSE]
        ELSE IF k # t.key THEN
          LET result == removed[Toward(t, k)][k]
          IN  [node |-> RebalanceRemoved(WithChild(t, k, result.node)),
               wasRemoved |-> result.wasRemoved]
        ELSE IF t.left = NoNode THEN [node |-> t.right, wasRemoved |-> TRUE]
        ELSE IF t.right = NoNode THEN [node |-> t.left, wasRemoved |-> TRUE]
        ELSE LET successor == MinValueNode(t.right)
             IN  [node |-> RebalanceRemoved(
                             Succeeded(t, successor, removed[t.right][successor.key].node)),
                  wasRemoved |-> TRUE]]
  IN  removed[node][key]
-----------------------------------------------------------------------------
Init == root = NoNode /\ length = 0 /\ call = NoCall

\* Someone calls set or remove; contains and get, which change nothing, are Search.
Call(c) ==
  /\ call = NoCall
  /\ call' = c
  /\ UNCHANGED <<root, length>>

Count(result) == IF result.wasNew THEN length + 1 ELSE length

\* set, and add of SortedSet
Set ==
  /\ call.op = "set"
  /\ LET result == InsertNode(root, call.key, call.value)
     IN  /\ root' = result.node
         /\ length' = Count(result)
  /\ call' = NoCall

Remove ==
  /\ call.op = "remove"
  /\ LET result == RemoveNode(root, call.key)
     IN  /\ root' = result.node
         /\ length' = IF result.wasRemoved THEN length - 1 ELSE length
  /\ call' = NoCall

CallSet(k, v) == Call([op |-> "set", key |-> k, value |-> v])
CallRemove(k) == Call([op |-> "remove", key |-> k])

Next ==
  \/ \E k \in Keys : CallRemove(k) \/ \E v \in Values : CallSet(k, v)
  \/ Set \/ Remove

Spec == Init /\ [][Next]_vars

\* The loop of contains and get, from a node down.
Search(node, k) ==
  LET found[t \in Subtrees(node)] ==
        IF t = NoNode THEN {} ELSE IF k = t.key THEN {t.value} ELSE found[Toward(t, k)]
  IN  found[node]
-----------------------------------------------------------------------------
NodesOf(node) == Subtrees(node) \ {NoNode}

\* Whatever the tree holds, wherever it holds it.
Content ==
  LET nodes == NodesOf(root)
  IN  [k \in {n.key : n \in nodes} |-> (CHOOSE n \in nodes : n.key = k).value]

\* A set or remove of a key changes the tree as that operation on that key would
\* change a dictionary: the rebalancing, and the successor that takes a removed
\* node's place, neither lose nor duplicate another key, nor mix up the values.
D == INSTANCE Dictionary WITH content <- Content
ImplementsDictionary == D!Spec

(***************************************************************************)
(* contains and get find exactly what is there, however the tree was       *)
(* rotated: the search for a key takes the turns that lead to it, and      *)
(* length counts the keys, whether or not a set found its key.             *)
(***************************************************************************)
SearchFinds ==
  LET content == Content
  IN  /\ \A k \in Keys : Search(root, k) = IF k \in DOMAIN content THEN {content[k]} ELSE {}
      /\ length = Cardinality(DOMAIN content)

(***************************************************************************)
(* The tree is balanced by its true heights, and every height a node       *)
(* stores, the only ones rebalancing looks at, is the true one: a stale    *)
(* height would let the tree degenerate without any wrong answer.          *)
(***************************************************************************)
TreeIsBalanced ==
  LET height[t \in Subtrees(root)] ==
        IF t = NoNode THEN 0 ELSE 1 + Higher(height[t.left], height[t.right])
  IN  \A n \in NodesOf(root) :
        /\ n.height = height[n]
        /\ height[n.left] - height[n.right] \in -1 .. 1
=============================================================================
