------------------------------ MODULE MoveCheck ------------------------------
(***************************************************************************)
(* CapabilityChecker::checkMovesInExpr: the first of the two passes that   *)
(* look for a use of a moved value.  It knows only names: a parameter that *)
(* is given away and every name a closure captures are moved from there on *)
(* in the same block, whatever is assigned to them later.  A branch and a  *)
(* loop body start from an empty set and forget it; a plain block shares   *)
(* the set of the block around it.  Only functions are walked.             *)
(***************************************************************************)
EXTENDS FunctionBodies

VARIABLES
  body,         \* the body being checked
  moveAt,       \* the next token of the walk
  movedSets,    \* the moved sets of the open scopes, the innermost last
  moveVerdict   \* "none", "accepted" or "rejected"

moveVars == <<body, moveAt, movedSets, moveVerdict>>

Innermost(sets) == sets[Len(sets)]
Enclosing(sets) == SubSeq(sets, 1, Len(sets) - 1)
-----------------------------------------------------------------------------
Init ==
  /\ moveAt = 1
  /\ movedSets = << {} >>
  /\ moveVerdict = "none"

Here == body.code[moveAt]

UsesMoved == Here.of # NoName /\ Here.of \in Innermost(movedSets)

Walk(ops) ==
  /\ moveVerdict = "none"
  /\ ~ body.toplevel
  /\ moveAt <= Len(body.code)
  /\ Here.op \in ops
  /\ ~ UsesMoved
  /\ moveAt' = moveAt + 1
  /\ UNCHANGED <<body, moveVerdict>>

Pass ==
  /\ Walk(Statements \ {"give", "capture"})
  /\ UNCHANGED movedSets

\* ownParamIndex: the name is that of a parameter, even if it is now a local.
Give ==
  /\ Walk({"give"})
  /\ movedSets' = IF body.params[Here.of] = "none" THEN movedSets
                  ELSE [movedSets EXCEPT ![Len(movedSets)] = @ \cup {Here.of}]

Capture ==
  /\ Walk({"capture"})
  /\ movedSets' = [movedSets EXCEPT ![Len(movedSets)] = @ \cup {Here.of}]

OpenFresh ==
  /\ Walk({"if", "match", "loop"})
  /\ movedSets' = Append(movedSets, {})

OpenBlock ==
  /\ Walk({"block"})
  /\ movedSets' = Append(movedSets, Innermost(movedSets))

NextBranch ==
  /\ Walk(Middles)
  /\ movedSets' = Append(Enclosing(movedSets), {})

Close ==
  /\ Walk({"end"})
  /\ movedSets' = IF body.code[OpeningOf(body.code, moveAt)].op = "block"
                  THEN Append(Enclosing(Enclosing(movedSets)), Innermost(movedSets))
                  ELSE Enclosing(movedSets)

\* An unsafe block has no case of its own: its body is not walked.
SkipUnsafe ==
  /\ moveVerdict = "none" /\ ~ body.toplevel
  /\ moveAt <= Len(body.code)
  /\ Here.op = "unsafe"
  /\ moveAt' = EndOf(body.code, moveAt + 1) + 1
  /\ UNCHANGED <<body, movedSets, moveVerdict>>

\* throw "use of moved value"
Reject ==
  /\ moveVerdict = "none" /\ ~ body.toplevel
  /\ moveAt <= Len(body.code)
  /\ UsesMoved
  /\ moveVerdict' = "rejected"
  /\ UNCHANGED <<body, moveAt, movedSets>>

Accept ==
  /\ moveVerdict = "none"
  /\ body.toplevel \/ moveAt > Len(body.code)
  /\ moveVerdict' = "accepted"
  /\ UNCHANGED <<body, moveAt, movedSets>>

Next ==
  \/ Pass \/ Give \/ Capture
  \/ OpenFresh \/ OpenBlock \/ NextBranch \/ Close \/ SkipUnsafe
  \/ Reject \/ Accept
=============================================================================
