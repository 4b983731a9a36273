---------------------------- MODULE FunctionBodies ----------------------------
(***************************************************************************)
(* Function bodies as the ownership passes see them: the statements that   *)
(* bind, read or consume a name holding a struct, in source order, with    *)
(* the constructs that open and close a scope around them.                 *)
(*                                                                         *)
(*   fresh   to = a struct literal, or a call that returns a struct        *)
(*   copy    to = of                                                       *)
(*   read    any use of the name "of" that does not consume it             *)
(*   give    "of" is the bare argument of a call whose parameter is take   *)
(*   store   "of" becomes a field, a variant's payload, an element or the  *)
(*           content of a Shared                                           *)
(*   give_field  a field of "of" is used where give or store uses a name   *)
(*   module_give "of" is the bare argument of a take parameter in a call   *)
(*           written module.function(...)                                  *)
(*   capture a closure literal whose body reads "of"                       *)
(*   return  return of                                                     *)
(*   break, continue                                                       *)
(*   yield   "of" is the value of a match arm; the arm ends here           *)
(*   if, match  open the first branch; a match consumes "of" and binds the *)
(*           payload to "to"                                               *)
(*   else, arm  close a branch and open the next; an arm binds "to"        *)
(*   loop    opens the body of a while or loop                             *)
(*   block   opens the block a for statement is rewritten to               *)
(*   unsafe  opens an unsafe block                                         *)
(*   end     closes what was opened last                                   *)
(***************************************************************************)
EXTENDS Integers, Sequences, FiniteSets

CONSTANTS
  Names,   \* the names of the parameters and locals
  NoName   \* a statement without that name

ASSUME NamesAssumption == IsFiniteSet(Names) /\ NoName \notin Names

Openings == {"if", "match", "loop", "block", "unsafe"}
Middles == {"else", "arm"}
Statements == {"fresh", "copy", "read", "give", "store", "give_field", "module_give",
               "capture", "return", "break", "continue", "yield"}

Token == [op : Openings \cup Middles \cup Statements \cup {"end"},
          to : Names \cup {NoName},
          of : Names \cup {NoName}]

Region == {"none", "owned", "borrowed"}

\* A name that is not a parameter has the region "none"; the statements
\* outside every function are a body too.
BodyType == [code : Seq(Token), params : [Names -> Region], toplevel : BOOLEAN]

\* An arbitrary numbering of the names: the order of the parameters, and that
\* in which the unordered maps of the code are iterated.
Position == CHOOSE f \in [Names -> 1 .. Cardinality(Names)] :
              \A x, y \in Names : f[x] = f[y] => x = y
-----------------------------------------------------------------------------
\* How many constructs are open before the i-th token of a body.
Depth(code, i) ==
  Cardinality({j \in 1 .. i - 1 : code[j].op \in Openings})
    - Cardinality({j \in 1 .. i - 1 : code[j].op = "end"})

\* The end of the innermost construct that is open before the i-th token.
EndOf(code, i) ==
  CHOOSE j \in i .. Len(code) :
    /\ code[j].op = "end" /\ Depth(code, j) = Depth(code, i)
    /\ \A k \in i .. j - 1 : ~ (code[k].op = "end" /\ Depth(code, k) = Depth(code, i))

\* The starts of the branches of the construct that opens at the i-th token.
BranchesOf(code, i) ==
  {i + 1} \cup {j + 1 : j \in {k \in i + 1 .. EndOf(code, i + 1) :
                  code[k].op \in Middles /\ Depth(code, k) = Depth(code, i + 1)}}

\* The opening of the construct that the end at the j-th token closes.
OpeningOf(code, j) ==
  CHOOSE i \in 1 .. j : code[i].op \in Openings /\ EndOf(code, i + 1) = j

\* Only a statement that binds has a name to bind, and one that uses or
\* consumes a name has one to use.
Formed(code) ==
  \A i \in 1 .. Len(code) :
    /\ code[i].op \in {"fresh", "copy"} => code[i].to # NoName
    /\ code[i].to # NoName => code[i].op \in {"fresh", "copy", "match", "arm"}
    /\ code[i].of # NoName <=>
         code[i].op \in {"copy", "read", "give", "store", "give_field", "module_give",
                         "capture", "return", "yield", "match"}

\* Scopes are balanced, a middle stands in the construct it belongs to, and an
\* if has one else.
Balanced(code) ==
  /\ \A i \in 1 .. Len(code) + 1 : Depth(code, i) >= 0
  /\ Depth(code, Len(code) + 1) = 0
  /\ \A i \in 1 .. Len(code) :
       code[i].op \in Middles =>
         /\ Depth(code, i) > 0
         /\ code[OpeningOf(code, EndOf(code, i))].op = IF code[i].op = "else" THEN "if" ELSE "match"
  /\ \A i, j \in 1 .. Len(code) :
       code[i].op = "else" /\ code[j].op = "else" /\ i < j => EndOf(code, i) # EndOf(code, j)

\* The name the j-th token binds is still bound before the i-th.
Visible(code, j, i) ==
  \A k \in j + 1 .. i - 1 :
    ~ (code[k].op \in Middles \cup {"end"} /\ Depth(code, k) = Depth(code, j + 1))

\* The name is bound when the i-th token of the body is reached.
Bound(b, x, i) ==
  \/ b.params[x] # "none"
  \/ \E j \in 1 .. i - 1 : b.code[j].to = x /\ Visible(b.code, j, i)

\* TypeChecker has resolved every name that is used.
Resolved(b) ==
  \A i \in 1 .. Len(b.code) : b.code[i].of # NoName => Bound(b, b.code[i].of, i)

\* The loops around the i-th token, and the innermost of them.
LoopsAround(code, i) ==
  {j \in 1 .. i - 1 : code[j].op = "loop" /\ EndOf(code, j + 1) >= i}
LoopOf(code, i) ==
  CHOOSE j \in LoopsAround(code, i) : \A k \in LoopsAround(code, i) : k <= j

\* The token stands directly in a match arm.
InArm(code, i) ==
  /\ Depth(code, i) > 0 /\ code[i].op \notin Middles \cup {"end"}
  /\ code[OpeningOf(code, EndOf(code, i))].op = "match"

\* A match arm is one expression, which ends with a yield if its value is a
\* name: statements are only in the branches and loops of this expression.
\* break and continue are in a loop.
InPlace(code) ==
  \A i \in 1 .. Len(code) :
    /\ code[i].op = "yield" => InArm(code, i) /\ code[i + 1].op \in {"arm", "end"}
    /\ InArm(code, i) =>
         code[i].op \notin {"fresh", "copy", "return", "break", "continue", "block"}
    /\ code[i].op \in {"break", "continue"} => LoopsAround(code, i) # {}

\* CapabilityChecker makes take of every parameter a closure captures.
CapturesOwned(b) ==
  \A i \in 1 .. Len(b.code) : b.code[i].op = "capture" => b.params[b.code[i].of] # "borrowed"

WellFormedBody(b) ==
  /\ Formed(b.code) /\ Balanced(b.code) /\ Resolved(b) /\ InPlace(b.code) /\ CapturesOwned(b)
  /\ b.toplevel => b.params = [x \in Names |-> "none"]
-----------------------------------------------------------------------------
(***************************************************************************)
(* The bodies for which the passes promise soundness.  The others use what *)
(* docs/language names as outside of the analysis (0009: moves are tracked *)
(* per block, 0028: also for loops, 0019: unsafe), or one of the gaps the  *)
(* README describes.                                                       *)
(***************************************************************************)
MovesOut == {"copy", "give", "store", "capture", "match"}

Inside(code, i, openings) ==
  {j \in 1 .. i - 1 : code[j].op \in openings /\ EndOf(code, j + 1) >= i}

Captured(b) == {b.code[i].of : i \in {j \in 1 .. Len(b.code) : b.code[j].op = "capture"}}

OwnScopeOnly(b) ==
  \A i \in 1 .. Len(b.code) :
    /\ b.code[i].op \in MovesOut =>
         \A j \in Inside(b.code, i, {"loop", "block"}) : ~ Bound(b, b.code[i].of, j)
    /\ b.code[i].of # NoName =>
         \A j \in Inside(b.code, i, {"unsafe"}) :
           b.code[i].op \notin MovesOut /\ ~ Bound(b, b.code[i].of, j)

Tame(b) ==
  /\ OwnScopeOnly(b)
  /\ \A i \in 1 .. Len(b.code) :
       /\ b.code[i].op # "module_give"
       /\ b.code[i].op = "capture" =>
            ~ b.toplevel /\ \A j \in 1 .. Len(b.code) : b.code[j].op \notin Openings
       /\ b.code[i].op = "yield" => \A x \in Names : b.params[x] # "borrowed"
       /\ b.code[i].to # NoName => b.params[b.code[i].to] # "borrowed"
       /\ b.code[i].op \in {"fresh", "copy"} =>
            \/ \A x \in Names : b.params[x] # "borrowed"
            \/ \A j \in 1 .. Len(b.code) :
                 b.code[j].op \in {"match", "arm"} => b.code[j].to # b.code[i].to
=============================================================================
