------------------------- MODULE CapabilityInference -------------------------
(***************************************************************************)
(* The inference half of CapabilityChecker::check: a chaotic iteration     *)
(* that raises the capability of every parameter until one whole pass over *)
(* the registered functions changes nothing, or until the pass budget is   *)
(* spent, followed by the comparison of each declared capability with the  *)
(* inferred one.                                                           *)
(*                                                                         *)
(* A parameter is a slot.  The walk inferExpr/inferStmt makes of a body is *)
(* the sequence of the points at which it may do something to a slot; the  *)
(* walk enters every branch, so this sequence does not depend on run-time  *)
(* control flow.  A body is walked as a whole, but the order in which the  *)
(* functions of one pass are walked is that of a std::unordered_map, hence *)
(* any order.                                                              *)
(***************************************************************************)
EXTENDS Integers, Sequences, FiniteSets

CONSTANTS
  Functions,  \* the non-generic functions and impl methods check() registers
  Closures,   \* the closure literals in their bodies (no body of their own)
  Slots,      \* the parameters of all of them
  OwnerOf,    \* [Slots -> Functions \cup Closures]
  Programs,   \* the programs to consider, see ProgramType
  NoFunction  \* no body is being walked

Read  == 0
Write == 1
Take  == 2
Capability == {Read, Write, Take}
Undeclared == -1

(***************************************************************************)
(* What the walk of a body meets, by the slot of the enclosing function    *)
(* (or of the closure literal whose body it is inside of):                 *)
(*   mutate      a field/index assignment, ++ or -- of a field, or one of  *)
(*               the built-in mutating methods, rooted at the parameter    *)
(*   pass        the parameter's bare name as an argument of a call of a   *)
(*               registered function, or the parameter as the root of the  *)
(*               receiver of a struct method; "to" is the callee's slot    *)
(*   method_arg  the parameter's bare name as an argument, other than the  *)
(*               receiver, of a struct method; "to" is the method's slot   *)
(*   capture     a closure literal whose body names the parameter          *)
(*   closure     the closure literal itself; its body's events follow      *)
(***************************************************************************)
SlotEvent == [kind : {"mutate", "capture"}, slot : Slots]
FlowEvent == [kind : {"pass", "method_arg"}, slot : Slots, to : Slots]
ClosureEvent == [kind : {"closure"}, closure : Closures]
Event == SlotEvent \cup FlowEvent \cup ClosureEvent

ProgramType == [walk : [Functions -> Seq(Event)],
                declared : [Slots -> Capability \cup {Undeclared}]]

\* A body only names its own parameters, a closure literal's only inside that
\* literal; what is called by name is a registered function, never a literal.
WellFormed(p) ==
  \A f \in Functions : \A i \in 1 .. Len(p.walk[f]) :
    LET e == p.walk[f][i]
    IN  /\ e.kind # "closure" =>
             \/ OwnerOf[e.slot] = f
             \/ \E j \in 1 .. i - 1 : /\ p.walk[f][j].kind = "closure"
                                     /\ p.walk[f][j].closure = OwnerOf[e.slot]
        /\ e.kind \in {"pass", "method_arg"} => OwnerOf[e.to] \in Functions

ASSUME SortsAssumption ==
  /\ IsFiniteSet(Functions) /\ IsFiniteSet(Closures) /\ IsFiniteSet(Slots)
  /\ Functions \cap Closures = {}
  /\ NoFunction \notin Functions \cup Closures
  /\ OwnerOf \in [Slots -> Functions \cup Closures]

ASSUME ProgramsAssumption == \A p \in Programs : p \in ProgramType /\ WellFormed(p)

VARIABLES
  program,     \* the program under check, never changed
  registered,  \* functions_'s keys: closures are added as they are discovered
  inferred,    \* inferred_
  effective,   \* effective_, Undeclared where it has no entry yet
  phase,       \* "head", "walk", "verify", "checked" or "rejected"
  unwalked,    \* functions of the snapshot this pass has still to walk
  walking, at, \* the function being walked and the next event of its walk
  changed,     \* the pass raised some capability
  iterations,  \* passes completed
  unverified   \* functions whose declared capabilities are not compared yet

vars == <<program, registered, inferred, effective, phase, unwalked, walking,
          at, changed, iterations, unverified>>

walkVars == <<unwalked, walking, at>>
-----------------------------------------------------------------------------
Declared(s) == program.declared[s]
Walk(f) == program.walk[f]
SlotsOf(f) == {s \in Slots : OwnerOf[s] = f}

(***************************************************************************)
(* Definitions named X_Something are plausible slips in X; each breaks one *)
(* of the properties below, and nothing here uses them.                    *)
(***************************************************************************)
PassBound_OnePerFunction == Cardinality(registered)

\* The cap of the while loop; functions_ is read again before every pass.
PassBound == Cardinality(registered) * 4 + 4

\* The snapshot of a pass; the entries of closures have no body and are skipped.
Snapshot_WithClosures == registered
Snapshot == registered \ Closures

EffectiveOrInferred_RoundsUp(s) ==
  IF Declared(s) # Undeclared THEN Declared(s) ELSE IF inferred[s] = Read THEN Read ELSE Take

\* A declared capability stands in for the inferred one from the start.
EffectiveOrInferred(s) ==
  IF Declared(s) # Undeclared THEN Declared(s) ELSE inferred[s]

Raise_Adds(s, minimum) ==
  /\ inferred' = [inferred EXCEPT ![s] = @ + minimum]
  /\ changed' = (changed \/ minimum > inferred[s])

Raise_ForgetsEarlier(s, minimum) ==
  /\ inferred' = [inferred EXCEPT ![s] = IF minimum > @ THEN minimum ELSE @]
  /\ changed' = (minimum > inferred[s])

Raise(s, minimum) ==
  /\ inferred' = [inferred EXCEPT ![s] = IF minimum > @ THEN minimum ELSE @]
  /\ changed' = (changed \/ minimum > inferred[s])
-----------------------------------------------------------------------------
Init ==
  /\ program \in Programs
  /\ registered = Functions
  /\ inferred = [s \in Slots |-> Read]
  /\ effective = [s \in Slots |-> Undeclared]
  /\ phase = "head"
  /\ unwalked = {} /\ walking = NoFunction /\ at = 1
  /\ changed = TRUE
  /\ iterations = 0
  /\ unverified = {}

StartPass ==
  /\ phase = "head"
  /\ changed
  /\ iterations < PassBound
  /\ phase' = "walk"
  /\ changed' = FALSE
  /\ unwalked' = Snapshot
  /\ UNCHANGED <<program, registered, inferred, effective, walking, at,
                 iterations, unverified>>

EnterBody(f) ==
  /\ phase = "walk"
  /\ walking = NoFunction
  /\ f \in unwalked
  /\ walking' = f
  /\ at' = 1
  /\ unwalked' = unwalked \ {f}
  /\ UNCHANGED <<program, registered, inferred, effective, phase, changed,
                 iterations, unverified>>

\* The walk is at an event of the given kind, and moves on past it.
Meet(kind) ==
  /\ walking # NoFunction
  /\ at <= Len(Walk(walking))
  /\ Walk(walking)[at].kind = kind
  /\ at' = at + 1
  /\ UNCHANGED <<program, effective, phase, unwalked, walking, iterations,
                 unverified>>

Here == Walk(walking)[at]

Mutate ==
  /\ Meet("mutate")
  /\ Raise(Here.slot, Write)
  /\ UNCHANGED registered

\* inferExpr's CallExpr case, and the receiver of its MethodCallExpr case.
Pass ==
  /\ Meet("pass")
  /\ IF EffectiveOrInferred(Here.to) \in {Write, Take}
     THEN Raise(Here.slot, EffectiveOrInferred(Here.to))
     ELSE UNCHANGED <<inferred, changed>>
  /\ UNCHANGED registered

\* The MethodCallExpr case walks its arguments and asks nothing of them.
MethodArgument ==
  /\ Meet("method_arg")
  /\ UNCHANGED <<inferred, changed, registered>>

Capture ==
  /\ Meet("capture")
  /\ Raise(Here.slot, Take)
  /\ UNCHANGED registered

\* registerClosure; memoised, so a later pass finds the entry it made.
DiscoverClosure ==
  /\ Meet("closure")
  /\ registered' = registered \cup {Here.closure}
  /\ UNCHANGED <<inferred, changed>>

LeaveBody ==
  /\ walking # NoFunction
  /\ at > Len(Walk(walking))
  /\ walking' = NoFunction
  /\ at' = 1
  /\ UNCHANGED <<program, registered, inferred, effective, phase, unwalked,
                 changed, iterations, unverified>>

EndPass ==
  /\ phase = "walk"
  /\ walking = NoFunction
  /\ unwalked = {}
  /\ iterations' = iterations + 1
  /\ phase' = "head"
  /\ UNCHANGED <<program, registered, inferred, effective, walkVars, changed,
                 unverified>>

LeaveLoop ==
  /\ phase = "head"
  /\ ~ (changed /\ iterations < PassBound)
  /\ phase' = "verify"
  /\ unverified' = registered
  /\ UNCHANGED <<program, registered, inferred, effective, walkVars, changed,
                 iterations>>

Insufficient_OnlyTake(s) == Declared(s) # Undeclared /\ inferred[s] > Declared(s) + 1
Insufficient_WhenEqual(s) == Declared(s) # Undeclared /\ inferred[s] >= Declared(s)

\* The body needs more of s than its declaration grants.
Insufficient(s) == Declared(s) # Undeclared /\ inferred[s] > Declared(s)

Verify(f) ==
  /\ phase = "verify"
  /\ f \in unverified
  /\ \A s \in SlotsOf(f) : ~ Insufficient(s)
  /\ effective' = [s \in Slots |-> IF OwnerOf[s] = f
                                   THEN EffectiveOrInferred(s)
                                   ELSE effective[s]]
  /\ unverified' = unverified \ {f}
  /\ UNCHANGED <<program, registered, inferred, phase, walkVars, changed,
                 iterations>>

\* throw "requires ... but only ... was declared"
Reject(f) ==
  /\ phase = "verify"
  /\ f \in unverified
  /\ \E s \in SlotsOf(f) : Insufficient(s)
  /\ phase' = "rejected"
  /\ UNCHANGED <<program, registered, inferred, effective, walkVars, changed,
                 iterations, unverified>>

Accept ==
  /\ phase = "verify"
  /\ unverified = {}
  /\ phase' = "checked"
  /\ UNCHANGED <<program, registered, inferred, effective, walkVars, changed,
                 iterations, unverified>>

Next ==
  \/ StartPass
  \/ \E f \in Functions : EnterBody(f)
  \/ Mutate \/ Pass \/ MethodArgument \/ Capture \/ DiscoverClosure
  \/ LeaveBody
  \/ EndPass
  \/ LeaveLoop
  \/ \E f \in Functions \cup Closures : Verify(f) \/ Reject(f)
  \/ Accept

Spec == Init /\ [][Next]_vars

\* check() is one sequential call: it keeps executing until it returns.
FairSpec == Spec /\ WF_vars(Next)
-----------------------------------------------------------------------------
TypeOK ==
  /\ program \in Programs
  /\ registered \in SUBSET (Functions \cup Closures)
  /\ Functions \subseteq registered
  /\ inferred \in [Slots -> Capability]
  /\ effective \in [Slots -> Capability \cup {Undeclared}]
  /\ phase \in {"head", "walk", "verify", "checked", "rejected"}
  /\ unwalked \in SUBSET Functions
  /\ walking \in Functions \cup {NoFunction}
  /\ at \in Nat \ {0}
  /\ walking # NoFunction => phase = "walk" /\ at <= Len(Walk(walking)) + 1
  /\ changed \in BOOLEAN
  /\ iterations \in Nat
  /\ unverified \in SUBSET (Functions \cup Closures)

(***************************************************************************)
(* What an assignment X of capabilities must satisfy to account for one    *)
(* event: inferred means the walk found its rule already obeyed.           *)
(***************************************************************************)
Granted(X, s) == IF Declared(s) # Undeclared THEN Declared(s) ELSE X[s]

Accounts(X, e) ==
  /\ e.kind = "mutate"  => X[e.slot] >= Write
  /\ e.kind = "capture" => X[e.slot] = Take
  /\ e.kind = "pass"    => X[e.slot] >= Granted(X, e.to)

Closed(X) ==
  \A f \in Functions : \A i \in 1 .. Len(Walk(f)) : Accounts(X, Walk(f)[i])

Assignment == [Slots -> Capability]

(***************************************************************************)
(* At every moment no parameter is given more than it has in any closed    *)
(* assignment: whatever order the unordered_map yields, inference stays    *)
(* below the least solution, so it never blames a body for a capability    *)
(* the body does not need ("the weakest capability each parameter needs",  *)
(* CapabilityChecker.hpp:14).                                              *)
(***************************************************************************)
NeverOverestimates ==
  \A X \in Assignment : Closed(X) => \A s \in Slots : inferred[s] <= X[s]

(***************************************************************************)
(* A loop that stops because a pass changed nothing stops at a closed      *)
(* assignment, although that pass read callees' capabilities while it was  *)
(* still raising others.  With NeverOverestimates it is the least one,     *)
(* hence the same for every order of the walk.                             *)
(***************************************************************************)
QuietExitIsClosed ==
  phase \in {"verify", "checked", "rejected"} /\ ~ changed => Closed(inferred)

(***************************************************************************)
(* An accepted program honours its contract all along every chain of       *)
(* calls: each parameter's effective capability, the one every later       *)
(* stage trusts, covers what the body does to it and what the effective    *)
(* capability of each callee it is passed to allows.                       *)
(***************************************************************************)
Honours(X, e) ==
  /\ e.kind = "mutate"  => X[e.slot] >= Write
  /\ e.kind = "capture" => X[e.slot] = Take
  /\ e.kind = "pass"    => X[e.slot] >= X[e.to]

AcceptedHonoursContract ==
  phase = "checked" /\ ~ changed =>
    \A f \in Functions : \A i \in 1 .. Len(Walk(f)) :
      Honours(effective, Walk(f)[i])

(***************************************************************************)
(* A rejected program deserves it: in every closed assignment some         *)
(* parameter needs more than it declares, however early the pass budget    *)
(* ended the inference.                                                    *)
(***************************************************************************)
RejectionIsJustified ==
  phase = "rejected" =>
    \A X \in Assignment :
      Closed(X) => \E s \in Slots : Declared(s) # Undeclared /\ X[s] > Declared(s)

(***************************************************************************)
(* Two levels above read for each parameter: a pass that changes something *)
(* uses one of them up, so with at most two parameters per function on     *)
(* average the cap of the loop is never what ends it.                      *)
(***************************************************************************)
SmallSignaturesConverge ==
  /\ phase \in {"verify", "checked", "rejected"}
  /\ Cardinality(Slots) <= 2 * Cardinality(registered)
  => ~ changed

(***************************************************************************)
(* "a function that forwards its parameter into another function's write   *)
(* position needs at least write itself", 0010-capability-inference.md:79, *)
(* of every argument, those of struct methods included.                    *)
(***************************************************************************)
ForwardingIsCounted ==
  phase = "checked" /\ ~ changed =>
    \A f \in Functions : \A i \in 1 .. Len(Walk(f)) :
      LET e == Walk(f)[i]
      IN  e.kind \in {"pass", "method_arg"} => effective[e.slot] >= effective[e.to]

\* A capability, once needed, stays needed, and a closure once discovered
\* stays registered: what earlier passes established is never lost.
OnlyRises ==
  [][/\ \A s \in Slots : inferred'[s] >= inferred[s]
     /\ registered \subseteq registered']_vars

\* check() returns or throws for every program and every walk order.
Terminates == <>(phase \in {"checked", "rejected"})
=============================================================================
