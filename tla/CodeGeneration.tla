---------------------------- MODULE CodeGeneration ----------------------------
(***************************************************************************)
(* From a checked body to its execution: MoveCheck and RegionChecker walk  *)
(* the body, IrGenerator lowers an accepted one, LlvmIrEmitter emits it,   *)
(* and it is executed next to Interpreter.  A body of integers has nothing *)
(* the two checkers look at.                                               *)
(***************************************************************************)
EXTENDS FunctionBodies

CONSTANTS Bodies,   \* [body, owning]: the bodies, and whether they hold structs
          MaxLaps

ASSUME BodiesAssumption ==
  \A b \in Bodies : b.body \in BodyType /\ WellFormedBody(b.body) /\ b.owning \in BOOLEAN
ASSUME MaxLapsAssumption == MaxLaps \in Nat

VARIABLES body, owning,
          moveAt, movedSets, moveVerdict, at, envs, verdict, trace,
          lowerAt, scopes, tracked, open, registers, ir,
          emitAt, llvmRegisterOf, refs,
          pc, frames, values, slots, heap, laps, finished

Moves == INSTANCE MoveCheck
Regions == INSTANCE RegionChecker
Lowering == INSTANCE IrGenerator
Emitter == INSTANCE LlvmIrEmitter
Run == INSTANCE CompiledExecution

checking == <<moveAt, movedSets, moveVerdict, at, envs, verdict, trace>>
lowering == <<lowerAt, scopes, tracked, open, registers>>
emission == <<emitAt, llvmRegisterOf, refs>>
execution == <<pc, frames, values, slots, heap, laps, finished>>
vars == <<body, owning, checking, lowering, ir, emission, execution>>

Init ==
  /\ \E b \in Bodies : body = b.body /\ owning = b.owning
  /\ Moves!Init /\ Regions!Init /\ Lowering!Init /\ Emitter!Init /\ Run!Init

CheckMoves ==
  /\ owning /\ Moves!Next
  /\ UNCHANGED <<owning, at, envs, verdict, trace, lowering, ir, emission, execution>>

CheckRegions ==
  /\ owning /\ moveVerdict = "accepted" /\ Regions!Next
  /\ UNCHANGED <<owning, moveAt, movedSets, moveVerdict, lowering, ir, emission, execution>>

Accepted == ~ owning \/ verdict = "accepted"

Lower ==
  /\ Accepted /\ Lowering!Next
  /\ UNCHANGED <<checking, emission, execution>>

EmitText ==
  /\ Lowering!Lowered /\ Emitter!Next
  /\ UNCHANGED <<owning, checking, lowering, execution>>

Compiled == emitAt = Len(body.code) + 2

Execute ==
  /\ Compiled /\ Run!Next
  /\ UNCHANGED <<checking, lowering, emission>>

Next == CheckMoves \/ CheckRegions \/ Lower \/ EmitText \/ Execute

Spec == Init /\ [][Next]_vars
-----------------------------------------------------------------------------
(***************************************************************************)
(* What the code generator gets right.  The README describes what each of  *)
(* the other bodies is compiled to.                                        *)
(***************************************************************************)
\* Token i gives the name a new value, and the name was bound before token j.
Reassigns(b, i, j) ==
  b.code[i].op \in {"fresh", "copy"} /\ Bound(b, b.code[i].to, j)

\* A struct is never assigned to a name of a scope further out.
AssignsOwnScope(b) ==
  \A i \in 1 .. Len(b.code) : \A j \in Inside(b.code, i, Openings) : ~ Reassigns(b, i, j)

\* What a loop changes is not copied, and the loop is in no branch.
Carried(b) ==
  {b.code[i].to : i \in {k \in 1 .. Len(b.code) :
                           \E j \in Inside(b.code, k, {"loop"}) : Reassigns(b, k, j)}}
CarriesAlone(b) ==
  /\ \A i \in 1 .. Len(b.code) :
       b.code[i].op = "copy" => {b.code[i].to, b.code[i].of} \cap Carried(b) = {}
  /\ \A i \in 1 .. Len(b.code) :
       b.code[i].op = "loop" /\ Inside(b.code, i, {"if"}) # {} => Carried(b) = {}

NoDeadCode(b) ==
  \A i \in 1 .. Len(b.code) - 1 :
    b.code[i].op \in {"return", "break", "continue"} => b.code[i + 1].op \in Middles \cup {"end"}

TwoBranches(b) ==
  \A i \in 1 .. Len(b.code) :
    b.code[i].op \in {"if", "match"} => Cardinality(BranchesOf(b.code, i)) = 2
-----------------------------------------------------------------------------
\* IrGenerator's frames never hold a register twice.
TrackedOnce == Lowering!TrackedOnce

(***************************************************************************)
(* A name denotes the same object in the compiled program as in the        *)
(* Interpreter whenever it is used, on every path through branches, loops, *)
(* break and continue: the registers, phis and slots of the compiled body  *)
(* do what the assignments say.                                            *)
(***************************************************************************)
UsesName == Compiled /\ Run!Running /\ Run!Now.of # NoName
SameValue == UsesName => Run!Operand = Run!Lookup(Run!Now.of)

(***************************************************************************)
(* The struct in a name that is used is still there: no drop, of any frame *)
(* and on any path, came too early.                                        *)
(***************************************************************************)
NeverUsesFreed == UsesName => heap[Run!Operand].fate \in {"live", "lent"}

(***************************************************************************)
(* What is dropped next is owned by this execution, with all that is in    *)
(* it, and by nobody else: not freed before, not given away, not returned, *)
(* not the caller's, and not dropped twice at once.                        *)
(***************************************************************************)
Dropping == ir[pc].drops
DropsItsOwn ==
  Compiled /\ ~ finished =>
    /\ \A s \in Dropping : Run!Dropped(s) # {}
                           /\ \A o \in Run!Dropped(s) : heap[o].fate = "live"
    /\ \A s, t \in Dropping : s # t => Run!Dropped(s) \cap Run!Dropped(t) = {}

(***************************************************************************)
(* A function that has returned has freed or passed on everything it owned *)
(* - if no branch moves what another does not, no loop is left by a jump,  *)
(* and no enum parameter is overwritten: those leak, as does the box of an *)
(* enum that a match has taken apart.                                      *)
(***************************************************************************)
MovesUnconditionally(b) ==
  \A i \in 1 .. Len(b.code) :
    /\ b.code[i].op \notin {"break", "continue"}
    /\ b.code[i].op \in MovesOut \cup {"return"} =>
         \A j \in Inside(b.code, i, {"if", "match"}) : ~ Bound(b, b.code[i].of, j)
    /\ b.code[i].op = "return" => Inside(b.code, i, Openings) = {}
    /\ b.code[i].to \in Lowering!EnumNames => b.params[b.code[i].to] = "none"
FreesWhatItOwns ==
  owning /\ finished /\ MovesUnconditionally(body) => \A o \in DOMAIN heap : heap[o].fate # "live"
=============================================================================
