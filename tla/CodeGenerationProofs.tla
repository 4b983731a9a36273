------------------------- MODULE CodeGenerationProofs -------------------------
(***************************************************************************)
(* What IrGeneratorProofs proves of IrGenerator alone, of the whole of     *)
(* CodeGeneration: the checkers before it, the emitter and the execution   *)
(* behind it do not touch what it keeps.                                   *)
(***************************************************************************)
EXTENDS CodeGeneration, TLAPS

\* The IrGenerator of the proofs is, definition by definition, Lowering.
Proved == INSTANCE IrGeneratorProofs

LEMMA SameInit == Lowering!Init => Proved!Init
BY DEF
  Lowering!Init, Proved!Init, Lowering!EmptyScope, Proved!EmptyScope,
  Lowering!NoRegister, Proved!NoRegister, Lowering!Nothing, Proved!Nothing,
  Lowering!EnumNames, Proved!EnumNames, Lowering!Position, Proved!Position,
  Lowering!Cardinality, Proved!Cardinality, Lowering!IsFiniteSet,
  Proved!IsFiniteSet

LEMMA SameNext == Lowering!Next => Proved!Next
BY DEF
  Lowering!NoRegister, Proved!NoRegister, Lowering!EmptyScope,
  Proved!EmptyScope, Lowering!Nothing, Proved!Nothing, Lowering!InnermostOf,
  Proved!InnermostOf, Lowering!Binding, Proved!Binding, Lowering!Find,
  Proved!Find, Lowering!Snapshot, Proved!Snapshot, Lowering!Bind, Proved!Bind,
  Lowering!Define, Proved!Define, Lowering!AssignedIn, Proved!AssignedIn,
  Lowering!AssignReg, Proved!AssignReg, Lowering!DefineOrAssign,
  Proved!DefineOrAssign, Lowering!Typed, Proved!Typed, Lowering!DeclareType,
  Proved!DeclareType, Lowering!TypeKnown, Proved!TypeKnown, Lowering!PopScope,
  Proved!PopScope, Lowering!Before, Proved!Before, Lowering!Consume,
  Proved!Consume, Lowering!TopFrame, Proved!TopFrame, Lowering!InFrame,
  Proved!InFrame, Lowering!Track, Proved!Track, Lowering!This, Proved!This,
  Lowering!Operand, Proved!Operand, Lowering!NewRegister, Proved!NewRegister,
  Lowering!Lower, Proved!Lower, Lowering!Emit, Proved!Emit,
  Lowering!LowerAssignment, Proved!LowerAssignment, Lowering!LowerUse,
  Proved!LowerUse, Lowering!LowerYield, Proved!LowerYield,
  Lowering!LowerReturn, Proved!LowerReturn, Lowering!Changed, Proved!Changed,
  Lowering!InnermostLoop, Proved!InnermostLoop, Lowering!LowerJump,
  Proved!LowerJump, Lowering!Opened, Proved!Opened, Lowering!LowerOpen,
  Proved!LowerOpen, Lowering!LowerIf, Proved!LowerIf, Lowering!LowerElse,
  Proved!LowerElse, Lowering!EnterArm, Proved!EnterArm, Lowering!LowerMatch,
  Proved!LowerMatch, Lowering!LowerArm, Proved!LowerArm, Lowering!Differing,
  Proved!Differing, Lowering!MergeAll, Proved!MergeAll,
  Lowering!CloseBranches, Proved!CloseBranches, Lowering!CloseScope,
  Proved!CloseScope, Lowering!LowerEnd, Proved!LowerEnd, Lowering!Next,
  Proved!Next, Lowering!Position, Proved!Position, Lowering!Cardinality,
  Proved!Cardinality, Lowering!IsFiniteSet, Proved!IsFiniteSet

LEMMA InitInvariant == Init => Proved!IInv
<1> SUFFICES ASSUME Init PROVE Proved!IInv
  OBVIOUS
<1>1. body \in BodyType /\ Proved!Init
  BY BodiesAssumption, SameInit DEF Init
<1>2. body \in Proved!BodyType
  BY <1>1 DEF BodyType, Proved!BodyType, Token, Proved!Token, Region, Proved!Region,
    Openings, Proved!Openings, Middles, Proved!Middles, Statements, Proved!Statements
<1> QED
  BY <1>1, <1>2, Proved!InitInvariant, NamesAssumption DEF IsFiniteSet, Proved!IsFiniteSet

LEMMA OnlyLowerLowers == Next => Lowering!Next \/ UNCHANGED Proved!lowerVars
<1>1. CASE CheckMoves
  BY <1>1 DEF CheckMoves, lowering, Proved!lowerVars, Moves!Next, Moves!Pass, Moves!Give,
    Moves!Capture, Moves!OpenFresh, Moves!OpenBlock, Moves!NextBranch, Moves!Close,
    Moves!SkipUnsafe, Moves!Reject, Moves!Accept, Moves!Walk
<1>2. CASE CheckRegions
  BY <1>2 DEF CheckRegions, lowering, Proved!lowerVars, Regions!Next, Regions!Bind,
    Regions!Copy, Regions!Read, Regions!Consume, Regions!OpenIf, Regions!Else,
    Regions!OpenMatch, Regions!Arm, Regions!Yield, Regions!OpenScope, Regions!SkipUnsafe,
    Regions!Close, Regions!Reject, Regions!Accept, Regions!Walk
<1>3. CASE EmitText
  BY <1>3 DEF EmitText, lowering, Proved!lowerVars, Emitter!Next, Emitter!EmitInstructions,
    Emitter!EmitLoopHeader, Emitter!EmitLoopExit, Emitter!Emit
<1>4. CASE Execute
  BY <1>4 DEF Execute, lowering, Proved!lowerVars, Run!Next, Run!RunFresh, Run!RunCopy,
    Run!RunUse, Run!RunReturn, Run!RunEnd, Run!EnterIf, Run!EnterArm, Run!LeaveBranch,
    Run!LeaveLast, Run!EnterBlock, Run!LeaveBlock, Run!StartLap, Run!LeaveLoop,
    Run!FinishLap, Run!Continue, Run!Break, Run!Execute
<1> QED BY <1>1, <1>2, <1>3, <1>4 DEF Next, Lower

LEMMA NextInvariant == Proved!IInv /\ [Next]_vars => Proved!IInv'
<1> SUFFICES ASSUME Proved!IInv, [Next]_vars PROVE Proved!IInv'
  OBVIOUS
<1>1. UNCHANGED vars => UNCHANGED Proved!lowerVars
  BY DEF vars, lowering, Proved!lowerVars
<1>2. [Proved!Next]_(Proved!lowerVars)
  BY <1>1, OnlyLowerLowers, SameNext
<1> QED
  BY <1>2, Proved!StepInvariant, NamesAssumption DEF IsFiniteSet, Proved!IsFiniteSet

\* The frames that drop structs never hold a register twice, while a body is
\* checked, lowered, emitted and executed (IrGenerator's liveScopeStack).
THEOREM RegistersAreTrackedOnce == Spec => []TrackedOnce
<1>1. Proved!IInv => TrackedOnce
  BY DEF Proved!IInv, Proved!Tracking, TrackedOnce, Lowering!TrackedOnce
<1> QED BY <1>1, InitInvariant, NextInvariant, PTL DEF Spec
=============================================================================
