----------------------------- MODULE IrGenerator -----------------------------
(***************************************************************************)
(* IrGenerator::generateFunction: one walk over a body that turns names    *)
(* into virtual registers and decides where each struct is dropped.        *)
(*                                                                         *)
(* A name is the number of a register.  IrScopes map names to registers; a *)
(* barrier keeps what a branch assigns to itself, and mergeBranchScopes    *)
(* makes a new register for each name the branches of an if or match       *)
(* disagree on.  liveScopeStack holds, frame by frame, the registers that  *)
(* still have to be dropped.  The IR has the shape of the body, so what is *)
(* emitted for a token is kept at the token.                               *)
(*                                                                         *)
(* Bodies do not take addresses, call no closures, have no code behind a   *)
(* return, break or continue in the same block, and an if or match has two *)
(* branches.                                                               *)
(***************************************************************************)
EXTENDS FunctionBodies

VARIABLES
  body,      \* the body being lowered
  owning,    \* its names hold structs and enums; else they hold integers
  lowerAt,   \* the next token of the walk
  scopes,    \* the chain of IrScopes, the innermost last
  tracked,   \* the entries of liveScopeStack
  open,      \* the constructs around the token, the innermost last
  registers, \* registerCount: registers up to this number are taken
  ir         \* what was emitted at each token

lowerVars == <<body, owning, lowerAt, scopes, tracked, open, registers, ir>>

(***************************************************************************)
(* Registers are numbered from 1; 0 is no register (-1 in the code).  An   *)
(* entry of liveScopeStack: the frame it is in, and the token that put it  *)
(* there, by which the entries of a frame are ordered.                     *)
(***************************************************************************)
Register == Nat
NoRegister == 0
Entry == [frame : Nat, by : Int, reg : Register]

Scope == [barrier : BOOLEAN, regs : [Names -> Register], typed : SUBSET Names]
EmptyScope(barrier) == [barrier |-> barrier, regs |-> [x \in Names |-> NoRegister], typed |-> {}]

(***************************************************************************)
(* What is emitted at a token: the operand and the result of its           *)
(* instruction, then IrDrops, what a loop, break or continue carries, name *)
(* by name, and the carriedMerges of a branch.                             *)
(***************************************************************************)
Nothing == [reg |-> NoRegister, dest |-> NoRegister, drops |-> {}, carried |-> {}, merges |-> {}]
-----------------------------------------------------------------------------
(* IrScope *)
InnermostOf(S) == CHOOSE i \in S : \A j \in S : j <= i

Binding(ss, x) == {i \in 1 .. Len(ss) : ss[i].regs[x] # NoRegister}
Find(ss, x) == IF Binding(ss, x) = {} THEN NoRegister ELSE ss[InnermostOf(Binding(ss, x))].regs[x]
Snapshot(ss) == [x \in Names |-> Find(ss, x)]

Bind(scope, x, reg) == [scope EXCEPT !.regs[x] = reg]
Define(ss, x, reg) == [ss EXCEPT ![Len(ss)] = Bind(ss[Len(ss)], x, reg)]

\* assign walks up to the scope that binds the name, but not past a barrier.
AssignedIn(ss, x) == InnermostOf(Binding(ss, x) \cup {i \in 1 .. Len(ss) : ss[i].barrier})
AssignReg(ss, x, reg) ==
  [i \in 1 .. Len(ss) |-> IF i = AssignedIn(ss, x) THEN Bind(ss[i], x, reg) ELSE ss[i]]

DefineOrAssign(ss, x, reg) ==
  IF Binding(ss, x) = {} THEN Define(ss, x, reg) ELSE AssignReg(ss, x, reg)

\* findSimpleType: declared for parameters and assigned names, not for the
\* bindings of a match arm.
Typed(scope, x) == [scope EXCEPT !.typed = scope.typed \cup {x}]
DeclareType(ss, x) == [ss EXCEPT ![Len(ss)] = Typed(ss[Len(ss)], x)]
TypeKnown(x) == body.params[x] # "none" \/ \E i \in 1 .. Len(scopes) : x \in scopes[i].typed

PopScope(ss) == [i \in 1 .. Len(ss) - 1 |-> ss[i]]
-----------------------------------------------------------------------------
(* liveScopeStack *)

\* consumeTrackedRegister: the first entry with the register, outermost
\* frame first, is erased.
Before(s, t) == s.frame < t.frame \/ (s.frame = t.frame /\ s.by <= t.by)
Consume(entries, reg) ==
  entries \ {s \in entries : s.reg = reg /\ \A t \in entries : t.reg = reg => Before(s, t)}

\* Frame 1 is that of the parameters, frame 2 that of the body.
TopFrame == 2 + Len(open)
InFrame_AndOuter(entries, f) == {s \in entries : s.frame <= f}
InFrame(entries, f) == {s \in entries : s.frame = f}

\* A new binding takes over what its value's register owned so far.
Track_KeepsOwner(reg) == tracked \cup {[frame |-> TopFrame, by |-> lowerAt, reg |-> reg]}
Track(reg) ==
  Consume(tracked, reg) \cup {[frame |-> TopFrame, by |-> lowerAt, reg |-> reg]}

EnumNames == {body.code[i].of : i \in {j \in 1 .. Len(body.code) : body.code[j].op = "match"}}
-----------------------------------------------------------------------------
Init ==
  /\ lowerAt = 1
  /\ scopes = << [EmptyScope(FALSE) EXCEPT
                    !.regs = [x \in Names |-> IF body.params[x] = "none" THEN NoRegister
                                              ELSE Position[x]]],
                 EmptyScope(FALSE) >>
  /\ tracked = {[frame |-> 1, by |-> - Position[x], reg |-> Position[x]] :
                  x \in {y \in Names : owning /\ body.params[y] = "owned" /\ y \notin EnumNames}}
  /\ open = << >>
  /\ registers = Cardinality(Names)
  /\ ir = [i \in 1 .. Len(body.code) + 1 |-> Nothing]

This == body.code[lowerAt]
Operand == IF This.of = NoName THEN NoRegister ELSE Find(scopes, This.of)
NewRegister == registers + 1

Lower(ops) ==
  /\ lowerAt <= Len(body.code)
  /\ This.op \in ops
  /\ lowerAt' = lowerAt + 1
  /\ UNCHANGED <<body, owning>>

Emit(instruction) == ir' = [ir EXCEPT ![lowerAt] = instruction]

\* AssignmentStmt.  A name on the right-hand side costs no instruction: both
\* names are the same register from here on.
LowerAssignment ==
  /\ Lower({"fresh", "copy"})
  /\ LET reg == IF This.op = "copy" THEN Operand ELSE NewRegister
         known == This.op = "fresh" \/ TypeKnown(This.of)
         assigned == DefineOrAssign(scopes, This.to, reg)
     IN  /\ scopes' = IF known THEN DeclareType(assigned, This.to) ELSE assigned
         /\ tracked' = IF owning /\ known THEN Track(reg) ELSE tracked
         /\ registers' = IF This.op = "fresh" THEN NewRegister ELSE registers
         /\ Emit([Nothing EXCEPT !.reg = Operand, !.dest = reg])
  /\ UNCHANGED open

\* retainFieldValueIfNeeded: what goes to a take parameter, into a field or
\* into a closure is not dropped here any more.  A module-qualified call
\* does not look at the callee's regions.
LowerUse_KeepsStored ==
  /\ Lower({"read", "give", "store", "give_field", "module_give", "capture"})
  /\ tracked' = IF This.op \in {"give", "capture"} THEN Consume(tracked, Operand) ELSE tracked
  /\ Emit([Nothing EXCEPT !.reg = Operand])
  /\ UNCHANGED <<scopes, open, registers>>
LowerUse ==
  /\ Lower({"read", "give", "store", "give_field", "module_give", "capture"})
  /\ tracked' = IF This.op \in {"give", "store", "capture"} THEN Consume(tracked, Operand)
                ELSE tracked
  /\ Emit([Nothing EXCEPT !.reg = Operand])
  /\ UNCHANGED <<scopes, open, registers>>

\* The value of a match arm leaves the frames before they are dropped.
LowerYield ==
  /\ Lower({"yield"})
  /\ tracked' = IF owning THEN Consume(tracked, Operand) ELSE tracked
  /\ Emit([Nothing EXCEPT !.reg = Operand])
  /\ UNCHANGED <<scopes, open, registers>>

\* emitReturn: every frame is dropped, and none of them popped.
LowerReturn ==
  /\ Lower({"return"})
  /\ tracked' = Consume(tracked, Operand)
  /\ Emit([Nothing EXCEPT !.reg = Operand, !.drops = Consume(tracked, Operand)])
  /\ UNCHANGED <<scopes, open, registers>>

\* The names whose register differs from the one before the loop, each with
\* both, even where two names are the same registers.
Changed(pre, post) ==
  {[name |-> x, pre |-> pre[x], post |-> post[x]] :
     x \in {y \in Names : pre[y] \notin {NoRegister, post[y]}}}

InnermostLoop == open[InnermostOf({i \in 1 .. Len(open) : open[i].op = "loop"})]

LowerJump ==
  /\ Lower({"break", "continue"})
  /\ Emit([Nothing EXCEPT !.carried = Changed(InnermostLoop.pre, Snapshot(scopes))])
  /\ UNCHANGED <<scopes, tracked, open, registers>>

Opened(op) == [op |-> op, pre |-> Snapshot(scopes), then |-> Snapshot(scopes),
               subject |-> Operand]

\* A loop body, a for's block and an unsafe block: a scope and a frame.
LowerOpen ==
  /\ Lower({"loop", "block", "unsafe"})
  /\ scopes' = Append(scopes, EmptyScope(FALSE))
  /\ open' = Append(open, Opened(This.op))
  /\ UNCHANGED <<tracked, registers, ir>>

LowerIf ==
  /\ Lower({"if"})
  /\ scopes' = Append(scopes, EmptyScope(TRUE))
  /\ open' = Append(open, Opened("if"))
  /\ UNCHANGED <<tracked, registers, ir>>

LowerElse_Leaks ==
  /\ Lower({"else"})
  /\ scopes' = Append(PopScope(scopes), EmptyScope(TRUE))
  /\ open' = [open EXCEPT ![Len(open)].then = Snapshot(scopes)]
  /\ tracked' = tracked \ InFrame(tracked, TopFrame)
  /\ UNCHANGED <<registers, ir>>
LowerElse ==
  /\ Lower({"else"})
  /\ scopes' = Append(PopScope(scopes), EmptyScope(TRUE))
  /\ open' = [open EXCEPT ![Len(open)].then = Snapshot(scopes)]
  /\ tracked' = tracked \ InFrame(tracked, TopFrame)
  /\ Emit([Nothing EXCEPT !.drops = InFrame(tracked, TopFrame)])
  /\ UNCHANGED registers

(***************************************************************************)
(* lowerMatchArm: an arm has a barrier scope of its own for its bindings,  *)
(* inside the barrier scope of the branch; assignments end up in the       *)
(* former, and only the latter is merged.  The binding is tracked whoever  *)
(* owns the scrutinee; the scrutinee no longer is.                         *)
(***************************************************************************)
EnterArm(outside, subject, entries, frame) ==
  /\ scopes' = Append(Append(outside, EmptyScope(TRUE)),
                      Bind(EmptyScope(TRUE), This.to, NewRegister))
  /\ tracked' = IF owning
                THEN Consume(entries, subject)
                       \cup {[frame |-> frame, by |-> lowerAt, reg |-> NewRegister]}
                ELSE entries
  /\ registers' = NewRegister

LowerMatch ==
  /\ Lower({"match"})
  /\ EnterArm(scopes, Operand, tracked, TopFrame + 1)
  /\ open' = Append(open, Opened("match"))
  /\ Emit([Nothing EXCEPT !.reg = Operand, !.dest = NewRegister])

LowerArm ==
  /\ Lower({"arm"})
  /\ LET subject == open[Len(open)].subject
     IN  /\ EnterArm(PopScope(PopScope(scopes)), subject,
                     tracked \ InFrame(tracked, TopFrame), TopFrame)
         /\ Emit([Nothing EXCEPT !.reg = subject, !.dest = NewRegister,
                                 !.drops = InFrame(tracked, TopFrame)])
  /\ open' = [open EXCEPT ![Len(open)].then = Snapshot(PopScope(scopes))]

\* mergeBranchScopes: the names to merge, and the register each gets.
Differing(pre, then, else) ==
  {x \in Names : pre[x] # NoRegister /\ ~ (then[x] = pre[x] /\ else[x] = pre[x])}

MergeAll(ss, differing) ==
  [i \in 1 .. Len(ss) |->
     [ss[i] EXCEPT !.regs = [x \in Names |-> IF x \in differing /\ i = AssignedIn(ss, x)
                                             THEN registers + Position[x] ELSE ss[i].regs[x]]]]

CloseBranches ==
  /\ Lower({"end"})
  /\ open # << >> /\ open[Len(open)].op \in {"if", "match"}
  /\ LET closed == open[Len(open)]
         outer == IF closed.op = "match" THEN PopScope(scopes) ELSE scopes
         else == Snapshot(outer)
         differing == Differing(closed.pre, closed.then, else)
     IN  /\ scopes' = MergeAll(PopScope(outer), differing)
         /\ Emit([Nothing EXCEPT
                    !.drops = InFrame(tracked, TopFrame),
                    !.merges = {[then |-> closed.then[x], else |-> else[x],
                                 dest |-> registers + Position[x]] : x \in differing}])
  /\ tracked' = tracked \ InFrame(tracked, TopFrame)
  /\ registers' = registers + Cardinality(Names)
  /\ open' = PopScope(open)

\* lowerLoop: what the body changed in the scopes around it is carried.
CloseScope ==
  /\ Lower({"end"})
  /\ open # << >> /\ open[Len(open)].op \notin {"if", "match"}
  /\ LET closed == open[Len(open)]
     IN  Emit([Nothing EXCEPT
                 !.drops = InFrame(tracked, TopFrame),
                 !.carried = IF closed.op = "loop"
                             THEN Changed(closed.pre, Snapshot(PopScope(scopes))) ELSE {}])
  /\ tracked' = tracked \ InFrame(tracked, TopFrame)
  /\ scopes' = PopScope(scopes)
  /\ open' = PopScope(open)
  /\ UNCHANGED registers

\* A body that can fall off its end drops what is left.
LowerEnd ==
  /\ lowerAt = Len(body.code) + 1
  /\ lowerAt' = lowerAt + 1
  /\ Emit([Nothing EXCEPT !.drops = tracked])
  /\ UNCHANGED <<body, owning, scopes, tracked, open, registers>>

Lowered == lowerAt = Len(body.code) + 2

Next ==
  \/ LowerAssignment \/ LowerUse \/ LowerYield \/ LowerReturn \/ LowerJump
  \/ LowerOpen \/ LowerIf \/ LowerElse \/ LowerMatch \/ LowerArm
  \/ CloseBranches \/ CloseScope \/ LowerEnd

Spec ==
  /\ body \in BodyType /\ WellFormedBody(body) /\ owning \in BOOLEAN
  /\ Init
  /\ [][Next]_lowerVars
-----------------------------------------------------------------------------
(***************************************************************************)
(* A register has at most one entry in the frames: whoever drops a frame   *)
(* drops a struct no other frame will drop, and erasing the first entry    *)
(* erases the only one.                                                    *)
(***************************************************************************)
TrackedOnce == \A s, t \in tracked : s.reg = t.reg => s = t
=============================================================================
