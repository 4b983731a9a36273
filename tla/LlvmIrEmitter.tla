---------------------------- MODULE LlvmIrEmitter ----------------------------
(***************************************************************************)
(* LlvmIrEmitter::emitFunction: one walk over the IR of a body that gives  *)
(* each register of the IR an LLVM value.  llvmRegisterOf is one map for   *)
(* the whole function: what a loop rebinds stays rebound in all the text   *)
(* that follows, whether the loop was executed or not.                     *)
(***************************************************************************)
EXTENDS FunctionBodies, SequencesExt

VARIABLES
  body,
  ir,             \* the IR, token by token (see IrGenerator)
  emitAt,         \* the next token of the walk
  llvmRegisterOf, \* the registers that loops have rebound
  refs            \* llvmRegisterOf when the token was emitted

emitterVars == <<body, ir, emitAt, llvmRegisterOf, refs>>

(***************************************************************************)
(* LLVM values: that of an instruction of the IR, and those a loop loads   *)
(* from its slots in its header and at its exit.                           *)
(***************************************************************************)
Value(reg) == [of |-> "instruction", at |-> 0, k |-> reg]
HeaderLoad(loop, k) == [of |-> "header", at |-> loop, k |-> k]
ExitLoad(loop, k) == [of |-> "exit", at |-> loop, k |-> k]

Ref(map, reg) == IF reg \in DOMAIN map THEN map[reg] ELSE Value(reg)

\* The list of what is carried, in one of the orders an unordered_map of the
\* names may have; a loop has a slot for each, even for the same register.
InOrder(carried) == SetToSortSeq(carried, LAMBDA c, d : Position[c.name] < Position[d.name])
Carried(loop) == InOrder(ir[EndOf(body.code, loop + 1)].carried)

\* Bind, for each slot, a register to a load; a later slot wins.
Rebind(map, registerOf, load, slots) ==
  LET rebound == {registerOf[k] : k \in slots}
      last(reg) == CHOOSE k \in slots : registerOf[k] = reg
                     /\ \A l \in slots : registerOf[l] = reg => l <= k
  IN  [reg \in rebound |-> load[last(reg)]] @@ map

Init ==
  /\ emitAt = 1
  /\ llvmRegisterOf = << >>
  /\ refs = [i \in 1 .. Len(body.code) + 1 |-> << >>]

Emit ==
  /\ emitAt <= Len(body.code) + 1
  /\ emitAt' = emitAt + 1
  /\ refs' = [refs EXCEPT ![emitAt] = llvmRegisterOf]
  /\ UNCHANGED <<body, ir>>

IsLoop(i) == i <= Len(body.code) /\ body.code[i].op = "loop"
ClosesLoop(i) ==
  /\ i <= Len(body.code) /\ body.code[i].op = "end"
  /\ IsLoop(OpeningOf(body.code, i))

EmitInstructions ==
  /\ Emit
  /\ ~ IsLoop(emitAt) /\ ~ ClosesLoop(emitAt)
  /\ UNCHANGED llvmRegisterOf

\* The slots are filled; from the header on, the registers of before the
\* loop are what the header loads.
EmitLoopHeader ==
  /\ Emit
  /\ IsLoop(emitAt)
  /\ LET carried == Carried(emitAt)
     IN  llvmRegisterOf' = Rebind(llvmRegisterOf, [k \in DOMAIN carried |-> carried[k].pre],
                                  [k \in DOMAIN carried |-> HeaderLoad(emitAt, k)], DOMAIN carried)

\* Behind the loop, the registers of the end of its body are what the exit loads.
EmitLoopExit_NoReload == Emit /\ ClosesLoop(emitAt) /\ UNCHANGED llvmRegisterOf
EmitLoopExit ==
  /\ Emit
  /\ ClosesLoop(emitAt)
  /\ LET loop == OpeningOf(body.code, emitAt)
         carried == Carried(loop)
     IN  llvmRegisterOf' = Rebind(llvmRegisterOf, [k \in DOMAIN carried |-> carried[k].post],
                                  [k \in DOMAIN carried |-> ExitLoad(loop, k)], DOMAIN carried)

Next == EmitInstructions \/ EmitLoopHeader \/ EmitLoopExit
=============================================================================
