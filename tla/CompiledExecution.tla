-------------------------- MODULE CompiledExecution --------------------------
(***************************************************************************)
(* A body executed twice in lockstep: by Interpreter, whose Environments   *)
(* bind names to objects, and as the compiled program, whose LLVM values   *)
(* and stack slots hold objects and whose drops free them.  Conditions,    *)
(* and which variant a scrutinee is, are free choices, the same for both.  *)
(***************************************************************************)
EXTENDS FunctionBodies, SequencesExt

CONSTANT MaxLaps  \* bound on the loop iterations of one execution

VARIABLES
  body, owning,  \* as in IrGenerator
  ir, refs,      \* the compiled body
  pc,            \* the token to execute
  frames,        \* the chain of Environments, the innermost last
  values,        \* the objects in the LLVM values defined so far
  slots,         \* the slots of the loops being executed
  heap,          \* the objects, and what has become of them
  laps,          \* loop iterations started
  finished       \* the function has returned

executionVars == <<body, owning, ir, refs, pc, frames, values, slots, heap, laps, finished>>

LOCAL Emitter == INSTANCE LlvmIrEmitter WITH emitAt <- 1, llvmRegisterOf <- << >>

(***************************************************************************)
(* An object is owned by this execution ("live") or by its caller          *)
(* ("lent"), has been given away, taken apart by a match ("opened") or     *)
(* freed.  An enum holds a second object, its payload.  0 is no object.    *)
(***************************************************************************)
Object == Nat
NoObject == 0
HeapCell == [fate : {"live", "lent", "given", "opened", "freed"}, payload : Object]
Cell(fate, payload) == [fate |-> fate, payload |-> payload]

EnumNames == {body.code[i].of : i \in {j \in 1 .. Len(body.code) : body.code[j].op = "match"}}

\* Parameter x holds object 2 * Position[x] - 1, with the next one in it.
ParamObject(x) == 2 * Position[x] - 1
ParamFate(x) == CASE body.params[x] = "owned" -> "live"
                  [] body.params[x] = "borrowed" -> "lent"
                  [] OTHER -> "given"
ParamCell(n) ==
  LET x == CHOOSE y \in Names : Position[y] = (n + 1) \div 2
  IN  IF n = ParamObject(x)
      THEN Cell(ParamFate(x), IF x \in EnumNames THEN n + 1 ELSE NoObject)
      ELSE Cell(IF x \in EnumNames THEN ParamFate(x) ELSE "given", NoObject)
-----------------------------------------------------------------------------
(* Environment *)
Frame == [Names -> Object]
EmptyFrame == [x \in Names |-> NoObject]

FramesWith(x) == {i \in 1 .. Len(frames) : frames[i][x] # NoObject}
Innermost(S) == CHOOSE i \in S : \A j \in S : j <= i
Lookup(x) == IF FramesWith(x) = {} THEN NoObject ELSE frames[Innermost(FramesWith(x))][x]
Assign(x, object) ==
  LET i == IF FramesWith(x) = {} THEN Len(frames) ELSE Innermost(FramesWith(x))
  IN  [frames EXCEPT ![i][x] = object]
Pop(n) == SubSeq(frames, 1, Len(frames) - n)
-----------------------------------------------------------------------------
(* The compiled program *)
Contents(vs, value) == IF value \in DOMAIN vs THEN vs[value] ELSE NoObject

\* The object in a register of the IR, as the text of token i refers to it.
At(vs, i, reg) == Contents(vs, Emitter!Ref(refs[i], reg))
Operand == At(values, pc, ir[pc].reg)

With(vs, value, object) == (value :> object) @@ vs

GiveAway(hp, object) == [hp EXCEPT ![object].fate = IF @ = "live" THEN "given" ELSE @]

\* An IrDrop frees an object and what is in it.
Dropped(entry) ==
  LET object == At(values, pc, entry.reg)
  IN  {object, heap[object].payload} \ {NoObject}
Drop(hp) ==
  LET freed == UNION {Dropped(entry) : entry \in ir[pc].drops}
  IN  [o \in DOMAIN hp |-> IF o \in freed THEN [hp[o] EXCEPT !.fate = "freed"] ELSE hp[o]]

(***************************************************************************)
(* storeCarriedValues: each carried value goes to the first slot whose     *)
(* register before the loop is its own; of two such values the later stays *)
(* there, and no other slot of that register is ever written again.        *)
(***************************************************************************)
SlotOf(loop, pre) ==
  CHOOSE k \in DOMAIN Emitter!Carried(loop) :
    /\ Emitter!Carried(loop)[k].pre = pre
    /\ \A l \in DOMAIN Emitter!Carried(loop) : Emitter!Carried(loop)[l].pre = pre => k <= l

Stored(loop) ==
  [k \in DOMAIN slots[loop] |->
     LET stores == {c \in ir[pc].carried :
                      Emitter!Carried(loop)[k].pre = c.pre /\ SlotOf(loop, c.pre) = k}
     IN  IF stores = {} THEN slots[loop][k]
         ELSE At(values, pc, Last(Emitter!InOrder(stores)).post)]

\* The header loads of a loop, then the loads at its exit.
Loaded(vs, load(_), contents) == [v \in {load(k) : k \in DOMAIN contents} |->
                                    contents[CHOOSE k \in DOMAIN contents : load(k) = v]] @@ vs
-----------------------------------------------------------------------------
Init ==
  /\ pc = 1
  /\ frames = << [x \in Names |-> IF body.params[x] = "none" THEN NoObject ELSE ParamObject(x)],
                 EmptyFrame >>
  /\ values = [v \in {Emitter!Value(Position[x]) : x \in {y \in Names : body.params[y] # "none"}}
                 |-> 2 * v.k - 1]
  /\ slots = << >>
  /\ heap = [n \in 1 .. 2 * Cardinality(Names) |-> ParamCell(n)]
  /\ laps = 0
  /\ finished = FALSE

Running == ~ finished /\ pc <= Len(body.code)
Now == body.code[pc]

Execute(ops) ==
  /\ Running
  /\ Now.op \in ops
  /\ UNCHANGED <<body, owning, ir, refs>>

\* A struct literal or call; the object is new.
RunFresh ==
  /\ Execute({"fresh"})
  /\ LET n == Len(heap) + 1
     IN  /\ frames' = Assign(Now.to, n)
         /\ values' = With(values, Emitter!Value(ir[pc].dest), n)
         /\ heap' = heap \o (IF Now.to \in EnumNames
                             THEN << Cell("live", n + 1), Cell("live", NoObject) >>
                             ELSE << Cell("live", NoObject) >>)
  /\ pc' = pc + 1
  /\ UNCHANGED <<slots, laps, finished>>

RunCopy ==
  /\ Execute({"copy"})
  /\ frames' = Assign(Now.to, Lookup(Now.of))
  /\ pc' = pc + 1
  /\ UNCHANGED <<values, slots, heap, laps, finished>>

RunUse ==
  /\ Execute({"read", "give", "store", "module_give", "capture", "yield"})
  /\ heap' = IF Now.op = "read" THEN heap ELSE GiveAway(heap, Operand)
  /\ pc' = pc + 1
  /\ UNCHANGED <<frames, values, slots, laps, finished>>

RunReturn ==
  /\ Execute({"return"})
  /\ heap' = Drop(GiveAway(heap, Operand))
  /\ finished' = TRUE
  /\ UNCHANGED <<pc, frames, values, slots, laps>>

RunEnd ==
  /\ ~ finished /\ pc = Len(body.code) + 1
  /\ heap' = Drop(heap)
  /\ finished' = TRUE
  /\ UNCHANGED <<body, owning, ir, refs, pc, frames, values, slots, laps>>

EnterIf ==
  /\ Execute({"if"})
  /\ pc' \in BranchesOf(body.code, pc)
  /\ frames' = Append(frames, EmptyFrame)
  /\ UNCHANGED <<values, slots, heap, laps, finished>>

\* The branch binds the payload of the scrutinee.
EnterArm ==
  /\ Execute({"match"})
  /\ \E b \in BranchesOf(body.code, pc) :
       /\ pc' = b
       /\ frames' = Append(frames, [EmptyFrame EXCEPT
                                      ![body.code[b - 1].to] = heap[Lookup(Now.of)].payload])
       /\ values' = With(values, Emitter!Value(ir[b - 1].dest), heap[Operand].payload)
  /\ heap' = [heap EXCEPT ![Operand].fate = IF @ = "live" THEN "opened" ELSE @]
  /\ UNCHANGED <<slots, laps, finished>>

\* The phis of the merge block at token i, reached from one of the branches.
Merged(vs, i, side) ==
  LET dest(m) == Emitter!Value(m.dest)
  IN  [v \in {dest(m) : m \in ir[i].merges} |->
         LET m == CHOOSE n \in ir[i].merges : dest(n) = v
         IN  At(vs, i, IF side = "then" THEN m.then ELSE m.else)] @@ vs

LeaveBranch ==
  /\ Execute(Middles)
  /\ heap' = Drop(heap)
  /\ frames' = Pop(1)
  /\ pc' = EndOf(body.code, pc) + 1
  /\ values' = Merged(values, pc' - 1, "then")
  /\ UNCHANGED <<slots, laps, finished>>

Closes(ops) == Now.op = "end" /\ body.code[OpeningOf(body.code, pc)].op \in ops

LeaveLast ==
  /\ Execute({"end"}) /\ Closes({"if", "match"})
  /\ heap' = Drop(heap)
  /\ frames' = Pop(1)
  /\ pc' = pc + 1
  /\ values' = Merged(values, pc, "else")
  /\ UNCHANGED <<slots, laps, finished>>

EnterBlock ==
  /\ Execute({"block", "unsafe"})
  /\ frames' = Append(frames, EmptyFrame)
  /\ pc' = pc + 1
  /\ UNCHANGED <<values, slots, heap, laps, finished>>

LeaveBlock ==
  /\ Execute({"end"}) /\ Closes({"block", "unsafe"})
  /\ heap' = Drop(heap)
  /\ frames' = Pop(1)
  /\ pc' = pc + 1
  /\ UNCHANGED <<values, slots, laps, finished>>

\* The slots on the way into the header: filled here, or by the last lap.
SlotsAtHeader ==
  IF pc \in DOMAIN slots THEN slots[pc]
  ELSE [k \in DOMAIN Emitter!Carried(pc) |-> At(values, pc, Emitter!Carried(pc)[k].pre)]

InHeader(loop, contents) == Loaded(values, LAMBDA k : Emitter!HeaderLoad(loop, k), contents)
AtExit(vs, loop, contents) == Loaded(vs, LAMBDA k : Emitter!ExitLoad(loop, k), contents)
Without(loop) == [l \in DOMAIN slots \ {loop} |-> slots[l]]

StartLap ==
  /\ Execute({"loop"})
  /\ laps < MaxLaps
  /\ laps' = laps + 1
  /\ values' = InHeader(pc, SlotsAtHeader)
  /\ slots' = (pc :> SlotsAtHeader) @@ slots
  /\ frames' = Append(frames, EmptyFrame)
  /\ pc' = pc + 1
  /\ UNCHANGED <<heap, finished>>

\* The condition of the while is false.
LeaveLoop ==
  /\ Execute({"loop"})
  /\ values' = AtExit(InHeader(pc, SlotsAtHeader), pc, SlotsAtHeader)
  /\ slots' = Without(pc)
  /\ pc' = EndOf(body.code, pc + 1) + 1
  /\ UNCHANGED <<frames, heap, laps, finished>>

FinishLap ==
  /\ Execute({"end"}) /\ Closes({"loop"})
  /\ LET loop == OpeningOf(body.code, pc)
     IN  /\ slots' = [slots EXCEPT ![loop] = Stored(loop)]
         /\ pc' = loop
  /\ heap' = Drop(heap)
  /\ frames' = Pop(1)
  /\ UNCHANGED <<values, laps, finished>>

\* BreakSignal and ContinueSignal unwind to the loop's own Environment; the
\* compiled program drops nothing on the way.
Unwound == Pop(Depth(body.code, pc) - Depth(body.code, LoopOf(body.code, pc)))

Continue ==
  /\ Execute({"continue"})
  /\ LET loop == LoopOf(body.code, pc)
     IN  /\ slots' = [slots EXCEPT ![loop] = Stored(loop)]
         /\ pc' = loop
  /\ frames' = Unwound
  /\ UNCHANGED <<values, heap, laps, finished>>

Break ==
  /\ Execute({"break"})
  /\ LET loop == LoopOf(body.code, pc)
     IN  /\ values' = AtExit(values, loop, Stored(loop))
         /\ slots' = Without(loop)
         /\ pc' = EndOf(body.code, loop + 1) + 1
  /\ frames' = Unwound
  /\ UNCHANGED <<heap, laps, finished>>

Next ==
  \/ RunFresh \/ RunCopy \/ RunUse \/ RunReturn \/ RunEnd
  \/ EnterIf \/ EnterArm \/ LeaveBranch \/ LeaveLast \/ EnterBlock \/ LeaveBlock
  \/ StartLap \/ LeaveLoop \/ FinishLap \/ Continue \/ Break
=============================================================================
