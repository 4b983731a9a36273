---------------------------- MODULE BodyExecution ----------------------------
(***************************************************************************)
(* The execution of a body by Interpreter: which tokens run, in which      *)
(* order, and which name denotes which binding.  A binding also carries    *)
(* what the language says of the struct it holds, which the checkers must  *)
(* predict: owned, borrowed from the caller, or moved away.  Conditions    *)
(* and the variant of a scrutinee are free choices.                        *)
(***************************************************************************)
EXTENDS FunctionBodies

CONSTANT MaxLaps  \* bound on the loop iterations of one execution

VARIABLES
  body,
  pc,        \* the token to execute
  frames,    \* the chain of Environments, the innermost last
  laps,      \* loop iterations started
  returned   \* a ReturnSignal has left the body

executionVars == <<body, pc, frames, laps, returned>>

Slot == {"unbound", "owned", "borrowed", "moved"}
Frame == [Names -> Slot]
EmptyFrame == [x \in Names |-> "unbound"]

FramesWith(fs, x) == {i \in 1 .. Len(fs) : fs[i][x] # "unbound"}
Innermost(S) == CHOOSE i \in S : \A j \in S : j <= i

Lookup(fs, x) ==
  IF FramesWith(fs, x) = {} THEN "unbound" ELSE fs[Innermost(FramesWith(fs, x))][x]

\* An assignment updates the binding there is, else defines one here.
Assign(fs, x, slot) ==
  LET i == IF FramesWith(fs, x) = {} THEN Len(fs) ELSE Innermost(FramesWith(fs, x))
  IN  [fs EXCEPT ![i][x] = slot]

Pop(fs) == SubSeq(fs, 1, Len(fs) - 1)

\* A value that is moved out of a name leaves it moved; what was borrowed,
\* or is gone already, stays as it is.
MovedOut(fs, x) == IF Lookup(fs, x) = "owned" THEN Assign(fs, x, "moved") ELSE fs
-----------------------------------------------------------------------------
Init ==
  /\ pc = 1
  /\ frames = << [x \in Names |-> IF body.params[x] = "none" THEN "unbound"
                                  ELSE body.params[x]], EmptyFrame >>
  /\ laps = 0
  /\ returned = FALSE

Running == ~ returned /\ pc <= Len(body.code)
Now == body.code[pc]

Execute(ops) ==
  /\ Running
  /\ Now.op \in ops
  /\ UNCHANGED body

RunStatement ==
  /\ Execute({"fresh", "copy", "read", "give", "store", "give_field", "module_give",
              "capture", "yield"})
  /\ LET consumed == IF Now.op \in {"copy", "give", "store", "module_give", "capture"}
                     THEN MovedOut(frames, Now.of) ELSE frames
     IN  frames' = IF Now.op \in {"fresh", "copy"} THEN Assign(consumed, Now.to, "owned")
                   ELSE consumed
  /\ pc' = pc + 1
  /\ UNCHANGED <<laps, returned>>

RunReturn ==
  /\ Execute({"return"})
  /\ returned' = TRUE
  /\ UNCHANGED <<pc, frames, laps>>

\* The branch that starts at token b is entered, in an Environment of its own.
EnterBranch ==
  /\ Execute({"if", "match"})
  /\ \E b \in BranchesOf(body.code, pc) :
       /\ pc' = b
       /\ frames' = Append(IF Now.op = "match" THEN MovedOut(frames, Now.of) ELSE frames,
                           [x \in Names |-> IF x = body.code[b - 1].to
                                            THEN Lookup(frames, Now.of) ELSE "unbound"])
  /\ UNCHANGED <<laps, returned>>

LeaveBranch ==
  /\ Execute(Middles)
  /\ pc' = EndOf(body.code, pc) + 1
  /\ frames' = Pop(frames)
  /\ UNCHANGED <<laps, returned>>

StartLap ==
  /\ Execute({"loop"})
  /\ laps < MaxLaps
  /\ laps' = laps + 1
  /\ pc' = pc + 1
  /\ frames' = Append(frames, EmptyFrame)
  /\ UNCHANGED returned

\* The condition of a while is false.
SkipLoop ==
  /\ Execute({"loop"})
  /\ pc' = EndOf(body.code, pc + 1) + 1
  /\ UNCHANGED <<frames, laps, returned>>

EnterBlock ==
  /\ Execute({"block", "unsafe"})
  /\ pc' = pc + 1
  /\ frames' = Append(frames, EmptyFrame)
  /\ UNCHANGED <<laps, returned>>

LeaveScope ==
  /\ Execute({"end"})
  /\ LET opening == OpeningOf(body.code, pc)
     IN  pc' = IF body.code[opening].op = "loop" THEN opening ELSE pc + 1
  /\ frames' = Pop(frames)
  /\ UNCHANGED <<laps, returned>>

\* BreakSignal and ContinueSignal unwind to the loop's own Environment.
Unwind ==
  /\ Execute({"break", "continue"})
  /\ LET loop == LoopOf(body.code, pc)
     IN  /\ pc' = IF Now.op = "break" THEN EndOf(body.code, loop + 1) + 1 ELSE loop
         /\ frames' = SubSeq(frames, 1, Len(frames) - (Depth(body.code, pc) - Depth(body.code, loop)))
  /\ UNCHANGED <<laps, returned>>

Next ==
  \/ RunStatement \/ RunReturn
  \/ EnterBranch \/ LeaveBranch \/ StartLap \/ SkipLoop \/ EnterBlock \/ LeaveScope
  \/ Unwind
=============================================================================
