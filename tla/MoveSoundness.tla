---------------------------- MODULE MoveSoundness ----------------------------
(***************************************************************************)
(* What the two ownership passes are for: a body goes through MoveCheck,   *)
(* then through RegionChecker, and is executed.  A body that was rejected  *)
(* is executed as well, to see what the rejection prevented.               *)
(***************************************************************************)
EXTENDS FunctionBodies

CONSTANTS Bodies,  \* the bodies to check
          MaxLaps

ASSUME BodiesAssumption == \A b \in Bodies : b \in BodyType /\ WellFormedBody(b)
ASSUME MaxLapsAssumption == MaxLaps \in Nat

VARIABLES body, moveAt, movedSets, moveVerdict, at, envs, verdict, trace,
          pc, frames, laps, returned

Moves == INSTANCE MoveCheck
Regions == INSTANCE RegionChecker
Run == INSTANCE BodyExecution

movesOnly == <<moveAt, movedSets, moveVerdict>>
regionsOnly == <<at, envs, verdict, trace>>
runOnly == <<pc, frames, laps, returned>>
vars == <<body, movesOnly, regionsOnly, runOnly>>

Init ==
  /\ body \in Bodies
  /\ Moves!Init /\ Regions!Init /\ Run!Init

CheckMoves ==
  /\ Moves!Next
  /\ UNCHANGED <<regionsOnly, runOnly>>

CheckRegions ==
  /\ moveVerdict = "accepted"
  /\ Regions!Next
  /\ UNCHANGED <<movesOnly, runOnly>>

Execute ==
  /\ verdict # "none"
  /\ Run!Next
  /\ UNCHANGED <<movesOnly, regionsOnly>>

Next == CheckMoves \/ CheckRegions \/ Execute

Spec == Init /\ [][Next]_vars
-----------------------------------------------------------------------------
Accepted == verdict = "accepted"
Slot(x) == Run!Lookup(frames, x)

(***************************************************************************)
(* No execution of an accepted body uses a name after its value has been   *)
(* moved away, on any path: what "use of moved value" promises.            *)
(***************************************************************************)
NeverUsesMoved ==
  Accepted /\ Run!Running /\ Run!Now.of # NoName => Slot(Run!Now.of) # "moved"

(***************************************************************************)
(* No execution of an accepted body gives away, stores or returns what it  *)
(* only borrows from its caller, also not by way of a match binding.       *)
(***************************************************************************)
NeverMovesBorrowed ==
  Accepted /\ Run!Running /\ Run!Now.op \in Regions!Consuming
    => Slot(Run!Now.of) # "borrowed"

(***************************************************************************)
(* An accepted body has been walked wherever it can be executed, unsafe    *)
(* blocks excepted, and what RegionChecker knew of a name when it walked a *)
(* token covers every execution that comes to this token, also one that    *)
(* left a loop by break or took any branch before: a name that may be      *)
(* moved is known as moved, one that may be borrowed is known as borrowed. *)
(* Only MoveCheck knows what closures capture.                             *)
(***************************************************************************)
WalkCoversExecution ==
  Accepted /\ Run!Running /\ Inside(body.code, pc, {"unsafe"}) = {} =>
    /\ trace[pc] # << >>
    /\ \A x \in Names \ Captured(body) :
         /\ Slot(x) = "moved" => Regions!Get(trace[pc], x).moved
         /\ Slot(x) = "borrowed" => Regions!Get(trace[pc], x).region = "borrowed"

(***************************************************************************)
(* The scope chain and the accumulators never disagree: a name that some   *)
(* scope knows as moved is in the accumulator of the branch around that    *)
(* scope, so that no merge can miss it when the scope itself is gone.      *)
(***************************************************************************)
MovesAreRecorded ==
  \A i \in 1 .. Len(envs) : \A x \in Names :
    LET recorder == Regions!Recorder(SubSeq(envs, 1, i))
    IN  envs[i].binds[x].moved /\ recorder # 0 => x \in envs[recorder].moved

(***************************************************************************)
(* On a straight line RegionChecker rejects nothing harmless: when the     *)
(* execution comes to the token it refused, the token uses a moved name or *)
(* moves what is borrowed.  Assigning to a moved name makes it usable.     *)
(***************************************************************************)
RejectsForCause ==
  /\ verdict = "rejected" /\ Run!Running /\ pc = at
  /\ \A j \in 1 .. Len(body.code) : body.code[j].op \notin Openings
  => \/ Run!Now.op = "give_field"
     \/ Slot(Run!Now.of) = "moved"
     \/ Run!Now.op \in Regions!Consuming /\ Slot(Run!Now.of) = "borrowed"
=============================================================================
