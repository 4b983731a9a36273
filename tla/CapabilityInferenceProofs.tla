---------------------- MODULE CapabilityInferenceProofs ----------------------
(***************************************************************************)
(* Proofs about CapabilityInference for every set of functions, every      *)
(* program over them and every order in which passes walk them.            *)
(***************************************************************************)
EXTENDS CapabilityInference, TLAPS, FiniteSetTheorems

(***************************************************************************)
(* Types.                                                                  *)
(***************************************************************************)

\* While the walk is at an event, that event is one the program may contain.
LEMMA EventType ==
  ASSUME TypeOK, walking # NoFunction, at <= Len(Walk(walking))
  PROVE  /\ walking \in Functions
         /\ at \in 1 .. Len(Walk(walking))
         /\ Walk(walking) \in Seq(Event)
         /\ Here \in Event
         /\ Here.kind \in {"mutate", "capture"} => Here.slot \in Slots
         /\ Here.kind \in {"pass", "method_arg"} => Here.slot \in Slots /\ Here.to \in Slots
         /\ Here.kind = "closure" => Here.closure \in Closures
<1>1. walking \in Functions /\ program \in ProgramType
  BY ProgramsAssumption DEF TypeOK
<1>2. Walk(walking) \in Seq(Event)
  BY <1>1 DEF ProgramType, Walk
<1>3. at \in 1 .. Len(Walk(walking))
  BY <1>2 DEF TypeOK
<1>4. Here \in Event
  BY <1>2, <1>3 DEF Here
<1>5. QED
  BY <1>1, <1>2, <1>3, <1>4 DEF Event, SlotEvent, FlowEvent, ClosureEvent

\* What a rise does: the slot's capability becomes the larger of the two, and
\* a pass that stays quiet left every capability as it was.
LEMMA RaiseEffect ==
  ASSUME inferred \in [Slots -> Capability], changed \in BOOLEAN,
         NEW s \in Slots, NEW minimum \in Capability, Raise(s, minimum)
  PROVE  /\ inferred' \in [Slots -> Capability]
         /\ changed' \in BOOLEAN
         /\ \A t \in Slots : inferred[t] <= inferred'[t]
         /\ minimum <= inferred'[s]
         /\ inferred'[s] = inferred[s] \/ inferred'[s] = minimum
         /\ \A t \in Slots \ {s} : inferred'[t] = inferred[t]
         /\ changed => changed'
         /\ ~ changed' => inferred' = inferred
         /\ changed' => changed \/ inferred[s] < inferred'[s]
<1>1. inferred[s] \in Capability
  OBVIOUS
<1>2. inferred' = [inferred EXCEPT ![s] = IF minimum > inferred[s] THEN minimum ELSE inferred[s]]
  BY DEF Raise
<1>3. changed' = (changed \/ minimum > inferred[s])
  BY DEF Raise
<1>4. changed' \in BOOLEAN /\ (changed => changed')
  BY <1>3
<1>5. CASE minimum > inferred[s]
  <2>1. inferred' = [inferred EXCEPT ![s] = minimum] /\ changed'
    BY <1>2, <1>3, <1>5
  <2>2. QED
    BY <2>1, <1>1, <1>4, <1>5 DEF Capability, Read, Write, Take
<1>6. CASE ~ (minimum > inferred[s])
  <2>1. inferred' = inferred
    BY <1>2, <1>6
  <2>2. minimum <= inferred[s]
    BY <1>1, <1>6 DEF Capability, Read, Write, Take
  <2>3. changed' = changed
    BY <1>3, <1>6
  <2>4. QED
    BY <2>1, <2>2, <2>3, <1>1, <1>4 DEF Capability, Read, Write, Take
<1>7. QED
  BY <1>5, <1>6

\* A callee's capability, declared or inferred so far, is a capability.
LEMMA EffectiveOrInferredType ==
  ASSUME TypeOK, NEW s \in Slots
  PROVE  EffectiveOrInferred(s) \in Capability
<1>1. program \in ProgramType
  BY ProgramsAssumption DEF TypeOK
<1>2. QED
  BY <1>1 DEF EffectiveOrInferred, Declared, ProgramType, TypeOK

(***************************************************************************)
(* Every step of the walk past an event is one of these: it leaves the     *)
(* capabilities alone, or it raises the slot of the event it is at to what *)
(* the event demands.  The five actions are folded into this fact so that  *)
(* the proofs below need not look at each again.                           *)
(***************************************************************************)
VisitEvent == Mutate \/ Pass \/ MethodArgument \/ Capture \/ DiscoverClosure

Demand ==
  CASE Here.kind = "mutate" -> Write
    [] Here.kind = "capture" -> Take
    [] Here.kind = "pass" -> EffectiveOrInferred(Here.to)

\* One visit of a body raises the slot it is at to what the event demands of it,
\* or is no raise at all: the only ways inferred can change.
LEMMA VisitCases ==
  ASSUME TypeOK, VisitEvent
  PROVE  /\ walking # NoFunction /\ at <= Len(Walk(walking))
         /\ at' = at + 1
         /\ UNCHANGED <<program, effective, phase, unwalked, walking, iterations,
                        unverified>>
         /\ \/ /\ Here.kind \in {"mutate", "capture", "pass"}
               /\ Demand \in Capability
               /\ Raise(Here.slot, Demand)
               /\ registered' = registered
            \/ /\ Here.kind = "pass"
               /\ Demand = Read
               /\ UNCHANGED <<inferred, changed, registered>>
            \/ /\ Here.kind = "method_arg"
               /\ UNCHANGED <<inferred, changed, registered>>
            \/ /\ Here.kind = "closure"
               /\ registered' = registered \cup {Here.closure}
               /\ UNCHANGED <<inferred, changed>>
<1>1. CASE Mutate
  BY <1>1 DEF Mutate, Meet, Here, Demand, Capability
<1>2. CASE Capture
  BY <1>2 DEF Capture, Meet, Here, Demand, Capability
<1>3. CASE Pass
  <2>1. Here.kind = "pass" /\ walking # NoFunction /\ at <= Len(Walk(walking))
    BY <1>3 DEF Pass, Meet, Here
  <2>2. Here.to \in Slots
    BY <2>1, EventType
  <2>3. EffectiveOrInferred(Here.to) \in Capability
    BY <2>2, EffectiveOrInferredType
  <2>4. Demand = EffectiveOrInferred(Here.to)
    BY <2>1 DEF Demand
  <2>5. QED
    BY <1>3, <2>1, <2>3, <2>4 DEF Pass, Meet, Capability
<1>4. CASE MethodArgument
  BY <1>4 DEF MethodArgument, Meet, Here
<1>5. CASE DiscoverClosure
  BY <1>5 DEF DiscoverClosure, Meet, Here
<1>6. QED
  BY <1>1, <1>2, <1>3, <1>4, <1>5 DEF VisitEvent

(***************************************************************************)
(* The state of the check always has its type (CapabilityChecker's maps    *)
(* have an entry for every registered function and nothing else is read).  *)
(***************************************************************************)
THEOREM TypeCorrect == Spec => []TypeOK
<1>1. Init => TypeOK
  BY SortsAssumption DEF Init, TypeOK, Capability
<1>2. TypeOK /\ [Next]_vars => TypeOK'
  <2> SUFFICES ASSUME TypeOK, [Next]_vars
               PROVE  TypeOK'
    OBVIOUS
  <2>1. CASE StartPass
    BY <2>1, SortsAssumption DEF StartPass, Snapshot, TypeOK, Walk
  <2>2. ASSUME NEW f \in Functions, EnterBody(f)
        PROVE  TypeOK'
    <3>1. program \in ProgramType
      BY ProgramsAssumption DEF TypeOK
    <3>2. Len(Walk(f)) \in Nat
      BY <3>1 DEF Walk, ProgramType
    <3>3. QED
      BY <2>2, <3>2, SortsAssumption DEF EnterBody, TypeOK, Walk
  <2>3. CASE VisitEvent
    <3>1. /\ walking # NoFunction /\ at <= Len(Walk(walking))
          /\ at' = at + 1
          /\ UNCHANGED <<program, effective, phase, unwalked, walking, iterations, unverified>>
      BY <2>3, VisitCases
    <3>2. Len(Walk(walking)) \in Nat
      BY <3>1, EventType
    <3>3. at' \in Nat \ {0} /\ at' <= Len(Walk(walking)) + 1
      BY <3>1, <3>2 DEF TypeOK
    <3>4. inferred' \in [Slots -> Capability] /\ changed' \in BOOLEAN
      <4>1. CASE UNCHANGED <<inferred, changed>>
        BY <4>1 DEF TypeOK
      <4>2. CASE /\ Here.kind \in {"mutate", "capture", "pass"}
                 /\ Demand \in Capability
                 /\ Raise(Here.slot, Demand)
        <5>1. Here.slot \in Slots
          BY <4>2, <3>1, EventType
        <5>2. QED
          BY <4>2, <5>1, RaiseEffect DEF TypeOK
      <4>3. QED
        BY <4>1, <4>2, <2>3, VisitCases
    <3>5. /\ registered' \in SUBSET (Functions \cup Closures)
          /\ Functions \subseteq registered'
      BY <2>3, <3>1, VisitCases, EventType DEF TypeOK
    <3>6. QED
      BY <3>1, <3>3, <3>4, <3>5 DEF TypeOK, Walk
  <2>4. CASE LeaveBody
    BY <2>4 DEF LeaveBody, TypeOK, Walk
  <2>5. CASE EndPass
    BY <2>5 DEF EndPass, TypeOK, walkVars, Walk
  <2>6. CASE LeaveLoop
    BY <2>6 DEF LeaveLoop, TypeOK, walkVars, Walk
  <2>7. ASSUME NEW f \in Functions \cup Closures, Verify(f)
        PROVE  TypeOK'
    <3>1. effective' \in [Slots -> Capability \cup {Undeclared}]
      BY <2>7, EffectiveOrInferredType DEF Verify, TypeOK
    <3>2. QED
      BY <2>7, <3>1 DEF Verify, TypeOK, walkVars, Walk
  <2>8. ASSUME NEW f \in Functions \cup Closures, Reject(f)
        PROVE  TypeOK'
    BY <2>8 DEF Reject, TypeOK, walkVars, Walk
  <2>9. CASE Accept
    BY <2>9 DEF Accept, TypeOK, walkVars, Walk
  <2>10. CASE UNCHANGED vars
    BY <2>10 DEF vars, TypeOK, Walk
  <2>11. QED
    BY <2>1, <2>2, <2>3, <2>4, <2>5, <2>6, <2>7, <2>8, <2>9, <2>10
       DEF Next, VisitEvent
<1>3. QED
  BY <1>1, <1>2, PTL DEF Spec

(***************************************************************************)
(* Leastness.  One closed assignment X is fixed; that inferred stays below *)
(* it is inductive by itself, because every demand is one X answers too.   *)
(***************************************************************************)
Below(X) == \A s \in Slots : inferred[s] <= X[s]

\* What an event demands never exceeds what a closed assignment grants,
\* as long as inference itself is still below that assignment.
LEMMA DemandBelowClosed ==
  ASSUME TypeOK, NEW X \in Assignment, Closed(X), Below(X),
         walking # NoFunction, at <= Len(Walk(walking)),
         Here.kind \in {"mutate", "capture", "pass"}
  PROVE  Here.slot \in Slots /\ Demand <= X[Here.slot]
<1>1. Here.slot \in Slots /\ walking \in Functions /\ at \in 1 .. Len(Walk(walking))
  BY EventType
<1>2. Accounts(X, Here)
  BY <1>1 DEF Closed, Here
<1>3. X[Here.slot] \in Capability
  BY <1>1 DEF Assignment
<1>4. CASE Here.kind \in {"mutate", "capture"}
  BY <1>1, <1>2, <1>3, <1>4 DEF Accounts, Demand, Capability, Read, Write, Take
<1>5. CASE Here.kind = "pass"
  <2>1. Here.to \in Slots
    BY <1>5, EventType
  <2>2. /\ inferred[Here.to] \in Capability
        /\ X[Here.to] \in Capability
        /\ inferred[Here.to] <= X[Here.to]
    BY <2>1 DEF TypeOK, Assignment, Below
  <2>3. EffectiveOrInferred(Here.to) \in Capability
    BY <2>1, EffectiveOrInferredType
  <2>4. EffectiveOrInferred(Here.to) <= Granted(X, Here.to)
    BY <2>2, <2>3 DEF EffectiveOrInferred, Granted, Capability, Read, Write, Take
  <2>5. Granted(X, Here.to) <= X[Here.slot]
    BY <1>2, <1>5 DEF Accounts
  <2>6. Granted(X, Here.to) \in Capability
    BY <2>2, <2>3 DEF EffectiveOrInferred, Granted
  <2>7. Demand = EffectiveOrInferred(Here.to)
    BY <1>5 DEF Demand
  <2>8. QED
    BY <1>1, <1>3, <2>3, <2>4, <2>5, <2>6, <2>7 DEF Capability, Read, Write, Take
<1>6. QED
  BY <1>4, <1>5

\* Being below a given closed assignment is preserved by every step.
LEMMA StaysBelowClosed ==
  ASSUME TypeOK, NEW X \in Assignment, Closed(X), Below(X), [Next]_vars
  PROVE  Below(X)'
<1>1. CASE VisitEvent
  <2>1. walking # NoFunction /\ at <= Len(Walk(walking))
    BY <1>1, VisitCases
  <2>2. CASE UNCHANGED inferred
    BY <2>2 DEF Below
  <2>3. CASE /\ Here.kind \in {"mutate", "capture", "pass"}
             /\ Demand \in Capability
             /\ Raise(Here.slot, Demand)
    <3>1. Here.slot \in Slots /\ Demand <= X[Here.slot]
      BY <2>1, <2>3, DemandBelowClosed
    <3>2. /\ inferred'[Here.slot] = inferred[Here.slot] \/ inferred'[Here.slot] = Demand
          /\ \A t \in Slots \ {Here.slot} : inferred'[t] = inferred[t]
      BY <2>3, <3>1, RaiseEffect DEF TypeOK
    <3>3. QED
      BY <3>1, <3>2 DEF Below
  <2>4. QED
    BY <1>1, <2>2, <2>3, VisitCases
<1>2. CASE ~ VisitEvent
  <2>1. UNCHANGED inferred
    BY <1>2 DEF VisitEvent, Next, vars, walkVars, StartPass, EnterBody, LeaveBody, EndPass,
                LeaveLoop, Verify, Reject, Accept
  <2>2. QED
    BY <2>1 DEF Below
<1>3. QED
  BY <1>1, <1>2

\* The program under check never changes, and so neither does what is closed.
LEMMA ProgramFixed ==
  ASSUME TypeOK, [Next]_vars
  PROVE  program' = program
<1>1. CASE VisitEvent
  BY <1>1, VisitCases
<1>2. CASE ~ VisitEvent
  BY <1>2 DEF VisitEvent, Next, vars, StartPass, EnterBody, LeaveBody, EndPass,
              LeaveLoop, Verify, Reject, Accept
<1>3. QED
  BY <1>1, <1>2

\* Inference never gives a parameter more than its body and the contracts of
\* its callees force: NeverOverestimates for every program and walk order.
THEOREM InferredIsLeast == Spec => []NeverOverestimates
<1>1. Init => NeverOverestimates
  <2> SUFFICES ASSUME Init, NEW X \in Assignment, NEW s \in Slots
               PROVE  inferred[s] <= X[s]
    BY DEF NeverOverestimates
  <2>1. inferred[s] = Read /\ X[s] \in Capability
    BY DEF Init, Assignment
  <2>2. QED
    BY <2>1 DEF Capability, Read, Write, Take
<1>2. TypeOK /\ NeverOverestimates /\ [Next]_vars => NeverOverestimates'
  <2> SUFFICES ASSUME TypeOK, NeverOverestimates, [Next]_vars,
                      NEW X \in Assignment, Closed(X)'
               PROVE  Below(X)'
    BY DEF NeverOverestimates, Below
  <2>1. Closed(X)
    BY ProgramFixed DEF Closed, Accounts, Granted, Declared, Walk
  <2>2. Below(X)
    BY <2>1 DEF NeverOverestimates, Below
  <2>3. QED
    BY <2>1, <2>2, StaysBelowClosed
<1>3. QED
  BY <1>1, <1>2, TypeCorrect, PTL DEF Spec

\* A rejected program has no solution its declarations would satisfy.
THEOREM RejectionsAreJustified == Spec => []RejectionIsJustified
<1> DEFINE Blamed == phase = "rejected" => \E s \in Slots : Insufficient(s)
<1>1. Init => Blamed
  BY DEF Init
<1>2. TypeOK /\ Blamed /\ [Next]_vars => Blamed'
  <2> SUFFICES ASSUME TypeOK, Blamed, [Next]_vars
               PROVE  Blamed'
    OBVIOUS
  <2>1. CASE VisitEvent
    <3>1. phase' = phase /\ phase = "walk"
      BY <2>1, VisitCases DEF TypeOK
    <3>2. QED
      BY <3>1
  <2>2. ASSUME NEW f \in Functions \cup Closures, Reject(f)
        PROVE  Blamed'
    <3>1. PICK s \in Slots : Insufficient(s)
      BY <2>2 DEF Reject, SlotsOf
    <3>2. Insufficient(s)'
      BY <2>2, <3>1 DEF Reject, Insufficient, Declared
    <3>3. QED
      BY <3>2
  <2>3. CASE ~ VisitEvent /\ ~ \E f \in Functions \cup Closures : Reject(f)
    BY <2>3 DEF VisitEvent, Next, vars, StartPass, EnterBody, LeaveBody, EndPass, LeaveLoop,
                Verify, Accept, Insufficient, Declared
  <2>4. QED
    BY <2>1, <2>2, <2>3
<1>3. TypeOK /\ Blamed /\ NeverOverestimates => RejectionIsJustified
  <2> SUFFICES ASSUME TypeOK, Blamed, NeverOverestimates, phase = "rejected",
                      NEW X \in Assignment, Closed(X)
               PROVE  \E s \in Slots : Declared(s) # Undeclared /\ X[s] > Declared(s)
    BY DEF RejectionIsJustified
  <2>1. PICK s \in Slots : Insufficient(s)
    OBVIOUS
  <2>2. program \in ProgramType
    BY ProgramsAssumption DEF TypeOK
  <2>3. /\ inferred[s] \in Capability /\ X[s] \in Capability
        /\ Declared(s) \in Capability \cup {Undeclared}
    BY <2>1, <2>2 DEF TypeOK, Assignment, Declared, ProgramType
  <2>4. inferred[s] <= X[s] /\ inferred[s] > Declared(s) /\ Declared(s) # Undeclared
    BY <2>1 DEF NeverOverestimates, Insufficient
  <2>5. X[s] > Declared(s)
    BY <2>3, <2>4 DEF Capability, Read, Write, Take, Undeclared
  <2>6. QED
    BY <2>1, <2>4, <2>5
<1>4. QED
  BY <1>1, <1>2, <1>3, TypeCorrect, InferredIsLeast, PTL DEF Spec

\* No step takes a capability or a discovered closure back.
THEOREM CapabilitiesOnlyRise == Spec => OnlyRises
<1>1. TypeOK /\ [Next]_vars =>
        [/\ \A s \in Slots : inferred'[s] >= inferred[s]
         /\ registered \subseteq registered']_vars
  <2> SUFFICES ASSUME TypeOK, [Next]_vars
               PROVE  /\ \A s \in Slots : inferred'[s] >= inferred[s]
                      /\ registered \subseteq registered'
    OBVIOUS
  <2>1. \A s \in Slots : inferred[s] \in Int
    BY DEF TypeOK, Capability, Read, Write, Take
  <2>2. CASE UNCHANGED <<inferred, registered>>
    BY <2>1, <2>2
  <2>3. CASE VisitEvent
    <3>1. registered \subseteq registered' /\ walking # NoFunction /\ at <= Len(Walk(walking))
      BY <2>3, VisitCases
    <3>2. CASE inferred' = inferred
      BY <2>1, <3>1, <3>2
    <3>3. CASE /\ Here.kind \in {"mutate", "capture", "pass"}
               /\ Demand \in Capability
               /\ Raise(Here.slot, Demand)
      <4>1. Here.slot \in Slots
        BY <3>1, <3>3, EventType
      <4>2. inferred' \in [Slots -> Capability] /\ \A t \in Slots : inferred[t] <= inferred'[t]
        BY <3>3, <4>1, RaiseEffect DEF TypeOK
      <4>3. QED
        BY <2>1, <3>1, <4>2 DEF Capability, Read, Write, Take
    <3>4. QED
      BY <2>3, <3>2, <3>3, VisitCases
  <2>4. CASE ~ VisitEvent
    <3>1. UNCHANGED <<inferred, registered>>
      BY <2>4 DEF VisitEvent, Next, vars, walkVars, StartPass, EnterBody, LeaveBody, EndPass,
                  LeaveLoop, Verify, Reject, Accept
    <3>2. QED
      BY <2>2, <3>1
  <2>5. QED
    BY <2>3, <2>4
<1>2. QED
  BY <1>1, TypeCorrect, PTL DEF Spec, OnlyRises

(***************************************************************************)
(* Closedness.  While a pass has changed nothing, everything it has walked *)
(* past is settled, and stays so because nothing moves; a quiet pass ends  *)
(* with every event of every body settled at once.                         *)
(***************************************************************************)
Settled(e) ==
  /\ Accounts(inferred, e)
  /\ e.kind = "closure" => e.closure \in registered

AllSettled(f) == \A i \in 1 .. Len(Walk(f)) : Settled(Walk(f)[i])

QuietInv ==
  ~ changed =>
    /\ phase = "walk" =>
         /\ \A f \in Functions \ unwalked : f # walking => AllSettled(f)
         /\ walking # NoFunction => \A i \in 1 .. at - 1 : Settled(Walk(walking)[i])
    /\ phase # "walk" => \A f \in Functions : AllSettled(f)

\* A visit in a quiet pass settles its event and unsettles none before it.
LEMMA QuietVisit ==
  ASSUME TypeOK, VisitEvent, ~ changed'
  PROVE  /\ ~ changed
         /\ inferred' = inferred
         /\ registered \subseteq registered'
         /\ Accounts(inferred, Here)
         /\ Here.kind = "closure" => Here.closure \in registered'
<1>1. walking # NoFunction /\ at <= Len(Walk(walking))
  BY VisitCases
<1>2. Here \in Event
  BY <1>1, EventType
<1>3. CASE /\ Here.kind \in {"mutate", "capture", "pass"}
           /\ Demand \in Capability
           /\ Raise(Here.slot, Demand)
           /\ registered' = registered
  <2>1. Here.slot \in Slots
    BY <1>1, <1>3, EventType
  <2>2. ~ changed /\ inferred' = inferred /\ Demand <= inferred[Here.slot]
    BY <1>3, <2>1, RaiseEffect DEF TypeOK
  <2>3. inferred[Here.slot] \in Capability
    BY <2>1 DEF TypeOK
  <2>4. Accounts(inferred, Here)
    <3>1. CASE Here.kind = "mutate"
      BY <2>2, <2>3, <3>1 DEF Accounts, Demand, Capability, Read, Write, Take
    <3>2. CASE Here.kind = "capture"
      BY <2>2, <2>3, <3>2 DEF Accounts, Demand, Capability, Read, Write, Take
    <3>3. CASE Here.kind = "pass"
      <4>1. Demand = Granted(inferred, Here.to)
        BY <3>3 DEF Demand, EffectiveOrInferred, Granted
      <4>2. QED
        BY <1>3, <2>2, <2>3, <3>3, <4>1 DEF Accounts, Capability, Read, Write, Take
    <3>4. QED
      BY <1>3, <3>1, <3>2, <3>3
  <2>5. QED
    BY <1>3, <2>2, <2>4
<1>4. CASE /\ Here.kind = "pass"
           /\ Demand = Read
           /\ UNCHANGED <<inferred, changed, registered>>
  <2>1. inferred[Here.slot] \in Capability
    BY <1>1, <1>4, EventType DEF TypeOK
  <2>2. Granted(inferred, Here.to) = Read
    BY <1>4 DEF Demand, EffectiveOrInferred, Granted
  <2>3. QED
    BY <1>4, <2>1, <2>2 DEF Accounts, Capability, Read, Write, Take
<1>5. CASE /\ Here.kind = "method_arg"
           /\ UNCHANGED <<inferred, changed, registered>>
  BY <1>5 DEF Accounts
<1>6. CASE /\ Here.kind = "closure"
           /\ registered' = registered \cup {Here.closure}
           /\ UNCHANGED <<inferred, changed>>
  BY <1>6 DEF Accounts
<1>7. QED
  BY <1>3, <1>4, <1>5, <1>6, VisitCases

\* Behind the point a quiet pass has reached everything is settled.
LEMMA QuietInvariant == Spec => []QuietInv
<1>1. Init => QuietInv
  BY DEF Init, QuietInv
<1>2. TypeOK /\ QuietInv /\ [Next]_vars => QuietInv'
  <2> SUFFICES ASSUME TypeOK, QuietInv, [Next]_vars
               PROVE  QuietInv'
    OBVIOUS
  <2>0. UNCHANGED <<program, inferred, registered>> =>
          /\ \A f : AllSettled(f)' = AllSettled(f)
          /\ \A f, i : Settled(Walk(f)[i])' = Settled(Walk(f)[i])
    BY DEF AllSettled, Settled, Accounts, Granted, Declared, Walk
  <2>a. CASE UNCHANGED <<program, inferred, registered, changed>> /\ phase # "walk" /\ phase' # "walk"
    BY <2>0, <2>a DEF QuietInv
  <2>5. CASE EndPass
    <3>1. /\ UNCHANGED <<program, inferred, registered, changed>>
          /\ phase = "walk" /\ walking = NoFunction /\ unwalked = {} /\ phase' = "head"
      BY <2>5 DEF EndPass
    <3>2. \A f \in Functions : f # walking
      BY <3>1, SortsAssumption
    <3>3. QED
      BY <2>0, <3>1, <3>2 DEF QuietInv
  <2>6. CASE LeaveLoop
    <3>1. UNCHANGED <<program, inferred, registered, changed>> /\ phase = "head" /\ phase' = "verify"
      BY <2>6 DEF LeaveLoop
    <3>2. QED
      BY <2>a, <3>1
  <2>7. ASSUME NEW f \in Functions \cup Closures, Verify(f) \/ Reject(f)
        PROVE  QuietInv'
    <3>1. /\ UNCHANGED <<program, inferred, registered, changed>>
          /\ phase = "verify" /\ phase' \in {"verify", "rejected"}
      BY <2>7 DEF Verify, Reject
    <3>2. QED
      BY <2>a, <3>1
  <2>8. CASE Accept
    <3>1. UNCHANGED <<program, inferred, registered, changed>> /\ phase = "verify" /\ phase' = "checked"
      BY <2>8 DEF Accept
    <3>2. QED
      BY <2>a, <3>1
  <2>9. CASE UNCHANGED vars
    <3>1. UNCHANGED <<program, inferred, registered, changed, phase, unwalked, walking, at>>
      BY <2>9 DEF vars
    <3>2. QED
      BY <2>0, <3>1 DEF QuietInv
  <2> USE DEF AllSettled, Settled, Accounts, Granted, Declared, Walk
  <2>1. CASE StartPass
    <3>1. phase' = "walk" /\ walking' = NoFunction /\ Functions \subseteq unwalked'
      BY <2>1, SortsAssumption DEF StartPass, Snapshot, TypeOK
    <3>2. QED
      BY <3>1 DEF QuietInv
  <2>2. ASSUME NEW f \in Functions, EnterBody(f)
        PROVE  QuietInv'
    <3> SUFFICES ASSUME ~ changed'
                 PROVE  QuietInv'
      BY DEF QuietInv
    <3>1. /\ UNCHANGED <<program, inferred, registered, phase, changed>>
          /\ phase = "walk" /\ walking = NoFunction
          /\ walking' = f /\ at' = 1 /\ unwalked' = unwalked \ {f}
      BY <2>2 DEF EnterBody
    <3>2. \A h \in Functions \ unwalked : AllSettled(h)
      BY <3>1, SortsAssumption DEF QuietInv
    <3>3. QED
      BY <3>1, <3>2 DEF QuietInv
  <2>3. CASE VisitEvent
    <3> SUFFICES ASSUME ~ changed'
                 PROVE  QuietInv'
      BY DEF QuietInv
    <3>1. /\ walking # NoFunction /\ at' = at + 1
          /\ UNCHANGED <<program, phase, unwalked, walking>>
      BY <2>3, VisitCases
    <3>2. /\ ~ changed /\ inferred' = inferred /\ registered \subseteq registered'
          /\ Accounts(inferred, Here)
          /\ Here.kind = "closure" => Here.closure \in registered'
      BY <2>3, QuietVisit
    <3>3. at \in Nat \ {0} /\ phase = "walk"
      BY <3>1 DEF TypeOK
    <3>4. \A e : Settled(e) => Settled(e)'
      BY <3>1, <3>2
    <3>5. \A e : e = Walk(walking)[at] => Settled(e)'
      BY <3>1, <3>2 DEF Here
    <3>6. \A i \in 1 .. at' - 1 : i \in 1 .. at - 1 \/ i = at
      BY <3>1, <3>3
    <3>7. \A i \in 1 .. at - 1 : Settled(Walk(walking)[i])
      BY <3>1, <3>2, <3>3 DEF QuietInv
    <3>8. \A i \in 1 .. at' - 1 : Settled(Walk(walking)[i])'
      BY <3>1, <3>4, <3>5, <3>6, <3>7
    <3>9. \A f \in Functions \ unwalked : f # walking => AllSettled(f)
      BY <3>2, <3>3 DEF QuietInv
    <3>10. \A f \in Functions \ unwalked' : f # walking' => AllSettled(f)'
      BY <3>1, <3>4, <3>9
    <3>11. QED
      BY <3>1, <3>3, <3>8, <3>10 DEF QuietInv
  <2>4. CASE LeaveBody
    <3> SUFFICES ASSUME ~ changed'
                 PROVE  QuietInv'
      BY DEF QuietInv
    <3>1. /\ UNCHANGED <<program, inferred, registered, phase, changed, unwalked>>
          /\ walking # NoFunction /\ at > Len(Walk(walking))
          /\ walking' = NoFunction
      BY <2>4 DEF LeaveBody
    <3>2. phase = "walk" /\ at \in Nat /\ Len(Walk(walking)) \in Nat
      <4>1. walking \in Functions /\ program \in ProgramType
        BY <3>1, ProgramsAssumption DEF TypeOK
      <4>2. QED
        BY <3>1, <4>1 DEF TypeOK, ProgramType
    <3>3. \A i \in 1 .. Len(Walk(walking)) : i \in 1 .. at - 1
      BY <3>1, <3>2
    <3>4. AllSettled(walking)
      BY <3>1, <3>2, <3>3 DEF QuietInv
    <3>5. \A f \in Functions \ unwalked : AllSettled(f)
      BY <3>1, <3>2, <3>4 DEF QuietInv
    <3>6. QED
      <4> HIDE DEF AllSettled, Settled, Accounts, Granted, Declared, Walk
      <4> QED BY <2>0, <3>1, <3>2, <3>5 DEF QuietInv
  <2>10. QED
    BY <2>1, <2>2, <2>3, <2>4, <2>5, <2>6, <2>7, <2>8, <2>9 DEF Next, VisitEvent
<1>3. QED
  BY <1>1, <1>2, TypeCorrect, PTL DEF Spec

\* A loop that ends because nothing changed ends at a solution; by
\* InferredIsLeast it is the least one, whatever the order of the walk.
THEOREM QuietExitsAreClosed == Spec => []QuietExitIsClosed
<1>1. QuietInv => QuietExitIsClosed
  BY DEF QuietInv, QuietExitIsClosed, Closed, AllSettled, Settled
<1>2. QED
  BY <1>1, QuietInvariant, PTL

(***************************************************************************)
(* The contract.  What Verify has gone over has its effective capability   *)
(* and passed the comparison with its declaration.                         *)
(***************************************************************************)
VerifyInv ==
  /\ phase \in {"verify", "checked"} =>
       \A s \in Slots : OwnerOf[s] \in registered \ unverified =>
         ~ Insufficient(s) /\ effective[s] = EffectiveOrInferred(s)
  /\ phase = "checked" => unverified = {}

\* What verification has passed carries its effective capability and honours
\* its own declaration.
LEMMA VerifyInvariant == Spec => []VerifyInv
<1>1. Init => VerifyInv
  BY DEF Init, VerifyInv
<1>2. TypeOK /\ VerifyInv /\ [Next]_vars => VerifyInv'
  <2> SUFFICES ASSUME TypeOK, VerifyInv, [Next]_vars
               PROVE  VerifyInv'
    OBVIOUS
  <2> USE DEF Insufficient, EffectiveOrInferred, Declared
  <2>1. CASE VisitEvent
    <3>1. phase' = "walk"
      BY <2>1, VisitCases DEF TypeOK
    <3>2. QED
      BY <3>1 DEF VerifyInv
  <2>2. CASE LeaveLoop
    BY <2>2 DEF LeaveLoop, VerifyInv, walkVars
  <2>3. ASSUME NEW f \in Functions \cup Closures, Verify(f)
        PROVE  VerifyInv'
    <3>1. \A s \in SlotsOf(f) : ~ Insufficient(s) /\ effective'[s] = EffectiveOrInferred(s)
      BY <2>3 DEF Verify, SlotsOf
    <3>2. \A s \in Slots : OwnerOf[s] # f => effective'[s] = effective[s]
      BY <2>3 DEF Verify
    <3>3. QED
      BY <2>3, <3>1, <3>2 DEF Verify, VerifyInv, SlotsOf, walkVars
  <2>4. ASSUME NEW f \in Functions \cup Closures, Reject(f)
        PROVE  VerifyInv'
    BY <2>4 DEF Reject, VerifyInv
  <2>5. CASE Accept
    BY <2>5 DEF Accept, VerifyInv, walkVars
  <2>6. CASE StartPass \/ (\E f \in Functions : EnterBody(f)) \/ LeaveBody \/ EndPass
    <3>1. phase' \in {"walk", "head"}
      BY <2>6 DEF StartPass, EnterBody, LeaveBody, EndPass, TypeOK
    <3>2. QED
      BY <3>1 DEF VerifyInv
  <2>7. CASE UNCHANGED vars
    BY <2>7 DEF vars, VerifyInv
  <2>8. QED
    BY <2>1, <2>2, <2>3, <2>4, <2>5, <2>6, <2>7 DEF Next, VisitEvent
<1>3. QED
  BY <1>1, <1>2, TypeCorrect, PTL DEF Spec

\* In an accepted program whose inference came to rest, the effective
\* capabilities cover everything a body does itself or lets a callee do.
THEOREM AcceptanceIsSound == Spec => []AcceptedHonoursContract
<1>1. TypeOK /\ QuietInv /\ VerifyInv => AcceptedHonoursContract
  <2> SUFFICES ASSUME TypeOK, QuietInv, VerifyInv, phase = "checked", ~ changed,
                      NEW f \in Functions, NEW i \in 1 .. Len(Walk(f))
               PROVE  Honours(effective, Walk(f)[i])
    BY DEF AcceptedHonoursContract
  <2> DEFINE e == Walk(f)[i]
  <2>1. program \in ProgramType /\ WellFormed(program)
    BY ProgramsAssumption DEF TypeOK
  <2>2. \A j \in 1 .. Len(Walk(f)) : Settled(Walk(f)[j])
    BY DEF QuietInv, AllSettled
  <2>3. e \in Event
    BY <2>1 DEF ProgramType, Walk
  <2>4. \A s \in Slots : OwnerOf[s] \in registered =>
          /\ effective[s] = EffectiveOrInferred(s)
          /\ effective[s] \in Capability /\ inferred[s] \in Capability
          /\ effective[s] >= inferred[s]
    <3> SUFFICES ASSUME NEW s \in Slots, OwnerOf[s] \in registered
                 PROVE  /\ effective[s] = EffectiveOrInferred(s)
                        /\ effective[s] \in Capability /\ inferred[s] \in Capability
                        /\ effective[s] >= inferred[s]
      OBVIOUS
    <3>1. ~ Insufficient(s) /\ effective[s] = EffectiveOrInferred(s)
      BY DEF VerifyInv
    <3>2. EffectiveOrInferred(s) \in Capability /\ inferred[s] \in Capability
      BY EffectiveOrInferredType DEF TypeOK
    <3>3. EffectiveOrInferred(s) >= inferred[s]
      BY <3>1, <3>2 DEF EffectiveOrInferred, Insufficient, Capability, Read, Write, Take
    <3>4. QED
      BY <3>1, <3>2, <3>3
  <2>5. CASE e.kind \in {"mutate", "capture", "pass"}
    <3>1. e.slot \in Slots
      BY <2>3, <2>5 DEF Event, SlotEvent, FlowEvent, ClosureEvent
    <3>2. OwnerOf[e.slot] \in registered
      <4>1. \/ OwnerOf[e.slot] = f
            \/ \E j \in 1 .. i - 1 : /\ Walk(f)[j].kind = "closure"
                                     /\ Walk(f)[j].closure = OwnerOf[e.slot]
        BY <2>1, <2>5 DEF WellFormed, Walk
      <4>2. CASE OwnerOf[e.slot] = f
        BY <4>2 DEF TypeOK
      <4>3. ASSUME NEW j \in 1 .. i - 1,
                   Walk(f)[j].kind = "closure", Walk(f)[j].closure = OwnerOf[e.slot]
            PROVE  OwnerOf[e.slot] \in registered
        <5>1. j \in 1 .. Len(Walk(f))
          BY <2>1 DEF ProgramType, Walk
        <5>2. QED
          BY <2>2, <4>3, <5>1 DEF Settled
      <4>4. QED
        BY <4>1, <4>2, <4>3
    <3>3. /\ inferred[e.slot] \in Capability /\ effective[e.slot] \in Capability
          /\ effective[e.slot] >= inferred[e.slot]
      BY <2>4, <3>1, <3>2
    <3>4. Accounts(inferred, e)
      BY <2>2 DEF Settled
    <3>5. CASE e.kind \in {"mutate", "capture"}
      BY <3>3, <3>4, <3>5 DEF Accounts, Honours, Capability, Read, Write, Take
    <3>6. CASE e.kind = "pass"
      <4>1. e.to \in Slots
        BY <2>3, <3>6 DEF Event, SlotEvent, FlowEvent, ClosureEvent
      <4>2. OwnerOf[e.to] \in registered
        BY <2>1, <3>6 DEF WellFormed, Walk, TypeOK
      <4>3. effective[e.to] = Granted(inferred, e.to) /\ effective[e.to] \in Capability
        BY <2>4, <4>1, <4>2 DEF EffectiveOrInferred, Granted
      <4>4. inferred[e.slot] >= Granted(inferred, e.to)
        BY <3>4, <3>6 DEF Accounts
      <4>5. effective[e.slot] >= effective[e.to]
        BY <3>3, <4>3, <4>4 DEF Capability, Read, Write, Take
      <4>6. QED
        BY <3>6, <4>5 DEF Honours
    <3>7. QED
      BY <2>5, <3>5, <3>6
  <2>6. CASE ~ (e.kind \in {"mutate", "capture", "pass"})
    BY <2>6 DEF Honours
  <2>7. QED
    BY <2>5, <2>6
<1>2. QED
  BY <1>1, TypeCorrect, QuietInvariant, VerifyInvariant, PTL

(***************************************************************************)
(* The pass budget.  Raised counts the levels above read that parameters   *)
(* have reached.  A pass that changes something adds to it, so the passes  *)
(* made so far never exceed it; and it is at most two per parameter.       *)
(***************************************************************************)
AtLeast(c) == {s \in Slots : inferred[s] >= c}
Raised == Cardinality(AtLeast(Write)) + Cardinality(AtLeast(Take))

MeasureInv ==
  /\ phase = "head" /\ changed => iterations <= Raised
  /\ phase = "walk" => iterations <= Raised /\ (changed => iterations + 1 <= Raised)
  /\ phase \in {"verify", "checked", "rejected"} /\ changed =>
       PassBound <= iterations /\ iterations <= Raised

\* The count of raises is a natural number bounded by two per slot.
LEMMA RaisedType ==
  /\ Raised \in Nat
  /\ Raised <= 2 * Cardinality(Slots)
<1>1. \A c : IsFiniteSet(AtLeast(c)) /\ Cardinality(AtLeast(c)) <= Cardinality(Slots)
  BY SortsAssumption, FS_Subset DEF AtLeast
<1>2. /\ Cardinality(AtLeast(Write)) \in Nat /\ Cardinality(AtLeast(Take)) \in Nat
      /\ Cardinality(Slots) \in Nat
  BY <1>1, SortsAssumption, FS_CardinalityType
<1>3. /\ Cardinality(AtLeast(Write)) <= Cardinality(Slots)
      /\ Cardinality(AtLeast(Take)) <= Cardinality(Slots)
  BY <1>1
<1>4. QED
  BY <1>2, <1>3 DEF Raised

\* A step that raises no slot leaves Raised alone, one that does adds to it.
LEMMA RaisedGrows ==
  ASSUME TypeOK, inferred' \in [Slots -> Capability],
         \A s \in Slots : inferred[s] <= inferred'[s]
  PROVE  /\ Raised' \in Nat
         /\ Raised <= Raised'
         /\ (\E s \in Slots : inferred[s] < inferred'[s]) => Raised < Raised'
<1>1. inferred \in [Slots -> Capability]
  BY DEF TypeOK
<1>2. ASSUME NEW c \in {Write, Take}
      PROVE  /\ AtLeast(c) \in SUBSET AtLeast(c)'
             /\ IsFiniteSet(AtLeast(c)) /\ IsFiniteSet(AtLeast(c)')
             /\ Cardinality(AtLeast(c)) \in Nat /\ Cardinality(AtLeast(c)') \in Nat
             /\ Cardinality(AtLeast(c)) <= Cardinality(AtLeast(c)')
             /\ AtLeast(c) # AtLeast(c)' => Cardinality(AtLeast(c)) < Cardinality(AtLeast(c)')
  <2>1. AtLeast(c) \in SUBSET AtLeast(c)'
    BY <1>1, <1>2 DEF AtLeast, Capability, Read, Write, Take
  <2>2. IsFiniteSet(AtLeast(c)')
    <3>1. AtLeast(c)' \in SUBSET Slots
      BY DEF AtLeast
    <3>2. QED
      BY <3>1, SortsAssumption, FS_Subset
  <2>3. /\ IsFiniteSet(AtLeast(c))
        /\ Cardinality(AtLeast(c)) <= Cardinality(AtLeast(c)')
        /\ Cardinality(AtLeast(c)') = Cardinality(AtLeast(c)) => AtLeast(c)' = AtLeast(c)
    BY <2>1, <2>2, FS_Subset
  <2>4. Cardinality(AtLeast(c)) \in Nat /\ Cardinality(AtLeast(c)') \in Nat
    BY <2>2, <2>3, FS_CardinalityType
  <2>5. QED
    BY <2>1, <2>2, <2>3, <2>4
<1>3. Write \in {Write, Take} /\ Take \in {Write, Take}
  OBVIOUS
<1>4. Raised' = Cardinality(AtLeast(Write)') + Cardinality(AtLeast(Take)')
  BY DEF Raised
<1>5. Raised' \in Nat /\ Raised <= Raised'
  <2>1. /\ Cardinality(AtLeast(Write)) \in Nat /\ Cardinality(AtLeast(Write)') \in Nat
        /\ Cardinality(AtLeast(Write)) <= Cardinality(AtLeast(Write)')
    BY <1>2, <1>3
  <2>2. /\ Cardinality(AtLeast(Take)) \in Nat /\ Cardinality(AtLeast(Take)') \in Nat
        /\ Cardinality(AtLeast(Take)) <= Cardinality(AtLeast(Take)')
    BY <1>2, <1>3
  <2>3. QED
    BY <1>4, <2>1, <2>2 DEF Raised
<1>6. ASSUME NEW s \in Slots, inferred[s] < inferred'[s]
      PROVE  Raised < Raised'
  <2>1. AtLeast(Write) # AtLeast(Write)' \/ AtLeast(Take) # AtLeast(Take)'
    <3>1. inferred[s] \in Capability /\ inferred'[s] \in Capability
      BY <1>1
    <3>2. \/ ~ (inferred[s] >= Write) /\ inferred'[s] >= Write
          \/ ~ (inferred[s] >= Take) /\ inferred'[s] >= Take
      BY <3>1, <1>6 DEF Capability, Read, Write, Take
    <3>3. QED
      BY <3>2 DEF AtLeast
  <2>2. /\ Cardinality(AtLeast(Write)) \in Nat /\ Cardinality(AtLeast(Write)') \in Nat
        /\ Cardinality(AtLeast(Write)) <= Cardinality(AtLeast(Write)')
        /\ AtLeast(Write) # AtLeast(Write)' => Cardinality(AtLeast(Write)) < Cardinality(AtLeast(Write)')
    BY <1>2, <1>3
  <2>3. /\ Cardinality(AtLeast(Take)) \in Nat /\ Cardinality(AtLeast(Take)') \in Nat
        /\ Cardinality(AtLeast(Take)) <= Cardinality(AtLeast(Take)')
        /\ AtLeast(Take) # AtLeast(Take)' => Cardinality(AtLeast(Take)) < Cardinality(AtLeast(Take)')
    BY <1>2, <1>3
  <2>4. QED
    BY <1>4, <2>1, <2>2, <2>3 DEF Raised
<1>7. QED
  BY <1>5, <1>6

\* Every completed pass but the last has used up at least one raise.
LEMMA MeasureInvariant == Spec => []MeasureInv
<1>1. Init => MeasureInv
  <2>1. Init => phase = "head" /\ iterations = 0
    BY DEF Init
  <2>2. QED
    BY <2>1, RaisedType DEF MeasureInv
<1>2. TypeOK /\ MeasureInv /\ [Next]_vars => MeasureInv'
  <2> SUFFICES ASSUME TypeOK, MeasureInv, [Next]_vars
               PROVE  MeasureInv'
    OBVIOUS
  <2>1. CASE VisitEvent
    <3>1. /\ phase = "walk" /\ phase' = "walk" /\ iterations' = iterations
          /\ walking # NoFunction /\ at <= Len(Walk(walking))
      BY <2>1, VisitCases DEF TypeOK
    <3>2. /\ iterations \in Nat /\ Raised \in Nat /\ iterations <= Raised
          /\ changed => iterations + 1 <= Raised
      BY <3>1, RaisedType DEF MeasureInv, TypeOK
    <3>3. CASE UNCHANGED <<inferred, changed>>
      BY <3>1, <3>2, <3>3 DEF MeasureInv, Raised, AtLeast
    <3>4. CASE /\ Here.kind \in {"mutate", "capture", "pass"}
               /\ Demand \in Capability
               /\ Raise(Here.slot, Demand)
      <4>1. Here.slot \in Slots
        BY <3>1, <3>4, EventType
      <4>2. /\ inferred' \in [Slots -> Capability]
            /\ \A t \in Slots : inferred[t] <= inferred'[t]
            /\ changed' => changed \/ inferred[Here.slot] < inferred'[Here.slot]
        BY <3>4, <4>1, RaiseEffect DEF TypeOK
      <4>3. /\ Raised' \in Nat /\ Raised <= Raised'
            /\ inferred[Here.slot] < inferred'[Here.slot] => Raised < Raised'
        BY <4>1, <4>2, RaisedGrows
      <4>4. iterations' <= Raised' /\ (changed' => iterations' + 1 <= Raised')
        BY <3>1, <3>2, <4>2, <4>3
      <4>5. QED
        BY <3>1, <4>4 DEF MeasureInv
    <3>5. QED
      BY <2>1, <3>3, <3>4, VisitCases
  <2>2. CASE ~ VisitEvent
    <3>1. UNCHANGED <<inferred, registered>>
      BY <2>2 DEF VisitEvent, Next, vars, walkVars, StartPass, EnterBody, LeaveBody, EndPass,
                  LeaveLoop, Verify, Reject, Accept
    <3>2. Raised' = Raised /\ PassBound' = PassBound
      BY <3>1 DEF Raised, AtLeast, PassBound
    <3>3. /\ Raised \in Nat /\ iterations \in Nat /\ PassBound \in Int
      <4>1. IsFiniteSet(registered)
        <5>1. IsFiniteSet(Functions \cup Closures)
          BY SortsAssumption, FS_Union
        <5>2. QED
          BY <5>1, FS_Subset DEF TypeOK
      <4>2. QED
        BY <4>1, FS_CardinalityType, RaisedType DEF TypeOK, PassBound
    <3>4. CASE StartPass
      BY <3>2, <3>3, <3>4 DEF StartPass, MeasureInv
    <3>5. CASE \E f \in Functions : EnterBody(f)
      BY <3>2, <3>5 DEF EnterBody, MeasureInv
    <3>6. CASE LeaveBody
      BY <3>2, <3>6 DEF LeaveBody, MeasureInv
    <3>7. CASE EndPass
      BY <3>2, <3>3, <3>7 DEF EndPass, MeasureInv
    <3>8. CASE LeaveLoop
      BY <3>2, <3>3, <3>8 DEF LeaveLoop, MeasureInv
    <3>9. CASE \E f \in Functions \cup Closures : Verify(f) \/ Reject(f)
      BY <3>2, <3>9 DEF Verify, Reject, MeasureInv
    <3>10. CASE Accept
      BY <3>2, <3>10 DEF Accept, MeasureInv
    <3>11. CASE UNCHANGED vars
      BY <3>2, <3>11 DEF vars, MeasureInv
    <3>12. QED
      BY <2>2, <3>4, <3>5, <3>6, <3>7, <3>8, <3>9, <3>10, <3>11 DEF Next, VisitEvent
  <2>3. QED
    BY <2>1, <2>2
<1>3. QED
  BY <1>1, <1>2, TypeCorrect, PTL DEF Spec

\* With at most two parameters per function the safety cap never cuts the
\* inference short: it always ends because nothing changed any more.
THEOREM CapIsEnoughForSmallSignatures == Spec => []SmallSignaturesConverge
<1>1. TypeOK /\ MeasureInv => SmallSignaturesConverge
  <2> SUFFICES ASSUME TypeOK, MeasureInv, changed,
                      phase \in {"verify", "checked", "rejected"},
                      Cardinality(Slots) <= 2 * Cardinality(registered)
               PROVE  FALSE
    BY DEF SmallSignaturesConverge
  <2>1. PassBound <= iterations /\ iterations <= Raised
    BY DEF MeasureInv
  <2>2. Raised \in Nat /\ Raised <= 2 * Cardinality(Slots) /\ iterations \in Nat
    BY RaisedType DEF TypeOK
  <2>3. Cardinality(Slots) \in Nat /\ Cardinality(registered) \in Nat
    <3>1. IsFiniteSet(Functions \cup Closures)
      BY SortsAssumption, FS_Union
    <3>2. IsFiniteSet(registered)
      BY <3>1, FS_Subset DEF TypeOK
    <3>3. QED
      BY <3>2, SortsAssumption, FS_CardinalityType
  <2>4. QED
    BY <2>1, <2>2, <2>3 DEF PassBound
<1>2. QED
  BY <1>1, TypeCorrect, MeasureInvariant, PTL
=============================================================================
