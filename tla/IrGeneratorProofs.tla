--------------------------- MODULE IrGeneratorProofs ---------------------------
(***************************************************************************)
(* Whatever the body, IrGenerator's frames hold a register at most once.   *)
(***************************************************************************)
EXTENDS IrGenerator, FiniteSetTheorems, FunctionTheorems, WellFoundedInduction, TLAPS

(***************************************************************************)
(* TrackedOnce is kept by new entries because a new register is greater    *)
(* than all that are bound to a name or in a frame, and that of an old     *)
(* register leaves its frame first.                                        *)
(***************************************************************************)
ScopeUpTo(n) ==
  [barrier : BOOLEAN, regs : [Names -> 0 .. n], typed : SUBSET (Names \cup {NoName})]
Tracking(entries, n) ==
  /\ \A s \in entries : s.by \in Int /\ s.reg \in 0 .. n
  /\ \A s, t \in entries : s.reg = t.reg => s = t

IInv ==
  /\ body \in BodyType
  /\ lowerAt \in Nat /\ lowerAt > 0
  /\ registers \in Nat
  /\ scopes \in Seq(ScopeUpTo(registers))
  /\ Tracking(tracked, registers)
-----------------------------------------------------------------------------
LEMMA InnermostExists ==
  ASSUME NEW n \in Nat, NEW S \in SUBSET (1 .. n), S # {}
  PROVE  InnermostOf(S) \in S
<1>. DEFINE T == {n - i : i \in S}
<1>0. \A i \in S : i \in Int /\ n - i \in Nat
  OBVIOUS
<1>1. T \subseteq Nat /\ T # {}
  BY <1>0
<1>2. PICK m \in T : \A k \in T : ~ (<<k, m>> \in OpToRel(<, Nat))
  <2>. HIDE DEF T
  <2>. QED
    BY <1>1, NatLessThanWellFounded, WFMin
<1>3. \A k \in T : m <= k
  <2>1. \A k \in T : ~ (k < m)
    BY <1>1, <1>2 DEF OpToRel
  <2>. HIDE DEF T
  <2>. QED
    BY <1>1, <2>1
<1>4. PICK i \in S : m = n - i
  BY <1>2
<1>5. \A j \in S : j <= i
  <2>1. \A j \in S : n - j \in T
    OBVIOUS
  <2>. HIDE DEF T
  <2>. QED
    BY <1>0, <1>3, <1>4, <2>1
<1>. QED
  BY <1>5 DEF InnermostOf

LEMMA FoundIsBounded ==
  ASSUME NEW n \in Nat, NEW ss \in Seq(ScopeUpTo(n)), NEW x \in Names
  PROVE  Find(ss, x) \in 0 .. n
<1>1. CASE Binding(ss, x) = {}
  BY <1>1 DEF Find, NoRegister
<1>2. CASE Binding(ss, x) # {}
  <2>1. Len(ss) \in Nat /\ Binding(ss, x) \in SUBSET (1 .. Len(ss))
    BY DEF Binding
  <2>2. InnermostOf(Binding(ss, x)) \in Binding(ss, x)
    BY <1>2, <2>1, InnermostExists
  <2>3. PICK i \in 1 .. Len(ss) : i = InnermostOf(Binding(ss, x))
    BY <2>1, <2>2
  <2>4. ss[i] \in ScopeUpTo(n)
    BY <2>3
  <2>5. ss[i].regs[x] \in 0 .. n
    BY <2>4 DEF ScopeUpTo
  <2>. QED
    BY <1>2, <2>3, <2>5 DEF Find
<1>. QED
  BY <1>1, <1>2

LEMMA PositionType ==
  /\ Position \in [Names -> 1 .. Cardinality(Names)]
  /\ \A x, y \in Names : Position[x] = Position[y] => x = y
<1>. DEFINE c == Cardinality(Names)
<1>1. c \in Nat /\ ExistsBijection(Names, 1 .. c)
  BY NamesAssumption, FS_CardinalityType, Fun_ExistsBijSymmetric
<1>2. PICK f : f \in Bijection(Names, 1 .. c)
  BY <1>1, Fun_ExistsBijEquiv DEF ExistsBijection
<1>3. f \in [Names -> 1 .. c] /\ \A x, y \in Names : f[x] = f[y] => x = y
  BY <1>2, Fun_BijectionProperties
<1>. QED
  BY <1>3 DEF Position

LEMMA ScopeUpToGrows ==
  ASSUME NEW n \in Nat, NEW m \in Nat, n <= m, NEW ss \in Seq(ScopeUpTo(n))
  PROVE  ss \in Seq(ScopeUpTo(m))
<1>1. 0 .. n \subseteq 0 .. m
  OBVIOUS
<1>2. ScopeUpTo(n) \subseteq ScopeUpTo(m)
  BY <1>1 DEF ScopeUpTo
<1>. QED
  BY <1>2

LEMMA SeqOfScopes ==
  ASSUME NEW n \in Nat, NEW k \in Int, NEW ss,
         ss = [i \in 1 .. k |-> ss[i]], \A i \in 1 .. k : ss[i] \in ScopeUpTo(n)
  PROVE  ss \in Seq(ScopeUpTo(n))
<1>1. CASE k \in Nat
  BY <1>1
<1>2. CASE k \notin Nat
  <2>1. 1 .. k = 1 .. 0
    BY <1>2
  <2>. QED
    BY <2>1
<1>. QED
  BY <1>1, <1>2

LEMMA ScopeAppended ==
  ASSUME NEW n, NEW ss \in Seq(ScopeUpTo(n)), NEW scope \in ScopeUpTo(n)
  PROVE  Append(ss, scope) \in Seq(ScopeUpTo(n))
OBVIOUS

LEMMA PairOfScopes ==
  ASSUME NEW n, NEW outermost \in ScopeUpTo(n), NEW innermost \in ScopeUpTo(n)
  PROVE  <<outermost, innermost>> \in Seq(ScopeUpTo(n))
OBVIOUS

LEMMA LastReplaced ==
  ASSUME NEW n \in Nat, NEW ss \in Seq(ScopeUpTo(n)), NEW scope,
         Len(ss) > 0 => scope \in ScopeUpTo(n)
  PROVE  [ss EXCEPT ![Len(ss)] = scope] \in Seq(ScopeUpTo(n))
<1>. DEFINE replaced == [ss EXCEPT ![Len(ss)] = scope]
<1>1. Len(ss) \in Nat /\ \A i \in 1 .. Len(ss) : ss[i] \in ScopeUpTo(n)
  OBVIOUS
<1>2. replaced = [i \in 1 .. Len(ss) |-> IF i = Len(ss) THEN scope ELSE ss[i]]
  OBVIOUS
<1>. HIDE DEF replaced
<1>3. \A i \in 1 .. Len(ss) : replaced[i] \in ScopeUpTo(n)
  BY <1>1, <1>2
<1>4. replaced = [i \in 1 .. Len(ss) |-> replaced[i]]
  BY <1>2
<1>5. replaced \in Seq(ScopeUpTo(n))
  BY <1>1, <1>3, <1>4, SeqOfScopes
<1>. QED
  BY <1>5 DEF replaced

LEMMA EmptyScopeType ==
  ASSUME NEW n \in Nat, NEW barrier \in BOOLEAN
  PROVE  EmptyScope(barrier) \in ScopeUpTo(n)
BY DEF EmptyScope, ScopeUpTo, NoRegister

LEMMA BindType ==
  ASSUME NEW n \in Nat, NEW scope \in ScopeUpTo(n), NEW x, NEW reg \in 0 .. n
  PROVE  Bind(scope, x, reg) \in ScopeUpTo(n)
BY DEF Bind, ScopeUpTo

LEMMA PopScopeType ==
  ASSUME NEW n \in Nat, NEW ss \in Seq(ScopeUpTo(n))
  PROVE  PopScope(ss) \in Seq(ScopeUpTo(n))
<1>1. Len(ss) - 1 \in Int /\ \A i \in 1 .. Len(ss) - 1 : ss[i] \in ScopeUpTo(n)
  OBVIOUS
<1>. QED
  BY <1>1, SeqOfScopes DEF PopScope

LEMMA DefineOrAssignType ==
  ASSUME NEW n \in Nat, NEW ss \in Seq(ScopeUpTo(n)), NEW x, NEW reg \in 0 .. n
  PROVE  DefineOrAssign(ss, x, reg) \in Seq(ScopeUpTo(n))
<1>1. \A i \in 1 .. Len(ss) :
        ss[i] \in ScopeUpTo(n) /\ Bind(ss[i], x, reg) \in ScopeUpTo(n)
  BY BindType
<1>2. Define(ss, x, reg) \in Seq(ScopeUpTo(n))
  BY <1>1, LastReplaced DEF Define
<1>3. AssignReg(ss, x, reg) \in Seq(ScopeUpTo(n))
  BY <1>1 DEF AssignReg
<1>. QED
  BY <1>2, <1>3 DEF DefineOrAssign

LEMMA DeclareTypeType ==
  ASSUME NEW n \in Nat, NEW ss \in Seq(ScopeUpTo(n)), NEW x \in Names \cup {NoName}
  PROVE  DeclareType(ss, x) \in Seq(ScopeUpTo(n))
<1>1. ASSUME NEW i \in 1 .. Len(ss)
      PROVE  Typed(ss[i], x) \in ScopeUpTo(n)
  <2>1. ss[i] \in ScopeUpTo(n)
    OBVIOUS
  <2>2. ss[i].typed \cup {x} \subseteq Names \cup {NoName}
    BY <2>1 DEF ScopeUpTo
  <2>. QED
    BY <2>1, <2>2 DEF Typed, ScopeUpTo
<1>. QED
  BY <1>1, LastReplaced DEF DeclareType

LEMMA MergeAllType ==
  ASSUME registers \in Nat, NEW ss \in Seq(ScopeUpTo(registers)), NEW differing
  PROVE  MergeAll(ss, differing) \in Seq(ScopeUpTo(registers + Cardinality(Names)))
<1>. DEFINE n == registers + Cardinality(Names)
<1>1. n \in Nat /\ registers <= n
  BY NamesAssumption, FS_CardinalityType
<1>2. \A i \in 1 .. Len(ss) : ss[i] \in ScopeUpTo(n)
  BY <1>1, ScopeUpToGrows
<1>3. ASSUME NEW x \in Names
      PROVE  registers + Position[x] \in 0 .. n
  BY PositionType, NamesAssumption, FS_CardinalityType
<1>. HIDE DEF n
<1>4. \A i \in 1 .. Len(ss) : MergeAll(ss, differing)[i] \in ScopeUpTo(n)
  BY <1>2, <1>3 DEF MergeAll, ScopeUpTo
<1>5. MergeAll(ss, differing) = [i \in 1 .. Len(ss) |-> MergeAll(ss, differing)[i]]
  BY DEF MergeAll
<1>6. MergeAll(ss, differing) \in Seq(ScopeUpTo(n))
  BY <1>1, <1>4, <1>5, SeqOfScopes
<1>. QED
  BY <1>6 DEF n
-----------------------------------------------------------------------------
LEMMA TrackingGrows ==
  ASSUME NEW n \in Nat, NEW m \in Nat, n <= m, NEW entries, Tracking(entries, n),
         NEW some \in SUBSET entries
  PROVE  Tracking(some, m)
BY DEF Tracking

\* Erasing the first entry of a register erases its only one.
LEMMA ConsumeErases ==
  ASSUME NEW n \in Nat, NEW entries, Tracking(entries, n), NEW reg
  PROVE  /\ Tracking(Consume(entries, reg), n)
         /\ \A s \in Consume(entries, reg) : s.reg # reg
<1>1. Consume(entries, reg) \subseteq entries
  BY DEF Consume
<1>2. ASSUME NEW s \in entries, s.reg = reg
      PROVE  s \notin Consume(entries, reg)
  <2>1. \A t \in entries : t.reg = reg => t = s
    BY <1>2 DEF Tracking
  <2>2. Before(s, s)
    BY DEF Before, Tracking
  <2>. QED
    BY <1>2, <2>1, <2>2 DEF Consume
<1>. QED
  BY <1>1, <1>2, TrackingGrows

LEMMA TrackingAdds ==
  ASSUME NEW n \in Nat, NEW entries, Tracking(entries, n),
         NEW frame, NEW by \in Int, NEW reg \in 0 .. n,
         \A s \in entries : s.reg # reg
  PROVE  Tracking(entries \cup {[frame |-> frame, by |-> by, reg |-> reg]}, n)
BY DEF Tracking
-----------------------------------------------------------------------------
LEMMA InitInvariant ==
  ASSUME body \in BodyType, Init
  PROVE  IInv
<1>1. registers \in Nat /\ registers = Cardinality(Names)
  BY NamesAssumption, FS_CardinalityType DEF Init
<1>2. scopes \in Seq(ScopeUpTo(registers))
  <2>. DEFINE parameters == [x \in Names |-> IF body.params[x] = "none" THEN NoRegister
                                             ELSE Position[x]]
  <2>1. parameters \in [Names -> 0 .. registers]
    BY <1>1, PositionType DEF NoRegister
  <2>. DEFINE outermost == [EmptyScope(FALSE) EXCEPT !.regs = parameters]
              innermost == EmptyScope(FALSE)
  <2>2. innermost \in ScopeUpTo(registers)
    BY <1>1, EmptyScopeType
  <2>. HIDE DEF parameters
  <2>3. outermost \in ScopeUpTo(registers)
    BY <2>1, <2>2 DEF ScopeUpTo
  <2>4. scopes = <<outermost, innermost>>
    BY DEF Init, parameters
  <2>. HIDE DEF outermost, innermost
  <2>5. <<outermost, innermost>> \in Seq(ScopeUpTo(registers))
    BY <2>2, <2>3, PairOfScopes
  <2>. QED
    BY <2>4, <2>5
<1>3. Tracking(tracked, registers)
  <2>1. ASSUME NEW s \in tracked
        PROVE  \E x \in Names : s = [frame |-> 1, by |-> - Position[x], reg |-> Position[x]]
    BY DEF Init
  <2>2. \A x \in Names : Position[x] \in 1 .. registers
    BY <1>1, PositionType
  <2>3. \A s \in tracked : s.by \in Int /\ s.reg \in 0 .. registers
    BY <1>1, <2>1, <2>2
  <2>4. ASSUME NEW s \in tracked, NEW t \in tracked, s.reg = t.reg
        PROVE  s = t
    <3>1. PICK x \in Names : s = [frame |-> 1, by |-> - Position[x], reg |-> Position[x]]
      BY <2>1
    <3>2. PICK y \in Names : t = [frame |-> 1, by |-> - Position[y], reg |-> Position[y]]
      BY <2>1
    <3>3. Position[x] = Position[y]
      BY <2>4, <3>1, <3>2
    <3>. QED
      BY <3>1, <3>2, <3>3, PositionType
  <2>. QED
    BY <2>3, <2>4 DEF Tracking
<1>4. lowerAt = 1
  BY DEF Init
<1>. QED
  BY <1>1, <1>2, <1>3, <1>4 DEF IInv

\* What every step of the walk leaves to show.
LEMMA WalkStep ==
  ASSUME IInv, body' = body, lowerAt' = lowerAt + 1, registers' \in Nat,
         scopes' \in Seq(ScopeUpTo(registers')), Tracking(tracked', registers')
  PROVE  IInv'
BY DEF IInv, ScopeUpTo, Tracking

LEMMA OperandType ==
  ASSUME IInv, lowerAt <= Len(body.code)
  PROVE  This \in Token /\ Operand \in 0 .. registers
<1>1. This \in Token
  BY DEF IInv, This, BodyType
<1>2. CASE This.of = NoName
  BY <1>1, <1>2 DEF IInv, Operand, NoRegister
<1>3. CASE This.of # NoName
  <2>1. This.of \in Names
    BY <1>1, <1>3 DEF Token
  <2>. QED
    BY <1>1, <1>3, <2>1, FoundIsBounded DEF IInv, Operand
<1>. QED
  BY <1>2, <1>3

\* A new register is in no scope and no frame.
LEMMA NewRegisterIsNew ==
  ASSUME IInv
  PROVE  /\ NewRegister \in Nat /\ NewRegister \in 0 .. NewRegister
         /\ registers <= NewRegister
         /\ scopes \in Seq(ScopeUpTo(NewRegister))
         /\ Tracking(tracked, NewRegister)
         /\ \A s \in tracked : s.reg # NewRegister
<1>1. NewRegister \in Nat /\ NewRegister \in 0 .. NewRegister /\ registers <= NewRegister
  BY DEF IInv, NewRegister
<1>2. registers \in Nat /\ scopes \in Seq(ScopeUpTo(registers)) /\ Tracking(tracked, registers)
  BY DEF IInv
<1>3. scopes \in Seq(ScopeUpTo(NewRegister))
  BY <1>1, <1>2, ScopeUpToGrows
<1>4. Tracking(tracked, NewRegister)
  BY <1>1, <1>2, TrackingGrows
<1>5. \A s \in tracked : s.reg # NewRegister
  BY <1>2 DEF Tracking, NewRegister
<1>. QED
  BY <1>1, <1>3, <1>4, <1>5

LEMMA AssignmentStep ==
  ASSUME IInv, LowerAssignment
  PROVE  IInv'
<1>. DEFINE reg == IF This.op = "copy" THEN Operand ELSE NewRegister
            n == IF This.op = "fresh" THEN NewRegister ELSE registers
            assigned == DefineOrAssign(scopes, This.to, reg)
<1>1. /\ lowerAt <= Len(body.code) /\ This.op \in {"fresh", "copy"}
      /\ lowerAt' = lowerAt + 1 /\ body' = body /\ registers' = n
      /\ scopes' \in {DeclareType(assigned, This.to), assigned}
      /\ tracked' \in {Track(reg), tracked}
  BY DEF LowerAssignment, Lower
<1>2. This \in Token /\ Operand \in 0 .. registers
  BY <1>1, OperandType
<1>3. /\ n \in Nat /\ reg \in 0 .. n
      /\ scopes \in Seq(ScopeUpTo(n)) /\ Tracking(tracked, n)
  BY <1>1, <1>2, NewRegisterIsNew DEF IInv
<1>4. This.to \in Names \cup {NoName} /\ lowerAt \in Int
  BY <1>2 DEF Token, IInv
<1>. HIDE DEF reg, n
<1>5. assigned \in Seq(ScopeUpTo(n))
  BY <1>3, DefineOrAssignType
<1>. HIDE DEF assigned
<1>6. DeclareType(assigned, This.to) \in Seq(ScopeUpTo(n))
  BY <1>3, <1>4, <1>5, DeclareTypeType
<1>7. Tracking(Track(reg), n)
  <2>1. Tracking(Consume(tracked, reg), n) /\ \A s \in Consume(tracked, reg) : s.reg # reg
    BY <1>3, ConsumeErases
  <2>. QED
    BY <1>3, <1>4, <2>1, TrackingAdds DEF Track
<1>. QED
  BY <1>1, <1>3, <1>5, <1>6, <1>7, WalkStep

\* The steps that make no register: scopes and frames only lose.
LEMMA NoNewRegister ==
  ASSUME IInv, body' = body, lowerAt' = lowerAt + 1, registers' = registers,
         scopes' \in Seq(ScopeUpTo(registers)), Tracking(tracked', registers)
  PROVE  IInv'
BY WalkStep DEF IInv

LEMMA FramesStep ==
  ASSUME IInv, LowerUse \/ LowerYield \/ LowerReturn \/ LowerJump \/ LowerEnd
  PROVE  IInv'
<1>1. /\ registers \in Nat /\ scopes \in Seq(ScopeUpTo(registers))
      /\ Tracking(tracked, registers)
  BY DEF IInv
<1>2. Tracking(Consume(tracked, Operand), registers)
  BY <1>1, ConsumeErases
<1>3. CASE LowerUse
  BY <1>1, <1>2, <1>3, NoNewRegister DEF LowerUse, Lower
<1>4. CASE LowerYield
  BY <1>1, <1>2, <1>4, NoNewRegister DEF LowerYield, Lower
<1>5. CASE LowerReturn
  BY <1>1, <1>2, <1>5, NoNewRegister DEF LowerReturn, Lower
<1>6. CASE LowerJump
  BY <1>1, <1>6, NoNewRegister DEF LowerJump, Lower
<1>7. CASE LowerEnd
  BY <1>1, <1>7, NoNewRegister DEF LowerEnd
<1>. QED
  BY <1>3, <1>4, <1>5, <1>6, <1>7

LEMMA ScopesStep ==
  ASSUME IInv, LowerOpen \/ LowerIf \/ LowerElse \/ CloseScope
  PROVE  IInv'
<1>1. /\ registers \in Nat /\ scopes \in Seq(ScopeUpTo(registers))
      /\ Tracking(tracked, registers)
  BY DEF IInv
<1>2. PopScope(scopes) \in Seq(ScopeUpTo(registers))
  BY <1>1, PopScopeType
<1>3. ASSUME NEW barrier \in BOOLEAN, NEW ss \in Seq(ScopeUpTo(registers))
      PROVE  Append(ss, EmptyScope(barrier)) \in Seq(ScopeUpTo(registers))
  BY <1>1, <1>3, EmptyScopeType
<1>4. Tracking(tracked \ InFrame(tracked, TopFrame), registers)
  BY <1>1, TrackingGrows
<1>5. CASE LowerOpen
  BY <1>1, <1>3, <1>5, NoNewRegister DEF LowerOpen, Lower
<1>6. CASE LowerIf
  BY <1>1, <1>3, <1>6, NoNewRegister DEF LowerIf, Lower
<1>7. CASE LowerElse
  BY <1>2, <1>3, <1>4, <1>7, NoNewRegister DEF LowerElse, Lower
<1>8. CASE CloseScope
  BY <1>2, <1>4, <1>8, NoNewRegister DEF CloseScope, Lower
<1>. QED
  BY <1>5, <1>6, <1>7, <1>8

LEMMA EnterArmStep ==
  ASSUME IInv, body' = body, lowerAt' = lowerAt + 1, lowerAt <= Len(body.code),
         NEW outside \in Seq(ScopeUpTo(registers)), NEW subject,
         NEW entries \in SUBSET tracked, NEW frame,
         EnterArm(outside, subject, entries, frame)
  PROVE  IInv'
<1>1. NewRegister \in Nat /\ NewRegister \in 0 .. NewRegister /\ registers' = NewRegister
  BY NewRegisterIsNew DEF EnterArm
<1>2. scopes' \in Seq(ScopeUpTo(NewRegister))
  <2>1. outside \in Seq(ScopeUpTo(NewRegister))
    BY <1>1, ScopeUpToGrows, NewRegisterIsNew DEF IInv
  <2>2. EmptyScope(TRUE) \in ScopeUpTo(NewRegister)
    BY <1>1, EmptyScopeType
  <2>3. Bind(EmptyScope(TRUE), This.to, NewRegister) \in ScopeUpTo(NewRegister)
    BY <1>1, <2>2, BindType
  <2>4. scopes' = Append(Append(outside, EmptyScope(TRUE)),
                         Bind(EmptyScope(TRUE), This.to, NewRegister))
    BY DEF EnterArm
  <2>. QED
    BY <2>1, <2>2, <2>3, <2>4, ScopeAppended
<1>3. Tracking(tracked', NewRegister)
  <2>1. Tracking(entries, NewRegister) /\ \A s \in entries : s.reg # NewRegister
    BY <1>1, NewRegisterIsNew, TrackingGrows
  <2>2. Consume(entries, subject) \subseteq entries
    BY DEF Consume
  <2>3. /\ Tracking(Consume(entries, subject), NewRegister)
        /\ \A s \in Consume(entries, subject) : s.reg # NewRegister
    BY <1>1, <2>1, <2>2, TrackingGrows
  <2>4. lowerAt \in Int
    BY DEF IInv
  <2>5. Tracking(Consume(entries, subject)
                   \cup {[frame |-> frame, by |-> lowerAt, reg |-> NewRegister]}, NewRegister)
    BY <1>1, <2>3, <2>4, TrackingAdds
  <2>6. tracked' \in {entries, Consume(entries, subject)
                   \cup {[frame |-> frame, by |-> lowerAt, reg |-> NewRegister]}}
    BY DEF EnterArm
  <2>. QED
    BY <2>1, <2>5, <2>6
<1>. QED
  BY <1>1, <1>2, <1>3, WalkStep

LEMMA ArmsStep ==
  ASSUME IInv, LowerMatch \/ LowerArm
  PROVE  IInv'
<1>1. registers \in Nat /\ scopes \in Seq(ScopeUpTo(registers))
  BY DEF IInv
<1>2. CASE LowerMatch
  <2>1. /\ body' = body /\ lowerAt' = lowerAt + 1 /\ lowerAt <= Len(body.code)
        /\ EnterArm(scopes, Operand, tracked, TopFrame + 1)
    BY <1>2 DEF LowerMatch, Lower
  <2>. QED
    BY <1>1, <2>1, EnterArmStep
<1>3. CASE LowerArm
  <2>1. PopScope(PopScope(scopes)) \in Seq(ScopeUpTo(registers))
    BY <1>1, PopScopeType
  <2>2. /\ body' = body /\ lowerAt' = lowerAt + 1 /\ lowerAt <= Len(body.code)
        /\ EnterArm(PopScope(PopScope(scopes)), open[Len(open)].subject,
                    tracked \ InFrame(tracked, TopFrame), TopFrame)
    BY <1>3 DEF LowerArm, Lower
  <2>. QED
    BY <2>1, <2>2, EnterArmStep
<1>. QED
  BY <1>2, <1>3

LEMMA MergeStep ==
  ASSUME IInv, CloseBranches
  PROVE  IInv'
<1>. DEFINE closed == open[Len(open)]
            outer == IF closed.op = "match" THEN PopScope(scopes) ELSE scopes
            differing == Differing(closed.pre, closed.then, Snapshot(outer))
            n == registers + Cardinality(Names)
<1>1. /\ registers \in Nat /\ scopes \in Seq(ScopeUpTo(registers))
      /\ Tracking(tracked, registers)
  BY DEF IInv
<1>2. n \in Nat /\ registers <= n
  BY <1>1, NamesAssumption, FS_CardinalityType
<1>3. /\ body' = body /\ lowerAt' = lowerAt + 1 /\ registers' = n
      /\ scopes' = MergeAll(PopScope(outer), differing)
      /\ tracked' = tracked \ InFrame(tracked, TopFrame)
  BY DEF CloseBranches, Lower
<1>4. PopScope(outer) \in Seq(ScopeUpTo(registers))
  BY <1>1, PopScopeType
<1>. HIDE DEF outer, differing
<1>5. scopes' \in Seq(ScopeUpTo(n))
  BY <1>1, <1>3, <1>4, MergeAllType
<1>. HIDE DEF n
<1>6. Tracking(tracked', n)
  BY <1>1, <1>2, <1>3, TrackingGrows
<1>. QED
  BY <1>2, <1>3, <1>5, <1>6, WalkStep

LEMMA StepInvariant ==
  ASSUME IInv, [Next]_lowerVars
  PROVE  IInv'
<1>1. CASE LowerAssignment
  BY <1>1, AssignmentStep
<1>2. CASE LowerUse \/ LowerYield \/ LowerReturn \/ LowerJump \/ LowerEnd
  BY <1>2, FramesStep
<1>3. CASE LowerOpen \/ LowerIf \/ LowerElse \/ CloseScope
  BY <1>3, ScopesStep
<1>4. CASE LowerMatch \/ LowerArm
  BY <1>4, ArmsStep
<1>5. CASE CloseBranches
  BY <1>5, MergeStep
<1>6. CASE UNCHANGED lowerVars
  BY <1>6 DEF lowerVars, IInv, ScopeUpTo, Tracking
<1>. QED
  BY <1>1, <1>2, <1>3, <1>4, <1>5, <1>6 DEF Next

(***************************************************************************)
(* For every body, a register has at most one entry in liveScopeStack: no  *)
(* two frames drop the same struct, and consumeTrackedRegister, which      *)
(* erases the first entry it meets, erases the only one.                   *)
(***************************************************************************)
THEOREM RegistersAreTrackedOnce == Spec => []TrackedOnce
<1>1. body \in BodyType /\ Init => IInv
  BY InitInvariant
<1>2. IInv /\ [Next]_lowerVars => IInv'
  BY StepInvariant
<1>3. IInv => TrackedOnce
  BY DEF IInv, Tracking, TrackedOnce
<1>. QED
  BY <1>1, <1>2, <1>3, PTL DEF Spec
=============================================================================
