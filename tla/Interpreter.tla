------------------------------ MODULE Interpreter ------------------------------
(***************************************************************************)
(* interpreter/Interpreter.cpp: how statements and expressions are run.    *)
(*                                                                         *)
(* The interpreter throws for everything that ends an evaluation early. An *)
(* evaluation therefore has an outcome: t is "value", "return", "break" or *)
(* "continue"; "fault" or "pointer fault", an error a checked program may  *)
(* still meet (a division by zero, a null pointer); "stuck", an            *)
(* operation on a value of a kind it is not made for, a name that is not   *)
(* bound, or undefined behaviour; or "spent", when the laps are used up.   *)
(* v is the value that goes with it and st the state it leaves.            *)
(*                                                                         *)
(* st has heap, the objects that are shared by reference; env, the scopes  *)
(* of the running function, the innermost last; boxed, the names whose     *)
(* address its body takes; laps, how many more turns its loops may make    *)
(* and its calls may nest (a bound of the model); and g, the declarations. *)
(***************************************************************************)
EXTENDS Programs
LOCAL INSTANCE SequencesExt
LOCAL INSTANCE FiniteSetsExt
LOCAL INSTANCE TLC
LOCAL INSTANCE Bitwise

(***************************************************************************)
(* Values. i32 and i64 are one kind of value, as in the interpreter; a     *)
(* double is a whole number here. Arrays, structs, Strings, Buffers,       *)
(* optionals, results, enums and closures are objects of the heap, and two *)
(* names for one object see each other's changes.                          *)
(***************************************************************************)
IntValue(n) == [k |-> "int", n |-> n]
DoubleValue(n) == [k |-> "double", n |-> n]
BoolValue(b) == [k |-> "bool", b |-> b]
CharValue(n) == [k |-> "char", n |-> n]
StrValue(s) == [k |-> "str", s |-> s]
UnitValue == [k |-> "unit"]
Reference(at) == [k |-> "ref", at |-> at]
SliceValue(at) == [k |-> "slice", at |-> at]
\* An arena of the heap, 0 for null, and what the arena is known to hold.
PointerValue(at, offset, T) == [k |-> "pointer", at |-> at, offset |-> offset, of |-> T]

LiteralValue(e) ==
  CASE e.type \in {I32, I64} -> IntValue(e.n)
    [] e.type = F64 -> DoubleValue(e.n)
    [] e.type = Bool -> BoolValue(e.b)
    [] e.type = Char -> CharValue(e.n)
    [] e.type = Str -> StrValue(e.s)

(***************************************************************************)
(* Outcomes.                                                               *)
(***************************************************************************)
End(t, v, st) == [t |-> t, v |-> v, st |-> st]
Done(v, st) == End("value", v, st)
Fault(st) == End("fault", UnitValue, st)
PointerFault(st) == End("pointer fault", UnitValue, st)   \* null, or outside its arena
Stuck(st) == End("stuck", UnitValue, st)

Then(o, Next(_, _)) == IF o.t = "value" THEN Next(o.v, o.st) ELSE o

New(object, st) ==
  Done(Reference(Len(st.heap) + 1), [st EXCEPT !.heap = Append(@, object)])

NewArray(elements, st) == New([k |-> "array", elements |-> elements], st)
NewString(text, st) == New([k |-> "string", data |-> text], st)
NewOptional(has, v, st) == New([k |-> "optional", has |-> has, v |-> v], st)
NewResult(ok, v, st) == New([k |-> "result", has |-> ok, v |-> v], st)
NewEnum(T, variant, fields, st) ==
  New([k |-> "enum", type |-> T, variant |-> variant, fields |-> fields], st)

IsObject(v, k, st) == v.k = "ref" /\ st.heap[v.at].k = k
ObjectOf(v, st) == st.heap[v.at]
SetObject(v, object, st) == [st EXCEPT !.heap[v.at] = object]

IsText(v, st) == v.k = "str" \/ IsObject(v, "string", st)
TextOf(v, st) == IF v.k = "str" THEN v.s ELSE ObjectOf(v, st).data
IsInteger(v) == v.k \in {"int", "char"}

\* What can be indexed: an array, or a slice of one.
IsSequence(v, st) == v.k = "slice" \/ IsObject(v, "array", st)

(***************************************************************************)
(* Environment: a scope maps a name to its value, or to the arena that     *)
(* holds the value of a name whose address is taken.                       *)
(***************************************************************************)
NoNames == [x \in {} |-> UnitValue]

IsBound(st, x) == \E i \in DOMAIN st.env : x \in DOMAIN st.env[i]

ScopeOf(st, x) == Max({i \in DOMAIN st.env : x \in DOMAIN st.env[i]})

Get(st, x) ==
  LET held == st.env[ScopeOf(st, x)][x]
  IN IF held.k = "cell" THEN st.heap[held.at].elements[1] ELSE held

DefineValue(st, x, v) ==
  LET innermost == Len(st.env)
  IN IF x \in DOMAIN st.env[innermost] /\ st.env[innermost][x].k = "cell"
     THEN [st EXCEPT !.heap[st.env[innermost][x].at].elements[1] = v]
     ELSE [st EXCEPT !.env[innermost] = (x :> v) @@ @]

\* defineBoxed makes a new cell each time.
DefineBoxed(st, x, v) ==
  [st EXCEPT !.heap = Append(@, [k |-> "arena", elements |-> <<v>>]),
             !.env[Len(st.env)] = (x :> [k |-> "cell", at |-> Len(st.heap) + 1]) @@ @]

AssignValue(st, x, v) ==
  LET held == st.env[ScopeOf(st, x)][x]
  IN IF held.k = "cell"
     THEN [st EXCEPT !.heap[held.at].elements[1] = v]
     ELSE [st EXCEPT !.env[ScopeOf(st, x)][x] = v]

Enter(st) == [st EXCEPT !.env = Append(@, NoNames)]
Leave(o, st) == [o EXCEPT !.st.env = SubSeq(@, 1, Len(st.env))]

(***************************************************************************)
(* What a body mentions: the walks that decide which names a closure       *)
(* captures and which variables are boxed go down the same constructs.     *)
(***************************************************************************)
Parts(n) ==
  CASE n.k = "binary" -> <<n.left, n.right>>
    [] n.k \in {"cast", "deref", "try"} -> <<n.operand>>
    [] n.k \in {"some", "ok", "err", "return", "break", "assign"} -> <<n.value>>
    [] n.k = "field" -> <<n.object>>
    [] n.k \in {"unsafe", "loop"} -> <<n.body>>
    [] n.k = "struct" -> [i \in DOMAIN n.fields |-> n.fields[i].value]
    [] n.k = "array" -> n.elements
    [] n.k = "index" -> <<n.object, n.index>>
    [] n.k = "interpolated" -> [i \in DOMAIN n.pieces |-> n.pieces[i].expr]
    [] n.k = "slice" -> <<n.object, n.start, n.end>>
    [] n.k = "if" -> <<n.condition, n.then, n.else>>
    [] n.k = "match" -> <<n.scrutinee>> \o [i \in DOMAIN n.arms |-> n.arms[i].body]
    [] n.k = "block" -> Append(n.statements, n.result)
    [] n.k = "call" -> n.args
    [] n.k = "method" -> <<n.object>> \o n.args
    [] n.k = "expr" -> <<n.expr>>
    [] n.k = "fieldassign" -> <<n.object, n.value>>
    [] n.k = "indexassign" -> <<n.object, n.index, n.value>>
    [] n.k = "derefassign" -> <<n.pointer, n.value>>
    [] n.k = "incdec" -> <<n.target>>
    [] n.k = "while" -> <<n.condition, n.body>>
    [] OTHER -> <<>>

RECURSIVE ReferencedNames(_), AddressTakenNames(_)

ReferencedNames(n) ==
  CASE n.k = "name" -> {n.name}
    [] n.k = "closure" ->
         ReferencedNames(n.body) \ {n.params[i].name : i \in DOMAIN n.params}
    [] OTHER -> UNION {ReferencedNames(part) : part \in ToSet(Parts(n))}

AddressTakenNames(n) ==
  IF n.k = "addressof" THEN {n.operand.name}
  ELSE UNION {AddressTakenNames(part) : part \in ToSet(Parts(n))}

(***************************************************************************)
(* wrapForUnion: a value passed where a type with a bar in its text is     *)
(* expected is tagged with the first alternative of its kind; the text is  *)
(* cut at its bars also when they are inside a bracket, and no value       *)
(* matches such a piece.                                                   *)
(***************************************************************************)
RECURSIVE HasBar(_)
HasBar(T) ==
  CASE T.kind = "union" -> TRUE
    [] T.kind \in {"optional", "shared", "heaparray", "slice", "pointer", "array"} ->
         HasBar(T.of)
    [] T.kind = "result" -> HasBar(T.of) \/ HasBar(T.err)
    [] T.kind = "fn" -> HasBar(T.result) \/ \E P \in ToSet(T.params) : HasBar(P)
    [] OTHER -> FALSE

NameOf(T) == IF T.kind \in {"named", "struct", "enum"} THEN T.name ELSE T.kind

MatchesAlternative(v, T, st) ==
  CASE T \in {I32, I64} -> v.k = "int"
    [] T = F64 -> v.k = "double"
    [] T = Bool -> v.k = "bool"
    [] T = Char -> v.k = "char"
    [] T \in {Str, CStr} -> v.k = "str"
    [] T = OwnedString -> IsObject(v, "string", st)
    [] OTHER -> \/ IsObject(v, "struct", st) /\ ObjectOf(v, st).type = NameOf(T)
                \/ IsObject(v, "enum", st) /\ NameOf(ObjectOf(v, st).type) = NameOf(T)

\* The outcome of wrapping, in the state the value was reached in.
WrapForUnion(v, T, st) ==
  LET fitting == {i \in DOMAIN T.alternatives : MatchesAlternative(v, T.alternatives[i], st)}
      first == T.alternatives[Min(fitting)]
      tagged == IsObject(v, "enum", st) /\ ObjectOf(v, st).type = T
  IN CASE ~HasBar(T) \/ tagged -> Done(v, st)
       [] HasBar(T) /\ ~tagged /\ T.kind = "union" /\ fitting # {} ->
            NewEnum(T, NameOf(first), <<v>>, st)
       [] OTHER -> Stuck(st)

(***************************************************************************)
(* Running statements. Only an assignment, a parameter and a match arm     *)
(* bind a name; an assignment to a name bound in any scope of the function *)
(* changes that binding.                                                   *)
(***************************************************************************)
RECURSIVE Eval(_, _), ExecAll(_, _), Iterate(_, _, _), CallFunction(_, _, _)

\* The values of expressions evaluated in order, as one value.
RECURSIVE EvalAll(_, _)
EvalAll(es, st) ==
  IF es = <<>> THEN Done(<<>>, st)
  ELSE Then(Eval(Head(es), st), LAMBDA v, s :
         Then(EvalAll(Tail(es), s), LAMBDA vs, s2 : Done(<<v>> \o vs, s2)))

EvalOrUnit(e, st) == IF e = Nothing THEN Done(UnitValue, st) ELSE Eval(e, st)

\* tryWrapFunctionRef: the bare name of a function, where its caller looks for one.
IsFunctionName(e, st) ==
  e.k = "name" /\ ~IsBound(st, e.name) /\ <<"", e.name>> \in DOMAIN st.g.functions

FunctionValue(e, st) ==
  New([k |-> "fnref", function |-> st.g.functions[<<"", e.name>>]], st)

EvalOrFunction(e, st) ==
  IF IsFunctionName(e, st) THEN FunctionValue(e, st) ELSE Eval(e, st)

Bind(s, v, st) ==
  CASE ~s.forced /\ IsBound(st, s.name) -> AssignValue(st, s.name, v)
    [] (s.forced \/ ~IsBound(st, s.name)) /\ s.name \in st.boxed ->
         DefineBoxed(st, s.name, v)
    [] OTHER -> DefineValue(st, s.name, v)

\* A mistake: a value keeps its own type where the name is declared a union.
ExecAssign_Untagged(s, st) ==
  LET self(v, t) ==
        IF s.value.k = "closure"
        THEN SetObject(v, [ObjectOf(v, t) EXCEPT !.captures = (s.name :> v) @@ @], t)
        ELSE t
  IN Then(EvalOrFunction(s.value, st), LAMBDA v, t :
       Done(UnitValue, Bind(s, v, self(v, t))))

\* A closure captures itself, under the name it is assigned to.
ExecAssign(s, st) ==
  LET self(v, t) ==
        IF s.value.k = "closure"
        THEN SetObject(v, [ObjectOf(v, t) EXCEPT !.captures = (s.name :> v) @@ @], t)
        ELSE t
      wrapped(v, t) == IF s.type = NoType \/ IsFunctionName(s.value, st)
                       THEN Done(v, t) ELSE WrapForUnion(v, s.type, t)
  IN Then(EvalOrFunction(s.value, st), LAMBDA v, t :
       Then(wrapped(v, self(v, t)), LAMBDA w, t2 : Done(UnitValue, Bind(s, w, t2))))

ExecReturn(s, st) ==
  Then(IF s.value = Nothing THEN Done(UnitValue, st) ELSE EvalOrFunction(s.value, st),
       LAMBDA v, t : End("return", v, t))

SetField(object, f, v, st) ==
  IF IsObject(object, "struct", st) /\ f \in DOMAIN ObjectOf(object, st).fields
  THEN Done(UnitValue, SetObject(object, [ObjectOf(object, st) EXCEPT !.fields[f] = v], st))
  ELSE Stuck(st)

ExecFieldAssign(s, st) ==
  Then(Eval(s.object, st), LAMBDA object, t :
    IF ~IsObject(object, "struct", t) THEN Stuck(t)
    ELSE Then(Eval(s.value, t), LAMBDA v, t2 : SetField(object, s.field, v, t2)))

InRange(i, object, st) == i.n \in 0 .. Len(ObjectOf(object, st).elements) - 1

\* The index is held against the length before the value is evaluated.
ExecIndexAssign(s, st) ==
  Then(Eval(s.object, st), LAMBDA object, t :
    IF ~IsSequence(object, t) THEN Stuck(t)
    ELSE Then(Eval(s.index, t), LAMBDA i, t2 :
      IF ~IsInteger(i) THEN Stuck(t2)
      ELSE IF ~InRange(i, object, t2) THEN Fault(t2)
      ELSE Then(Eval(s.value, t2), LAMBDA v, t3 :
        Done(UnitValue, [t3 EXCEPT !.heap[object.at].elements[i.n + 1] = v]))))

PointsInside(p, st) ==
  p.at # 0 /\ p.offset \in 0 .. Len(st.heap[p.at].elements) - 1

ExecDerefAssign(s, st) ==
  Then(Eval(s.pointer, st), LAMBDA p, t :
    IF p.k # "pointer" THEN Stuck(t)
    ELSE IF ~PointsInside(p, t) THEN PointerFault(t)
    ELSE Then(Eval(s.value, t), LAMBDA v, t2 :
      Done(UnitValue, [t2 EXCEPT !.heap[p.at].elements[p.offset + 1] = v])))

ExecIncDec(s, st) ==
  CASE s.target.k = "name" ->
         IF IsBound(st, s.target.name) /\ IsInteger(Get(st, s.target.name))
         THEN Done(UnitValue,
                   AssignValue(st, s.target.name, IntValue(Get(st, s.target.name).n + s.by)))
         ELSE Stuck(st)
    [] s.target.k = "field" ->
         Then(Eval(s.target, st), LAMBDA old, t :
           IF ~IsInteger(old) THEN Stuck(t)
           ELSE Then(Eval(s.target.object, st), LAMBDA object, t2 :
             SetField(object, s.target.field, IntValue(old.n + s.by), t2)))
    [] OTHER -> Stuck(st)

\* The body of a loop has a scope of its own on every turn; its last expression is
\* evaluated and dropped.
RunBody(body, st) ==
  Leave(Then(ExecAll(body.statements, Enter(st)), LAMBDA v, t : EvalOrUnit(body.result, t)),
        st)

NextLap(condition, body, st) ==
  LET turn == RunBody(body, st)
  IN CASE turn.t \in {"value", "continue"} ->
            Iterate(condition, body, [turn.st EXCEPT !.laps = @ - 1])
       [] turn.t = "break" -> Done(turn.v, turn.st)
       [] OTHER -> turn

Iterate(condition, body, st) ==
  IF st.laps = 0 THEN End("spent", UnitValue, st)
  ELSE Then(IF condition = Nothing THEN Done(BoolValue(TRUE), st) ELSE Eval(condition, st),
            LAMBDA c, t :
              CASE c.k # "bool" -> Stuck(t)
                [] c.k = "bool" /\ c.b -> NextLap(condition, body, t)
                [] OTHER -> Done(UnitValue, t))

ExecWhile(s, st) ==
  Then(Iterate(s.condition, s.body, st), LAMBDA v, t : Done(UnitValue, t))

ExecBreak(s, st) == Then(EvalOrUnit(s.value, st), LAMBDA v, t : End("break", v, t))

Exec(s, st) ==
  CASE s.k = "assign" -> ExecAssign(s, st)
    [] s.k = "return" -> ExecReturn(s, st)
    [] s.k = "expr" -> Eval(s.expr, st)
    [] s.k = "fieldassign" -> ExecFieldAssign(s, st)
    [] s.k = "indexassign" -> ExecIndexAssign(s, st)
    [] s.k = "derefassign" -> ExecDerefAssign(s, st)
    [] s.k = "incdec" -> ExecIncDec(s, st)
    [] s.k = "while" -> ExecWhile(s, st)
    [] s.k = "break" -> ExecBreak(s, st)
    [] s.k = "continue" -> End("continue", UnitValue, st)

ExecAll(ss, st) ==
  IF ss = <<>> THEN Done(UnitValue, st)
  ELSE Then(Eval(Head(ss), st), LAMBDA v, t : ExecAll(Tail(ss), t))

(***************************************************************************)
(* Calls.                                                                  *)
(***************************************************************************)
\* A body runs in scopes of its own, none of which the caller's are part of.
RunFunctionBody(scope, boxed, body, st) ==
  LET inner == [st EXCEPT !.env = <<scope>>, !.boxed = boxed, !.laps = @ - 1]
      ran == RunBody(body, inner)
      back == [ran.st EXCEPT !.env = st.env, !.boxed = st.boxed]
  IN CASE st.laps = 0 -> End("spent", UnitValue, st)
       [] st.laps # 0 /\ ran.t = "return" -> Done(ran.v, back)
       [] st.laps # 0 /\ ran.t = "value" -> Done(UnitValue, back)
       [] st.laps # 0 /\ ran.t \in {"break", "continue"} -> Stuck(back)
       [] OTHER -> [ran EXCEPT !.st = back]

\* Parameters whose address the body takes are boxed. What the function returns is
\* tagged when its declared type is a union; a body that ends without a return yields
\* unit, whatever the function declares.
CallFunction(f, args, st) ==
  LET boxed == AddressTakenNames(f.body)
      names == [i \in DOMAIN f.params |-> f.params[i].name]
      fresh == [st EXCEPT !.env = <<NoNames>>, !.boxed = boxed]
      bound == FoldLeft(LAMBDA t, i : IF names[i] \in boxed
                                      THEN DefineBoxed(t, names[i], args[i])
                                      ELSE DefineValue(t, names[i], args[i]),
                        fresh, [i \in DOMAIN names |-> i])
      entered == [bound EXCEPT !.env = st.env, !.boxed = st.boxed]
      ran == RunFunctionBody(bound.env[1], boxed, f.body, entered)
  IN IF Len(args) # Len(f.params) THEN Stuck(st)
     ELSE Then(ran, LAMBDA v, t :
            IF f.returns = NoType \/ v.k = "unit" THEN Done(v, t)
            ELSE WrapForUnion(v, f.returns, t))

\* A closure's body sees what was captured and its parameters; nothing is tagged.
CallClosure(object, args, st) ==
  IF object.k = "fnref" THEN CallFunction(object.function, args, st)
  ELSE LET names == [i \in DOMAIN object.params |-> object.params[i].name]
           scope == [x \in ToSet(names) |->
                       args[Max({i \in DOMAIN names : names[i] = x})]]
       IN IF Len(args) < Len(names) THEN Stuck(st)
          ELSE RunFunctionBody(scope @@ object.captures, st.boxed, object.body, st)

\* An argument as a declared function receives it: a function's name becomes a closure,
\* an array a slice, a String a str, an alternative its union.
Argument(e, T, st) ==
  Then(EvalOrFunction(e, st), LAMBDA v, t :
    LET passed == CASE T.kind = "slice" /\ IsObject(v, "array", t) -> SliceValue(v.at)
                    [] T = Str /\ IsObject(v, "string", t) -> StrValue(TextOf(v, t))
                    [] OTHER -> v
    IN WrapForUnion(passed, T, t))

RECURSIVE Arguments(_, _, _)
Arguments(es, params, st) ==
  IF es = <<>> THEN Done(<<>>, st)
  ELSE Then(IF params = <<>> THEN EvalOrFunction(Head(es), st)
            ELSE Argument(Head(es), Head(params).type, st),
            LAMBDA v, t :
              Then(Arguments(Tail(es), IF params = <<>> THEN <<>> ELSE Tail(params), t),
                   LAMBDA vs, t2 : Done(<<v>> \o vs, t2)))

RECURSIVE SizeInBytes(_, _)
SizeInBytes(T, g) ==
  CASE T \in {I32, Bool, Char} -> 4
    [] T.kind \in {"named", "struct"} /\ NameOf(T) \in DOMAIN g.structs ->
         FoldLeft(LAMBDA sum, f : sum + SizeInBytes(f.type, g), 0,
                  g.structs[NameOf(T)].fields)
    [] OTHER -> 8

DefaultValue(T) ==
  CASE T = F64 -> DoubleValue(0)
    [] T = Bool -> BoolValue(FALSE)
    [] T = Char -> CharValue(0)
    [] OTHER -> IntValue(0)

Arena(T, n) == [k |-> "arena", elements |-> [i \in 1 .. n |-> DefaultValue(T)]]

NewArena(T, n, offset, st) ==
  Done(PointerValue(Len(st.heap) + 1, offset, T), [st EXCEPT !.heap = Append(@, Arena(T, n))])

\* malloc(bytes), by the type its declaration returns a pointer to.
Malloc(bytes, st) ==
  LET T == st.g.externs["malloc"].returns
      size == SizeInBytes(T.of, st.g)
  IN CASE T.kind # "pointer" -> Fault(st)
       [] T.kind = "pointer" /\ (~IsInteger(bytes) \/ size = 0) -> Stuck(st)
       [] T.kind = "pointer" /\ IsInteger(bytes) /\ size # 0 /\ bytes.n < 0 -> Fault(st)
       [] OTHER -> NewArena(T.of, bytes.n \div size, 0, st)

\* The interpreter has four externs of its own; it cannot run the others.
CallExtern(name, args, st) ==
  CASE name \notin {"puts", "abs", "malloc", "free"} ->
         IF name \in DOMAIN st.g.externs THEN Fault(st) ELSE Stuck(st)
    [] name \in {"puts", "abs", "malloc", "free"} /\ Len(args) # 1 -> Fault(st)
    [] name = "puts" /\ Len(args) = 1 ->
         IF IsText(args[1], st) THEN Done(UnitValue, st) ELSE Stuck(st)
    [] name = "abs" /\ Len(args) = 1 ->
         IF IsInteger(args[1])
         THEN Done(IntValue(IF args[1].n < 0 THEN -args[1].n ELSE args[1].n), st)
         ELSE Stuck(st)
    [] name = "malloc" /\ Len(args) = 1 -> Malloc(args[1], st)
    [] name = "free" /\ Len(args) = 1 ->
         IF args[1].k = "pointer" THEN Done(UnitValue, st) ELSE Stuck(st)

(***************************************************************************)
(* Texts, as bytes. A character is the code point its bytes encode.        *)
(***************************************************************************)
IsContinuation(byte) == byte \in 128 .. 191
CountCodepoints(text) == Len(SelectSeq(text, LAMBDA byte : ~IsContinuation(byte)))

Encoded(byte) ==
  CASE byte < 128 -> [length |-> 1, bits |-> byte]
    [] byte \in 192 .. 223 -> [length |-> 2, bits |-> byte % 32]
    [] byte \in 224 .. 239 -> [length |-> 3, bits |-> byte % 16]
    [] OTHER -> [length |-> 4, bits |-> byte % 8]

\* The byte past the end of a text reads as 0, one further on is not the text's.
RECURSIVE CodepointAt(_, _, _)
CodepointAt(text, i, st) ==
  IF text = <<>> \/ i < 0 THEN Fault(st)
  ELSE LET lead == Encoded(Head(text))
           padded == Append(text, 0)
       IN CASE i > 0 -> CodepointAt(SubSeq(text, lead.length + 1, Len(text)), i - 1, st)
            [] i = 0 /\ lead.length > Len(padded) -> Stuck(st)
            [] OTHER -> Done(CharValue(FoldLeft(LAMBDA bits, byte : bits * 64 + (byte % 64),
                                                lead.bits,
                                                SubSeq(padded, 2, lead.length))), st)

RECURSIVE TextLess(_, _), Digits(_)
TextLess(a, b) ==
  CASE b = <<>> -> FALSE
    [] a = <<>> /\ b # <<>> -> TRUE
    [] OTHER -> Head(a) < Head(b) \/ (Head(a) = Head(b) /\ TextLess(Tail(a), Tail(b)))

Digits(n) == IF n < 10 THEN <<48 + n>> ELSE Append(Digits(n \div 10), 48 + (n % 10))
NumberText(n) == IF n < 0 THEN <<45>> \o Digits(-n) ELSE Digits(n)
TrueText == <<116, 114, 117, 101>>
FalseText == <<102, 97, 108, 115, 101>>
Separator == <<44>>
NewLine == <<10>>

\* text.parse<T>(): digits, after a minus sign, and nothing else; or true or false.
ParseText(text, T, st) ==
  LET negative == text # <<>> /\ Head(text) = 45
      digits == IF negative THEN Tail(text) ELSE text
      n == FoldLeft(LAMBDA acc, byte : acc * 10 + byte - 48, 0, digits)
      signed == IF negative THEN -n ELSE n
      isNumber == digits # <<>> /\ \A i \in DOMAIN digits : digits[i] \in 48 .. 57
  IN CASE T \in {I32, I64} -> NewOptional(isNumber, IntValue(signed), st)
       [] T = F64 -> NewOptional(isNumber, DoubleValue(signed), st)
       [] T = Bool -> NewOptional(text \in {TrueText, FalseText}, BoolValue(text = TrueText),
                                  st)
       [] OTHER -> Stuck(st)

(***************************************************************************)
(* Display. A struct whose type has an impl of Display is shown by its     *)
(* format method, which writes to a fresh Buffer; the other values by a    *)
(* text of their own, of which only the parts and the commas are kept.     *)
(***************************************************************************)
NewBuffer(st) == New([k |-> "buffer", data |-> <<>>, capacity |-> 1], st)

RECURSIVE Show(_, _), ShowParts(_, _)

ShowParts(vs, st) ==
  IF vs = <<>> THEN Done(<<>>, st)
  ELSE Then(Show(Head(vs), st), LAMBDA text, t :
         Then(ShowParts(Tail(vs), t), LAMBDA rest, t2 :
           Done(IF rest = <<>> THEN text ELSE text \o Separator \o rest, t2)))

ShowStruct(v, st) ==
  LET object == ObjectOf(v, st)
      format == st.g.functions[<<object.type, "format">>]
      fields == st.g.structs[object.type].fields
  IN IF object.type \in st.g.displays
     THEN Then(NewBuffer(st), LAMBDA buffer, t :
            Then(CallFunction(format, <<v, buffer>>, t), LAMBDA u, t2 :
              Done(ObjectOf(buffer, t2).data, t2)))
     ELSE ShowParts([i \in DOMAIN fields |-> object.fields[fields[i].name]], st)

ShowObject(v, st) ==
  LET object == ObjectOf(v, st)
  IN CASE object.k \in {"string", "buffer"} -> Done(object.data, st)
       [] object.k \in {"optional", "result"} ->
            ShowParts(IF object.k = "result" \/ object.has THEN <<object.v>> ELSE <<>>, st)
       [] object.k = "enum" -> ShowParts(object.fields, st)
       [] object.k = "array" -> ShowParts(object.elements, st)
       [] object.k = "struct" -> ShowStruct(v, st)
       [] OTHER -> Done(<<>>, st)

Show(v, st) ==
  CASE v.k \in {"int", "double"} -> Done(NumberText(v.n), st)
    [] v.k = "bool" -> Done(IF v.b THEN TrueText ELSE FalseText, st)
    [] v.k = "char" -> Done(<<v.n>>, st)
    [] v.k = "str" -> Done(v.s, st)
    [] v.k = "ref" -> ShowObject(v, st)
    [] v.k = "slice" -> ShowParts(ObjectOf(v, st).elements, st)
    [] OTHER -> Done(<<>>, st)

\* What a format specification asks of the value it formats.
Formats(spec, v) ==
  CASE spec \in {"radix", "width"} -> v.k = "int"
    [] spec = "precision" -> v.k = "double"
    [] OTHER -> TRUE

RECURSIVE EvalPieces(_, _)
EvalPieces(pieces, st) ==
  IF pieces = <<>> THEN Done(<<>>, st)
  ELSE LET piece == Head(pieces)
           shown == IF piece.expr = Nothing THEN Done(piece.text, st)
                    ELSE Then(Eval(piece.expr, st), LAMBDA v, t :
                           IF Formats(piece.spec, v) THEN Show(v, t) ELSE Stuck(t))
       IN Then(shown, LAMBDA text, t :
            Then(EvalPieces(Tail(pieces), t), LAMBDA rest, t2 : Done(text \o rest, t2)))

EvalInterpolated(e, st) ==
  Then(EvalPieces(e.pieces, st), LAMBDA text, t : NewString(text, t))

(***************************************************************************)
(* Equality, order and hashing of values.                                  *)
(***************************************************************************)
\* == compares texts by their bytes, pointers by where they point and other objects by
\* identity.
Same(a, b, st) ==
  CASE IsText(a, st) -> IsText(b, st) /\ TextOf(a, st) = TextOf(b, st)
    [] a.k = "pointer" -> b.k = "pointer" /\ a.at = b.at /\ a.offset = b.offset
    [] OTHER -> a = b

\* The values a struct or an array is made of.
PartsOf(v, st) ==
  LET object == ObjectOf(v, st)
      fields == st.g.structs[object.type].fields
  IN IF object.k = "array" THEN object.elements
     ELSE [i \in DOMAIN fields |-> object.fields[fields[i].name]]

IsCompound(v, st) == IsObject(v, "struct", st) \/ IsObject(v, "array", st)

\* hash<T> and keyEq<T>: structs and arrays by their parts. The hash of a part is its
\* number here, what std::hash makes of it is left out.
HashRange == 97
RECURSIVE ValueHash(_, _), ValueEq(_, _, _)

ValueHash(v, st) ==
  CASE v.k = "int" -> v.n % HashRange
    [] v.k = "bool" -> IF v.b THEN 1 ELSE 0
    [] v.k = "str" -> FoldLeft(LAMBDA hash, byte : (hash * 31 + byte) % HashRange, 0, v.s)
    [] IsCompound(v, st) ->
         LET parts == PartsOf(v, st)
         IN FoldLeft(LAMBDA hash, i : (hash * 31 + ValueHash(parts[i], st)) % HashRange, 0,
                     [i \in DOMAIN parts |-> i])
    [] OTHER -> 0

ValueEq(a, b, st) ==
  CASE a.k \in {"int", "bool", "str"} -> a = b
    [] IsCompound(a, st) ->
         /\ b.k = "ref"
         /\ ObjectOf(a, st).k = ObjectOf(b, st).k
         /\ LET as == PartsOf(a, st)
                bs == PartsOf(b, st)
            IN Len(as) = Len(bs) /\ \A i \in DOMAIN as : ValueEq(as[i], bs[i], st)
    [] OTHER -> FALSE

\* The orders: whether a is less than b, where they are of one kind that has an order.
AreOrdered(a, b) ==
  \/ a.k = b.k /\ a.k \in {"str", "double"}
  \/ IsInteger(a) /\ IsInteger(b)
ValueLess(a, b) == IF a.k = "str" THEN TextLess(a.s, b.s) ELSE a.n < b.n

(***************************************************************************)
(* Operators.                                                              *)
(***************************************************************************)
Abs(n) == IF n < 0 THEN -n ELSE n
Quotient(m, n) ==
  IF (m < 0) = (n < 0) THEN Abs(m) \div Abs(n) ELSE -(Abs(m) \div Abs(n))

Compute(op, m, n) ==
  CASE op = "+" -> m + n
    [] op = "-" -> m - n
    [] op = "*" -> m * n
    [] op = "/" -> Quotient(m, n)
    [] op = "&" -> m & n

Compared(op, a, b) ==
  CASE op = "<" -> ValueLess(a, b)
    [] op = "<=" -> ~ValueLess(b, a)
    [] op = ">" -> ValueLess(b, a)
    [] op = ">=" -> ~ValueLess(a, b)

\* Arithmetic on a pointer moves its offset, on doubles it divides by zero without an
\* error (the quotient is left at 0 here).
Combine(op, a, b, st) ==
  CASE op \in {"+", "-"} /\ a.k = "pointer" ->
         IF IsInteger(b) THEN Done([a EXCEPT !.offset = Compute(op, @, b.n)], st)
         ELSE Stuck(st)
    [] op # "&" /\ a.k = "double" ->
         IF b.k # "double" THEN Stuck(st)
         ELSE Done(DoubleValue(IF op = "/" /\ b.n = 0 THEN 0 ELSE Compute(op, a.n, b.n)), st)
    [] ~(op \in {"+", "-"} /\ a.k = "pointer") /\ ~(op # "&" /\ a.k = "double") ->
         CASE ~IsInteger(a) \/ ~IsInteger(b) -> Stuck(st)
           [] IsInteger(a) /\ IsInteger(b) /\ op = "/" /\ b.n = 0 -> Fault(st)
           [] OTHER -> Done(IntValue(Compute(op, a.n, b.n)), st)

\* Both sides are evaluated, the left one first.
EvalBinary(e, st) ==
  Then(Eval(e.left, st), LAMBDA a, t : Then(Eval(e.right, t), LAMBDA b, t2 :
    CASE e.op \in {"==", "!="} ->
           IF IsText(a, t2) /\ ~IsText(b, t2) THEN Stuck(t2)
           ELSE Done(BoolValue(Same(a, b, t2) = (e.op = "==")), t2)
      [] e.op \in {"<", "<=", ">", ">="} ->
           IF AreOrdered(a, b) THEN Done(BoolValue(Compared(e.op, a, b)), t2)
           ELSE Stuck(t2)
      [] OTHER -> Combine(e.op, a, b, t2)))

\* A pointer that is cast points into a new arena of the same size in bytes, whose
\* elements are all the default of their type. (A null pointer is followed, a type of
\* size 0 divided by.)
CastPointer(p, T, st) ==
  LET from == SizeInBytes(p.of, st.g)
      to == SizeInBytes(T, st.g)
  IN IF p.at = 0 \/ to = 0 THEN Stuck(st)
     ELSE NewArena(T, (Len(st.heap[p.at].elements) * from) \div to,
                   Quotient(p.offset * from, to), st)

EvalCast(e, st) ==
  Then(Eval(e.operand, st), LAMBDA v, t :
    CASE v.k = "pointer" -> CastPointer(v, e.type.of, t)
      [] v.k # "pointer" /\ ~IsInteger(v) /\ v.k # "double" -> Stuck(t)
      [] OTHER -> Done(IF e.type = F64 THEN DoubleValue(v.n) ELSE IntValue(v.n), t))

EvalAddressOf(e, st) ==
  LET x == e.operand.name
      boxedIn == {i \in DOMAIN st.env : x \in DOMAIN st.env[i] /\ st.env[i][x].k = "cell"}
  IN Done(PointerValue(IF boxedIn = {} THEN 0 ELSE st.env[Max(boxedIn)][x].at, 0, NoType), st)

EvalDeref(e, st) ==
  Then(Eval(e.operand, st), LAMBDA p, t :
    CASE p.k # "pointer" -> Stuck(t)
      [] p.k = "pointer" /\ ~PointsInside(p, t) -> PointerFault(t)
      [] OTHER -> Done(t.heap[p.at].elements[p.offset + 1], t))

\* sizeof<T>(), hash<T>(value) and keyEq<T>(left, right).
EvalTypeBuiltin(e, st) ==
  CASE e.k = "sizeof" -> Done(IntValue(SizeInBytes(e.type, st.g)), st)
    [] e.k = "hash" ->
         Then(Eval(e.value, st), LAMBDA v, t : Done(IntValue(ValueHash(v, t)), t))
    [] e.k = "keyeq" ->
         Then(EvalAll(<<e.left, e.right>>, st), LAMBDA vs, t :
           Done(BoolValue(ValueEq(vs[1], vs[2], t)), t))

(***************************************************************************)
(* Control.                                                                *)
(***************************************************************************)
EvalBlock(b, st) ==
  Leave(Then(ExecAll(b.statements, Enter(st)), LAMBDA v, t : EvalOrUnit(b.result, t)), st)

EvalIf(e, st) ==
  Then(Eval(e.condition, st), LAMBDA c, t :
    IF c.k # "bool" THEN Stuck(t) ELSE Eval(IF c.b THEN e.then ELSE e.else, t))

\* The failure that is passed on is a new value.
EvalTry(e, st) ==
  Then(Eval(e.operand, st), LAMBDA v, t :
    LET object == ObjectOf(v, t)
    IN CASE v.k # "ref" -> Stuck(t)
         [] v.k = "ref" /\ object.k \notin {"optional", "result"} -> Stuck(t)
         [] v.k = "ref" /\ object.k \in {"optional", "result"} /\ ~object.has ->
              Then(New(object, t), LAMBDA failure, t2 : End("return", failure, t2))
         [] OTHER -> Done(object.v, t))

\* The names of an arm are never boxed.
EvalArm(arm, fields, st) ==
  IF Len(arm.names) > Len(fields) THEN Stuck(st)
  ELSE LET bound == FoldLeft(LAMBDA t, i : DefineValue(t, arm.names[i], fields[i]),
                             Enter(st), [i \in DOMAIN arm.names |-> i])
       IN Leave(Eval(arm.body, bound), st)

EvalMatch(e, st) ==
  Then(Eval(e.scrutinee, st), LAMBDA v, t :
    IF ~IsObject(v, "enum", t) THEN Stuck(t)
    ELSE LET object == ObjectOf(v, t)
             fitting == {i \in DOMAIN e.arms : e.arms[i].variant \in {"_", object.variant}}
         IN IF fitting = {} THEN Stuck(t)
            ELSE EvalArm(e.arms[Min(fitting)], object.fields, t))

\* What the body mentions and the environment binds is captured by value.
EvalClosure(e, st) ==
  LET names == {x \in ReferencedNames(e) : IsBound(st, x)}
  IN New([k |-> "closure", params |-> e.params, body |-> e.body,
          captures |-> [x \in names |-> Get(st, x)]], st)

\* What a name is called as: a closure it is bound to, a built-in, a function, an extern.
EvalCall(e, st) ==
  LET x == e.callee[2]
      local == e.callee[1] = "" /\ IsBound(st, x)
      callee == Get(st, x)
      isClosure == /\ local
                   /\ IsObject(callee, "closure", st) \/ IsObject(callee, "fnref", st)
  IN CASE isClosure -> Then(EvalAll(e.args, st), LAMBDA vs, t :
                         CallClosure(ObjectOf(callee, t), vs, t))
       [] ~isClosure /\ e.callee \in {<<"", "print">>, <<"", "write">>} ->
            FoldLeft(LAMBDA o, arg : Then(o, LAMBDA u, t : Then(Eval(arg, t), LAMBDA v, t2 :
                                       Then(Show(v, t2), LAMBDA s, t3 : Done(UnitValue, t3)))),
                     Done(UnitValue, st), e.args)
       [] /\ ~isClosure
          /\ e.callee \notin {<<"", "print">>, <<"", "write">>}
          /\ e.callee \in DOMAIN st.g.functions ->
            LET f == st.g.functions[e.callee]
            IN Then(Arguments(e.args, f.params, st), LAMBDA vs, t : CallFunction(f, vs, t))
       [] OTHER -> Then(EvalAll(e.args, st), LAMBDA vs, t : CallExtern(x, vs, t))

(***************************************************************************)
(* Methods. The arguments of a method, a variant or a function of a module *)
(* are evaluated as they are: nothing is tagged, turned into a slice or    *)
(* taken for a function's name.                                            *)
(***************************************************************************)
EvalQualified(e, st) ==
  LET owner == e.object.name
      name == <<owner, e.method>>
      isExtern == e.method \in DOMAIN st.g.externs /\ st.g.externs[e.method].module = owner
  IN Then(EvalAll(e.args, st), LAMBDA vs, t :
       CASE isExtern -> CallExtern(e.method, vs, t)
         [] ~isExtern /\ name \in DOMAIN st.g.functions ->
              CallFunction(st.g.functions[name], vs, t)
         [] OTHER -> Stuck(t))

\* unwrap_or evaluates what it falls back to only when it is needed.
UnwrapOr(e, v, st) ==
  CASE ~(IsObject(v, "optional", st) \/ IsObject(v, "result", st)) -> Stuck(st)
    [] (IsObject(v, "optional", st) \/ IsObject(v, "result", st)) /\ ObjectOf(v, st).has ->
         Done(ObjectOf(v, st).v, st)
    [] OTHER -> Eval(e.args[1], st)

\* v.is_some() and its like: whether an object of this kind has a value.
Asks(v, k, answer, st) ==
  IF IsObject(v, k, st) THEN Done(BoolValue(ObjectOf(v, st).has = answer), st)
  ELSE Stuck(st)

RECURSIVE ShowJoined(_, _, _)
ShowJoined(vs, separator, st) ==
  IF vs = <<>> THEN Done(<<>>, st)
  ELSE Then(Show(Head(vs), st), LAMBDA text, t :
         Then(ShowJoined(Tail(vs), separator, t), LAMBDA rest, t2 :
           Done(text \o (IF Len(vs) = 1 THEN <<>> ELSE separator) \o rest, t2)))

\* join looks at its object without asking whether it has elements.
Join(e, v, st) ==
  Then(Eval(e.args[1], st), LAMBDA separator, t :
    IF ~IsSequence(v, t) \/ ~IsText(separator, t) THEN Stuck(t)
    ELSE Then(ShowJoined(ObjectOf(v, t).elements, TextOf(separator, t), t), LAMBDA text, t2 :
           NewString(text, t2)))

\* The capacity doubles, or grows to what is needed when that is more.
Grown(buffer, needed) ==
  IF needed <= buffer.capacity THEN buffer
  ELSE [buffer EXCEPT !.capacity = IF needed > 2 * @ THEN needed ELSE 2 * @]

\* A Buffer's text ends in a zero byte that counts towards its capacity.
Appended(buffer, text) ==
  [Grown(buffer, Len(buffer.data) + Len(text) + 1) EXCEPT !.data = @ \o text]

AppendTo(v, e, ending, st) ==
  Then(Eval(e.args[1], st), LAMBDA text, t :
    IF ~IsText(text, t) THEN Stuck(t)
    ELSE LET object == ObjectOf(v, t)
             added == TextOf(text, t) \o ending
         IN Done(UnitValue,
                 SetObject(v, IF object.k = "buffer" THEN Appended(object, added)
                              ELSE [object EXCEPT !.data = @ \o added], t)))

Reserve(v, e, st) ==
  Then(Eval(e.args[1], st), LAMBDA n, t :
    CASE ~IsInteger(n) -> Stuck(t)
      [] IsInteger(n) /\ n.n < 0 -> Fault(t)
      [] OTHER -> Done(UnitValue, SetObject(v, Grown(ObjectOf(v, t), n.n), t)))

\* finish hands the text over and leaves an empty Buffer.
Finish(v, st) ==
  Then(NewString(ObjectOf(v, st).data, st), LAMBDA text, t :
    Done(text, SetObject(v, [k |-> "buffer", data |-> <<>>, capacity |-> 1], t)))

EvalTextMethod(e, v, st) ==
  LET isBuffer == ObjectOf(v, st).k = "buffer"
  IN CASE e.method = "append" -> AppendTo(v, e, <<>>, st)
       [] isBuffer /\ e.method = "write" -> AppendTo(v, e, <<>>, st)
       [] isBuffer /\ e.method = "append_line" -> AppendTo(v, e, NewLine, st)
       [] isBuffer /\ e.method = "clear" ->
            Done(UnitValue, SetObject(v, [ObjectOf(v, st) EXCEPT !.data = <<>>], st))
       [] isBuffer /\ e.method = "reserve" -> Reserve(v, e, st)
       [] isBuffer /\ e.method = "finish" -> Finish(v, st)
       [] OTHER -> Stuck(st)

EvalStructMethod(e, v, st) ==
  LET name == <<ObjectOf(v, st).type, e.method>>
  IN IF name \in DOMAIN st.g.functions /\ st.g.functions[name].params # <<>>
     THEN Then(EvalAll(e.args, st), LAMBDA vs, t :
            CallFunction(st.g.functions[name], <<v>> \o vs, t))
     ELSE Stuck(st)

HasOwnClone(v, st) ==
  /\ IsObject(v, "struct", st)
  /\ <<ObjectOf(v, st).type, "clone">> \in DOMAIN st.g.functions

\* The methods found by their name, whatever the object is, come first.
CallMethod(e, v, st) ==
  CASE e.method = "clone" /\ ~HasOwnClone(v, st) -> Done(v, st)
    [] e.method = "parse" ->
         IF IsText(v, st) THEN ParseText(TextOf(v, st), e.types[1], st) ELSE Stuck(st)
    [] e.method = "to_cstr" ->
         IF IsText(v, st) THEN Done(StrValue(TextOf(v, st)), st) ELSE Stuck(st)
    [] e.method = "unwrap_or" -> UnwrapOr(e, v, st)
    [] e.method \in {"is_some", "is_none"} -> Asks(v, "optional", e.method = "is_some", st)
    [] e.method \in {"is_ok", "is_err"} -> Asks(v, "result", e.method = "is_ok", st)
    [] e.method = "join" -> Join(e, v, st)
    [] /\ e.method \notin {"parse", "to_cstr", "unwrap_or", "is_some", "is_none", "is_ok",
                           "is_err", "join"}
       /\ ~(e.method = "clone" /\ ~HasOwnClone(v, st)) ->
         CASE IsObject(v, "string", st) \/ IsObject(v, "buffer", st) ->
                EvalTextMethod(e, v, st)
           [] IsObject(v, "struct", st) -> EvalStructMethod(e, v, st)
           [] OTHER -> Stuck(st)

NamesOneOf(e, S) == e.k = "name" /\ e.name \in S

EvalMethod(e, st) ==
  CASE NamesOneOf(e.object, DOMAIN st.g.enums) ->
         Then(EvalAll(e.args, st), LAMBDA vs, t :
           NewEnum(EnumType(e.object.name), e.method, vs, t))
    [] NamesOneOf(e.object, st.g.modules \ DOMAIN st.g.enums) -> EvalQualified(e, st)
    [] OTHER -> Then(Eval(e.object, st), LAMBDA v, t : CallMethod(e, v, t))

(***************************************************************************)
(* Fields, elements and the values that are built from parts.              *)
(***************************************************************************)
TextField(text, f, st) ==
  CASE f = "length" -> Done(IntValue(CountCodepoints(text)), st)
    [] f = "bytes" -> Done(IntValue(Len(text)), st)
    [] OTHER -> Stuck(st)

FieldOf(v, f, st) ==
  CASE IsSequence(v, st) ->
         IF f = "length" THEN Done(IntValue(Len(ObjectOf(v, st).elements)), st)
         ELSE Stuck(st)
    [] IsText(v, st) -> TextField(TextOf(v, st), f, st)
    [] IsObject(v, "buffer", st) ->
         IF f = "capacity" THEN Done(IntValue(ObjectOf(v, st).capacity), st)
         ELSE TextField(ObjectOf(v, st).data, f, st)
    [] IsObject(v, "struct", st) ->
         IF f \in DOMAIN ObjectOf(v, st).fields THEN Done(ObjectOf(v, st).fields[f], st)
         ELSE Stuck(st)
    [] OTHER -> Stuck(st)

EvalField(e, st) ==
  IF NamesOneOf(e.object, DOMAIN st.g.enums)
  THEN NewEnum(EnumType(e.object.name), e.field, <<>>, st)
  ELSE Then(Eval(e.object, st), LAMBDA v, t : FieldOf(v, e.field, t))

\* The fields are evaluated in the order of the declaration, not of the literal.
EvalStructLiteral(e, st) ==
  LET known == e.type.name \in DOMAIN st.g.structs
      declared == st.g.structs[e.type.name].fields
      names == [i \in DOMAIN declared |-> declared[i].name]
      first(x) == Min({j \in DOMAIN e.fields : e.fields[j].name = x})
      given == {e.fields[j].name : j \in DOMAIN e.fields}
      at(x) == CHOOSE i \in DOMAIN names : names[i] = x
  IN IF ~known \/ ~(ToSet(names) \subseteq given) THEN Stuck(st)
     ELSE Then(EvalAll([i \in DOMAIN names |-> e.fields[first(names[i])].value], st),
               LAMBDA vs, t : New([k |-> "struct", type |-> e.type.name,
                                   fields |-> [x \in ToSet(names) |-> vs[at(x)]]], t))

EvalIndex(e, st) ==
  Then(Eval(e.object, st), LAMBDA v, t :
    IF ~IsText(v, t) /\ ~IsSequence(v, t) THEN Stuck(t)
    ELSE Then(Eval(e.index, t), LAMBDA i, t2 :
      CASE ~IsInteger(i) -> Stuck(t2)
        [] IsInteger(i) /\ IsText(v, t2) -> CodepointAt(TextOf(v, t2), i.n, t2)
        [] IsInteger(i) /\ ~IsText(v, t2) /\ ~InRange(i, v, t2) -> Fault(t2)
        [] OTHER -> Done(ObjectOf(v, t2).elements[i.n + 1], t2)))

\* A slice of a text, by bytes.
EvalStrSlice(e, st) ==
  Then(Eval(e.object, st), LAMBDA v, t :
    IF ~IsText(v, t) THEN Stuck(t)
    ELSE LET text == TextOf(v, t)
             bound(b, default, s) == IF b = Nothing THEN Done(IntValue(default), s)
                                     ELSE Eval(b, s)
         IN Then(bound(e.start, 0, t), LAMBDA i, t2 :
              Then(bound(e.end, Len(text), t2), LAMBDA j, t3 :
                CASE ~IsInteger(i) \/ ~IsInteger(j) -> Stuck(t3)
                  [] /\ IsInteger(i) /\ IsInteger(j)
                     /\ i.n < 0 \/ j.n > Len(text) \/ i.n > j.n -> Fault(t3)
                  [] OTHER -> Done(StrValue(SubSeq(text, i.n + 1, j.n)), t3))))

EvalHeapArrayNew(e, st) ==
  Then(Eval(e.size, st), LAMBDA n, t :
    CASE ~IsInteger(n) -> Stuck(t)
      [] IsInteger(n) /\ n.n < 0 -> Fault(t)
      [] OTHER -> NewArray([i \in 1 .. n.n |-> DefaultValue(e.type)], t))

\* Some, Ok, Err, share and String(text). A shared value is the value itself.
EvalWrapper(e, st) ==
  Then(Eval(IF e.k = "stringnew" THEN e.text ELSE e.value, st), LAMBDA v, t :
    CASE e.k = "some" -> NewOptional(TRUE, v, t)
      [] e.k \in {"ok", "err"} -> NewResult(e.k = "ok", v, t)
      [] e.k = "share" -> Done(v, t)
      [] e.k = "stringnew" -> IF IsText(v, t) THEN NewString(TextOf(v, t), t) ELSE Stuck(t))

\* The one entry to what is run, expressions and statements.
Eval(e, st) ==
  CASE e.k = "literal" -> Done(LiteralValue(e), st)
    [] e.k = "name" -> IF IsBound(st, e.name) THEN Done(Get(st, e.name), st) ELSE Stuck(st)
    [] e.k = "None" -> NewOptional(FALSE, UnitValue, st)
    [] e.k = "null" -> Done(PointerValue(0, 0, NoType), st)
    [] e.k = "interpolated" -> EvalInterpolated(e, st)
    [] e.k = "if" -> EvalIf(e, st)
    [] e.k = "loop" -> Iterate(Nothing, e.body, st)
    [] e.k = "unsafe" -> Eval(e.body, st)
    [] e.k = "addressof" -> EvalAddressOf(e, st)
    [] e.k = "deref" -> EvalDeref(e, st)
    [] e.k = "block" -> EvalBlock(e, st)
    [] e.k = "call" -> EvalCall(e, st)
    [] e.k = "method" -> EvalMethod(e, st)
    [] e.k = "field" -> EvalField(e, st)
    [] e.k = "array" -> Then(EvalAll(e.elements, st), LAMBDA vs, t : NewArray(vs, t))
    [] e.k = "heaparraynew" -> EvalHeapArrayNew(e, st)
    [] e.k = "buffernew" -> NewBuffer(st)
    [] e.k = "index" -> EvalIndex(e, st)
    [] e.k = "slice" -> EvalStrSlice(e, st)
    [] e.k = "struct" -> EvalStructLiteral(e, st)
    [] e.k = "binary" -> EvalBinary(e, st)
    [] e.k = "cast" -> EvalCast(e, st)
    [] e.k \in {"sizeof", "hash", "keyeq"} -> EvalTypeBuiltin(e, st)
    [] e.k \in {"some", "ok", "err", "share", "stringnew"} -> EvalWrapper(e, st)
    [] e.k = "try" -> EvalTry(e, st)
    [] e.k = "match" -> EvalMatch(e, st)
    [] e.k = "closure" -> EvalClosure(e, st)
    [] OTHER -> Exec(e, st)

(***************************************************************************)
(* run: every declaration first, then the assignments and expressions of   *)
(* the top level in order, in one environment.                             *)
(***************************************************************************)
Displays(items, g) ==
  {items[i].name : i \in {j \in DOMAIN items :
     /\ items[j].k = "impl"
     /\ items[j].trait = "Display"
     /\ <<items[j].name, "format">> \in DOMAIN g.functions}}

IsStatement(item) == item.k \in {"assign", "expr"}

\* The machine between two statements. laps bounds the turns of loops and the nesting of
\* calls in the next one.
Machine(items, g, heap, globals, laps) ==
  [heap |-> heap,
   env |-> <<globals>>,
   boxed |-> UNION {AddressTakenNames(items[i]) :
                    i \in {j \in DOMAIN items : IsStatement(items[j])}},
   laps |-> laps,
   g |-> g @@ [displays |-> Displays(items, g)]]

RunItem(item, st) == IF IsStatement(item) THEN Eval(item, st) ELSE Done(UnitValue, st)

===============================================================================
