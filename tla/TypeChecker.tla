------------------------------ MODULE TypeChecker ------------------------------
(***************************************************************************)
(* sema/TypeChecker.cpp: the types of expressions, what statements define, *)
(* and which programs are rejected. The checker throws at the first error; *)
(* here an expression in error has the type Wrong and a statement in error *)
(* the environment <<>>.                                                   *)
(*                                                                         *)
(* An environment is the sequence of its scopes, the innermost last, each  *)
(* a function from the names it defines to their types. ctx holds what     *)
(* the checker keeps beside it: g, the declarations; returns, the type the *)
(* enclosing function declares (NoType at the top level); unsafe and       *)
(* closure, whether an unsafe block or a closure's body is open; loop,     *)
(* whether a loop of this function is; and module, the owner of the        *)
(* function's name.                                                        *)
(***************************************************************************)
EXTENDS Programs
LOCAL INSTANCE SequencesExt
LOCAL INSTANCE TLC

(***************************************************************************)
(* Declarations: g.functions by qualified name, g.structs, g.enums,        *)
(* g.externs and g.traits by name, and g.modules, every owner of a         *)
(* function and every module of an extern.                                 *)
(***************************************************************************)
Concrete(d) == "tparams" \notin DOMAIN d \/ d.tparams = <<>>

DeclarationsOf(items, k) == SelectSeq(items, LAMBDA d : d.k = k /\ Concrete(d))

\* The last declaration of a name is the one the tables keep.
ByName(ds) ==
  [n \in {d.name : d \in ToSet(ds)} |->
     ds[CHOOSE i \in DOMAIN ds :
          ds[i].name = n /\ \A j \in i + 1 .. Len(ds) : ds[j].name # n]]

FunctionsOf(items) ==
  FlattenSeq([i \in DOMAIN items |->
    CASE items[i].k = "function" /\ Concrete(items[i]) -> <<items[i]>>
      [] items[i].k = "impl" /\ Concrete(items[i]) -> items[i].methods
      [] OTHER -> <<>>])

Register(items) ==
  LET functions == ByName(FunctionsOf(items))
      externs == ByName(DeclarationsOf(items, "extern"))
  IN [functions |-> functions,
      externs |-> externs,
      structs |-> ByName(DeclarationsOf(items, "structdecl")),
      enums |-> ByName(DeclarationsOf(items, "enumdecl")),
      traits |-> ByName(DeclarationsOf(items, "trait")),
      modules |-> ({name[1] : name \in DOMAIN functions}
                    \cup {e.module : e \in {externs[n] : n \in DOMAIN externs}}) \ {""}]

(***************************************************************************)
(* Types: resolving a name, and the relations between types.               *)
(***************************************************************************)
\* What a union may be of: a type spelled without a bracket, a comma or a bar.
RECURSIVE IsSimple(_)
IsSimple(T) ==
  \/ T \in Primitives \cup {OwnedString, Buffer}
  \/ T.kind \in {"named", "struct", "enum"}
  \/ T.kind = "pointer" /\ IsSimple(T.of)

RECURSIVE Resolve(_, _)

ResolveWrapped(T, g) ==
  LET inner == Resolve(T.of, g)
  IN IF inner = Wrong THEN Wrong ELSE [T EXCEPT !.of = inner]

ResolveResult(T, g) ==
  LET ok == Resolve(T.of, g)
      err == Resolve(T.err, g)
  IN IF Wrong \in {ok, err} \/ "slice" \in {ok.kind, err.kind}
     THEN Wrong
     ELSE Result(ok, err)

ResolveUnion(T, g) ==
  LET resolved == [i \in DOMAIN T.alternatives |-> Resolve(T.alternatives[i], g)]
  IN IF \E i \in DOMAIN resolved : resolved[i] = Wrong \/ ~IsSimple(T.alternatives[i])
     THEN Wrong
     ELSE Union(resolved)

ResolveFn(T, g) ==
  LET params == [i \in DOMAIN T.params |-> Resolve(T.params[i], g)]
      result == Resolve(T.result, g)
  IN IF result = Wrong \/ Wrong \in ToSet(params) THEN Wrong ELSE Fn(params, result)

ResolveName(T, g) ==
  CASE T.name \in DOMAIN g.structs -> StructType(T.name)
    [] T.name \in DOMAIN g.enums -> EnumType(T.name)
    [] OTHER -> Wrong

Resolve(T, g) ==
  CASE T \in Primitives \cup {OwnedString, Buffer} -> T
    [] T.kind \in {"pointer", "slice", "optional", "shared", "heaparray", "array"} ->
         ResolveWrapped(T, g)
    [] T.kind = "result" -> ResolveResult(T, g)
    [] T.kind = "union" -> ResolveUnion(T, g)
    [] T.kind = "fn" -> ResolveFn(T, g)
    [] T.kind \in {"named", "struct", "enum"} -> ResolveName(T, g)
    [] OTHER -> Wrong

ReturnType(d, g) == IF d.returns = NoType THEN Unit ELSE Resolve(d.returns, g)

IsNumeric(T) == T \in {I32, I64, F64}
IsOrderable(T) == IsNumeric(T) \/ T \in {Char, Str}
IsStrCoercible(T) == T \in {Str, OwnedString}
IsNullPointerCoercion(from, to) == from = NullPointer /\ to.kind = "pointer"
IsFfiSafe(T) == T \in {I32, I64, Bool, Str, CStr} \/ T.kind = "pointer"
IsTextRepresentable(T) ==
  \/ T \in {I32, I64, F64, Bool, Char, Str, OwnedString}
  \/ T.kind \in {"optional", "result", "enum", "union", "struct", "array", "slice"}
IsIndexable(T) == T.kind \in {"array", "slice", "heaparray"}

IsUnionMember(T, target) ==
  target.kind = "union" /\ T \in ToSet(target.alternatives)

\* A struct of hashable fields, as long as it does not contain itself; seen holds the
\* structs met so far, wherever in the type they were met.
RECURSIVE Hashed(_, _, _)
Hashed(T, seen, g) ==
  CASE T \in {I32, Bool, Str} -> [ok |-> TRUE, seen |-> seen]
    [] T.kind = "array" -> Hashed(Resolve(T.of, g), seen, g)
    [] T.kind = "struct" ->
         IF T.name \in seen
         THEN [ok |-> FALSE, seen |-> seen]
         ELSE FoldLeft(LAMBDA acc, f : IF ~acc.ok THEN acc
                                       ELSE Hashed(Resolve(f.type, g), acc.seen, g),
                       [ok |-> TRUE, seen |-> seen \cup {T.name}],
                       g.structs[T.name].fields)
    [] OTHER -> [ok |-> FALSE, seen |-> seen]
IsHashable(T, g) == Hashed(T, {}, g).ok

(***************************************************************************)
(* registerSignatures: what is wrong with the declarations themselves.     *)
(***************************************************************************)
Reserved == {<<"", "print">>, <<"", "write">>}

NamesAreFree(items, g) ==
  LET written == {d.name : d \in ToSet(DeclarationsOf(items, "function"))}
      externs == {<<"", n>> : n \in DOMAIN g.externs}
  IN /\ written \cap Reserved = {}
     /\ externs \cap Reserved = {}
     /\ externs \cap written = {}

\* The impl's target exists: a struct, or for a generic impl a template with as many
\* parameters.
TargetsAreKnown(items, g) ==
  \A d \in ToSet(items) : d.k = "impl" =>
    IF Concrete(d)
    THEN d.name \in DOMAIN g.structs
    ELSE \E s \in ToSet(items) : /\ s.k = "structdecl"
                                 /\ s.name = d.name
                                 /\ Len(s.tparams) = Len(d.tparams)

FunctionTypesAreGood(g) ==
  \A n \in DOMAIN g.functions :
    LET f == g.functions[n]
    IN /\ \A i \in DOMAIN f.params : Resolve(f.params[i].type, g) # Wrong
       /\ ReturnType(f, g) # Wrong
       /\ ReturnType(f, g).kind # "slice"

ExternTypesAreGood(g) ==
  \A n \in DOMAIN g.externs :
    LET e == g.externs[n]
    IN /\ \A i \in DOMAIN e.params : IsFfiSafe(Resolve(e.params[i].type, g))
       /\ e.returns # NoType => IsFfiSafe(Resolve(e.returns, g))

FieldTypesAreGood(g) ==
  \A n \in DOMAIN g.structs : \A f \in ToSet(g.structs[n].fields) :
    LET T == Resolve(f.type, g)
    IN T # Wrong /\ T.kind # "slice" /\ T \notin {OwnedString, Buffer}

Declares(d, method, arity) ==
  \E m \in ToSet(d.methods) : m.name = <<d.name, method>> /\ Len(m.params) = arity

ImplsAreComplete(items, g) ==
  \A d \in ToSet(items) : d.k = "impl" =>
    /\ d.trait \in DOMAIN g.traits =>
         \A sig \in ToSet(g.traits[d.trait].methods) : Declares(d, sig.name, sig.arity)
    /\ d.trait = "Display" => Declares(d, "format", 2)

SignaturesAreGood(items, g) ==
  /\ NamesAreFree(items, g)
  /\ TargetsAreKnown(items, g)
  /\ FunctionTypesAreGood(g)
  /\ ExternTypesAreGood(g)
  /\ FieldTypesAreGood(g)
  /\ ImplsAreComplete(items, g)

(***************************************************************************)
(* Environments, and the answers of the checker. An expression has a type  *)
(* and the types of the breaks met in it, which belong to the enclosing    *)
(* loop; a statement has the environment it leaves.                        *)
(***************************************************************************)
Empty == [x \in {} |-> Unit]

Binds(env, x) == \E i \in DOMAIN env : x \in DOMAIN env[i]

TypeIn(env, x) ==
  IF Binds(env, x)
  THEN LET innermost == CHOOSE i \in DOMAIN env :
             x \in DOMAIN env[i] /\ \A j \in i + 1 .. Len(env) : x \notin DOMAIN env[j]
       IN env[innermost][x]
  ELSE Wrong

Define(env, x, T) == [env EXCEPT ![Len(env)] = (x :> T) @@ @]

Typed(T) == [type |-> T, breaks |-> {}]
Fail == Typed(Wrong)

BreaksOf(answers) == UNION {answers[i].breaks : i \in DOMAIN answers}

\* The answer of a construct whose parts have these answers: T, under a condition.
Rule(answers, condition, T) ==
  IF \E i \in DOMAIN answers : answers[i].type = Wrong THEN Fail
  ELSE IF condition THEN [type |-> T, breaks |-> BreaksOf(answers)] ELSE Fail

\* What a statement leaves whose parts have these answers.
Leaves(answers, Good(_), Env(_)) ==
  IF (\A i \in DOMAIN answers : answers[i].type # Wrong) /\ Good(answers)
  THEN [env |-> Env(answers), breaks |-> BreaksOf(answers)]
  ELSE [env |-> <<>>, breaks |-> {}]

With(answer, breaks) == [answer EXCEPT !.breaks = @ \cup breaks]
Without(answer) == [answer EXCEPT !.breaks = {}]

(***************************************************************************)
(* Which blocks always return. The branches of an if are read as blocks,   *)
(* but the else branch may itself be an if (else if), whose memory is then *)
(* taken for a block's: what comes of that is undefined, and ctx.misread   *)
(* is what it is taken to say.                                             *)
(***************************************************************************)
RECURSIVE ContainsBreak(_)
ContainsBreak(e) ==
  CASE e.k = "block" ->
         \/ \E s \in ToSet(e.statements) :
              s.k = "break" \/ (s.k = "expr" /\ ContainsBreak(s.expr))
         \/ ContainsBreak(e.result)
    [] e.k = "if" -> ContainsBreak(e.then) \/ ContainsBreak(e.else)
    [] e.k = "unsafe" -> ContainsBreak(e.body)
    [] e.k = "match" -> \E arm \in ToSet(e.arms) : ContainsBreak(arm.body)
    [] OTHER -> FALSE

RECURSIVE DefinitelyReturns(_, _)

BranchReturns(e, misread) ==
  /\ DefinitelyReturns(e.then, misread)
  /\ IF e.else.k = "if" THEN misread ELSE DefinitelyReturns(e.else, misread)

ExprReturns(e, misread) ==
  CASE e.k = "if" -> BranchReturns(e, misread)
    [] e.k = "unsafe" -> DefinitelyReturns(e.body, misread)
    [] e.k = "loop" -> ~ContainsBreak(e.body)
    [] OTHER -> FALSE

DefinitelyReturns(block, misread) ==
  \/ \E s \in ToSet(block.statements) :
       s.k = "return" \/ (s.k = "expr" /\ ExprReturns(s.expr, misread))
  \/ ExprReturns(block.result, misread)

(***************************************************************************)
(* What a value may be put where a type is expected.                       *)
(***************************************************************************)
RECURSIVE Check(_, _, _)

CheckAll(es, env, ctx) == [i \in DOMAIN es |-> Check(es[i], env, ctx)]

ClosureType(e, g) ==
  Resolve(Fn([i \in DOMAIN e.params |-> e.params[i].type],
             IF e.returns = NoType THEN Unit ELSE e.returns), g)

\* The bare name of a function where a closure is expected.
IsFunctionRef(e, T, env, ctx) ==
  /\ T.kind = "fn"
  /\ e.k = "name"
  /\ ~Binds(env, e.name)
  /\ <<"", e.name>> \in DOMAIN ctx.g.functions
  /\ LET f == ctx.g.functions[<<"", e.name>>]
     IN T = Fn([i \in DOMAIN f.params |-> Resolve(f.params[i].type, ctx.g)],
               ReturnType(f, ctx.g))

\* None, Ok and Err, which have no type of their own, at the two places that give them
\* one: a declared variable and a return.
CheckExpected(e, T, env, ctx) ==
  CASE e.k = "None" /\ T.kind = "optional" -> Typed(T)
    [] e.k \in {"ok", "err"} /\ T.kind = "result" ->
         LET payload == Check(e.value, env, ctx)
         IN Rule(<<payload>>, payload.type = IF e.k = "ok" THEN T.of ELSE T.err, T)
    [] IsFunctionRef(e, T, env, ctx) -> Typed(T)
    [] OTHER -> Check(e, env, ctx)

Fits(from, to) ==
  from = to \/ IsUnionMember(from, to) \/ IsNullPointerCoercion(from, to)

\* An argument also turns an array into a slice and a String into a str.
FitsArgument(from, to) ==
  \/ Fits(from, to)
  \/ from.kind = "array" /\ to = Slice(from.of)
  \/ from = OwnedString /\ to = Str

CheckArgument(e, T, env, ctx) ==
  LET answer == Check(e, env, ctx)
  IN IF IsFunctionRef(e, T, env, ctx) THEN Typed(T)
     ELSE Rule(<<answer>>, FitsArgument(answer.type, T), T)

CheckCall(types, result, args, env, ctx) ==
  IF Len(args) # Len(types) THEN Fail
  ELSE Rule([i \in DOMAIN args |->
               CheckArgument(args[i], Resolve(types[i], ctx.g), env, ctx)], TRUE, result)

CheckDeclared(f, args, env, ctx) ==
  CheckCall([i \in DOMAIN f.params |-> f.params[i].type], ReturnType(f, ctx.g),
            args, env, ctx)

(***************************************************************************)
(* Statements.                                                             *)
(***************************************************************************)
\* An assignment defines its name in the innermost scope, also when an outer one binds
\* it. A closure may name itself: its type is known before its body is checked.
AssignedTo(D, s, env, ctx) ==
  LET scope == IF s.value.k = "closure"
               THEN Define(env, s.name, ClosureType(s.value, ctx.g))
               ELSE env
  IN Leaves(<<IF D = NoType THEN Check(s.value, scope, ctx)
              ELSE CheckExpected(s.value, D, scope, ctx)>>,
            LAMBDA value :
              D # NoType => (D # Wrong /\ D.kind # "slice" /\ Fits(value[1].type, D)),
            LAMBDA value : Define(env, s.name, IF D = NoType THEN value[1].type ELSE D))

CheckAssign(s, env, ctx) ==
  AssignedTo(IF s.type = NoType THEN NoType ELSE Resolve(s.type, ctx.g), s, env, ctx)

CheckReturn(s, env, ctx) ==
  Leaves(<<IF s.value = Nothing THEN Typed(Unit)
           ELSE CheckExpected(s.value, ctx.returns, env, ctx)>>,
         LAMBDA value : ctx.returns # NoType /\ Fits(value[1].type, ctx.returns),
         LAMBDA value : env)

FieldType(T, f, g) ==
  LET owner == IF T.kind = "shared" THEN T.of ELSE T
  IN CASE IsIndexable(T) -> IF f = "length" THEN I32 ELSE Wrong
       [] IsStrCoercible(T) -> IF f \in {"length", "bytes"} THEN I32 ELSE Wrong
       [] T = Buffer -> IF f \in {"length", "bytes", "capacity"} THEN I32 ELSE Wrong
       [] owner.kind = "struct" ->
            LET fields == ToSet(g.structs[owner.name].fields)
            IN IF \E d \in fields : d.name = f
               THEN Resolve((CHOOSE d \in fields : d.name = f).type, g)
               ELSE Wrong
       [] OTHER -> Wrong

CanBeStored(from, to) == from = to \/ IsNullPointerCoercion(from, to)

CheckFieldAssign(s, env, ctx) ==
  Leaves(CheckAll(<<s.object, s.value>>, env, ctx),
         LAMBDA parts : LET T == FieldType(parts[1].type, s.field, ctx.g)
                        IN T # Wrong /\ CanBeStored(parts[2].type, T),
         LAMBDA parts : env)

\* An index written as a literal is held against the size of an array.
IsInside(i, T) ==
  (T.kind = "array" /\ i.k = "literal" /\ i.type = I32) => i.n \in 0 .. T.size - 1

CheckIndexAssign(s, env, ctx) ==
  Leaves(CheckAll(<<s.object, s.index, s.value>>, env, ctx),
         LAMBDA parts : /\ IsIndexable(parts[1].type)
                        /\ parts[2].type = I32
                        /\ IsInside(s.index, parts[1].type)
                        /\ parts[3].type = parts[1].type.of,
         LAMBDA parts : env)

CheckDerefAssign(s, env, ctx) ==
  Leaves(CheckAll(<<s.pointer, s.value>>, env, ctx),
         LAMBDA parts : /\ parts[1].type.kind = "pointer"
                        /\ ctx.unsafe
                        /\ CanBeStored(parts[2].type, parts[1].type.of),
         LAMBDA parts : env)

CheckIncDec(s, env, ctx) ==
  Leaves(<<Check(s.target, env, ctx)>>, LAMBDA target : target[1].type = I32,
         LAMBDA target : env)

\* A while takes the breaks of its body, which have no value.
CheckWhile(s, env, ctx) ==
  LET Closed(condition, body) ==
        Leaves(<<condition, Without(body)>>,
               LAMBDA parts : condition.type = Bool /\ body.breaks \subseteq {Unit},
               LAMBDA parts : env)
  IN Closed(Check(s.condition, env, ctx), Check(s.body, env, [ctx EXCEPT !.loop = TRUE]))

CheckBreak(s, env, ctx) ==
  LET Broken(value) == Leaves(<<With(value, {value.type})>>, LAMBDA parts : ctx.loop,
                              LAMBDA parts : env)
  IN Broken(IF s.value = Nothing THEN Typed(Unit) ELSE Check(s.value, env, ctx))

CheckStatement(s, env, ctx) ==
  CASE s.k = "assign" -> CheckAssign(s, env, ctx)
    [] s.k = "return" -> CheckReturn(s, env, ctx)
    [] s.k = "expr" -> Leaves(<<Check(s.expr, env, ctx)>>, LAMBDA value : TRUE, LAMBDA value : env)
    [] s.k = "fieldassign" -> CheckFieldAssign(s, env, ctx)
    [] s.k = "indexassign" -> CheckIndexAssign(s, env, ctx)
    [] s.k = "derefassign" -> CheckDerefAssign(s, env, ctx)
    [] s.k = "incdec" -> CheckIncDec(s, env, ctx)
    [] s.k = "while" -> CheckWhile(s, env, ctx)
    [] s.k = "break" -> CheckBreak(s, env, ctx)
    [] s.k = "continue" -> Leaves(<<>>, LAMBDA none : ctx.loop, LAMBDA none : env)

CheckStatements(ss, env, ctx) ==
  FoldLeft(LAMBDA left, s : IF left.env = <<>> THEN left
                            ELSE With(CheckStatement(s, left.env, ctx), left.breaks),
           [env |-> env, breaks |-> {}], ss)

CheckBlock(b, env, ctx) ==
  LET Ended(inside) ==
        IF inside.env = <<>> THEN Fail
        ELSE With(IF b.result = Nothing THEN Typed(Unit)
                  ELSE Check(b.result, inside.env, ctx), inside.breaks)
  IN Ended(CheckStatements(b.statements, Append(env, Empty), ctx))

(***************************************************************************)
(* Expressions, one operator per kind or group of kinds.                   *)
(***************************************************************************)
\* What a piece's format specification asks of its type.
SpecFits(spec, T) ==
  CASE spec \in {"radix", "width"} -> T \in {I32, I64}
    [] spec = "precision" -> T = F64
    [] spec \in {"plain", "align"} -> TRUE
    [] OTHER -> FALSE

CheckInterpolated(e, env, ctx) ==
  LET pieces == SelectSeq(e.pieces, LAMBDA p : p.expr # Nothing)
      answers == [i \in DOMAIN pieces |-> Check(pieces[i].expr, env, ctx)]
  IN Rule(answers,
          \A i \in DOMAIN pieces : /\ IsTextRepresentable(answers[i].type)
                                   /\ SpecFits(pieces[i].spec, answers[i].type),
          OwnedString)

CheckUnsafe(e, env, ctx) == CheckBlock(e.body, env, [ctx EXCEPT !.unsafe = TRUE])

CheckAddressOf(e, env, ctx) ==
  IF e.operand.k = "name" /\ ~ctx.closure
  THEN LET T == TypeIn(env, e.operand.name)
       IN IF T = Wrong THEN Fail ELSE Typed(Pointer(T))
  ELSE Fail

\* A mistake: a pointer is followed outside unsafe as well.
CheckDeref_Anywhere(e, env, ctx) ==
  LET pointer == Check(e.operand, env, ctx)
  IN Rule(<<pointer>>, pointer.type.kind = "pointer", pointer.type.of)

CheckDeref(e, env, ctx) ==
  LET pointer == Check(e.operand, env, ctx)
  IN Rule(<<pointer>>, pointer.type.kind = "pointer" /\ ctx.unsafe, pointer.type.of)

CheckIf(e, env, ctx) ==
  LET condition == Check(e.condition, env, ctx)
      then == Check(e.then, env, ctx)
      else == Check(e.else, env, ctx)
  IN Rule(<<condition, then, else>>,
          condition.type = Bool /\ then.type = else.type, then.type)

\* A loop no break leaves has the type unit: no code runs after it.
CheckLoop(e, env, ctx) ==
  LET body == Check(e.body, env, [ctx EXCEPT !.loop = TRUE])
      left == body.breaks
  IN Rule(<<[body EXCEPT !.breaks = {}]>>,
          \A S, T \in left : S = T,
          IF left = {} THEN Unit ELSE CHOOSE T \in left : TRUE)

\* A variable that holds a closure hides a function of its name.
CheckCallExpr(e, env, ctx) ==
  LET local == IF e.callee[1] = "" THEN TypeIn(env, e.callee[2]) ELSE Wrong
      args == CheckAll(e.args, env, ctx)
  IN CASE local.kind = "fn" -> CheckCall(local.params, local.result, e.args, env, ctx)
       [] local.kind # "fn" /\ e.callee \in Reserved ->
            Rule(args, \A i \in DOMAIN args : IsTextRepresentable(args[i].type), Unit)
       [] local.kind # "fn" /\ e.callee \in DOMAIN ctx.g.functions ->
            CheckDeclared(ctx.g.functions[e.callee], e.args, env, ctx)
       [] /\ local.kind # "fn"
          /\ e.callee \notin Reserved \cup DOMAIN ctx.g.functions
          /\ e.callee[1] = "" /\ e.callee[2] \in DOMAIN ctx.g.externs ->
            CheckDeclared(ctx.g.externs[e.callee[2]], e.args, env, ctx)
       [] OTHER -> Fail

VariantOf(d, name) == CHOOSE v \in ToSet(d.variants) : v.name = name
HasVariant(d, name) == \E v \in ToSet(d.variants) : v.name = name

CheckVariant(d, variant, es, env, ctx) ==
  LET args == CheckAll(es, env, ctx)
  IN IF ~HasVariant(d, variant) THEN Fail
     ELSE LET fields == VariantOf(d, variant).fields
          IN Rule(args,
                  /\ Len(es) = Len(fields)
                  /\ \A i \in DOMAIN es : args[i].type = Resolve(fields[i], ctx.g),
                  EnumType(d.name))

\* module.function(...): a function of the module, or an extern declared in it, that is
\* public or called from the module itself.
CheckQualified(e, env, ctx) ==
  LET owner == e.object.name
      name == <<owner, e.method>>
      mine(d) == IF d.public \/ ctx.module = owner
                 THEN CheckDeclared(d, e.args, env, ctx) ELSE Fail
  IN CASE name \in DOMAIN ctx.g.functions -> mine(ctx.g.functions[name])
       [] /\ name \notin DOMAIN ctx.g.functions
          /\ e.method \in DOMAIN ctx.g.externs
          /\ ctx.g.externs[e.method].module = owner -> mine(ctx.g.externs[e.method])
       [] OTHER -> Fail

OptionalMethods == {"is_some", "is_none"}
ResultMethods == {"is_ok", "is_err"}
AnyMethods == {"parse", "to_cstr", "unwrap_or", "join"} \cup OptionalMethods \cup ResultMethods
Writes == {"append", "append_line", "write"}

\* The methods found by their name before the kind of the object is looked at.
CheckAnyMethod(e, object, args) ==
  LET T == object.type
      parts == <<object>> \o args
      bare(condition, to) == Rule(parts, args = <<>> /\ condition, to)
  IN CASE e.method = "parse" ->
            bare(/\ IsStrCoercible(T)
                 /\ Len(e.types) = 1
                 /\ e.types[1] \in {I32, I64, F64, Bool}, Optional(e.types[1]))
       [] e.method = "to_cstr" -> bare(IsStrCoercible(T), CStr)
       [] e.method = "unwrap_or" ->
            Rule(parts, /\ T.kind \in {"optional", "result"}
                        /\ Len(args) = 1
                        /\ args[1].type = T.of, T.of)
       [] e.method \in ResultMethods -> bare(T.kind = "result", Bool)
       [] e.method \in OptionalMethods -> bare(T.kind = "optional", Bool)
       [] e.method = "join" ->
            Rule(parts, /\ T.kind \in {"array", "slice"}
                        /\ IsTextRepresentable(T.of)
                        /\ Len(args) = 1
                        /\ IsStrCoercible(args[1].type), OwnedString)

\* The methods of String and Buffer.
CheckTextMethod(e, object, args) ==
  LET parts == <<object>> \o args
      one(T) == Len(args) = 1 /\ IF T = Str THEN IsStrCoercible(args[1].type)
                                            ELSE args[1].type = T
      isBuffer == object.type = Buffer
  IN CASE e.method = "append" -> Rule(parts, one(Str), Unit)
       [] isBuffer /\ e.method \in Writes \ {"append"} -> Rule(parts, one(Str), Unit)
       [] isBuffer /\ e.method = "clear" -> Rule(parts, args = <<>>, Unit)
       [] isBuffer /\ e.method = "reserve" -> Rule(parts, one(I32), Unit)
       [] isBuffer /\ e.method = "finish" -> Rule(parts, args = <<>>, OwnedString)
       [] OTHER -> Fail

CheckStructMethod(e, object, env, ctx) ==
  LET name == <<object.type.name, e.method>>
  IN IF name \in DOMAIN ctx.g.functions /\ ctx.g.functions[name].params # <<>>
     THEN LET f == ctx.g.functions[name]
              call == CheckDeclared([f EXCEPT !.params = Tail(@)], e.args, env, ctx)
          IN Rule(<<object, call>>, TRUE, call.type)
     ELSE Fail

CheckValueMethod(e, env, ctx) ==
  LET object == Check(e.object, env, ctx)
      T == object.type
      args == CheckAll(e.args, env, ctx)
  IN CASE T = Wrong -> Fail
       [] T.kind = "shared" -> Rule(<<object>>, e.method = "clone" /\ e.args = <<>>, T)
       [] /\ T.kind # "shared" /\ e.method \in AnyMethods
          /\ ~(e.method = "join" /\ T.kind = "struct") -> CheckAnyMethod(e, object, args)
       [] /\ T \in {OwnedString, Buffer}
          /\ e.method \notin AnyMethods -> CheckTextMethod(e, object, args)
       [] /\ T.kind = "struct"
          /\ e.method \notin AnyMethods \ {"join"} -> CheckStructMethod(e, object, env, ctx)
       [] OTHER -> Fail

NamesOneOf(e, S) == e.k = "name" /\ e.name \in S

\* A type's or a module's name before a dot wins over a variable's.
CheckMethod(e, env, ctx) ==
  CASE NamesOneOf(e.object, DOMAIN ctx.g.enums) ->
         CheckVariant(ctx.g.enums[e.object.name], e.method, e.args, env, ctx)
    [] NamesOneOf(e.object, ctx.g.modules \ DOMAIN ctx.g.enums) ->
         CheckQualified(e, env, ctx)
    [] OTHER -> CheckValueMethod(e, env, ctx)

CheckField(e, env, ctx) ==
  IF NamesOneOf(e.object, DOMAIN ctx.g.enums)
  THEN CheckVariant(ctx.g.enums[e.object.name], e.field, <<>>, env, ctx)
  ELSE LET object == Check(e.object, env, ctx)
       IN Rule(<<object>>, TRUE, FieldType(object.type, e.field, ctx.g))

CheckStructLiteral(e, env, ctx) ==
  IF e.type.kind # "named" \/ e.type.name \notin DOMAIN ctx.g.structs THEN Fail
  ELSE
    LET declared == ctx.g.structs[e.type.name].fields
        given == {e.fields[i].name : i \in DOMAIN e.fields}
        initializer(f) == SelectSeq(e.fields, LAMBDA i : i.name = f.name)[1].value
        answers == [i \in DOMAIN declared |-> Check(initializer(declared[i]), env, ctx)]
        fits(i) == LET T == Resolve(declared[i].type, ctx.g)
                   IN answers[i].type = T \/ IsNullPointerCoercion(answers[i].type, T)
    IN IF \/ Len(e.fields) # Len(declared)
          \/ \E i \in DOMAIN declared : declared[i].name \notin given
       THEN Fail
       ELSE Rule(answers, \A i \in DOMAIN declared : fits(i), StructType(e.type.name))

CheckArrayLiteral(e, env, ctx) ==
  LET answers == CheckAll(e.elements, env, ctx)
  IN IF e.elements = <<>> THEN Fail
     ELSE Rule(answers, \A i \in DOMAIN answers : answers[i].type = answers[1].type,
               Array(answers[1].type, Len(answers)))

CheckIndex(e, env, ctx) ==
  LET object == Check(e.object, env, ctx)
      index == Check(e.index, env, ctx)
      T == object.type
  IN Rule(<<object, index>>,
          /\ IsStrCoercible(T) \/ IsIndexable(T)
          /\ index.type = I32
          /\ IsInside(e.index, T),
          IF IsStrCoercible(T) THEN Char ELSE T.of)

CheckStrSlice(e, env, ctx) ==
  LET object == Check(e.object, env, ctx)
      ends == SelectSeq(<<e.start, e.end>>, LAMBDA b : b # Nothing)
      answers == CheckAll(ends, env, ctx)
  IN Rule(<<object>> \o answers,
          IsStrCoercible(object.type) /\ \A i \in DOMAIN answers : answers[i].type = I32,
          Str)

Arithmetic == {"+", "-", "*", "/"}
Orderings == {"<", "<=", ">", ">="}
Equalities == {"==", "!="}

CheckBinary(e, env, ctx) ==
  LET left == Check(e.left, env, ctx)
      right == Check(e.right, env, ctx)
      S == left.type
      T == right.type
      both(condition, to) == Rule(<<left, right>>, condition, to)
  IN CASE e.op \in {"+", "-"} /\ S.kind = "pointer" -> both(ctx.unsafe /\ T \in {I32, I64}, S)
       [] e.op \in Arithmetic /\ ~(e.op \in {"+", "-"} /\ S.kind = "pointer") ->
            both(S = T /\ IsNumeric(S), S)
       [] e.op = "&" -> both(S = T /\ S \in {I32, I64}, S)
       [] e.op \in Orderings -> both(S = T /\ IsOrderable(S), Bool)
       [] e.op \in Equalities ->
            both(S = T \/ IsNullPointerCoercion(S, T) \/ IsNullPointerCoercion(T, S), Bool)

CheckCast(e, env, ctx) ==
  LET operand == Check(e.operand, env, ctx)
      T == Resolve(e.type, ctx.g)
      pointers == operand.type.kind = "pointer" /\ T.kind = "pointer"
  IN Rule(<<operand>>,
          IF pointers THEN ctx.unsafe ELSE IsNumeric(operand.type) /\ IsNumeric(T), T)

\* sizeof<T>(), hash<T>(value) and keyEq<T>(left, right).
CheckTypeBuiltin(e, env, ctx) ==
  LET T == Resolve(e.type, ctx.g)
      args == CASE e.k = "sizeof" -> <<>>
                [] e.k = "hash" -> <<Check(e.value, env, ctx)>>
                [] e.k = "keyeq" -> CheckAll(<<e.left, e.right>>, env, ctx)
  IN IF T = Wrong THEN Fail
     ELSE Rule(args,
               e.k # "sizeof" =>
                 IsHashable(T, ctx.g) /\ \A i \in DOMAIN args : args[i].type = T,
               CASE e.k = "sizeof" -> I64 [] e.k = "hash" -> I32 [] e.k = "keyeq" -> Bool)

\* String(text), Some(value), share value and HeapArray<T>(size).
CheckWrapper(e, env, ctx) ==
  LET part == Check(CASE e.k = "stringnew" -> e.text
                      [] e.k = "heaparraynew" -> e.size
                      [] OTHER -> e.value, env, ctx)
      T == part.type
  IN CASE e.k = "stringnew" -> Rule(<<part>>, IsStrCoercible(T), OwnedString)
       [] e.k = "some" -> Rule(<<part>>, TRUE, Optional(T))
       [] e.k = "share" -> Rule(<<part>>, T.kind \in {"struct", "enum", "union"}, Shared(T))
       [] e.k = "heaparraynew" ->
            LET element == Resolve(e.type, ctx.g)
            IN Rule(<<part>>, T = I32 /\ element # Wrong, HeapArray(element))

\* value? leaves the function with the failure of the value: the function returns the
\* same kind, and for a Result the same type of error.
CheckTry(e, env, ctx) ==
  LET operand == Check(e.operand, env, ctx)
      T == operand.type
      R == ctx.returns
  IN Rule(<<operand>>,
          /\ T.kind \in {"optional", "result"}
          /\ R.kind = T.kind
          /\ T.kind = "result" => T.err = R.err,
          T.of)

\* The variants of an enum; those of a union are its alternatives, named as they are
\* spelled.
Spelled(T) == IF T.kind \in {"struct", "enum"} THEN T.name ELSE T.kind
VariantsOf(T, g) ==
  IF T.kind = "union"
  THEN [i \in DOMAIN T.alternatives |->
          Variant(Spelled(T.alternatives[i]), <<T.alternatives[i]>>)]
  ELSE g.enums[T.name].variants

ArmIsGood(arm, d) ==
  IF arm.variant = "_" THEN arm.names = <<>>
  ELSE /\ HasVariant(d, arm.variant)
       /\ Len(arm.names) = Len(VariantOf(d, arm.variant).fields)

ArmScope(arm, d, g) ==
  IF arm.variant = "_" THEN Empty
  ELSE LET fields == VariantOf(d, arm.variant).fields
           last(x) == CHOOSE i \in DOMAIN arm.names :
             arm.names[i] = x /\ \A j \in i + 1 .. Len(arm.names) : arm.names[j] # x
       IN [x \in ToSet(arm.names) |-> Resolve(fields[last(x)], g)]

\* Every variant is matched once, or a wildcard ends the arms.
CoversAll(arms, d) ==
  LET named == {arms[i].variant : i \in DOMAIN arms} \ {"_"}
      wildcards == {i \in DOMAIN arms : arms[i].variant = "_"}
  IN /\ \A i, j \in DOMAIN arms : i < j => /\ arms[i].variant # "_"
                                           /\ arms[i].variant # arms[j].variant
     /\ wildcards = {} => named = {v.name : v \in ToSet(d.variants)}

CheckMatch(e, env, ctx) ==
  LET scrutinee == Check(e.scrutinee, env, ctx)
      d == [variants |-> VariantsOf(scrutinee.type, ctx.g)]
      bodies == [i \in DOMAIN e.arms |->
                   Check(e.arms[i].body, Append(env, ArmScope(e.arms[i], d, ctx.g)), ctx)]
  IN IF \/ scrutinee.type.kind \notin {"enum", "union"}
        \/ e.arms = <<>>
        \/ \E i \in DOMAIN e.arms : ~ArmIsGood(e.arms[i], d)
     THEN Fail
     ELSE Rule(<<scrutinee>> \o bodies,
               /\ \A i \in DOMAIN bodies : bodies[i].type = bodies[1].type
               /\ CoversAll(e.arms, d),
               bodies[1].type)

\* A body is checked in the scope of its parameters; what its returns and breaks may do
\* is its own.
CheckBody(params, result, body, env, ctx) ==
  LET types == [i \in DOMAIN params |-> Resolve(params[i].type, ctx.g)]
      at(x) == CHOOSE i \in DOMAIN params :
        params[i].name = x /\ \A j \in i + 1 .. Len(params) : params[j].name # x
      scope == [x \in {params[i].name : i \in DOMAIN params} |-> types[at(x)]]
      R == IF result = NoType THEN Unit ELSE Resolve(result, ctx.g)
      inside == Check(body, Append(env, scope), [ctx EXCEPT !.returns = R, !.loop = FALSE])
  IN /\ Wrong \notin ToSet(types)
     /\ R # Wrong
     /\ inside.type # Wrong
     /\ R # Unit => DefinitelyReturns(body, ctx.misread)

CheckClosure(e, env, ctx) ==
  IF CheckBody(e.params, e.returns, e.body, env, [ctx EXCEPT !.closure = TRUE])
  THEN Typed(ClosureType(e, ctx.g))
  ELSE Fail

Check(e, env, ctx) ==
  CASE e.k = "literal" -> Typed(e.type)
    [] e.k = "name" -> Typed(TypeIn(env, e.name))
    [] e.k = "null" -> Typed(NullPointer)
    [] e.k = "buffernew" -> Typed(Buffer)
    [] e.k = "interpolated" -> CheckInterpolated(e, env, ctx)
    [] e.k = "block" -> CheckBlock(e, env, ctx)
    [] e.k = "unsafe" -> CheckUnsafe(e, env, ctx)
    [] e.k = "addressof" -> CheckAddressOf(e, env, ctx)
    [] e.k = "deref" -> CheckDeref(e, env, ctx)
    [] e.k = "if" -> CheckIf(e, env, ctx)
    [] e.k = "loop" -> CheckLoop(e, env, ctx)
    [] e.k = "call" -> CheckCallExpr(e, env, ctx)
    [] e.k = "method" -> CheckMethod(e, env, ctx)
    [] e.k = "field" -> CheckField(e, env, ctx)
    [] e.k = "struct" -> CheckStructLiteral(e, env, ctx)
    [] e.k = "array" -> CheckArrayLiteral(e, env, ctx)
    [] e.k = "index" -> CheckIndex(e, env, ctx)
    [] e.k = "slice" -> CheckStrSlice(e, env, ctx)
    [] e.k = "binary" -> CheckBinary(e, env, ctx)
    [] e.k = "cast" -> CheckCast(e, env, ctx)
    [] e.k \in {"sizeof", "hash", "keyeq"} -> CheckTypeBuiltin(e, env, ctx)
    [] e.k \in {"stringnew", "some", "share", "heaparraynew"} -> CheckWrapper(e, env, ctx)
    [] e.k = "try" -> CheckTry(e, env, ctx)
    [] e.k = "match" -> CheckMatch(e, env, ctx)
    [] e.k = "closure" -> CheckClosure(e, env, ctx)
    [] OTHER -> Fail   \* None, Ok and Err where nothing gives them a type

(***************************************************************************)
(* check: the items in order. A function sees no variable of the top       *)
(* level; the top level has one scope, outside any function.               *)
(***************************************************************************)
Context(g, misread) ==
  [g |-> g, returns |-> NoType, unsafe |-> FALSE, closure |-> FALSE, loop |-> FALSE,
   module |-> "", misread |-> misread]

CheckFunction(f, ctx) ==
  CheckBody(f.params, f.returns, f.body, <<>>, [ctx EXCEPT !.module = f.name[1]])

\* The environment after an item: <<>> when the item is rejected.
CheckItem(item, env, ctx) ==
  CASE item.k = "function" /\ Concrete(item) ->
         IF CheckFunction(item, ctx) THEN env ELSE <<>>
    [] item.k = "impl" /\ Concrete(item) ->
         IF \A i \in DOMAIN item.methods : CheckFunction(item.methods[i], ctx)
         THEN env ELSE <<>>
    [] item.k \in {"assign", "expr"} -> CheckStatement(item, env, ctx).env
    [] OTHER -> env

\* The environment of the top level after the program, or <<>>.
CheckProgram(items, ctx) ==
  IF SignaturesAreGood(items, ctx.g)
  THEN FoldLeft(LAMBDA env, item : IF env = <<>> THEN env ELSE CheckItem(item, env, ctx),
                <<Empty>>, items)
  ELSE <<>>

===============================================================================
