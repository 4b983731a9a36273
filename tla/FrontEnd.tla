-------------------------------- MODULE FrontEnd --------------------------------
(***************************************************************************)
(* ax run: a program on its way through the passes of main.cpp. Generics   *)
(* are instantiated round by round, the program is type checked, the later *)
(* checks (capabilities, regions: modelled in modules of their own) accept *)
(* or reject it, then its statements are run one by one. The first error   *)
(* ends it all.                                                            *)
(***************************************************************************)
EXTENDS Programs
LOCAL INSTANCE SequencesExt

CONSTANTS
  Declarations,   \* items every program begins with
  Sources,     \* the rest of each program
  MaxLaps,     \* a bound of the model: turns of loops and nested calls of a statement
  MaxRounds    \* a bound of the model: rounds of instantiation

ASSUME BoundsAssumption == MaxLaps \in Nat /\ MaxRounds \in Nat \ {0}

M == INSTANCE Monomorphizer
C == INSTANCE TypeChecker
I == INSTANCE Interpreter

VARIABLES
  program,   \* the items
  phase,     \* what is done with them
  rounds,    \* of instantiation so far
  tables,    \* the declarations, as the checker registers them
  types,     \* the checker's environment of the top level
  next,      \* the item that is run next
  heap,      \* the interpreter's objects
  globals,   \* and its environment of the top level
  outcome    \* how the last statement ended

vars == <<program, phase, rounds, tables, types, next, heap, globals, outcome>>

Items == DOMAIN program

Phases == {"instantiating", "checking", "accepting", "running", "rejected", "ended"}

NoTables == C!Register(<<>>)

Init ==
  /\ \E source \in Sources : program = Declarations \o source
  /\ phase = "instantiating"
  /\ rounds = 0
  /\ tables = NoTables
  /\ types = <<C!Empty>>
  /\ next = 1
  /\ heap = <<>>
  /\ globals = I!NoNames
  /\ outcome = "value"

(***************************************************************************)
(* monomorphizeGenerics: rounds until one changes nothing or throws.       *)
(***************************************************************************)
Instantiate ==
  /\ phase = "instantiating"
  /\ rounds < MaxRounds
  /\ \E after \in {M!Round(program)} :
       CASE after = <<>> -> phase' = "rejected" /\ UNCHANGED <<program, rounds>>
         [] after = program -> phase' = "checking" /\ UNCHANGED <<program, rounds>>
         [] OTHER -> /\ program' = after
                     /\ rounds' = rounds + 1
                     /\ UNCHANGED phase
  /\ UNCHANGED <<tables, types, next, heap, globals, outcome>>

(***************************************************************************)
(* TypeChecker::check. What is read where an else branch is an if is not   *)
(* defined, so either answer may come of it.                               *)
(***************************************************************************)
Check ==
  /\ phase = "checking"
  /\ \E misread \in BOOLEAN :
       \E g \in {C!Register(program)} :
         \E after \in {C!CheckProgram(program, C!Context(g, misread))} :
           IF after = <<>>
           THEN phase' = "rejected" /\ UNCHANGED <<tables, types>>
           ELSE phase' = "accepting" /\ tables' = g /\ types' = after
  /\ UNCHANGED <<program, rounds, next, heap, globals, outcome>>

(***************************************************************************)
(* CapabilityChecker::check and RegionChecker::check.                      *)
(***************************************************************************)
CheckCapabilitiesAndRegions ==
  /\ phase = "accepting"
  /\ phase' \in {"running", "rejected"}
  /\ UNCHANGED <<program, rounds, tables, types, next, heap, globals, outcome>>

(***************************************************************************)
(* Interpreter::run: the statements of the top level in order.             *)
(***************************************************************************)
RunStatement ==
  /\ phase = "running"
  /\ outcome = "value"
  /\ next \in Items
  /\ \E o \in {I!RunItem(program[next], I!Machine(program, tables, heap, globals, MaxLaps))} :
       heap' = o.st.heap /\ globals' = o.st.env[1] /\ outcome' = o.t
  /\ next' = IF \E i \in Items : i > next /\ I!IsStatement(program[i])
             THEN CHOOSE i \in Items : /\ i > next
                                       /\ I!IsStatement(program[i])
                                       /\ \A j \in next + 1 .. i - 1 : ~I!IsStatement(program[j])
             ELSE Len(program) + 1
  /\ UNCHANGED <<program, phase, rounds, tables, types>>

FinishRun ==
  /\ phase = "running"
  /\ outcome # "value" \/ next \notin Items
  /\ phase' = "ended"
  /\ UNCHANGED <<program, rounds, tables, types, next, heap, globals, outcome>>

Next ==
  \/ Instantiate
  \/ Check
  \/ CheckCapabilitiesAndRegions
  \/ RunStatement
  \/ FinishRun

Spec == Init /\ [][Next]_vars

(***************************************************************************)
(* What the checker promises of the run.                                   *)
(***************************************************************************)
\* An accepted program never comes to an operation its values are not made for, to a name
\* that is not bound or to a body left by a break (the errors that Interpreter.cpp:3084 and
\* its like call internal), and it follows a pointer that leads nowhere only if it says
\* unsafe somewhere (TypeChecker.cpp:1737, 2118): it ends, or stops with an error that
\* depends on its values.
SaysUnsafe == \E n \in M!NodesOf(program) : n.k = "unsafe"

NeverStuck ==
  /\ outcome \notin {"stuck", "return", "break", "continue"}
  /\ outcome = "pointer fault" => SaysUnsafe

\* Whether a value is of a type, with everything it refers to, down to a depth.
RECURSIVE HasType(_, _, _)
AllOfType(vs, T, depth) == \A i \in DOMAIN vs : HasType(vs[i], T, depth)

Object(v) == heap[v.at]
IsA(v, k) == v.k = "ref" /\ Object(v).k = k

HasVariantType(v, d, depth) ==
  /\ IsA(v, "enum")
  /\ C!HasVariant(d, Object(v).variant)
  /\ LET fields == C!VariantOf(d, Object(v).variant).fields
     IN /\ Len(fields) = Len(Object(v).fields)
        /\ \A i \in DOMAIN fields :
             HasType(Object(v).fields[i], C!Resolve(fields[i], tables), depth)

HasStructType(v, T, depth) ==
  /\ IsA(v, "struct")
  /\ Object(v).type = T.name
  /\ \A f \in ToSet(tables.structs[T.name].fields) :
       /\ f.name \in DOMAIN Object(v).fields
       /\ HasType(Object(v).fields[f.name], C!Resolve(f.type, tables), depth)

HasFnType(v, T) ==
  \/ IsA(v, "closure") /\ Len(Object(v).params) = Len(T.params)
  \/ IsA(v, "fnref") /\ Len(Object(v).function.params) = Len(T.params)

HasType(v, T, depth) ==
  \/ depth = 0
  \/ CASE T \in {I32, I64} -> v.k = "int"
       [] T = F64 -> v.k = "double"
       [] T = Bool -> v.k = "bool"
       [] T = Char -> v.k = "char"
       [] T \in {Str, CStr} -> v.k = "str"
       [] T = Unit -> v.k = "unit"
       [] T = OwnedString -> IsA(v, "string")
       [] T = Buffer -> IsA(v, "buffer")
       [] T.kind = "struct" -> HasStructType(v, T, depth - 1)
       [] T.kind \in {"enum", "union"} ->
            HasVariantType(v, [variants |-> C!VariantsOf(T, tables)], depth - 1)
       [] T.kind = "shared" -> HasType(v, T.of, depth - 1)
       [] T.kind \in {"array", "heaparray"} ->
            /\ IsA(v, "array")
            /\ T.kind = "array" => Len(Object(v).elements) = T.size
            /\ AllOfType(Object(v).elements, T.of, depth - 1)
       [] T.kind = "optional" ->
            IsA(v, "optional") /\ (Object(v).has => HasType(Object(v).v, T.of, depth - 1))
       [] T.kind = "result" ->
            IsA(v, "result") /\ HasType(Object(v).v, IF Object(v).has THEN T.of ELSE T.err,
                                        depth - 1)
       [] T.kind = "pointer" ->
            /\ v.k = "pointer"
            /\ v.at # 0 => AllOfType(heap[v.at].elements, T.of, depth - 1)
       [] T = NullPointer -> v.k = "pointer" /\ v.at = 0
       [] T.kind = "fn" -> HasFnType(v, T)

\* How deep a value is looked into.
Depth == 4

Value(x) == IF globals[x].k = "cell" THEN heap[globals[x].at].elements[1] ELSE globals[x]

\* At the end of a run every variable of the top level holds a value of the type the
\* checker gave it, through all the references the run made and changed things by
\* (TypeChecker.cpp:1592, Interpreter.cpp:1144).
ValuesHaveTypes ==
  phase = "ended" /\ outcome = "value" =>
    \A x \in DOMAIN types[1] : x \in DOMAIN globals /\ HasType(Value(x), types[1][x], Depth)

\* "gather every bare NameExpr text appearing anywhere in the closure body"
\* (0067-closures.md:81): a closure of the top level captures every variable its body names
\* and its parameters do not.
EveryNameIsCaptured ==
  \A i \in {j \in DOMAIN heap : heap[j].k = "closure"} :
    LET closure == heap[i]
        named == {n.name : n \in {m \in M!NodesIn(closure.body) : m.k = "name"}}
        parameters == {param.name : param \in ToSet(closure.params)}
    IN (named \ parameters) \cap DOMAIN globals \subseteq DOMAIN closure.captures

(***************************************************************************)
(* What the instantiation of generics promises the later passes.           *)
(***************************************************************************)
RECURSIVE Mentions(_)
\* The types a spelled type is made of, itself among them.
Mentions(T) ==
  {T} \cup CASE T.kind \in M!Wrappers \cup {"pointer", "array"} -> Mentions(T.of)
             [] T.kind = "result" -> Mentions(T.of) \cup Mentions(T.err)
             [] T.kind = "union" -> UNION {Mentions(A) : A \in ToSet(T.alternatives)}
             [] T.kind = "fn" -> UNION {Mentions(P) : P \in ToSet(T.params)} \cup Mentions(T.result)
             [] T.kind = "generic" -> UNION {Mentions(A) : A \in ToSet(T.args)}
             [] OTHER -> {}

SpelledTypes(nodes) ==
  UNION {Mentions(T) : T \in UNION {M!DeclaredTypes(item) : item \in ToSet(program)}
                               \cup UNION {M!SpelledBy(n, {}) : n \in nodes}}
TypeParameters ==
  UNION {ToSet(item.tparams) : item \in {d \in ToSet(program) : ~C!Concrete(d)}}

NothingLeft(nodes, spelled, parameters, templates) ==
  /\ \A T \in spelled : /\ T.kind # "generic"
                        /\ T.kind = "named" => T.name \notin parameters
  /\ \A n \in M!GenericCalls(nodes) : M!CalledName(n) \notin templates

EachOnce ==
  \A i, j \in Items :
    (/\ program[i].k = program[j].k
     /\ program[i].k \in {"function", "structdecl"}
     /\ program[i].name = program[j].name) => i = j

\* What the checker is given spells no instantiation, no type parameter and no call of a
\* template outside the templates: every one was replaced, the ones that only the body of
\* an instance spells as well (GenericMonomorphizer.cpp:1014). However many places and
\* rounds asked for an instance, it is there once; and no program needs more rounds, since
\* what was replaced is not found again (GenericMonomorphizer.cpp:1031).
InstancesAreComplete ==
  LET nodes == M!NodesOf(program)
  IN phase = "checking" \/ rounds = MaxRounds =>
       /\ NothingLeft(nodes, SpelledTypes(nodes), TypeParameters, M!TemplateNames(program))
       /\ EachOnce

================================================================================
