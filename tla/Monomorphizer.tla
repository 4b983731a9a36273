----------------------------- MODULE Monomorphizer -----------------------------
(***************************************************************************)
(* generics/GenericMonomorphizer.cpp: the templates of structs, impls and  *)
(* functions are instantiated for the type arguments the program spells.   *)
(*                                                                         *)
(* The pass works in rounds until one changes nothing. A round collects    *)
(* every type that is spelled and every call with type arguments in the    *)
(* items that are not templates, appends the instances that are missing    *)
(* and puts the mangled names where the instantiations were. A round is    *)
(* the operator Round here; the program <<>> means that it threw.          *)
(***************************************************************************)
EXTENDS Programs
LOCAL INSTANCE SequencesExt
LOCAL INSTANCE FiniteSetsExt
LOCAL INSTANCE TLC

(***************************************************************************)
(* Types as text. A type whose text has an angle bracket is an             *)
(* instantiation of the name before the bracket; the name of an array, a   *)
(* function or a union type is cut at the first bracket like any other.    *)
(***************************************************************************)
RECURSIVE HasBracket(_), MangleType(_), Substituted(_, _), HeadOf(_)

Wrappers == {"optional", "shared", "heaparray", "slice"}
Builtins == Wrappers \cup {"result"}

HasBracket(T) ==
  CASE T.kind \in Builtins \cup {"generic"} -> TRUE
    [] T.kind \in {"pointer", "array"} -> HasBracket(T.of)
    [] T.kind = "union" -> \E i \in DOMAIN T.alternatives : HasBracket(T.alternatives[i])
    [] T.kind = "fn" -> \/ HasBracket(T.result)
                        \/ \E i \in DOMAIN T.params : HasBracket(T.params[i])
    [] OTHER -> FALSE

Mangled(name, args) ==
  FoldLeft(LAMBDA text, T : text \o "$" \o MangleType(T), name, args)

MangleType(T) ==
  CASE T.kind = "named" -> T.name
    [] T.kind = "generic" -> Mangled(T.name, T.args)
    [] T.kind \in Wrappers -> Mangled(T.kind, <<T.of>>)
    [] T.kind = "result" -> Mangled(T.kind, <<T.of, T.err>>)
    [] T.kind = "pointer" -> "*" \o MangleType(T.of)
    [] T.kind = "array" -> "[" \o MangleType(T.of) \o ";" \o ToString(T.size) \o "]"
    [] OTHER -> T.kind

\* subst maps the names of type parameters to types; every name of the text that is one
\* is replaced.
SubstitutedAll(Ts, subst) == [i \in DOMAIN Ts |-> Substituted(Ts[i], subst)]
Substituted(T, subst) ==
  CASE T.kind = "named" -> IF T.name \in DOMAIN subst THEN subst[T.name] ELSE T
    [] T.kind \in Wrappers \cup {"pointer", "array"} ->
         [T EXCEPT !.of = Substituted(@, subst)]
    [] T.kind = "result" -> Result(Substituted(T.of, subst), Substituted(T.err, subst))
    [] T.kind = "union" -> Union(SubstitutedAll(T.alternatives, subst))
    [] T.kind = "fn" -> Fn(SubstitutedAll(T.params, subst), Substituted(T.result, subst))
    [] T.kind = "generic" -> Generic(T.name, SubstitutedAll(T.args, subst))
    [] OTHER -> T

\* The instantiation a spelled type begins with: of a union only the first alternative is
\* read, an array or a function type begins with a name no struct has.
HeadOf(T) ==
  CASE T.kind = "pointer" -> HeadOf(T.of)
    [] T.kind = "union" /\ HasBracket(T.alternatives[1]) -> HeadOf(T.alternatives[1])
    [] OTHER -> T

RECURSIVE Replaced(_)
Replaced(T) ==
  CASE T.kind = "pointer" -> Pointer(Replaced(T.of))
    [] HeadOf(T).kind = "generic" /\ T.kind # "pointer" -> Named(MangleType(HeadOf(T)))
    [] OTHER -> T

(***************************************************************************)
(* Walks over a body. NodesIn is every node in it; Mapped is the body with *)
(* its types changed, and, where change names templates, with the calls of *)
(* these turned into calls of their instances.                             *)
(***************************************************************************)
NodeFields == {"left", "right", "operand", "value", "condition", "then", "else", "scrutinee",
               "body", "object", "index", "start", "end", "text", "size", "pointer",
               "target", "expr", "result"}
SequenceFields == {"args", "elements", "statements"}
\* Sequences of records that hold one node each.
Holders == [fields |-> "value", arms |-> "body", pieces |-> "expr"]

RECURSIVE NodesIn(_), Mapped(_, _)

PartsIn(n, f) ==
  CASE f \in NodeFields -> {n[f]}
    [] f \in SequenceFields -> ToSet(n[f])
    [] f \in DOMAIN Holders -> {n[f][i][Holders[f]] : i \in DOMAIN n[f]}
    [] OTHER -> {}

NodesIn(n) == {n} \cup UNION {UNION {NodesIn(part) : part \in PartsIn(n, f)} : f \in DOMAIN n}

\* The calls with type arguments, as the name that is called and the arguments; a method
\* is called by the name before its dot.
IsGenericCall(n) ==
  \/ n.k = "call" /\ n.types # <<>>
  \/ n.k = "method" /\ n.types # <<>> /\ n.object.k = "name"
CalledName(n) == IF n.k = "call" THEN n.callee ELSE <<n.object.name, n.method>>

InstanceName(name, types) == <<name[1], Mangled(name[2], types)>>

WithInstance(n) ==
  IF n.k = "call"
  THEN [n EXCEPT !.callee = InstanceName(@, n.types), !.types = <<>>]
  ELSE [n EXCEPT !.method = Mangled(@, n.types), !.types = <<>>]

\* The two uses of Mapped: a body whose type parameters become subst's types, and one
\* whose instantiations become their mangled names.
Substituting(subst) == [subst |-> subst, templates |-> {}]
Resolving(templates) == [subst |-> [x \in {} |-> NoType], templates |-> templates]
ChangedType(T, change) ==
  IF DOMAIN change.subst = {} THEN Replaced(T) ELSE Substituted(T, change.subst)

MappedParams(params, change) ==
  [i \in DOMAIN params |-> [params[i] EXCEPT !.type = ChangedType(@, change)]]

MappedPart(n, f, change) ==
  CASE f \in NodeFields -> Mapped(n[f], change)
    [] f \in SequenceFields -> [i \in DOMAIN n[f] |-> Mapped(n[f][i], change)]
    [] f \in DOMAIN Holders ->
         [i \in DOMAIN n[f] |-> [n[f][i] EXCEPT ![Holders[f]] = Mapped(@, change)]]
    [] f \in {"type", "returns"} -> ChangedType(n[f], change)
    [] f = "types" -> [i \in DOMAIN n[f] |-> ChangedType(n[f][i], change)]
    [] f = "params" -> MappedParams(n[f], change)
    [] OTHER -> n[f]

Mapped(n, change) ==
  LET whole == IF IsGenericCall(n) /\ CalledName(n) \in change.templates
               THEN WithInstance(n) ELSE n
      mapped == [f \in DOMAIN whole |-> MappedPart(whole, f, change)]
  IN IF n.k = "typename" /\ mapped.type.kind = "named" THEN Name(mapped.type.name) ELSE mapped

(***************************************************************************)
(* What a round finds.                                                     *)
(***************************************************************************)
IsTemplate(item) == "tparams" \in DOMAIN item /\ item.tparams # <<>>

StructsOf(items) == {item \in ToSet(items) : item.k = "structdecl"}
StructNamed(name, items) == CHOOSE item \in StructsOf(items) : item.name = name
StructNames(items) == {item.name : item \in StructsOf(items)}

TemplatesOf(items) == {item \in ToSet(items) : item.k = "function" /\ IsTemplate(item)}
TemplateNamed(name, items) == CHOOSE item \in TemplatesOf(items) : item.name = name
TemplateNames(items) == {item.name : item \in TemplatesOf(items)}

\* The types a node spells that are looked up: not those of a call that is instantiated.
SpelledBy(n, templates) ==
  CASE n.k \in {"cast", "sizeof", "hash", "keyeq", "heaparraynew", "struct", "typename",
                "assign"} -> {n.type}
    [] n.k = "closure" -> {n.returns} \cup {n.params[i].type : i \in DOMAIN n.params}
    [] n.k = "method" ->
         IF IsGenericCall(n) /\ CalledName(n) \in templates THEN {} ELSE ToSet(n.types)
    [] OTHER -> {}

Signature(d) == {d.returns} \cup {d.params[i].type : i \in DOMAIN d.params}

\* The parts of an item that are walked; an enum and a trait have none.
BodiesOf(item) ==
  CASE item.k \in {"assign", "expr"} -> {item}
    [] item.k = "function" /\ ~IsTemplate(item) -> {item.body}
    [] item.k = "impl" /\ ~IsTemplate(item) -> {m.body : m \in ToSet(item.methods)}
    [] OTHER -> {}

DeclaredTypes(item) ==
  CASE item.k = "structdecl" /\ ~IsTemplate(item) -> {f.type : f \in ToSet(item.fields)}
    [] item.k = "extern" -> Signature(item)
    [] item.k = "function" /\ ~IsTemplate(item) -> Signature(item)
    [] item.k = "impl" /\ ~IsTemplate(item) ->
         UNION {Signature(m) : m \in ToSet(item.methods)}
    [] OTHER -> {}

NodesOf(items) ==
  UNION {UNION {NodesIn(body) : body \in BodiesOf(item)} : item \in ToSet(items)}

References(items, nodes) ==
  {HeadOf(T) : T \in {T \in UNION {DeclaredTypes(item) : item \in ToSet(items)}
                            \cup UNION {SpelledBy(n, TemplateNames(items)) : n \in nodes} :
                        HasBracket(T)}}

GenericCalls(nodes) == {n \in nodes : IsGenericCall(n)}

(***************************************************************************)
(* What a round throws for: a call of a function that is no template, an   *)
(* instantiation of a struct that is none, the wrong number of arguments.  *)
(***************************************************************************)
CallIsGood(n, items) ==
  IF CalledName(n) \in TemplateNames(items)
  THEN Len(n.types) = Len(TemplateNamed(CalledName(n), items).tparams)
  ELSE n.k = "method"

ReferenceIsGood(T, items) ==
  \/ T.kind \in Builtins
  \/ /\ T.kind = "generic"
     /\ T.name \in StructNames(items)
     /\ IsTemplate(StructNamed(T.name, items))
     /\ Len(T.args) = Len(StructNamed(T.name, items).tparams)

(***************************************************************************)
(* What a round appends.                                                   *)
(***************************************************************************)
Arguments(tparams, args) ==
  [x \in ToSet(tparams) |-> args[CHOOSE i \in DOMAIN tparams : tparams[i] = x]]

CloneFunction(f, name, subst) ==
  LET change == Substituting(subst)
  IN [f EXCEPT !.name = name,
               !.params = MappedParams(@, change),
               !.returns = Substituted(@, subst),
               !.body = Mapped(@, change),
               !.tparams = <<>>]

\* The methods of every impl of the template that has as many parameters.
MethodsOf(T, subst, items) ==
  UNION {{CloneFunction(m, <<MangleType(T), m.name[2]>>, subst) : m \in ToSet(impl.methods)} :
         impl \in {item \in ToSet(items) : /\ item.k = "impl"
                                           /\ item.name = T.name
                                           /\ Len(item.tparams) = Len(T.args)}}

InstanceOfStruct(T, items) ==
  LET template == StructNamed(T.name, items)
      subst == Arguments(template.tparams, T.args)
  IN {[template EXCEPT !.name = MangleType(T),
                       !.fields = [i \in DOMAIN @ |->
                                     [@[i] EXCEPT !.type = Substituted(@, subst)]],
                       !.tparams = <<>>]}
       \cup MethodsOf(T, subst, items)

InstanceOfFunction(n, items) ==
  LET template == TemplateNamed(CalledName(n), items)
  IN CloneFunction(template, InstanceName(template.name, n.types),
                   Arguments(template.tparams, n.types))

\* An instance is made once, whoever spells it: it is known by its mangled name.
MissingFunctions(items, nodes) ==
  LET calls == {n \in GenericCalls(nodes) : CalledName(n) \in TemplateNames(items)}
      present == {item.name : item \in {i \in ToSet(items) : i.k = "function"}}
      missing == {InstanceName(CalledName(n), n.types) : n \in calls} \ present
  IN {InstanceOfFunction(CHOOSE n \in calls : InstanceName(CalledName(n), n.types) = name,
                         items) : name \in missing}

\* A mistake: an instance is made again when a later round spells it again.
MissingStructs_Again(items, nodes) ==
  LET generic == {T \in References(items, nodes) : T.kind = "generic"}
      named == {MangleType(T) : T \in generic}
  IN UNION {InstanceOfStruct(CHOOSE T \in generic : MangleType(T) = name, items) :
            name \in named}

MissingStructs(items, nodes) ==
  LET generic == {T \in References(items, nodes) : T.kind = "generic"}
      missing == {MangleType(T) : T \in generic} \ StructNames(items)
  IN UNION {InstanceOfStruct(CHOOSE T \in generic : MangleType(T) = name, items) :
            name \in missing}

Resolved(item, templates) ==
  LET change == Resolving(templates)
      function(f) == [f EXCEPT !.params = MappedParams(@, change),
                               !.returns = Replaced(@),
                               !.body = Mapped(@, change)]
  IN CASE IsTemplate(item) -> item
       [] item.k \in {"assign", "expr"} -> Mapped(item, change)
       [] item.k = "function" /\ ~IsTemplate(item) -> function(item)
       [] item.k = "extern" -> [item EXCEPT !.params = MappedParams(@, change),
                                            !.returns = Replaced(@)]
       [] item.k = "impl" /\ ~IsTemplate(item) ->
            [item EXCEPT !.methods = [i \in DOMAIN @ |-> function(@[i])]]
       [] item.k = "structdecl" /\ ~IsTemplate(item) ->
            [item EXCEPT !.fields = [i \in DOMAIN @ |->
                                       [@[i] EXCEPT !.type = Replaced(@)]]]
       [] item.k \in {"enumdecl", "trait"} -> item

Round(items) ==
  LET nodes == NodesOf(items)
  IN IF \/ \E n \in GenericCalls(nodes) : ~CallIsGood(n, items)
        \/ \E T \in References(items, nodes) : ~ReferenceIsGood(T, items)
     THEN <<>>
     ELSE [i \in DOMAIN items |-> Resolved(items[i], TemplateNames(items))]
            \o FoldSet(LAMBDA instance, seq : Append(seq, instance), <<>>,
                       MissingFunctions(items, nodes) \cup MissingStructs(items, nodes))

===============================================================================
