------------------------------- MODULE MCFrontEnd -------------------------------
(***************************************************************************)
(* Programs for FrontEnd: every form of expression applied to every        *)
(* variable, or every pair of variables, of a set that has one variable of *)
(* each kind of type, whether the result is well typed or not; bodies that *)
(* use each form of statement; and programs with templates.                *)
(***************************************************************************)
EXTENDS FrontEnd

Fun(name, params, T, body) == Function(<<"", name>>, params, T, body)
Own(owner, name, params, T, body) == Function(<<owner, name>>, params, T, body)
One == Number(1)
Two == Number(2)
Body(ss) == Block(ss, Nothing)
Yield(e) == Block(<<>>, e)
CallFun(name, args) == Call(<<"", name>>, args)
Let(x, e) == Assign(x, NoType, e)
Plain(e) == [text |-> <<>>, expr |-> e, spec |-> "plain"]
Spec1(e, spec) == [text |-> <<>>, expr |-> e, spec |-> spec]

PointAt(x, y) == StructLiteral(Named("Point"), <<[name |-> "x", value |-> x],
                                                 [name |-> "y", value |-> y]>>)
Double(e) == Binary("+", e, e)

Point == Struct("Point", <<[name |-> "x", type |-> I32], [name |-> "y", type |-> I32]>>)
Shape == Enum("Shape", <<Variant("Circle", <<I32>>), Variant("Empty", <<>>)>>)
Display == Impl("Display", "Point", <<
  Own("Point", "format", <<Param("self", Named("Point")), Param("out", Buffer)>>, NoType,
      Body(<<Expr(Method(Name("out"), "write", <<Text(<<40>>)>>)),
             Expr(Method(Name("out"), "write",
                         <<Interpolated(<<Plain(Field(Name("self"), "x"))>>)>>))>>)),
  Own("Point", "sum", <<Param("self", Named("Point"))>>, I32,
      Body(<<Return(Binary("+", Field(Name("self"), "x"), Field(Name("self"), "y")))>>))>>)

Twice == Fun("twice", <<Param("v", I32)>>, I32, Body(<<Return(Double(Name("v")))>>))
First == Fun("first", <<Param("xs", Slice(I32))>>, I32,
             Body(<<Return(Index(Name("xs"), Number(0)))>>))
Loud == Fun("loud", <<Param("v", Str)>>, Str, Body(<<Return(StrSlice(Name("v"), Nothing, One))>>))
Pick == Fun("pick", <<Param("v", Union(<<I32, Str>>))>>, Union(<<I32, Str>>), Body(<<
  Return(Match(Name("v"), <<Arm("i32", <<"k">>, Yield(Number(7))),
                            Arm("str", <<"k">>, Yield(Number(8)))>>))>>))

Declared == <<Point, Shape, Display, Twice, First, Loud, Pick>>

(***************************************************************************)
(* The variables.                                                          *)
(***************************************************************************)
Variables ==
  [n |-> Let("n", Number(2)),
   w |-> Let("w", Literal(I64, 3)),
   d |-> Let("d", Literal(F64, 4)),
   b |-> Let("b", Literal(Bool, TRUE)),
   c |-> Let("c", Literal(Char, 97)),
   s |-> Let("s", Text(<<49, 195, 169>>)),
   t |-> Let("t", StringNew(Text(<<50>>))),
   g |-> Let("g", BufferNew),
   p |-> Let("p", PointAt(One, Two)),
   e |-> Let("e", Method(Name("Shape"), "Circle", <<One>>)),
   o |-> Let("o", Some(One)),
   z |-> Assign("z", Optional(I32), None),
   r |-> Assign("r", Result(I32, Str), Err(Text(<<120>>))),
   a |-> Let("a", ArrayLiteral(<<One, Two>>)),
   h |-> Let("h", HeapArrayNew(I32, Two)),
   q |-> Assign("q", Pointer(I32), Null),
   u |-> Assign("u", Union(<<I32, Str>>), One),
   i |-> Let("i", Share(PointAt(One, One))),
   f |-> Let("f", Closure(<<Param("v", I32)>>, I32,
                          Body(<<Return(Double(Name("v")))>>)))]

(***************************************************************************)
(* Forms of one operand.                                                   *)
(***************************************************************************)
Of(e) == {
  Cast(e, I64), Cast(e, F64), Cast(e, Pointer(I64)),
  Deref(e), Unsafe(Yield(Deref(e))), AddressOf(e), Unsafe(Yield(Deref(AddressOf(e)))),
  Some(e), Share(e), StringNew(e),
  Field(e, "length"), Field(e, "bytes"), Field(e, "capacity"), Field(e, "x"),
  Method(e, "clone", <<>>), Parse(e, I32), Parse(e, Bool), Method(e, "to_cstr", <<>>),
  Method(e, "is_some", <<>>), Method(e, "is_err", <<>>), Method(e, "finish", <<>>),
  Method(e, "sum", <<>>), Method(e, "clear", <<>>),
  HeapArrayNew(I32, e), HeapArrayNew(F64, e),
  Interpolated(<<Plain(e)>>), Interpolated(<<Spec1(e, "radix")>>),
  Interpolated(<<Spec1(e, "precision")>>),
  HashOf(I32, e), HashOf(Named("Point"), e), KeyEq(Named("Point"), e, PointAt(One, Two)),
  Match(e, <<Arm("Circle", <<"k">>, Yield(Name("k"))), Arm("Empty", <<>>, Yield(One))>>),
  Match(e, <<Arm("i32", <<"k">>, Yield(Name("k"))), Arm("_", <<>>, Yield(One))>>),
  If(e, Yield(One), Yield(Two)), ArrayLiteral(<<e, e>>),
  Method(Name("Shape"), "Circle", <<e>>), PointAt(e, e),
  CallFun("twice", <<e>>), CallFun("first", <<e>>), CallFun("loud", <<e>>),
  CallFun("pick", <<e>>), CallFun("f", <<e>>), CallFun("print", <<e>>),
  Index(e, One), Index(e, Number(2)), StrSlice(e, One, Nothing)
}

\* A null pointer is not cast: the interpreter follows it.
UnsafeCast(e) == Unsafe(Yield(Cast(e, Pointer(I64))))

\* Forms of two operands.
OfTwo(x, y) == {
  Binary("+", x, y), Binary("/", x, y), Binary("&", x, y), Binary("<", x, y),
  Binary("==", x, y), Unsafe(Yield(Binary("+", x, y))), Index(x, y), StrSlice(x, Number(0), y),
  Method(x, "append", <<y>>), Method(x, "unwrap_or", <<y>>), Method(x, "join", <<y>>),
  Method(x, "reserve", <<y>>), Method(x, "append_line", <<y>>)
}

Unary ==
  UNION {{<<Variables[x], Let("y", form)>> : form \in Of(Name(x))} : x \in DOMAIN Variables}
    \cup {<<Variables["n"], Let("m", AddressOf(Name("n"))), Let("y", form)>> :
          form \in Of(Name("m")) \cup {UnsafeCast(Name("m"))}}
Both(x, y) == IF x = y THEN <<Variables[x]>> ELSE <<Variables[x], Variables[y]>>
BinaryForms ==
  UNION {{Append(Both(x, y), Let("y", form)) : form \in OfTwo(Name(x), Name(y))} :
         x, y \in DOMAIN Variables}


(***************************************************************************)
(* A function with one parameter of each kind that a body changes, fails   *)
(* with or matches, and the fragments its body is put together from.       *)
(***************************************************************************)
Either == Union(<<I32, Str>>)
ProbeParams == <<Param("n", I32), Param("b", Bool), Param("p", Named("Point")),
                 Param("o", Optional(I32)), Param("r", Result(I32, Str)),
                 Param("h", HeapArray(I32)), Param("u", Either)>>
ProbeArgs == [i \in DOMAIN ProbeParams |-> Name(ProbeParams[i].name)]
Less(a, b) == Binary("<", a, b)
OnlyIf(c, ss) == Expr(If(c, Body(ss), Body(<<>>)))
Adds(x) == Closure(<<Param("v", I32)>>, I32, Body(<<Return(Binary("+", Name("v"), Name(x)))>>))
Down == Closure(<<Param("v", I32)>>, I32, Body(<<
  OnlyIf(Less(Name("v"), One), <<Return(Name("v"))>>),
  Return(CallFun("down", <<Binary("-", Name("v"), One)>>))>>))

Changes == {
  <<Let("n", Double(Name("n")))>>,
  <<FieldAssign(Name("p"), "x", Name("n"))>>,
  <<FieldAssign(Name("p"), "x", Name("b"))>>,
  <<Let("q", Name("p")), IncDec(Field(Name("q"), "y"), 1)>>,
  <<IncDec(Name("n"), -1)>>, <<IncDec(Name("b"), 1)>>,
  <<IndexAssign(Name("h"), One, Name("n"))>>, <<IndexAssign(Name("h"), Number(5), Name("n"))>>,
  <<Let("at", AddressOf(Name("n"))), Expr(Unsafe(Body(<<DerefAssign(Name("at"), Two)>>)))>>,
  <<DerefAssign(AddressOf(Name("n")), Two)>>,
  <<Let("m", Block(<<Let("n", Two)>>, Double(Name("n"))))>>,
  <<Expr(Block(<<ForceDefine("n", Name("p")), FieldAssign(Name("n"), "x", One)>>, Nothing))>>,
  <<Assign("u", Either, Text(<<97>>))>>
}
Loops == {
  <<While(Less(Name("n"), Two), Body(<<IncDec(Name("n"), 1)>>))>>,
  <<While(Name("b"), Body(<<Break(Nothing)>>))>>,
  <<While(Name("b"), Body(<<Break(One)>>))>>,
  <<While(Name("n"), Body(<<>>))>>,
  <<Let("m", Loop(Body(<<OnlyIf(Name("b"), <<Break(Name("n"))>>)>>))),
    Let("n", Name("m"))>>,
  <<Let("m", Loop(Body(<<Expr(If(Name("b"), Body(<<Break(Name("n"))>>),
                                 Body(<<Break(Name("b"))>>)))>>)))>>,
  <<Let("m", Loop(Body(<<While(Name("b"), Body(<<Break(Nothing)>>)), Break(Name("p"))>>)))>>,
  <<Let("m", Loop(Body(<<Let("f", Adds("n")), Break(CallFun("f", <<Two>>))>>)))>>,
  <<While(Name("b"), Body(<<Let("b", Binary("==", Name("n"), Two)), Continue>>))>>,
  <<While(Name("b"), Body(<<Let("f", Closure(<<>>, NoType, Body(<<Continue>>)))>>))>>,
  <<Break(Nothing)>>, <<Continue>>
}
Exits == {
  <<OnlyIf(Name("b"), <<Let("g", Name("n"))>>)>>,
  <<Let("k", Try(Name("o")))>>, <<Let("k", Try(Name("r")))>>, <<Let("k", Try(Name("n")))>>,
  <<Let("k", Match(Name("u"), <<Arm("i32", <<"n">>, Yield(Double(Name("n")))),
                                Arm("str", <<"n">>, Yield(Field(Name("n"), "length")))>>))>>,
  <<Let("k", Match(Name("u"), <<Arm("str", <<"k">>, Block(<<Return(Name("o"))>>, One)),
                                Arm("_", <<>>, Yield(One))>>))>>,
  <<Let("k", Match(Name("u"), <<Arm("str", <<"k">>, Yield(One))>>))>>,
  <<Let("down", Down), Let("n", CallFun("down", <<Name("n")>>))>>,
  <<Let("f", Adds("n")), Let("n", Two), Let("k", CallFun("f", <<One>>))>>,
  <<Let("f", Adds("b"))>>,
  <<Assign("f", Fn(<<I32>>, I32), Name("twice")), Let("k", CallFun("f", <<Name("n")>>))>>,
  <<Let("k", CallFun("pick", <<Name("n")>>))>>,
  <<Let("k", CallFun("probe", ProbeArgs))>>
}
Fragments == Changes \cup Loops \cup Exits

\* How the body ends, with what the function declares to return.
Ending(T, ss) == [returns |-> T, body |-> ss]
Endings == {
  Ending(NoType, <<>>), Ending(NoType, <<Return(Nothing)>>), Ending(NoType, <<Return(One)>>),
  Ending(I32, <<>>), Ending(I32, <<Return(Name("n"))>>),
  Ending(I32, <<Expr(Loop(Body(<<OnlyIf(Name("b"), <<Return(One)>>)>>)))>>),
  Ending(I32, <<Expr(If(Name("b"), Body(<<Return(One)>>), Body(<<Return(Two)>>)))>>),
  Ending(I32, <<Expr(If(Name("b"), Body(<<Return(One)>>), Body(<<>>)))>>),
  Ending(I32, <<Expr(If(Name("b"), Body(<<Return(One)>>),
                        If(Name("b"), Body(<<Return(One)>>), Body(<<Return(Two)>>))))>>),
  Ending(Optional(I32), <<Return(None)>>), Ending(Optional(I32), <<Return(Some(Name("n")))>>),
  Ending(Result(I32, Str), <<Return(Ok(Name("n")))>>),
  Ending(Result(I32, Str), <<Return(Err(Name("n")))>>),
  Ending(Result(I32, Str), <<Return(Name("r"))>>),
  Ending(Either, <<Return(Name("n"))>>), Ending(Either, <<Return(Name("b"))>>),
  Ending(Named("Point"), <<Return(Name("p"))>>), Ending(Slice(I32), <<Return(Name("h"))>>),
  Ending(Pointer(I32), <<Return(AddressOf(Name("n")))>>),
  Ending(Pointer(I32), <<Return(Null)>>),
  Ending(Fn(<<I32>>, I32), <<Return(Name("twice"))>>),
  Ending(Fn(<<I32>>, I32), <<Return(Adds("n"))>>)
}

Probe(ss, ending) == Fun("probe", ProbeParams, ending.returns, Body(ss \o ending.body))
Called == <<Variables["n"], Variables["b"], Variables["p"], Variables["o"], Variables["r"],
            Variables["h"], Variables["u"], Let("y", CallFun("probe", ProbeArgs))>>
Bodies == {Append(Called, Probe(ss, ending)) : ss \in Fragments \cup {<<>>}, ending \in Endings}
            \cup {Append(Called, Probe(s1 \o s2, ending)) :
                  s1, s2 \in Fragments,
                  ending \in {Ending(I32, <<Return(Name("n"))>>),
                              Ending(Optional(I32), <<Return(None)>>)}}

(***************************************************************************)
(* Every form of expression in a closure that captures its operand. The    *)
(* interpreter does not look for names in the operands of these forms.     *)
(***************************************************************************)
NotWalked == {"stringnew", "share", "heaparraynew", "hash", "keyeq", "addressof"}
Captures(x, form) ==
  <<Variables[x], Let("in", Closure(<<>>, I32, Body(<<Let("k", form), Return(One)>>))),
    Let("y", CallFun("in", <<>>))>>
CanCapture(form) == NotWalked \cap {n.k : n \in M!NodesIn(form)} = {}
Closures ==
  UNION {{Captures(x, form) : form \in {e \in Of(Name(x)) : CanCapture(e)}} :
         x \in DOMAIN Variables \ {"f"}}
AllClosures == UNION {{Captures(x, form) : form \in Of(Name(x))} : x \in {"n", "s", "p"}}

(***************************************************************************)
(* Declarations that are in order and declarations that are not, and calls *)
(* across modules.                                                         *)
(***************************************************************************)
InModule(module, f) == [f EXCEPT !.name = <<module, @[2]>>]
Public(d) == [d EXCEPT !.public = TRUE]
OfModule(module, e) == [e EXCEPT !.module = module]
Area == Fun("area", <<Param("v", I32)>>, I32, Body(<<Return(CallFun("twice", <<Name("v")>>))>>))
UsesArea == InModule("geo", Fun("use", <<>>, I32, Body(<<
  Return(Method(Name("geo"), "area", <<One>>))>>)))
Signature(name, arity) == [name |-> name, arity |-> arity]
Externs == <<Extern("puts", <<Param("s", Str)>>, I32), Extern("abs", <<Param("v", I32)>>, I32),
             Extern("malloc", <<Param("n", I64)>>, Pointer(I32)),
             Extern("free", <<Param("p", Pointer(I32))>>, NoType),
             Extern("sleep", <<>>, NoType)>>

Declaring == {
  <<Fun("print", <<>>, NoType, Body(<<>>))>>, <<Extern("twice", <<>>, I32)>>,
  <<Extern("open", <<Param("s", OwnedString)>>, I32)>>, <<Extern("open", <<>>, Named("Point"))>>,
  <<Struct("View", <<[name |-> "xs", type |-> Slice(I32)]>>)>>,
  <<Struct("Link", <<[name |-> "to", type |-> Pointer(Named("Link"))]>>),
    Let("y", StructLiteral(Named("Link"), <<[name |-> "to", value |-> Null]>>)),
    Expr(Body(<<FieldAssign(Name("y"), "to", AddressOf(Name("y")))>>)),
    Let("z", Unsafe(Yield(Deref(Field(Name("y"), "to")))))>>,
  <<Struct("Link", <<[name |-> "to", type |-> Pointer(Named("Link"))]>>),
    Let("y", HashOf(Named("Link"), StructLiteral(Named("Link"),
                                                 <<[name |-> "to", value |-> Null]>>)))>>,
  <<Struct("Name", <<[name |-> "s", type |-> OwnedString]>>)>>,
  <<Struct("Odd", <<[name |-> "s", type |-> Named("Missing")]>>)>>,
  <<Impl("", "Missing", <<>>)>>, <<Impl("Display", "Point", <<>>)>>,
  <<Trait("Area", <<Signature("area", 1)>>), Impl("Area", "Point", <<>>)>>,
  <<Trait("Area", <<Signature("area", 1)>>),
    Impl("Area", "Point", <<Own("Point", "area", <<Param("self", Named("Point"))>>, I32,
                                Body(<<Return(Field(Name("self"), "x"))>>))>>),
    Let("y", Method(PointAt(One, Two), "area", <<>>))>>,
  <<Public(InModule("geo", Area)), Let("y", Method(Name("geo"), "area", <<Two>>))>>,
  <<InModule("geo", Area), Let("y", Method(Name("geo"), "area", <<Two>>))>>,
  <<InModule("geo", Area), Public(UsesArea), Let("y", Method(Name("geo"), "use", <<>>))>>,
  <<Public(InModule("geo", Area)), Let("y", Method(Name("geo"), "area", <<Text(<<97>>)>>))>>,
  <<Public(OfModule("c", Extern("abs", <<Param("v", I32)>>, I32))),
    Let("y", Method(Name("c"), "abs", <<Number(-2)>>))>>,
  <<OfModule("c", Extern("abs", <<Param("v", I32)>>, I32)),
    Let("y", Method(Name("c"), "abs", <<One>>))>>,
  Externs \o <<Let("y", CallFun("abs", <<Number(-2)>>)), Expr(CallFun("puts", <<Text(<<97>>)>>)),
               Let("m", CallFun("malloc", <<Literal(I64, 8)>>)),
               Expr(Unsafe(Body(<<DerefAssign(Binary("+", Name("m"), One), Name("y"))>>))),
               Let("z", Unsafe(Yield(Deref(Binary("+", Name("m"), One))))),
               Expr(CallFun("free", <<Name("m")>>))>>,
  Externs \o <<Let("m", CallFun("malloc", <<Literal(I64, -8)>>))>>,
  Externs \o <<Expr(CallFun("sleep", <<>>))>>
}

(***************************************************************************)
(* Templates, and what is made of them for a type and a value of it.       *)
(***************************************************************************)
T0 == Named("T")
BoxOf(T) == Generic("Box", <<T>>)
PairOf(S, T) == Generic("Pair", <<S, T>>)
NewBox(T, e) == StructLiteral(BoxOf(T), <<[name |-> "value", value |-> e]>>)
OfT(template) == [template EXCEPT !.tparams = <<"T">>]
CallOf(name, T, args) == [CallFun(name, args) EXCEPT !.types = <<T>>]
Self(T) == Param("self", T)

Templates == <<
  OfT(Struct("Box", <<[name |-> "value", type |-> T0]>>)),
  [Struct("Pair", <<[name |-> "a", type |-> Named("A")], [name |-> "b", type |-> BoxOf(Named("B"))]>>)
    EXCEPT !.tparams = <<"A", "B">>],
  OfT(Struct("Node", <<[name |-> "item", type |-> T0],
                       [name |-> "next", type |-> Pointer(Generic("Node", <<T0>>))]>>)),
  OfT(Impl("", "Box", <<
    Own("Box", "get", <<Self(BoxOf(T0))>>, T0, Body(<<Return(Field(Name("self"), "value"))>>)),
    Own("Box", "put", <<Self(BoxOf(T0)), Param("v", T0)>>, NoType,
        Body(<<FieldAssign(Name("self"), "value", Name("v"))>>)),
    Own("Box", "of", <<Param("v", T0)>>, BoxOf(T0), Body(<<Return(NewBox(T0, Name("v")))>>))>>)),
  OfT(Fun("wrap", <<Param("v", T0)>>, BoxOf(T0), Body(<<Return(NewBox(T0, Name("v")))>>))),
  OfT(Fun("same", <<Param("v", T0), Param("w", T0)>>, PairOf(T0, T0),
          Body(<<Let("box", CallOf("wrap", T0, <<Name("w")>>)),
                 Return(StructLiteral(PairOf(T0, T0), <<[name |-> "a", value |-> Name("v")],
                                                        [name |-> "b", value |-> Name("box")]>>))>>))),
  OfT(Public(InModule("geo", Fun("keep", <<Param("v", T0)>>, T0,
                                 Body(<<Assign("kept", BoxOf(T0), CallOf("wrap", T0, <<Name("v")>>)),
                                        Return(Method(Name("kept"), "get", <<>>))>>))))),
  OfT(Fun("bytes", <<>>, I64, Body(<<Return(SizeOf(T0))>>)))
>>

Unbox(T) == "unbox" \o M!MangleType(T)
Uses(T, e) == {
  <<Let("x", NewBox(T, e))>>, <<Let("x", CallOf("wrap", T, <<e>>))>>,
  <<Let("x", CallOf("same", T, <<e, e>>))>>,
  <<Let("x", NewBox(T, e)), Let("y", Method(Name("x"), "get", <<>>))>>,
  <<Let("x", NewBox(T, e)), Expr(Method(Name("x"), "put", <<e>>))>>,
  <<Let("x", Method(TypeName(BoxOf(T)), "of", <<e>>))>>,
  <<Let("x", [Method(Name("geo"), "keep", <<e>>) EXCEPT !.types = <<T>>])>>,
  <<Let("x", NewBox(BoxOf(T), NewBox(T, e))),
    Let("y", Method(Method(Name("x"), "get", <<>>), "get", <<>>))>>,
  <<Let("x", StructLiteral(Generic("Node", <<T>>), <<[name |-> "item", value |-> e],
                                                     [name |-> "next", value |-> Null]>>))>>,
  <<Assign("x", Pointer(BoxOf(T)), Null)>>, <<Let("x", CallOf("bytes", BoxOf(T), <<>>))>>,
  <<Fun(Unbox(T), <<Param("box", BoxOf(T))>>, T, Body(<<Return(Field(Name("box"), "value"))>>)),
    Let("x", CallFun(Unbox(T), <<NewBox(T, e)>>))>>,
  <<Let("x", CallOf("wrap", BoxOf(T), <<e>>))>>, <<Let("x", CallOf("twice", T, <<e>>))>>,
  <<Let("x", NewBox(T, None))>>, <<Let("x", CallFun("wrap", <<e>>))>>,
  <<Let("x", StructLiteral(Generic("Pair", <<T>>), <<>>))>>,
  <<Let("x", StructLiteral(Generic("Point", <<T>>), <<>>))>>,
  <<Let("f", Closure(<<Param("box", BoxOf(T))>>, T,
                     Body(<<Return(Method(Name("box"), "get", <<>>))>>))),
    Let("x", CallFun("f", <<NewBox(T, e)>>))>>
}
Generics ==
  LET one == Uses(I32, One) \cup Uses(Str, Text(<<97>>)) \cup Uses(Named("Point"), PointAt(One, Two))
               \cup Uses(Optional(I32), Some(One))
      other == UNION {Uses(BoxOf(I32), NewBox(I32, One)), Uses(I64, One)}
  IN {use \o Templates : use \in one \cup other}
       \cup {a \o b \o Templates : a \in Uses(I32, One), b \in Uses(BoxOf(I32), NewBox(I32, One))}

AllSources == Unary \cup BinaryForms \cup Bodies \cup Closures \cup Declaring \cup Generics

===============================================================================
