------------------------------- MODULE Programs -------------------------------
(***************************************************************************)
(* The syntax tree the parser builds and every later pass reads: types,    *)
(* expressions, statements and declarations, as records whose field k      *)
(* (kind, for a type) says which node it is.                               *)
(*                                                                         *)
(* A type is spelled as text in the source; here it is the tree of that    *)
(* text. Names are strings. A qualified name owner.name is the pair        *)
(* <<owner, name>>, with the owner "" when the name has no dot. A text is  *)
(* the sequence of its bytes.                                              *)
(***************************************************************************)
EXTENDS Integers, Sequences

(***************************************************************************)
(* Types.                                                                  *)
(***************************************************************************)
Basic(kind) == [kind |-> kind]
I32 == Basic("i32")
I64 == Basic("i64")
F64 == Basic("f64")
Bool == Basic("bool")
Char == Basic("char")
Str == Basic("str")
CStr == Basic("cstr")
Unit == Basic("unit")
OwnedString == Basic("String")
Buffer == Basic("Buffer")
Primitives == {I32, I64, F64, Bool, Char, Str, CStr, Unit}

NullPointer == Basic("null")     \* the type of null, which no source text spells
Wrong == Basic("wrong")          \* the pass threw instead of answering
NoType == Basic("none")          \* an annotation, or a return type, that is absent

Named(name) == [kind |-> "named", name |-> name]
StructType(name) == [kind |-> "struct", name |-> name]
EnumType(name) == [kind |-> "enum", name |-> name]
Optional(T) == [kind |-> "optional", of |-> T]
Shared(T) == [kind |-> "shared", of |-> T]
HeapArray(T) == [kind |-> "heaparray", of |-> T]
Slice(T) == [kind |-> "slice", of |-> T]
Pointer(T) == [kind |-> "pointer", of |-> T]
Array(T, size) == [kind |-> "array", of |-> T, size |-> size]
Result(T, E) == [kind |-> "result", of |-> T, err |-> E]
Union(alternatives) == [kind |-> "union", alternatives |-> alternatives]
Fn(params, result) == [kind |-> "fn", params |-> params, result |-> result]
Generic(name, args) == [kind |-> "generic", name |-> name, args |-> args]

(***************************************************************************)
(* Expressions. Optional parts that are absent are Nothing.                *)
(***************************************************************************)
Nothing == [k |-> "nothing"]

Literal(T, v) ==
  CASE T = Str -> [k |-> "literal", type |-> T, s |-> v]
    [] T = Bool -> [k |-> "literal", type |-> T, b |-> v]
    [] OTHER -> [k |-> "literal", type |-> T, n |-> v]
Number(n) == Literal(I32, n)
Text(bytes) == Literal(Str, bytes)
Name(n) == [k |-> "name", name |-> n]
TypeName(T) == [k |-> "typename", type |-> T]   \* an instantiation before a dot
Binary(op, a, b) == [k |-> "binary", op |-> op, left |-> a, right |-> b]
Cast(e, T) == [k |-> "cast", operand |-> e, type |-> T]
Deref(e) == [k |-> "deref", operand |-> e]
AddressOf(e) == [k |-> "addressof", operand |-> e]
Some(e) == [k |-> "some", value |-> e]
None == [k |-> "None"]
Null == [k |-> "null"]
Share(e) == [k |-> "share", value |-> e]
Ok(e) == [k |-> "ok", value |-> e]
Err(e) == [k |-> "err", value |-> e]
Try(e) == [k |-> "try", operand |-> e]
\* A piece of an interpolated string is literal text or an expression with the kind of
\* its format specification: plain, radix, radix_precision, precision, align or width.
Interpolated(pieces) == [k |-> "interpolated", pieces |-> pieces]
If(c, a, b) == [k |-> "if", condition |-> c, then |-> a, else |-> b]
Arm(variant, names, body) == [variant |-> variant, names |-> names, body |-> body]
Match(e, arms) == [k |-> "match", scrutinee |-> e, arms |-> arms]
Loop(body) == [k |-> "loop", body |-> body]
Call(callee, args) == [k |-> "call", callee |-> callee, args |-> args, types |-> <<>>]
Field(e, f) == [k |-> "field", object |-> e, field |-> f]
StructLiteral(T, fields) == [k |-> "struct", type |-> T, fields |-> fields]
ArrayLiteral(es) == [k |-> "array", elements |-> es]
Index(e, i) == [k |-> "index", object |-> e, index |-> i]
StrSlice(e, from, to) == [k |-> "slice", object |-> e, start |-> from, end |-> to]
Method(e, m, args) == [k |-> "method", object |-> e, method |-> m, args |-> args,
                       types |-> <<>>]
Parse(e, T) == [Method(e, "parse", <<>>) EXCEPT !.types = <<T>>]
StringNew(e) == [k |-> "stringnew", text |-> e]
BufferNew == [k |-> "buffernew"]
HeapArrayNew(T, n) == [k |-> "heaparraynew", type |-> T, size |-> n]
SizeOf(T) == [k |-> "sizeof", type |-> T]
HashOf(T, e) == [k |-> "hash", type |-> T, value |-> e]
KeyEq(T, a, b) == [k |-> "keyeq", type |-> T, left |-> a, right |-> b]
Block(ss, e) == [k |-> "block", statements |-> ss, result |-> e]
Unsafe(body) == [k |-> "unsafe", body |-> body]
Param(name, T) == [name |-> name, type |-> T]
Closure(params, T, body) == [k |-> "closure", params |-> params, returns |-> T, body |-> body]

(***************************************************************************)
(* Statements and declarations. forced marks the assignments a for         *)
(* statement is rewritten to: they always define.                          *)
(***************************************************************************)
Assign(x, T, e) == [k |-> "assign", name |-> x, type |-> T, value |-> e,
                    forced |-> FALSE]
ForceDefine(x, e) == [Assign(x, NoType, e) EXCEPT !.forced = TRUE]
Return(e) == [k |-> "return", value |-> e]
While(c, body) == [k |-> "while", condition |-> c, body |-> body]
Break(e) == [k |-> "break", value |-> e]
Continue == [k |-> "continue"]
Expr(e) == [k |-> "expr", expr |-> e]
FieldAssign(e, f, v) == [k |-> "fieldassign", object |-> e, field |-> f, value |-> v]
IndexAssign(e, i, v) == [k |-> "indexassign", object |-> e, index |-> i, value |-> v]
DerefAssign(p, v) == [k |-> "derefassign", pointer |-> p, value |-> v]
IncDec(e, by) == [k |-> "incdec", target |-> e, by |-> by]

Function(name, params, T, body) ==
  [k |-> "function", name |-> name, params |-> params, returns |-> T, body |-> body,
   public |-> FALSE, tparams |-> <<>>]
Struct(name, fields) == [k |-> "structdecl", name |-> name, fields |-> fields,
                         tparams |-> <<>>]
Variant(name, fields) == [name |-> name, fields |-> fields]
Enum(name, variants) == [k |-> "enumdecl", name |-> name, variants |-> variants]
Extern(name, params, T) == [k |-> "extern", name |-> name, params |-> params,
                            returns |-> T, public |-> FALSE, module |-> ""]
Trait(name, methods) == [k |-> "trait", name |-> name, methods |-> methods]
Impl(trait, name, methods) == [k |-> "impl", trait |-> trait, name |-> name,
                               methods |-> methods, tparams |-> <<>>]

===============================================================================
