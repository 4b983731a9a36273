--------------------------- MODULE MCCodeGeneration ---------------------------
(***************************************************************************)
(* Bodies for CodeGeneration: structs through every construct, integers    *)
(* through loops and branches.                                             *)
(***************************************************************************)
EXTENDS CodeGeneration

S1(op, x) == [op |-> op, to |-> NoName, of |-> x]
S2(op, x, y) == [op |-> op, to |-> x, of |-> y]
Op(op) == [op |-> op, to |-> NoName, of |-> NoName]
Fresh(x) == S2("fresh", x, NoName)

If == Op("if")
Else == Op("else")
End == Op("end")
Loop == Op("loop")
Match(x) == S2("match", "q", x)
Arm == S2("arm", "q", NoName)

Params(region) == [x \in Names |-> IF x = "p" THEN region ELSE "none"]
AsBodies(codes, regions, owns) ==
  {b \in {[body |-> [code |-> c, params |-> Params(r), toplevel |-> FALSE], owning |-> owns] :
            c \in codes, r \in regions} :
     WellFormedBody(b.body) /\ NoDeadCode(b.body) /\ TwoBranches(b.body)}

Moved == {S1("read", "p"), S1("give", "p"), S2("copy", "a", "p"), S1("read", "a"),
          S1("store", "a"), Fresh("a"), S1("return", "a")}
Ends == {S1("read", "p"), S1("give", "p"), S1("read", "a")}
Lines == {<<s, t, u, v>> : s, t, u, v \in Moved \cup {Fresh("p"), S1("capture", "p")}}
Ifs == {<<Fresh("a"), If, t, u, Else, v, End, w>> : t, u, v, w \in Moved}
Arms == {S1("read", "q"), S1("give", "q"), S1("store", "q"), S1("yield", "q")}
Branches == {S2("copy", "a", "q"), S1("return", "q"), S1("give", "q"), Fresh("a")}
Matches == {<<s, Match("p"), t, Arm, u, End, v>> : s, v \in Ends \cup {Fresh("p")}, t, u \in Arms}
             \cup {<<Match("p"), If, t, u, Else, v, End, Arm, w, End>> :
                     t, u, v \in Branches, w \in Arms}
Inner == {Fresh("a"), S1("give", "a"), S1("read", "p"), S2("copy", "q", "a"), S1("read", "q")}
Scopes == {<<S1("read", "p"), Op(op), t, u, v, End, w>> :
             op \in {"block", "unsafe", "loop"}, w \in Ends, t, u, v \in Inner}
Structs ==
  AsBodies(Lines \cup Ifs \cup Scopes, {"owned", "borrowed"}, TRUE) \cup AsBodies(Matches, {"owned"}, TRUE)

Set == {Fresh("p"), Fresh("a"), S2("copy", "a", "p"), S1("read", "a")}
Jump == {Op("break"), Op("continue"), S1("return", "p"), Fresh("p"), S1("read", "p")}
Result == {S1("read", "p"), S1("return", "a")}
IntegerLoops == {<<Fresh("a"), Loop, t, If, u, v, Else, w, End, x, End, y>> :
                   t, u, x \in Set, v, w \in Jump, y \in Result}
Nested == {<<Fresh("a"), Loop, s, Loop, t, If, v, Else, End, End, u, End, x>> :
             s, t, u \in Set, v \in Jump, x \in Result}
NestedIfs == {<<Fresh("a"), If, If, t, Else, u, End, v, Else, s, w, End, x>> :
                s, t, u, v, w \in Set, x \in Result}
Integers == AsBodies(IntegerLoops \cup Nested \cup NestedIfs, {"borrowed"}, FALSE)

TamedBodies ==
  {b \in Structs : AssignsOwnScope(b.body) /\ Tame(b.body)} \cup {b \in Integers : CarriesAlone(b.body)}

\* CompiledLoops: a second name for a value that a loop then changes.
Aliases == {<<S2("copy", "a", "p"), Loop, t, u, End, v>> : t, u \in Set, v \in {S1("read", "a"), S1("read", "p")}}
CopiedBodies == AsBodies(Aliases, {"borrowed"}, FALSE)
=============================================================================
