--------------------------- MODULE MCMoveSoundness ---------------------------
(***************************************************************************)
(* Bodies for MoveSoundness: every choice of statements at the places S of *)
(* some shapes.  The parameter p and the locals a and q hold structs.      *)
(***************************************************************************)
EXTENDS MoveSoundness

S1(op, x) == [op |-> op, to |-> NoName, of |-> x]
S2(op, x, y) == [op |-> op, to |-> x, of |-> y]
Op(op) == [op |-> op, to |-> NoName, of |-> NoName]

If == Op("if")
Else == Op("else")
End == Op("end")
Loop == Op("loop")
Match(x) == S2("match", "q", x)
Arm == S2("arm", "q", NoName)

Use == {S1("read", "p"), S1("give", "p"), S2("copy", "a", "p"),
        S2("fresh", "a", NoName), S1("give", "a"), S2("fresh", "p", NoName)}
More == Use \cup {S1("read", "a"), S1("store", "p"), S1("return", "p"), S2("copy", "p", "a"),
                  S1("give_field", "p"), S1("capture", "p")}
Few == {S1("read", "p"), S1("give", "p"), S2("fresh", "p", NoName)}
Local == {S2("fresh", "a", NoName), S1("give", "a"), S1("read", "p")}

StraightLines == {<<s, t, u, v>> : s, t, u, v \in More}
Ifs == {<<s, If, t, Else, u, End, v>> : s, t, u, v \in Use}
NestedIfs == {<<If, If, s, Else, t, End, u, Else, v, End, w>> : s, t, u, v, w \in Few}
Arms == {S1("read", "q"), S1("give", "q"), S1("store", "q"), S1("yield", "q"), S1("give", "a"),
         S1("read", "a")}
BranchOfArm == {S2("copy", "a", "q"), S1("return", "q"), S1("give", "q"), S1("read", "p")}
Matches == {<<s, Match("p"), t, Arm, u, End, v>> : s, v \in Use, t, u \in Arms}
             \cup {<<s, Match("p"), If, t, Else, u, End, Arm, v, End>> :
                     s \in Use, t, u \in BranchOfArm, v \in Arms}
Loops == {<<s, Loop, t, If, u, w, Else, End, v, End, x>> :
            s, x \in Few, t, u, v \in Local, w \in {Op("break"), Op("continue")}}
Scopes == {<<s, Op(op), t, u, End, v>> :
             op \in {"block", "unsafe"}, s, v \in Use, t, u \in Local}

Params(region) == [x \in Names |-> IF x = "p" THEN region ELSE "none"]
AsBodies(codes, regions) ==
  {b \in {[code |-> c, params |-> Params(r), toplevel |-> r = "none"] : c \in codes, r \in regions} :
     WellFormedBody(b)}

TameBodies ==
  {b \in AsBodies(StraightLines, {"owned", "borrowed", "none"})
           \cup AsBodies(Ifs \cup Matches \cup Scopes, {"owned", "borrowed"})
           \cup AsBodies(NestedIfs, {"owned"})
           \cup AsBodies(Loops, {"owned", "borrowed"}) :
     Tame(b)}

Owned(codes) == AsBodies(codes, {"owned"})
Ends == {S1("read", "p"), S1("give", "p"), S2("fresh", "a", NoName)}

\* A call written module.function(...) of a function that takes its argument.
QualifiedCalls == Owned({<<s, S1("module_give", "p"), t>> : s, t \in Ends})
=============================================================================
