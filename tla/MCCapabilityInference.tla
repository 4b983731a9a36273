------------------------ MODULE MCCapabilityInference ------------------------
(***************************************************************************)
(* Small programs for CapabilityInference: two functions f(f1, f2) and     *)
(* g(g1) that may call themselves and each other, and a closure literal    *)
(* c(c1) in the body of f.                                                 *)
(***************************************************************************)
EXTENDS CapabilityInference, SequencesExt

CONSTANTS f, g, c, f1, f2, g1, c1

MCOwnerOf == [s \in {f1, f2, g1, c1} |->
                CASE s \in {f1, f2} -> f [] s = g1 -> g [] s = c1 -> c]

mutate(s) == [kind |-> "mutate", slot |-> s]
capture(s) == [kind |-> "capture", slot |-> s]
pass(s, t) == [kind |-> "pass", slot |-> s, to |-> t]
method_arg(s, t) == [kind |-> "method_arg", slot |-> s, to |-> t]
closure == [kind |-> "closure", closure |-> c]

Undeclareds == [s \in {f1, f2, g1, c1} |-> Undeclared]
ProgramOf(fWalk, gWalk, declared) ==
  [walk |-> [h \in {f, g} |-> IF h = f THEN fWalk ELSE gWalk],
   declared |-> declared]

\* Every contract for f1 and g1 the language lets one write, the rest inferred.
Contracts == {[Undeclareds EXCEPT ![f1] = x, ![g1] = y] :
                x \in {Undeclared, Read, Write}, y \in {Undeclared, Read, Take}}

\* Calls: recursion, swapped parameters, mutual recursion.
FCalls == {mutate(f1), pass(f1, f2), pass(f2, f1), pass(f2, g1), pass(f1, g1)}
GCalls == {<<>>, <<mutate(g1)>>, <<capture(g1)>>, <<pass(g1, f1)>>,
           <<pass(g1, f2)>>, <<pass(g1, f2), mutate(g1)>>}
CallPrograms == {ProgramOf(w, v, d) : w \in BoundedSeq(FCalls, 2), v \in GCalls,
                                      d \in Contracts}

\* Closures: f may also call g before and after the literal.
ClosureBodies == {<<>>, <<mutate(c1)>>, <<pass(c1, g1)>>, <<method_arg(c1, g1)>>}
ClosureWalks == {<<pass(f1, g1)>> \o x \o <<closure>> \o b \o y :
                   x \in {<<>>, <<capture(f1)>>}, b \in ClosureBodies,
                   y \in {<<>>, <<pass(f2, f1)>>}}
ClosurePrograms ==
  {ProgramOf(w, v, d) :
     w \in ClosureWalks,
     v \in {<<>>, <<mutate(g1)>>, <<pass(g1, f2)>>},
     d \in Contracts \cup {[Undeclareds EXCEPT ![c1] = Read]}}

MCPrograms == CallPrograms \cup ClosurePrograms

\* An argument of a struct method whose parameter is mutated or taken.
MethodPrograms ==
  {ProgramOf(w, v, d) : w \in {<<method_arg(f1, g1)>>, <<pass(f2, f1), method_arg(f1, g1)>>},
                        v \in {<<mutate(g1)>>, <<capture(g1)>>},
                        d \in Contracts}
=============================================================================
