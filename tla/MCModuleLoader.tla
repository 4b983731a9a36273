---------------------------- MODULE MCModuleLoader ----------------------------
(***************************************************************************)
(* Projects for TLC.  Loading: what is found where, in which order, with   *)
(* empty modules.  Naming: two modules beside the entry file, with every   *)
(* combination of who declares, exports and calls one function "f" and the *)
(* constructor "newS" of a struct "S".                                     *)
(***************************************************************************)
EXTENDS ModuleLoader

MCNames == {"f", "S", "newS"}
MCConstructor == [n \in MCNames |-> IF n = "S" THEN "newS" ELSE n]

Call(n) == [name |-> n, variable |-> FALSE, hidden |-> FALSE]
CallOfVariable(n) == [Call(n) EXCEPT !.variable = TRUE]
HiddenCall(n) == [Call(n) EXCEPT !.hidden = TRUE]
Item(kind, name, public, calls) ==
  [kind |-> kind, name |-> name, public |-> public, calls |-> calls]

Code == Item("code", "f", FALSE, <<>>)

ModuleFile(dir, module, uses, items) ==
  [dir |-> dir, entryName |-> FALSE, parses |-> TRUE, module |-> module,
   uses |-> uses, items |-> items]

Broken(dir) == [ModuleFile(dir, Root, <<>>, <<>>) EXCEPT !.parses = FALSE]
NamedLikeEntry(dir, module) == [ModuleFile(dir, module, <<>>, <<>>) EXCEPT !.entryName = TRUE]

Project(files, levels, home, uses, items) ==
  [files |-> files, levels |-> levels, home |-> home, entryUses |-> uses,
   entryItems |-> items]
-----------------------------------------------------------------------------
LoadingFiles ==
  {ModuleFile(d, m, u, <<>>) : d \in 0 .. 2, m \in {"a", "b"}, u \in {<<>>, <<"b">>}}
  \cup {ModuleFile(d, "b", <<"b", "a">>, <<>>) : d \in 0 .. 1}
  \cup {Broken(0), ModuleFile(0, Root, <<"a">>, <<>>), NamedLikeEntry(1, "a"),
        ModuleFile(1, "b", <<>>, <<Code>>)}

\* No "std"; one beside an ancestor; two; the entry file itself in one.
Layouts == {<<{}, 0>>, <<{2}, 0>>, <<{1, 2}, 0>>, <<{1, 2}, 1>>}

\* Which of the files is which does not matter: they come in the order of a key.
Key(file) == 100 * file.dir + 10 * Len(file.uses)
               + (CASE file.module = "a" -> 0 [] file.module = "b" -> 1 [] OTHER -> 2)
               + 3 * Len(file.items)
Arrangements ==
  {[f \in Files |-> CASE f = "f1" -> x[1] [] f = "f2" -> x[2] [] OTHER -> x[3]] :
     x \in {y \in LoadingFiles \X LoadingFiles \X LoadingFiles :
                  Key(y[1]) <= Key(y[2]) /\ Key(y[2]) <= Key(y[3])}}

LoadingProjects ==
  {Project(files, l[1], l[2], u, <<>>) :
     files \in Arrangements, l \in Layouts, u \in {<<"a">>, <<"b", "a">>}}
-----------------------------------------------------------------------------
Declarations(n) ==
  {<<>>} \cup {<<Item("function", n, p, <<>>)>> : p \in BOOLEAN}
  \cup {<<Item("function", n, TRUE, <<Call("f")>>)>>}

Structs == {<<>>, <<Item("struct", "S", FALSE, <<>>)>>}
Callers == {<<Item("impl", "S", FALSE, <<Call("f"), Call("S"), HiddenCall("f")>>)>>}
EntryCallers ==
  {<<Item("code", "f", FALSE, <<Call("S"), Call("f"), HiddenCall("S")>>)>>,
   <<Item("code", "f", FALSE, <<HiddenCall("f")>>)>>}

\* A file of no directory that is searched.
Elsewhere == ModuleFile(2, "a", <<>>, <<>>)

NamingProjects ==
  {Project([k \in Files |-> CASE k = "f1" -> ModuleFile(0, "a", ua, fa \o na \o sa \o ca)
                              [] k = "f2" -> ModuleFile(0, "b", <<>>, fb \o nb)
                              [] OTHER -> Elsewhere],
           {}, 0, ue, fe \o ne \o se \o ce) :
     ua \in {<<>>, <<"b">>}, ue \in {<<"a">>, <<"a", "b">>, <<"b">>},
     fa \in Declarations("f"), na \in Declarations("newS"), sa \in Structs, ca \in Callers,
     fb \in Declarations("f"), nb \in Declarations("newS"),
     fe \in {<<>>, <<Item("function", "f", FALSE, <<>>)>>},
     ne \in {<<>>, <<Item("function", "newS", FALSE, <<>>)>>},
     se \in Structs, ce \in EntryCallers}
AllProjects == LoadingProjects \cup NamingProjects
-----------------------------------------------------------------------------
\* A parameter named like a function of the module, or of the entry file.
VariableProjects ==
  {Project([k \in Files |-> ModuleFile(0, "a", <<>>, fa \o ca)], {}, 0, <<"a">>, fe \o ce) :
     fa \in Declarations("f"), ca \in {<<>>, <<Item("function", "S", FALSE, <<CallOfVariable("f")>>)>>},
     fe \in {<<>>, <<Item("function", "f", FALSE, <<>>)>>},
     ce \in {<<>>, <<Item("function", "S", FALSE, <<CallOfVariable("f")>>)>>}}
=============================================================================
