----------------------------- MODULE ModuleLoader -----------------------------
(***************************************************************************)
(* loadProgram: from the entry file, find every module it uses, directly   *)
(* or through other modules, merge all of them into one flat program and   *)
(* rewrite the calls by bare name to the functions they mean.              *)
(*                                                                         *)
(* Files and directories are those present while loadProgram runs.  The    *)
(* order in which std::filesystem::directory_iterator yields the files of  *)
(* a directory is unspecified, hence any order.  A callee is a module and  *)
(* a name, "m.f", and bare when the module is Root, "f".                   *)
(***************************************************************************)
EXTENDS Integers, Sequences, FiniteSets

CONSTANTS
  Modules,      \* the names module declarations may give
  Root,         \* "", the module of the entry file and of a file without one
  Files,        \* the files the directories searched may hold
  Names,        \* the bare names of functions and structs
  Constructor,  \* [Names -> Names]: "new" + the name of a struct
  Projects      \* the projects to consider, see ProjectType

(***************************************************************************)
(* A call is by bare name; variable says that a parameter or local of the  *)
(* calling function bears the name and holds the closure to call; hidden   *)
(* says that the call stands somewhere in an operand of hash<T>, keyEq<T>  *)
(* or HeapArray<T>, which collectCallExprsInExpr takes for leaves: no pass *)
(* that rewrites calls ever sees it.  An item is a top-level declaration   *)
(* (or top-level code) and the calls in it, the hidden ones included.      *)
(***************************************************************************)
CallType == [name : Names, variable : BOOLEAN, hidden : BOOLEAN]
ItemType == [kind : {"function", "struct", "impl", "code"}, name : Names,
             public : BOOLEAN, calls : Seq(CallType)]

\* dir 0 is the entry file's directory, dir n a "std" directory beside it or
\* beside an ancestor of it.
FileType == [dir : Nat, entryName : BOOLEAN, parses : BOOLEAN,
             module : Modules \cup {Root}, uses : Seq(Modules),
             items : Seq(ItemType)]

\* levels: where "std" directories are found walking up from the entry file's
\* directory; home: the level at which the walk meets that directory itself.
ProjectType == [files : [Files -> FileType], levels : SUBSET (Nat \ {0}),
                home : Nat, entryUses : Seq(Modules), entryItems : Seq(ItemType)]

\* A file declares a function once; the entry file itself is not among Files.
DeclaresOnce(items) ==
  \A i, j \in DOMAIN items :
    items[i].kind = "function" /\ items[j].kind = "function"
      /\ items[i].name = items[j].name => i = j

WellFormed(p) ==
  /\ DeclaresOnce(p.entryItems)
  /\ \A f \in Files : /\ DeclaresOnce(p.files[f].items)
                      /\ p.files[f].entryName => p.files[f].dir # 0

ASSUME SortsAssumption ==
  /\ Root \notin Modules
  /\ IsFiniteSet(Files) /\ IsFiniteSet(Modules)
  /\ Constructor \in [Names -> Names]

ASSUME ProjectsAssumption == \A p \in Projects : p \in ProjectType /\ WellFormed(p)

VARIABLES
  project,   \* the files on disk, never changed
  worklist,  \* modules still to load; its back is taken first
  loaded,    \* modules ever taken from the worklist
  merged,    \* what mergeModule appended: one group of items for each file
  wanted,    \* the module being searched for
  place,     \* the directory being searched, an index of SearchDirectories
  unread,    \* the files of it the iterator has still to yield
  phase      \* "next", "search", "resolve", "construct", "done" or "failed"

vars == <<project, worklist, loaded, merged, wanted, place, unread, phase>>
searchVars == <<wanted, place, unread>>
-----------------------------------------------------------------------------
File(f) == project.files[f]
Elements(s) == {s[i] : i \in DOMAIN s}

SearchDirectories_EntryOnly == <<0>>

SearchDirectories_Farthest ==
  LET std == project.levels \ {project.home}
  IN  IF std = {} THEN <<0>>
      ELSE << CHOOSE n \in std : \A k \in std : n <= k, 0 >>

\* The entry file's directory, then the nearest "std" that is not itself it.
SearchDirectories ==
  LET std == project.levels \ {project.home}
  IN  IF std = {} THEN <<0>>
      ELSE << 0, CHOOSE n \in std : \A k \in std : n <= k >>

Candidates_WithEntry(n) == {f \in Files : File(f).dir = SearchDirectories[n]}

\* The files the iteration over a directory looks into.
Candidates(n) ==
  {f \in Files : File(f).dir = SearchDirectories[n] /\ ~ File(f).entryName}

FunctionNames(items) == {item.name : item \in {i \in Elements(items) : i.kind = "function"}}

(***************************************************************************)
(* mergeModule: a module's calls of its own functions are qualified like   *)
(* the functions themselves, but for the hidden ones; the entry file's     *)
(* stay bare.  A call keeps its source, the call as written.               *)
(***************************************************************************)
Callee_AllOwn(module, own, call) ==
  [module |-> module, name |-> call.name, source |-> call]

Callee_NoneOwn(module, own, call) ==
  [module |-> Root, name |-> call.name, source |-> call]

Callee(module, own, call) ==
  [module |-> IF call.name \in own /\ ~ call.hidden THEN module ELSE Root,
   name |-> call.name, source |-> call]

Merge(module, uses, items) ==
  [module |-> module, uses |-> Elements(uses),
   items |-> [i \in DOMAIN items |-> [items[i] EXCEPT !.calls =
     [c \in DOMAIN @ |-> Callee(module, FunctionNames(items), @[c])]]]]

Init ==
  /\ project \in Projects
  /\ worklist = project.entryUses
  /\ loaded = {}
  /\ merged = << Merge(Root, project.entryUses, project.entryItems) >>
  /\ wanted = Root /\ place = 1 /\ unread = {}
  /\ phase = "next"

Last(s) == s[Len(s)]
Front_Whole(s) == s
Front(s) == [i \in 1 .. Len(s) - 1 |-> s[i]]

SkipLoaded ==
  /\ phase = "next"
  /\ worklist # <<>>
  /\ Last(worklist) \in loaded
  /\ worklist' = Front(worklist)
  /\ UNCHANGED <<project, loaded, merged, searchVars, phase>>

Unseen_Always(m) == m \in Modules
Unseen(m) == m \notin loaded

Want ==
  /\ phase = "next"
  /\ worklist # <<>>
  /\ Unseen(Last(worklist))
  /\ wanted' = Last(worklist)
  /\ worklist' = Front(worklist)
  /\ loaded' = loaded \cup {wanted'}
  /\ place' = 1
  /\ unread' = Candidates(1)
  /\ phase' = "search"
  /\ UNCHANGED <<project, merged>>

PassOver(f) ==
  /\ phase = "search"
  /\ f \in unread
  /\ File(f).parses
  /\ File(f).module # wanted
  /\ unread' = unread \ {f}
  /\ UNCHANGED <<project, worklist, loaded, merged, wanted, place, phase>>

Fail ==
  /\ phase' = "failed"
  /\ UNCHANGED <<project, worklist, loaded, merged, searchVars>>

\* parseFile throws, whatever module the file was meant to declare.
FailToParse(f) ==
  /\ phase = "search"
  /\ f \in unread
  /\ ~ File(f).parses
  /\ Fail

HasCode(f) == \E item \in Elements(File(f).items) : item.kind = "code"

RejectCode(f) ==
  /\ phase = "search"
  /\ f \in unread
  /\ File(f).parses /\ File(f).module = wanted
  /\ HasCode(f)
  /\ phase' = "failed"
  /\ worklist' = worklist \o File(f).uses
  /\ UNCHANGED <<project, loaded, merged, searchVars>>

NewUses_None(f) == <<>>
NewUses(f) == File(f).uses

MergeFile(f) ==
  /\ phase = "search"
  /\ f \in unread
  /\ File(f).parses /\ File(f).module = wanted
  /\ ~ HasCode(f)
  /\ worklist' = worklist \o NewUses(f)
  /\ merged' = Append(merged, Merge(wanted, File(f).uses, File(f).items))
  /\ unread' = {}
  /\ phase' = "next"
  /\ UNCHANGED <<project, loaded, wanted, place>>

NextDirectory ==
  /\ phase = "search"
  /\ unread = {}
  /\ place < Len(SearchDirectories)
  /\ place' = place + 1
  /\ unread' = Candidates(place + 1)
  /\ UNCHANGED <<project, worklist, loaded, merged, wanted, phase>>

\* throw "cannot find module"
NotFound ==
  /\ phase = "search"
  /\ unread = {}
  /\ place = Len(SearchDirectories)
  /\ Fail

LeaveLoop ==
  /\ phase = "next"
  /\ worklist = <<>>
  /\ phase' = "resolve"
  /\ UNCHANGED <<project, worklist, loaded, merged, searchVars>>
-----------------------------------------------------------------------------
(***************************************************************************)
(* resolveUnqualifiedCalls and resolveUnqualifiedConstructorCalls, over    *)
(* every call of the merged program that is not hidden.                    *)
(***************************************************************************)
LocalNames == FunctionNames(merged[1].items)
StructNames == {s.name : s \in UNION {{i \in Elements(merged[g].items) : i.kind = "struct"} :
                                        g \in DOMAIN merged}}

Exporters_Private(n) ==
  {merged[g].module : g \in {h \in 2 .. Len(merged) :
     /\ merged[h].module \in merged[1].uses
     /\ n \in FunctionNames(merged[h].items)}}

\* The modules the entry file uses with a public function of that name.
Exporters(n) ==
  {merged[g].module : g \in {h \in 2 .. Len(merged) :
     /\ merged[h].module \in merged[1].uses
     /\ \E item \in Elements(merged[h].items) :
          item.kind = "function" /\ item.public /\ item.name = n}}

Open_EvenLocal(c) == c.module = Root /\ ~ c.source.hidden

\* A call of collectAllCallExprs that is bare and not of the entry file's own.
Open(c) == c.module = Root /\ ~ c.source.hidden /\ c.name \notin LocalNames

Sugared(c) == Open(c) /\ c.name \in StructNames

Ambiguous_Never(n) == n \notin Names
Ambiguous(n) == Cardinality(Exporters(n)) > 1

Imported(c, n) == [c EXCEPT !.module = CHOOSE m \in Exporters(n) : TRUE, !.name = n]

Resolve(c) == IF Open(c) /\ Exporters(c.name) # {} THEN Imported(c, c.name) ELSE c

Construct(c) ==
  LET new == Constructor[c.name]
  IN  IF ~ Sugared(c) THEN c
      ELSE IF new \in LocalNames THEN [c EXCEPT !.name = new]
      ELSE IF Exporters(new) # {} THEN Imported(c, new) ELSE c

Calls(groups) ==
  UNION {UNION {Elements(item.calls) : item \in Elements(groups[g].items)} :
           g \in DOMAIN groups}

RewrittenItem(item, Rewrite(_)) ==
  [item EXCEPT !.calls = [c \in DOMAIN item.calls |-> Rewrite(item.calls[c])]]

Rewritten(groups, Rewrite(_)) ==
  [g \in DOMAIN groups |-> [groups[g] EXCEPT !.items =
     [i \in DOMAIN groups[g].items |-> RewrittenItem(groups[g].items[i], Rewrite)]]]

AmbiguousCall == \E c \in Calls(merged) : Open(c) /\ Ambiguous(c.name)

AmbiguousConstructor ==
  \E c \in Calls(merged) :
    /\ Sugared(c)
    /\ Constructor[c.name] \notin LocalNames
    /\ Ambiguous(Constructor[c.name])

ResolveCalls ==
  /\ phase = "resolve"
  /\ ~ AmbiguousCall
  /\ merged' = Rewritten(merged, Resolve)
  /\ phase' = "construct"
  /\ UNCHANGED <<project, worklist, loaded, searchVars>>

ResolveConstructors ==
  /\ phase = "construct"
  /\ ~ AmbiguousConstructor
  /\ merged' = Rewritten(merged, Construct)
  /\ phase' = "done"
  /\ UNCHANGED <<project, worklist, loaded, searchVars>>

\* throwAmbiguous
RejectAmbiguous ==
  /\ \/ phase = "resolve" /\ AmbiguousCall
     \/ phase = "construct" /\ AmbiguousConstructor
  /\ Fail

Next ==
  \/ SkipLoaded \/ Want
  \/ \E f \in Files : PassOver(f) \/ FailToParse(f) \/ RejectCode(f) \/ MergeFile(f)
  \/ NextDirectory \/ NotFound \/ LeaveLoop
  \/ ResolveCalls \/ ResolveConstructors \/ RejectAmbiguous

Spec == Init /\ [][Next]_vars

\* loadProgram is one sequential call: it keeps executing until it ends.
FairSpec == Spec /\ WF_vars(Next)
-----------------------------------------------------------------------------
MergedCallType == [module : Modules \cup {Root}, name : Names, source : CallType]
MergedItemType == [kind : {"function", "struct", "impl", "code"}, name : Names,
                   public : BOOLEAN, calls : Seq(MergedCallType)]
GroupType == [module : Modules \cup {Root}, uses : SUBSET Modules,
              items : Seq(MergedItemType)]

TypeOK ==
  /\ project \in ProjectType /\ WellFormed(project)
  /\ worklist \in Seq(Modules)
  /\ loaded \in SUBSET Modules
  /\ merged \in Seq(GroupType) /\ merged # <<>> /\ merged[1].module = Root
  /\ \A g \in 2 .. Len(merged) : merged[g].module \in loaded
  /\ wanted \in Modules \cup {Root}
  /\ place \in DOMAIN SearchDirectories
  /\ unread \in SUBSET {f \in Files : ~ File(f).entryName}
  /\ phase \in {"next", "search", "resolve", "construct", "done", "failed"}

(***************************************************************************)
(* Once the worklist is empty nothing is missing: every module that any    *)
(* merged file uses is merged, whatever order the worklist took them in    *)
(* and however the uses cross or form a cycle.                             *)
(***************************************************************************)
EveryUseIsMerged ==
  phase \in {"resolve", "construct", "done"} =>
    \A g \in DOMAIN merged : \A m \in merged[g].uses :
      \E h \in 2 .. Len(merged) : merged[h].module = m

(***************************************************************************)
(* Nothing is merged twice, or without a file merged before that uses it:  *)
(* a module reached over two paths, or over a cycle, brings its functions  *)
(* in once ("every module it transitively uses", ModuleLoader.hpp:8).      *)
(***************************************************************************)
MergedOnceAndNeeded ==
  \A g \in 2 .. Len(merged) :
    /\ \A h \in 1 .. g - 1 : merged[h].module # merged[g].module
    /\ \E h \in 1 .. g - 1 : merged[g].module \in merged[h].uses

\* f lies in the entry file's directory, or in the nearest other "std".
Reachable(f) ==
  LET d == File(f).dir
  IN  \/ d = 0
      \/ /\ d \in project.levels \ {project.home}
         /\ \A k \in project.levels : k < d => k = project.home

Declares(f, m) ==
  Reachable(f) /\ ~ File(f).entryName /\ File(f).parses /\ File(f).module = m

(***************************************************************************)
(* A module beside the entry file shadows one of the same name in "std",   *)
(* and a farther "std" never contributes ("whichever directory is checked  *)
(* first wins", 0066-modules.md), whatever each directory's order.         *)
(***************************************************************************)
NearestFileWins ==
  \A g \in 2 .. Len(merged) :
    \E f \in Files :
      /\ Declares(f, merged[g].module)
      /\ Elements(File(f).uses) = merged[g].uses
      /\ \A k \in Files : Declares(k, merged[g].module) => File(k).dir >= File(f).dir

Used(m) == \E g \in DOMAIN merged : m \in merged[g].uses

Exports(g, n) ==
  /\ merged[g].module \in merged[1].uses
  /\ \E item \in Elements(merged[g].items) :
       item.kind = "function" /\ item.public /\ item.name = n

(***************************************************************************)
(* loadProgram throws only for something the user can mend: a file that    *)
(* does not parse, a used module no file declares or whose file has code,  *)
(* or a call, not a hidden one, of a name two modules used by the entry    *)
(* file export.  Names that nobody calls may collide.                      *)
(***************************************************************************)
FailsForCause ==
  phase = "failed" =>
    \/ \E f \in Files : Reachable(f) /\ ~ File(f).entryName /\ ~ File(f).parses
    \/ \E m \in Modules : Used(m) /\ \A f \in Files : ~ Declares(f, m)
    \/ \E f \in Files, m \in Modules : Used(m) /\ Declares(f, m) /\ HasCode(f)
    \/ \E g, h \in 2 .. Len(merged), c \in Calls(merged) :
         /\ g # h /\ ~ c.source.hidden
         /\ \E n \in {c.name, Constructor[c.name]} : Exports(g, n) /\ Exports(h, n)

(***************************************************************************)
(* A call that the collector finds, of a name that the calling file itself *)
(* declares as a function, means that function, private or not, whatever   *)
(* the entry file uses and other modules export.  A hidden one stays bare  *)
(* and means a function of the entry file, if anything.                    *)
(***************************************************************************)
OwnFunctionsWin ==
  phase = "done" =>
    \A g \in DOMAIN merged : \A c \in Calls(<<merged[g]>>) :
      ~ c.source.hidden /\ c.source.name \in FunctionNames(merged[g].items) =>
        c.module = merged[g].module /\ c.name = c.source.name

(***************************************************************************)
(* A qualified callee names a function that was merged, which is public    *)
(* or the calling module's own: rewriting never invents a name, and never  *)
(* lets a caller into another module's private functions.                  *)
(***************************************************************************)
CallsAreAnswered ==
  phase = "done" =>
    \A g \in DOMAIN merged : \A c \in Calls(<<merged[g]>>) :
      c.module # Root =>
        \E h \in 2 .. Len(merged) :
          /\ merged[h].module = c.module
          /\ \E item \in Elements(merged[h].items) :
               /\ item.kind = "function" /\ item.name = c.name
               /\ item.public \/ g = h

(***************************************************************************)
(* A call that was rewritten to another module's function had one possible *)
(* meaning, and a bare call that the collector found and left bare had     *)
(* none: no module the entry file uses exports that name, or the entry     *)
(* file declares it.                                                       *)
(***************************************************************************)
OneMeaning ==
  phase = "done" =>
    \A g \in DOMAIN merged : \A c \in Calls(<<merged[g]>>) :
      /\ c.module \notin {Root, merged[g].module} =>
           \A h \in 2 .. Len(merged) : Exports(h, c.name) => merged[h].module = c.module
      /\ /\ c.module = Root /\ ~ c.source.hidden
         /\ c.name \notin FunctionNames(merged[1].items)
         => \A h \in 2 .. Len(merged) : ~ Exports(h, c.name)

\* loadProgram returns or throws, also when modules use each other in a cycle.
Terminates == <>(phase \in {"done", "failed"})

(***************************************************************************)
(* A used module's functions are callable unqualified "whenever the bare   *)
(* name doesn't collide with anything else already in scope",              *)
(* UnqualifiedCallResolver.hpp:10, a parameter that holds a closure        *)
(* included.                                                               *)
(***************************************************************************)
VariablesWin ==
  phase = "done" =>
    \A c \in Calls(merged) : c.source.variable => c.module = Root

=============================================================================
