-------------------------- MODULE ModuleLoaderProofs --------------------------
(***************************************************************************)
(* For every set of files: loading merges each module once, only modules   *)
(* that are used, and in the end all that are used.  The worklist may hold *)
(* duplicates and modules already loaded; the invariant says that a use is *)
(* never dropped: it is in the worklist or its module is loaded.           *)
(***************************************************************************)
EXTENDS ModuleLoader, FiniteSetTheorems, TLAPS

LEMMA ElementsOfAppend ==
  ASSUME NEW S, NEW s \in Seq(S), NEW t \in Seq(S)
  PROVE  Elements(s \o t) = Elements(s) \cup Elements(t)
<1>1. Elements(s \o t) \subseteq Elements(s) \cup Elements(t)
  BY DEF Elements
<1>2. Elements(s) \subseteq Elements(s \o t)
  BY DEF Elements
<1>3. ASSUME NEW i \in DOMAIN t PROVE t[i] \in Elements(s \o t)
  <2>1. (s \o t)[Len(s) + i] = t[i] /\ Len(s) + i \in DOMAIN (s \o t)
    OBVIOUS
  <2> QED BY <2>1 DEF Elements
<1> QED BY <1>1, <1>2, <1>3 DEF Elements

LEMMA ElementsOfFront ==
  ASSUME NEW S, NEW s \in Seq(S), s # <<>>
  PROVE  /\ Last(s) \in S
         /\ Front(s) \in Seq(S)
         /\ Elements(s) = Elements(Front(s)) \cup {Last(s)}
<1>0. Len(s) \in Nat /\ Len(s) > 0
  OBVIOUS
<1>1. Front(s) \in Seq(S) /\ Len(Front(s)) = Len(s) - 1
  <2>1. \A i \in 1 .. Len(s) - 1 : s[i] \in S
    OBVIOUS
  <2> QED BY <1>0, <2>1 DEF Front
<1>2. \A i \in 1 .. Len(s) - 1 : Front(s)[i] = s[i]
  BY <1>0 DEF Front
<1> QED BY <1>0, <1>1, <1>2 DEF Elements, Last

LEMMA MergeTyped ==
  ASSUME NEW module \in Modules \cup {Root}, NEW uses \in Seq(Modules),
         NEW items \in Seq(ItemType)
  PROVE  /\ Merge(module, uses, items) \in GroupType
         /\ Merge(module, uses, items).module = module
         /\ Merge(module, uses, items).uses = Elements(uses)
<1> DEFINE own == FunctionNames(items)
<1> DEFINE calls(i) == [c \in DOMAIN items[i].calls |-> Callee(module, own, items[i].calls[c])]
<1>1. \A call \in CallType : Callee(module, own, call) \in MergedCallType
  BY DEF Callee, CallType, MergedCallType
<1>2. ASSUME NEW i \in DOMAIN items
      PROVE  [items[i] EXCEPT !.calls = calls(i)] \in MergedItemType
  <2>1. items[i] \in ItemType
    OBVIOUS
  <2>2. items[i].calls \in Seq(CallType)
    BY <2>1 DEF ItemType
  <2>3. \A c \in 1 .. Len(items[i].calls) : items[i].calls[c] \in CallType
    BY <2>2
  <2>4. calls(i) \in Seq(MergedCallType)
    BY <1>1, <2>2, <2>3
  <2> HIDE DEF calls
  <2> QED BY <2>1, <2>4 DEF ItemType, MergedItemType
<1>3. [i \in DOMAIN items |-> [items[i] EXCEPT !.calls = calls(i)]] \in Seq(MergedItemType)
  <2> DEFINE merged_item(i) == [items[i] EXCEPT !.calls = calls(i)]
  <2>1. \A i \in 1 .. Len(items) : merged_item(i) \in MergedItemType
    BY <1>2
  <2> HIDE DEF merged_item
  <2>2. [i \in 1 .. Len(items) |-> merged_item(i)] \in Seq(MergedItemType)
    BY <2>1
  <2>3. DOMAIN items = 1 .. Len(items)
    OBVIOUS
  <2> QED BY <2>2, <2>3 DEF merged_item
<1>4. Merge(module, uses, items).items = [i \in DOMAIN items |-> [items[i] EXCEPT !.calls = calls(i)]]
  BY DEF Merge
<1>5. Elements(uses) \subseteq Modules
  BY DEF Elements
<1>6. Merge(module, uses, items).items \in Seq(MergedItemType)
  BY <1>3, <1>4
<1>7. Merge(module, uses, items) =
        [module |-> module, uses |-> Elements(uses), items |-> Merge(module, uses, items).items]
  BY DEF Merge
<1> HIDE DEF calls
<1> DEFINE merge == Merge(module, uses, items)
<1> HIDE DEF merge
<1> QED BY <1>5, <1>6, <1>7 DEF GroupType

-----------------------------------------------------------------------------
\* Rewriting the calls of a group leaves its module and its uses alone.
SameGroups(new, old) ==
  /\ new \in Seq(GroupType)
  /\ Len(new) = Len(old)
  /\ \A g \in 1 .. Len(old) : new[g].module = old[g].module /\ new[g].uses = old[g].uses

LEMMA ResolveTyped ==
  ASSUME TypeOK PROVE \A c \in MergedCallType : Resolve(c) \in MergedCallType
<1> SUFFICES ASSUME NEW c \in MergedCallType PROVE Resolve(c) \in MergedCallType
  OBVIOUS
<1>1. Exporters(c.name) \subseteq Modules
  BY DEF Exporters, TypeOK
<1>2. CASE Open(c) /\ Exporters(c.name) # {}
  <2>1. (CHOOSE m \in Exporters(c.name) : TRUE) \in Modules
    BY <1>1, <1>2
  <2> QED BY <1>2, <2>1 DEF Resolve, Imported, MergedCallType
<1> QED BY <1>2 DEF Resolve

LEMMA ConstructTyped ==
  ASSUME TypeOK PROVE \A c \in MergedCallType : Construct(c) \in MergedCallType
<1> SUFFICES ASSUME NEW c \in MergedCallType PROVE Construct(c) \in MergedCallType
  OBVIOUS
<1> DEFINE new == Constructor[c.name]
<1>1. new \in Names
  BY SortsAssumption DEF MergedCallType
<1>2. Exporters(new) \subseteq Modules
  BY DEF Exporters, TypeOK
<1>3. CASE Exporters(new) # {}
  <2>1. (CHOOSE m \in Exporters(new) : TRUE) \in Modules
    BY <1>2, <1>3
  <2>2. Imported(c, new) \in MergedCallType
    BY <1>1, <2>1 DEF Imported, MergedCallType
  <2>3. [c EXCEPT !.name = new] \in MergedCallType
    BY <1>1 DEF MergedCallType
  <2> QED BY <2>2, <2>3 DEF Construct
<1>4. CASE Exporters(new) = {}
  <2>1. [c EXCEPT !.name = new] \in MergedCallType
    BY <1>1 DEF MergedCallType
  <2> QED BY <1>4, <2>1 DEF Construct
<1> QED BY <1>3, <1>4

LEMMA ResolveKeeps ==
  ASSUME TypeOK PROVE SameGroups(Rewritten(merged, Resolve), merged)
<1> DEFINE calls(g, i) == [c \in DOMAIN merged[g].items[i].calls |->
                            Resolve(merged[g].items[i].calls[c])]
<1> DEFINE items(g) == [i \in DOMAIN merged[g].items |->
                          [merged[g].items[i] EXCEPT !.calls = calls(g, i)]]
<1> DEFINE group(g) == [merged[g] EXCEPT !.items = items(g)]
<1>1. merged \in Seq(GroupType) /\ DOMAIN merged = 1 .. Len(merged)
  BY DEF TypeOK
<1>2. ASSUME NEW g \in 1 .. Len(merged)
      PROVE  /\ group(g) \in GroupType
             /\ group(g).module = merged[g].module
             /\ group(g).uses = merged[g].uses
  <2>0. merged[g] \in GroupType
    BY <1>1
  <2>1. merged[g] \in GroupType /\ merged[g].items \in Seq(MergedItemType)
    BY <2>0 DEF GroupType
  <2>2. ASSUME NEW i \in 1 .. Len(merged[g].items)
        PROVE  [merged[g].items[i] EXCEPT !.calls = calls(g, i)] \in MergedItemType
    <3>1. merged[g].items[i] \in MergedItemType
      BY <2>1
    <3>2. merged[g].items[i].calls \in Seq(MergedCallType)
      BY <3>1 DEF MergedItemType
    <3>3. \A c \in 1 .. Len(merged[g].items[i].calls) :
            Resolve(merged[g].items[i].calls[c]) \in MergedCallType
      BY <3>2, ResolveTyped
    <3>4. calls(g, i) \in Seq(MergedCallType)
      <4> DEFINE m == Len(merged[g].items[i].calls)
                 x(c) == Resolve(merged[g].items[i].calls[c])
      <4>1. m \in Nat /\ calls(g, i) = [c \in 1 .. m |-> x(c)]
        BY <3>2
      <4>2. \A c \in 1 .. m : x(c) \in MergedCallType
        BY <3>3
      <4> HIDE DEF calls, m, x
      <4> QED BY ONLY <4>1, <4>2
    <3> HIDE DEF calls
    <3> QED BY <3>1, <3>4 DEF MergedItemType
  <2>3. items(g) \in Seq(MergedItemType)
    <3> DEFINE item(i) == [merged[g].items[i] EXCEPT !.calls = calls(g, i)]
    <3>1. \A i \in 1 .. Len(merged[g].items) : item(i) \in MergedItemType
      BY <2>2
    <3> HIDE DEF item
    <3>2. [i \in 1 .. Len(merged[g].items) |-> item(i)] \in Seq(MergedItemType)
      BY <2>1, <3>1
    <3>3. DOMAIN merged[g].items = 1 .. Len(merged[g].items)
      BY <2>1
    <3> QED BY <3>2, <3>3 DEF item
  <2> HIDE DEF items
  <2> QED BY <2>1, <2>3 DEF GroupType
<1>3. Rewritten(merged, Resolve) = [g \in 1 .. Len(merged) |-> group(g)]
  <2>1. Rewritten(merged, Resolve) = [g \in DOMAIN merged |-> group(g)]
    BY DEF Rewritten, RewrittenItem
  <2> QED BY <1>1, <2>1
<1> HIDE DEF group
<1>4. [g \in 1 .. Len(merged) |-> group(g)] \in Seq(GroupType)
  BY <1>1, <1>2
<1> QED BY <1>1, <1>2, <1>3, <1>4 DEF SameGroups

LEMMA ConstructKeeps ==
  ASSUME TypeOK PROVE SameGroups(Rewritten(merged, Construct), merged)
<1> DEFINE calls(g, i) == [c \in DOMAIN merged[g].items[i].calls |->
                            Construct(merged[g].items[i].calls[c])]
<1> DEFINE items(g) == [i \in DOMAIN merged[g].items |->
                          [merged[g].items[i] EXCEPT !.calls = calls(g, i)]]
<1> DEFINE group(g) == [merged[g] EXCEPT !.items = items(g)]
<1>1. merged \in Seq(GroupType) /\ DOMAIN merged = 1 .. Len(merged)
  BY DEF TypeOK
<1>2. ASSUME NEW g \in 1 .. Len(merged)
      PROVE  /\ group(g) \in GroupType
             /\ group(g).module = merged[g].module
             /\ group(g).uses = merged[g].uses
  <2>0. merged[g] \in GroupType
    BY <1>1
  <2>1. merged[g] \in GroupType /\ merged[g].items \in Seq(MergedItemType)
    BY <2>0 DEF GroupType
  <2>2. ASSUME NEW i \in 1 .. Len(merged[g].items)
        PROVE  [merged[g].items[i] EXCEPT !.calls = calls(g, i)] \in MergedItemType
    <3>1. merged[g].items[i] \in MergedItemType
      BY <2>1
    <3>2. merged[g].items[i].calls \in Seq(MergedCallType)
      BY <3>1 DEF MergedItemType
    <3>3. \A c \in 1 .. Len(merged[g].items[i].calls) :
            Construct(merged[g].items[i].calls[c]) \in MergedCallType
      BY <3>2, ConstructTyped
    <3>4. calls(g, i) \in Seq(MergedCallType)
      <4> DEFINE m == Len(merged[g].items[i].calls)
                 x(c) == Construct(merged[g].items[i].calls[c])
      <4>1. m \in Nat /\ calls(g, i) = [c \in 1 .. m |-> x(c)]
        BY <3>2
      <4>2. \A c \in 1 .. m : x(c) \in MergedCallType
        BY <3>3
      <4> HIDE DEF calls, m, x
      <4> QED BY ONLY <4>1, <4>2
    <3> HIDE DEF calls
    <3> QED BY <3>1, <3>4 DEF MergedItemType
  <2>3. items(g) \in Seq(MergedItemType)
    <3> DEFINE item(i) == [merged[g].items[i] EXCEPT !.calls = calls(g, i)]
    <3>1. \A i \in 1 .. Len(merged[g].items) : item(i) \in MergedItemType
      BY <2>2
    <3> HIDE DEF item
    <3>2. [i \in 1 .. Len(merged[g].items) |-> item(i)] \in Seq(MergedItemType)
      BY <2>1, <3>1
    <3>3. DOMAIN merged[g].items = 1 .. Len(merged[g].items)
      BY <2>1
    <3> QED BY <3>2, <3>3 DEF item
  <2> HIDE DEF items
  <2> QED BY <2>1, <2>3 DEF GroupType
<1>3. Rewritten(merged, Construct) = [g \in 1 .. Len(merged) |-> group(g)]
  <2>1. Rewritten(merged, Construct) = [g \in DOMAIN merged |-> group(g)]
    BY DEF Rewritten, RewrittenItem
  <2> QED BY <1>1, <2>1
<1> HIDE DEF group
<1>4. [g \in 1 .. Len(merged) |-> group(g)] \in Seq(GroupType)
  BY <1>1, <1>2
<1> QED BY <1>1, <1>2, <1>3, <1>4 DEF SameGroups

-----------------------------------------------------------------------------
(***************************************************************************)
(* The inductive invariant.  A use is never dropped: its module is loaded  *)
(* or waits in the worklist (Pending), and nothing waits there without a   *)
(* file that uses it (Requested).  Loaded is merged, but for the module    *)
(* the search is after (Progress).                                         *)
(***************************************************************************)
UsedBy(m) == \E g \in 1 .. Len(merged) : m \in merged[g].uses
MergedModule(m) == \E g \in 2 .. Len(merged) : merged[g].module = m

Pending == \A g \in 1 .. Len(merged) : \A m \in merged[g].uses :
             m \in loaded \/ m \in Elements(worklist)

Requested == phase # "failed" => \A m \in Elements(worklist) : UsedBy(m)

Progress ==
  /\ \A m \in loaded : MergedModule(m) \/ (phase \in {"search", "failed"} /\ m = wanted)
  /\ phase = "search" => wanted \in loaded /\ UsedBy(wanted) /\ ~ MergedModule(wanted)
  /\ phase \in {"resolve", "construct", "done"} => worklist = <<>>

IInv == TypeOK /\ Pending /\ Requested /\ Progress /\ MergedOnceAndNeeded

LEMMA InitInv == Init => IInv
<1> SUFFICES ASSUME Init PROVE IInv
  OBVIOUS
<1> DEFINE root == Merge(Root, project.entryUses, project.entryItems)
<1>1. project \in ProjectType /\ WellFormed(project)
  BY ProjectsAssumption DEF Init
<1>2. project.entryUses \in Seq(Modules) /\ project.entryItems \in Seq(ItemType)
  BY <1>1 DEF ProjectType
<1>3. root \in GroupType /\ root.module = Root /\ root.uses = Elements(project.entryUses)
  BY <1>2, MergeTyped
<1>4. merged = <<root>> /\ Len(merged) = 1 /\ merged[1] = root
  BY DEF Init
<1> HIDE DEF root
<1>5. 1 \in DOMAIN SearchDirectories
  BY DEF SearchDirectories
<1>6. TypeOK
  BY <1>1, <1>2, <1>3, <1>4, <1>5 DEF Init, TypeOK
<1> QED BY <1>3, <1>4, <1>6 DEF IInv, Init, Pending, Requested, Progress,
             MergedOnceAndNeeded, MergedModule, UsedBy

\* Every step but three leaves the files read and the modules loaded alone.
LEMMA Unchanged ==
  ASSUME IInv, UNCHANGED <<project, loaded, merged>>,
         worklist' \in Seq(Modules), Elements(worklist) \ loaded \subseteq Elements(worklist'),
         phase' # "failed" => phase # "failed" /\ Elements(worklist') \subseteq Elements(worklist),
         wanted' = wanted, place' \in DOMAIN SearchDirectories,
         unread' \in SUBSET {f \in Files : ~ File(f).entryName},
         \/ phase' = phase
         \/ phase' = "failed"
         \/ phase = "next" /\ phase' = "resolve" /\ worklist = <<>>,
         phase' \in {"next", "search", "failed"} \/ worklist' = worklist
  PROVE  IInv'
<1>1. SearchDirectories' = SearchDirectories /\ \A f \in Files : File(f)' = File(f)
  BY DEF SearchDirectories, File
<1>2. TypeOK'
  BY <1>1 DEF IInv, TypeOK
<1>3. Pending' /\ Requested'
  BY DEF IInv, Pending, Requested, UsedBy, Elements
<1>4. Progress'
  BY DEF IInv, Progress, UsedBy, MergedModule, TypeOK
<1>5. MergedOnceAndNeeded'
  BY DEF IInv, MergedOnceAndNeeded
<1> QED BY <1>2, <1>3, <1>4, <1>5 DEF IInv

\* The two rewriting passes change what is called, not what is merged.
LEMMA RewritingKeeps ==
  ASSUME IInv, SameGroups(merged', merged),
         UNCHANGED <<project, worklist, loaded, wanted, place, unread>>,
         phase \in {"resolve", "construct"}, phase' \in {"construct", "done"}
  PROVE  IInv'
<1>1. SearchDirectories' = SearchDirectories /\ \A f \in Files : File(f)' = File(f)
  BY DEF SearchDirectories, File
<1>2. merged # <<>> /\ merged \in Seq(GroupType) /\ Len(merged) >= 1
  BY DEF IInv, TypeOK
<1>3. /\ merged' \in Seq(GroupType) /\ Len(merged') = Len(merged)
      /\ \A g \in 1 .. Len(merged) : /\ merged'[g].module = merged[g].module
                                     /\ merged'[g].uses = merged[g].uses
  BY DEF SameGroups
<1>4. TypeOK'
  BY <1>1, <1>2, <1>3 DEF IInv, TypeOK
<1>5. Pending' /\ Requested'
  BY <1>3 DEF IInv, Pending, Requested, UsedBy
<1>6. Progress'
  BY <1>2, <1>3 DEF IInv, Progress, UsedBy, MergedModule
<1>7. MergedOnceAndNeeded'
  BY <1>2, <1>3 DEF IInv, MergedOnceAndNeeded
<1> QED BY <1>4, <1>5, <1>6, <1>7 DEF IInv

LEMMA WantInv == ASSUME IInv, Want PROVE IInv'
<1> USE DEF Want
<1>1. SearchDirectories' = SearchDirectories /\ \A f \in Files : File(f)' = File(f)
  BY DEF SearchDirectories, File
<1>2. /\ Last(worklist) \in Modules /\ worklist' \in Seq(Modules)
      /\ Elements(worklist) = Elements(worklist') \cup {Last(worklist)}
  BY ElementsOfFront DEF IInv, TypeOK
<1>3. wanted' \in Modules /\ wanted' \notin loaded /\ loaded' = loaded \cup {wanted'}
  BY <1>2 DEF Unseen
<1>4. UsedBy(wanted') /\ ~ MergedModule(wanted')
  <2>1. UsedBy(wanted')
    BY <1>2 DEF IInv, Requested
  <2>2. ~ MergedModule(wanted')
    BY <1>3 DEF IInv, TypeOK, MergedModule
  <2> QED BY <2>1, <2>2
<1>5. 1 \in DOMAIN SearchDirectories /\ Candidates(1) \subseteq {f \in Files : ~ File(f).entryName}
  BY DEF SearchDirectories, Candidates
<1>6. TypeOK'
  BY <1>1, <1>2, <1>3, <1>5 DEF IInv, TypeOK
<1>7. Pending'
  BY <1>2, <1>3 DEF IInv, Pending
<1>8. Requested'
  BY <1>2 DEF IInv, Requested, UsedBy
<1>9. Progress'
  BY <1>3, <1>4 DEF IInv, Progress, UsedBy, MergedModule
<1>10. MergedOnceAndNeeded'
  BY DEF IInv, MergedOnceAndNeeded
<1> QED BY <1>6, <1>7, <1>8, <1>9, <1>10 DEF IInv

LEMMA MergeInv == ASSUME IInv, NEW f \in Files, MergeFile(f) PROVE IInv'
<1> USE DEF MergeFile
<1> DEFINE new == Merge(wanted, File(f).uses, File(f).items)
<1>1. SearchDirectories' = SearchDirectories /\ \A k \in Files : File(k)' = File(k)
  BY DEF SearchDirectories, File
<1>2. /\ wanted \in Modules /\ wanted \in loaded /\ UsedBy(wanted)
      /\ ~ MergedModule(wanted)
  BY DEF IInv, Progress, TypeOK
<1>3. File(f).uses \in Seq(Modules) /\ File(f).items \in Seq(ItemType)
  BY DEF IInv, TypeOK, ProjectType, File, FileType
<1>4. new \in GroupType /\ new.module = wanted /\ new.uses = Elements(File(f).uses)
  BY <1>2, <1>3, MergeTyped
<1> HIDE DEF new
<1>5. merged' = Append(merged, new)
  BY DEF new
<1>6. merged \in Seq(GroupType) /\ merged # <<>> /\ Len(merged) \in Nat /\ Len(merged) >= 1
  BY DEF IInv, TypeOK
<1>7. /\ merged' \in Seq(GroupType) /\ Len(merged') = Len(merged) + 1
      /\ \A g \in 1 .. Len(merged) : merged'[g] = merged[g]
      /\ merged'[Len(merged) + 1] = new
  BY <1>4, <1>5, <1>6
<1>8. /\ worklist' \in Seq(Modules)
      /\ Elements(worklist') = Elements(worklist) \cup Elements(File(f).uses)
  BY <1>3, ElementsOfAppend DEF IInv, TypeOK, NewUses
<1>9. TypeOK'
  <2>1. \A g \in 2 .. Len(merged') : merged'[g].module \in loaded
    BY <1>2, <1>4, <1>6, <1>7 DEF IInv, TypeOK
  <2>2. merged' # <<>> /\ merged'[1].module = Root
    BY <1>6, <1>7 DEF IInv, TypeOK
  <2> QED BY <1>1, <1>7, <1>8, <2>1, <2>2 DEF IInv, TypeOK
<1>10. Pending'
  BY <1>4, <1>6, <1>7, <1>8 DEF IInv, Pending
<1>11. Requested'
  BY <1>4, <1>6, <1>7, <1>8 DEF IInv, Requested, UsedBy
<1>12. Progress'
  <2>1. \A m : MergedModule(m) => MergedModule(m)'
    BY <1>6, <1>7 DEF MergedModule
  <2>2. MergedModule(wanted)'
    BY <1>4, <1>6, <1>7 DEF MergedModule
  <2> QED BY <2>1, <2>2 DEF IInv, Progress
<1>13. MergedOnceAndNeeded'
  <2> SUFFICES ASSUME NEW g \in 2 .. Len(merged')
               PROVE  /\ \A h \in 1 .. g - 1 : merged'[h].module # merged'[g].module
                      /\ \E h \in 1 .. g - 1 : merged'[g].module \in merged'[h].uses
    BY DEF MergedOnceAndNeeded
  <2>1. CASE g \in 2 .. Len(merged)
    <3>1. \A h \in 1 .. g : h \in 1 .. Len(merged)
      BY <1>6, <2>1
    <3> QED BY <1>6, <1>7, <2>1, <3>1 DEF IInv, MergedOnceAndNeeded
  <2>2. CASE g = Len(merged) + 1
    <3>1. \A h \in 1 .. Len(merged) : merged[h].module # wanted
      <4>1. merged[1].module # wanted
        BY <1>2, SortsAssumption DEF IInv, TypeOK
      <4> QED BY <1>2, <1>6, <4>1 DEF MergedModule
    <3> QED BY <1>2, <1>4, <1>6, <1>7, <2>2, <3>1 DEF UsedBy
  <2> QED BY <1>6, <1>7, <2>1, <2>2
<1> QED BY <1>9, <1>10, <1>11, <1>12, <1>13 DEF IInv

LEMMA NextInv == IInv /\ [Next]_vars => IInv'
<1> SUFFICES ASSUME IInv, [Next]_vars PROVE IInv'
  OBVIOUS
<1>0. /\ worklist \in Seq(Modules) /\ place \in DOMAIN SearchDirectories
      /\ unread \in SUBSET {f \in Files : ~ File(f).entryName}
  BY DEF IInv, TypeOK
<1>1. CASE SkipLoaded
  <2>1. /\ worklist' \in Seq(Modules)
        /\ Elements(worklist) = Elements(worklist') \cup {Last(worklist)}
    BY <1>0, <1>1, ElementsOfFront DEF SkipLoaded
  <2> QED BY <1>0, <1>1, <2>1, Unchanged DEF SkipLoaded, searchVars
<1>2. CASE Want
  BY <1>2, WantInv
<1>3. ASSUME NEW f \in Files, PassOver(f) PROVE IInv'
  BY <1>0, <1>3, Unchanged DEF PassOver
<1>4. ASSUME NEW f \in Files, FailToParse(f) PROVE IInv'
  BY <1>0, <1>4, Unchanged DEF FailToParse, Fail, searchVars
<1>5. ASSUME NEW f \in Files, RejectCode(f) PROVE IInv'
  <2>1. File(f).uses \in Seq(Modules)
    BY DEF IInv, TypeOK, ProjectType, File, FileType
  <2>2. /\ worklist' \in Seq(Modules)
        /\ Elements(worklist') = Elements(worklist) \cup Elements(File(f).uses)
    BY <1>0, <1>5, <2>1, ElementsOfAppend DEF RejectCode
  <2> QED BY <1>0, <1>5, <2>2, Unchanged DEF RejectCode, searchVars
<1>6. ASSUME NEW f \in Files, MergeFile(f) PROVE IInv'
  BY <1>6, MergeInv
<1>7. CASE NextDirectory
  <2>1. place + 1 \in DOMAIN SearchDirectories
    BY <1>0, <1>7 DEF NextDirectory, SearchDirectories
  <2>2. Candidates(place + 1) \subseteq {f \in Files : ~ File(f).entryName}
    BY DEF Candidates
  <2> QED BY <1>0, <1>7, <2>1, <2>2, Unchanged DEF NextDirectory
<1>8. CASE NotFound
  BY <1>0, <1>8, Unchanged DEF NotFound, Fail, searchVars
<1>9. CASE LeaveLoop
  BY <1>0, <1>9, Unchanged DEF LeaveLoop, searchVars
<1>10. CASE ResolveCalls
  BY <1>10, ResolveKeeps, RewritingKeeps DEF ResolveCalls, searchVars, IInv
<1>11. CASE ResolveConstructors
  BY <1>11, ConstructKeeps, RewritingKeeps DEF ResolveConstructors, searchVars, IInv
<1>12. CASE RejectAmbiguous
  BY <1>0, <1>12, Unchanged DEF RejectAmbiguous, Fail, searchVars
<1>13. CASE UNCHANGED vars
  <2>1. phase = phase' /\ worklist' = worklist
    BY <1>13 DEF vars
  <2> QED BY <1>0, <1>13, <2>1, Unchanged DEF vars
<1> QED BY <1>1, <1>2, <1>3, <1>4, <1>5, <1>6, <1>7, <1>8, <1>9, <1>10, <1>11,
          <1>12, <1>13 DEF Next

\* The invariant holds in every reachable state, for every set of projects.
THEOREM Invariance == Spec => []IInv
<1> QED BY InitInv, NextInv, PTL DEF Spec

\* The worklist, what is merged and the search keep their types.
THEOREM TypeCorrect == Spec => []TypeOK
<1>1. IInv => TypeOK
  BY DEF IInv
<1> QED BY <1>1, Invariance, PTL

\* No module is merged twice, or without an earlier file that uses it.
THEOREM MergesOnceAndOnlyUsed == Spec => []MergedOnceAndNeeded
<1>1. IInv => MergedOnceAndNeeded
  BY DEF IInv
<1> QED BY <1>1, Invariance, PTL

\* When the worklist is empty, no use of any merged file is left out.
THEOREM MergesEveryUse == Spec => []EveryUseIsMerged
<1>1. IInv => EveryUseIsMerged
  <2> SUFFICES ASSUME IInv, phase \in {"resolve", "construct", "done"},
                      NEW g \in DOMAIN merged, NEW m \in merged[g].uses
               PROVE  \E h \in 2 .. Len(merged) : merged[h].module = m
    BY DEF EveryUseIsMerged
  <2>1. DOMAIN merged = 1 .. Len(merged) /\ worklist = <<>>
    BY DEF IInv, TypeOK, Progress
  <2>2. m \in loaded
    BY <2>1 DEF IInv, Pending, Elements
  <2> QED BY <2>2 DEF IInv, Progress, MergedModule
<1> QED BY <1>1, Invariance, PTL

-----------------------------------------------------------------------------
(***************************************************************************)
(* The search, and what loadProgram throws for.                            *)
(***************************************************************************)
LEMMA LeastNatural ==
  ASSUME NEW T \in SUBSET Nat, T # {}
  PROVE  \E x \in T : \A y \in T : x <= y
<1>1. \E less : /\ IsWellFoundedOn(less, Nat)
                /\ \A x, y \in Nat : x < y => <<x, y>> \in less
  <2> DEFINE less == OpToRel(<, Nat)
  <2>1. IsWellFoundedOn(less, Nat)
    BY NatLessThanWellFounded
  <2>2. \A x, y \in Nat : x < y => <<x, y>> \in less
    BY DEF OpToRel
  <2> QED BY <2>1, <2>2
<1>2. PICK less : /\ IsWellFoundedOn(less, Nat)
                  /\ \A x, y \in Nat : x < y => <<x, y>> \in less
  BY <1>1
<1>3. PICK x \in T : \A y \in T : ~ (<<y, x>> \in less)
  <2>1. IsWellFoundedOn(less, Nat) /\ T \subseteq Nat
    BY <1>2
  <2> QED BY ONLY <2>1, T # {}, WFMin
<1>4. \A y \in T : ~ (y < x)
  BY <1>2, <1>3
<1> QED BY <1>4

\* The directories searched are the entry file's and then the nearest "std".
LEMMA Directories ==
  ASSUME TypeOK
  PROVE  /\ Len(SearchDirectories) \in {1, 2} /\ SearchDirectories[1] = 0
         /\ DOMAIN SearchDirectories = 1 .. Len(SearchDirectories)
         /\ Len(SearchDirectories) = 2 => SearchDirectories[2] \in Nat \ {0}
         /\ \A f \in Files : Reachable(f) <=>
              \E n \in DOMAIN SearchDirectories : File(f).dir = SearchDirectories[n]
<1> DEFINE std == project.levels \ {project.home}
<1> DEFINE nearest == CHOOSE n \in std : \A k \in std : n <= k
<1>1. project.levels \subseteq Nat \ {0} /\ \A f \in Files : File(f).dir \in Nat
  BY DEF TypeOK, ProjectType, FileType, File
<1>2. CASE std = {}
  <2>1. SearchDirectories = <<0>>
    BY <1>2 DEF SearchDirectories
  <2>2. \A f \in Files : Reachable(f) <=> File(f).dir = 0
    BY <1>2 DEF Reachable
  <2> QED BY <2>1, <2>2
<1>3. CASE std # {}
  <2>1. nearest \in std /\ \A k \in std : nearest <= k
    <3>1. \E n \in std : \A k \in std : n <= k
      BY <1>1, <1>3, LeastNatural
    <3> QED BY <3>1
  <2>2. SearchDirectories = <<0, nearest>>
    BY <1>3 DEF SearchDirectories
  <2> HIDE DEF nearest
  <2>3. ASSUME NEW f \in Files PROVE Reachable(f) <=> File(f).dir \in {0, nearest}
    <3>1. ASSUME Reachable(f), File(f).dir # 0 PROVE File(f).dir = nearest
      <4>1. File(f).dir \in std /\ ~ (nearest < File(f).dir)
        BY <2>1, <3>1 DEF Reachable
      <4> QED BY <1>1, <2>1, <4>1
    <3>2. ASSUME File(f).dir = nearest PROVE Reachable(f)
      BY <1>1, <2>1, <3>2 DEF Reachable
    <3> QED BY <3>1, <3>2 DEF Reachable
  <2> QED BY <1>1, <2>1, <2>2, <2>3
<1> QED BY <1>2, <1>3

\* f is the file that the search for the module is after.
IsWanted(f) == File(f).parses /\ File(f).module = wanted

\* The places behind the search and the files it passed hold no such file.
Searched ==
  phase = "search" =>
    /\ unread \subseteq Candidates(place)
    /\ \A n \in 1 .. place : \A f \in Candidates(n) :
         IsWanted(f) => n = place /\ f \in unread

SearchInv == IInv /\ Searched /\ NearestFileWins /\ FailsForCause

LEMMA DeclaresIsCandidate ==
  ASSUME TypeOK, NEW f \in Files
  PROVE  Declares(f, wanted) <=>
           IsWanted(f) /\ \E n \in DOMAIN SearchDirectories : f \in Candidates(n)
BY Directories DEF Declares, Candidates, IsWanted

\* Ambiguity is two groups of different modules that export the name.
LEMMA TwoExporters ==
  ASSUME TypeOK, NEW n, Ambiguous(n)
  PROVE  \E g, h \in 2 .. Len(merged) : g # h /\ Exports(g, n) /\ Exports(h, n)
<1>1. IsFiniteSet(Exporters(n))
  <2>1. Exporters(n) \subseteq Modules
    BY DEF Exporters, TypeOK
  <2> QED BY <2>1, SortsAssumption, FS_Subset
<1>2. \E x, y \in Exporters(n) : x # y
  <2>1. CASE Exporters(n) = {}
    BY <2>1, FS_EmptySet DEF Ambiguous
  <2>2. CASE \E x : Exporters(n) = {x}
    BY <2>2, FS_Singleton DEF Ambiguous
  <2> QED BY <2>1, <2>2
<1>3. \A x \in Exporters(n) : \E g \in 2 .. Len(merged) : x = merged[g].module /\ Exports(g, n)
  BY DEF Exporters, Exports
<1> QED BY <1>2, <1>3

LEMMA SearchInit == Init => SearchInv
<1> SUFFICES ASSUME Init PROVE Searched /\ NearestFileWins /\ FailsForCause
  BY InitInv DEF SearchInv
<1>1. Len(merged) = 1 /\ phase = "next"
  BY DEF Init
<1> QED BY <1>1 DEF Searched, NearestFileWins, FailsForCause

\* The steps outside the search and the merging do not touch what was found.
LEMMA FoundStays ==
  ASSUME NearestFileWins, project' = project, merged' = merged PROVE NearestFileWins'
BY DEF NearestFileWins, Declares, Reachable, File

LEMMA FoundStaysRewritten ==
  ASSUME NearestFileWins, project' = project, merged \in Seq(GroupType),
         SameGroups(merged', merged)
  PROVE  NearestFileWins'
<1>1. Len(merged') = Len(merged)
  BY DEF SameGroups
<1>2. \A g \in 2 .. Len(merged) : merged'[g].module = merged[g].module /\ merged'[g].uses = merged[g].uses
  BY DEF SameGroups
<1> QED BY <1>1, <1>2 DEF NearestFileWins, Declares, Reachable, File

LEMMA MergeFound ==
  ASSUME SearchInv, NEW f \in Files, MergeFile(f) PROVE NearestFileWins'
<1> USE DEF MergeFile
<1> DEFINE new == Merge(wanted, File(f).uses, File(f).items)
<1>1. TypeOK /\ wanted \in Modules
  BY DEF SearchInv, IInv, Progress, TypeOK
<1>2. \A k \in Files : File(k)' = File(k) /\ \A m : Declares(k, m)' = Declares(k, m)
  BY DEF Declares, Reachable, File
<1>3. new.module = wanted /\ new.uses = Elements(File(f).uses)
  BY DEF Merge
<1> HIDE DEF new
<1>4. /\ Len(merged') = Len(merged) + 1 /\ Len(merged) \in Nat
      /\ \A g \in 1 .. Len(merged) : merged'[g] = merged[g]
      /\ merged'[Len(merged) + 1] = new
  <2>1. merged' = Append(merged, new) /\ merged \in Seq(GroupType)
    BY <1>1 DEF new, TypeOK
  <2> QED BY <2>1
<1>5. Declares(f, wanted) /\ f \in Candidates(place) /\ place \in DOMAIN SearchDirectories
  BY <1>1, DeclaresIsCandidate DEF SearchInv, Searched, TypeOK, IsWanted
<1>6. ASSUME NEW k \in Files, Declares(k, wanted) PROVE File(k).dir >= File(f).dir
  <2>1. PICK n \in DOMAIN SearchDirectories : k \in Candidates(n) /\ IsWanted(k)
    BY <1>1, <1>6, DeclaresIsCandidate
  <2>2. n >= place
    BY <1>1, <1>5, <2>1, Directories DEF SearchInv, Searched
  <2> QED BY <1>1, <1>5, <2>1, <2>2, Directories DEF Candidates
<1> DEFINE Won(k, g) ==
      /\ Declares(k, merged[g].module)
      /\ Elements(File(k).uses) = merged[g].uses
      /\ \A l \in Files : Declares(l, merged[g].module) => File(l).dir >= File(k).dir
<1>7. \A g \in 2 .. Len(merged) : \E k \in Files : Won(k, g)
  BY DEF SearchInv, NearestFileWins
<1>8. ASSUME NEW g \in 2 .. Len(merged), NEW k \in Files, Won(k, g) PROVE Won(k, g)'
  <2>1. merged'[g] = merged[g]
    BY <1>4
  <2> QED BY <1>8, <2>1 DEF Declares, Reachable, File
<1>9. ASSUME NEW g, g = Len(merged) + 1 PROVE Won(f, g)'
  <2>1. merged'[g].module = wanted /\ merged'[g].uses = Elements(File(f).uses)
    BY <1>3, <1>4, <1>9
  <2>2. Declares(f, wanted) /\ \A k \in Files : Declares(k, wanted) => File(k).dir >= File(f).dir
    BY <1>5, <1>6
  <2> QED BY <2>1, <2>2 DEF Declares, Reachable, File
<1> HIDE DEF Won
<1>10. \A g \in 2 .. Len(merged') : \E k \in Files : Won(k, g)'
  BY <1>4, <1>7, <1>8, <1>9
<1> QED BY <1>10 DEF NearestFileWins, Won

\* Each way to fail has its cause in the project and in what is merged.
LEMMA CauseOfFailure ==
  ASSUME SearchInv, phase # "failed", phase' = "failed", project' = project, merged' = merged,
         \/ \E f \in Files : FailToParse(f) \/ RejectCode(f)
         \/ NotFound
         \/ RejectAmbiguous
  PROVE  FailsForCause'
<1>1. TypeOK
  BY DEF SearchInv, IInv
<1>2. phase = "search" => wanted \in Modules /\ Used(wanted)
  BY <1>1 DEF SearchInv, IInv, Progress, TypeOK, UsedBy, Used
<1>3. ASSUME NEW f \in unread, phase = "search"
      PROVE  f \in Files /\ Reachable(f) /\ ~ File(f).entryName
  <2>1. f \in Candidates(place) /\ place \in DOMAIN SearchDirectories
    BY <1>1, <1>3 DEF SearchInv, Searched, TypeOK
  <2> QED BY <1>1, <2>1, Directories DEF Candidates
<1> DEFINE Broken == \E f \in Files : Reachable(f) /\ ~ File(f).entryName /\ ~ File(f).parses
<1> DEFINE Missing == \E m \in Modules : Used(m) /\ \A f \in Files : ~ Declares(f, m)
<1> DEFINE WithCode == \E f \in Files, m \in Modules : Used(m) /\ Declares(f, m) /\ HasCode(f)
<1> DEFINE Ambiguity ==
      \E g, h \in 2 .. Len(merged), c \in Calls(merged) :
        /\ g # h /\ ~ c.source.hidden
        /\ \E n \in {c.name, Constructor[c.name]} : Exports(g, n) /\ Exports(h, n)
<1>s. /\ Broken => Broken'
      /\ Missing => Missing'
      /\ WithCode => WithCode'
      /\ Ambiguity => Ambiguity'
  <2>1. Broken => Broken'
    BY DEF Reachable, File
  <2>2. Missing => Missing'
    BY DEF Used, Declares, Reachable, File
  <2>3. WithCode => WithCode'
    BY DEF Used, Declares, Reachable, File, HasCode, Elements
  <2>4. Calls(merged)' = Calls(merged)
    BY DEF Calls, Elements
  <2>5. Ambiguity => Ambiguity'
    BY <2>4 DEF Exports, Elements
  <2> QED BY <2>1, <2>2, <2>3, <2>5
<1>4. ASSUME NEW f \in Files, FailToParse(f)
      PROVE  Reachable(f) /\ ~ File(f).entryName /\ ~ File(f).parses
  BY <1>3, <1>4 DEF FailToParse
<1>5. ASSUME NEW f \in Files, RejectCode(f)
      PROVE  Used(wanted) /\ Declares(f, wanted) /\ HasCode(f) /\ wanted \in Modules
  BY <1>2, <1>3, <1>5 DEF RejectCode, Declares
<1>6. ASSUME NotFound
      PROVE  wanted \in Modules /\ Used(wanted) /\ \A f \in Files : ~ Declares(f, wanted)
  <2>1. \A f \in Files : IsWanted(f) => ~ \E n \in DOMAIN SearchDirectories : f \in Candidates(n)
    BY <1>1, <1>6, Directories DEF NotFound, SearchInv, Searched
  <2> QED BY <1>1, <1>2, <1>6, <2>1, DeclaresIsCandidate DEF NotFound
<1>7. ASSUME RejectAmbiguous
      PROVE  \E g, h \in 2 .. Len(merged), c \in Calls(merged) :
               /\ g # h /\ ~ c.source.hidden
               /\ \E n \in {c.name, Constructor[c.name]} : Exports(g, n) /\ Exports(h, n)
  <2>1. \E c \in Calls(merged) :
          /\ ~ c.source.hidden
          /\ \E n \in {c.name, Constructor[c.name]} : Ambiguous(n)
    BY <1>7 DEF RejectAmbiguous, AmbiguousCall, AmbiguousConstructor, Sugared, Open
  <2> QED BY <1>1, <2>1, TwoExporters
<1>8. Broken \/ Missing \/ WithCode \/ Ambiguity
  BY <1>4, <1>5, <1>6, <1>7
<1> QED BY <1>s, <1>8 DEF FailsForCause

LEMMA SearchNext == SearchInv /\ [Next]_vars => SearchInv'
<1> SUFFICES ASSUME SearchInv, [Next]_vars PROVE SearchInv'
  OBVIOUS
<1>0. IInv' /\ TypeOK
  BY NextInv DEF SearchInv, IInv
<1> SUFFICES Searched' /\ NearestFileWins' /\ FailsForCause'
  BY <1>0 DEF SearchInv
<1>a. NearestFileWins /\ merged \in Seq(GroupType)
  BY <1>0 DEF SearchInv, TypeOK
<1>1. CASE SkipLoaded
  BY <1>1, <1>a, FoundStays DEF SkipLoaded, Searched, FailsForCause
<1>2. CASE Want
  <2>1. Searched'
    BY <1>2 DEF Want, Searched, Candidates, File, SearchDirectories
  <2> QED BY <1>2, <2>1, <1>a, FoundStays DEF Want, FailsForCause
<1>3. ASSUME NEW f \in Files, PassOver(f) PROVE Searched' /\ NearestFileWins' /\ FailsForCause'
  <2>1. Searched'
    BY <1>3 DEF PassOver, SearchInv, Searched, Candidates, IsWanted, File, SearchDirectories
  <2> QED BY <1>3, <2>1, <1>a, FoundStays DEF PassOver, FailsForCause
<1>4. ASSUME NEW f \in Files, FailToParse(f) PROVE Searched' /\ NearestFileWins' /\ FailsForCause'
  <2>1. FailsForCause'
    BY <1>4, CauseOfFailure DEF FailToParse, Fail
  <2> QED BY <1>4, <2>1, <1>a, FoundStays DEF FailToParse, Fail, Searched
<1>5. ASSUME NEW f \in Files, RejectCode(f) PROVE Searched' /\ NearestFileWins' /\ FailsForCause'
  <2>1. FailsForCause'
    BY <1>5, CauseOfFailure DEF RejectCode
  <2> QED BY <1>5, <2>1, <1>a, FoundStays DEF RejectCode, Searched
<1>6. ASSUME NEW f \in Files, MergeFile(f) PROVE Searched' /\ NearestFileWins' /\ FailsForCause'
  BY <1>6, MergeFound DEF MergeFile, Searched, FailsForCause
<1>7. CASE NextDirectory
  <2>1. Searched'
    <3>1. place' = place + 1 /\ place \in Nat /\ unread = {} /\ unread' = Candidates(place + 1)
      BY <1>0, <1>7, Directories DEF NextDirectory, TypeOK
    <3>2. \A n \in 1 .. place : \A f \in Candidates(n) : ~ IsWanted(f)
      BY <1>7, <3>1 DEF NextDirectory, SearchInv, Searched
    <3>3. (\A n : Candidates(n)' = Candidates(n)) /\ \A f : IsWanted(f)' = IsWanted(f)
      BY <1>7 DEF NextDirectory, Candidates, IsWanted, File, SearchDirectories
    <3>4. Candidates(place)' = Candidates(place + 1)
      BY <3>1, <1>7 DEF NextDirectory, Candidates, File, SearchDirectories
    <3> QED BY <3>1, <3>2, <3>3, <3>4 DEF Searched
  <2> QED BY <1>7, <2>1, <1>a, FoundStays DEF NextDirectory, FailsForCause
<1>8. CASE NotFound
  <2>1. FailsForCause'
    BY <1>8, CauseOfFailure DEF NotFound, Fail
  <2> QED BY <1>8, <2>1, <1>a, FoundStays DEF NotFound, Fail, Searched
<1>9. CASE LeaveLoop
  BY <1>9, <1>a, FoundStays DEF LeaveLoop, Searched, FailsForCause
<1>10. CASE ResolveCalls
  BY <1>0, <1>10, <1>a, ResolveKeeps, FoundStaysRewritten DEF ResolveCalls, Searched, FailsForCause
<1>11. CASE ResolveConstructors
  BY <1>0, <1>11, <1>a, ConstructKeeps, FoundStaysRewritten
     DEF ResolveConstructors, Searched, FailsForCause
<1>12. CASE RejectAmbiguous
  <2>1. FailsForCause'
    BY <1>12, CauseOfFailure DEF RejectAmbiguous, Fail
  <2> QED BY <1>12, <2>1, <1>a, FoundStays DEF RejectAmbiguous, Fail, Searched
<1>13. CASE UNCHANGED vars
  <2>1. Searched'
    BY <1>13 DEF vars, SearchInv, Searched, Candidates, IsWanted, File, SearchDirectories
  <2>2. FailsForCause'
    <3>1. UNCHANGED <<phase, project, merged>>
      BY <1>13 DEF vars
    <3>2. /\ \A f : Reachable(f)' = Reachable(f) /\ File(f)' = File(f) /\ HasCode(f)' = HasCode(f)
          /\ \A m : Used(m)' = Used(m)
          /\ \A g, n : Exports(g, n)' = Exports(g, n)
      BY <3>1 DEF Reachable, File, HasCode, Used, Exports, Elements
    <3>3. \A f, m : Declares(f, m)' = Declares(f, m)
      BY <3>2 DEF Declares
    <3>4. FailsForCause
      BY DEF SearchInv
    <3> QED BY <3>1, <3>2, <3>3, <3>4 DEF FailsForCause
  <2> QED BY <1>13, <2>1, <2>2, <1>a, FoundStays DEF vars
<1> QED BY <1>1, <1>2, <1>3, <1>4, <1>5, <1>6, <1>7, <1>8, <1>9, <1>10, <1>11,
          <1>12, <1>13 DEF Next

\* The search finds the nearest file of a module, and no farther one, for any
\* files, any order of them and any layout of the "std" directories.
THEOREM FindsTheNearest == Spec => []NearestFileWins
<1>1. SearchInv => NearestFileWins
  BY DEF SearchInv
<1> QED BY <1>1, SearchInit, SearchNext, PTL DEF Spec

\* loadProgram never throws without one of the four causes.
THEOREM FailsOnlyForCause == Spec => []FailsForCause
<1>1. SearchInv => FailsForCause
  BY DEF SearchInv
<1> QED BY <1>1, SearchInit, SearchNext, PTL DEF Spec

-------------------------------------------------------------------------------
(***************************************************************************)
(* For every set of files: what a call by bare name means in the merged    *)
(* program.  The invariant says what a call names before and after the two *)
(* rewriting passes; the passes change callees only, so what a group       *)
(* declares and exports, which decides the meaning, stays as merged.       *)
(***************************************************************************)

LEMMA FunctionNamesOf ==
  ASSUME NEW items, NEW n
  PROVE  n \in FunctionNames(items) <=>
           \E i \in DOMAIN items : items[i].kind = "function" /\ items[i].name = n
BY DEF FunctionNames, Elements

LEMMA ExportsOf ==
  ASSUME NEW g, NEW n
  PROVE  Exports(g, n) <=>
           /\ merged[g].module \in merged[1].uses
           /\ \E i \in DOMAIN merged[g].items :
                LET item == merged[g].items[i]
                IN  item.kind = "function" /\ item.public /\ item.name = n
BY DEF Exports, Elements

LEMMA ExportersOf ==
  ASSUME NEW n
  PROVE  Exporters(n) = {merged[g].module : g \in {h \in 2 .. Len(merged) : Exports(h, n)}}
BY DEF Exporters, Exports

LEMMA CallsOf ==
  ASSUME NEW group, NEW c
  PROVE  c \in Calls(<<group>>) <=>
           \E i \in DOMAIN group.items : \E k \in DOMAIN group.items[i].calls :
             c = group.items[i].calls[k]
<1>1. c \in Calls(<<group>>) <=>
        c \in UNION {Elements(item.calls) : item \in Elements(group.items)}
  BY DEF Calls
<1>2. c \in UNION {Elements(item.calls) : item \in Elements(group.items)} <=>
        \E item \in Elements(group.items) : c \in Elements(item.calls)
  OBVIOUS
<1> QED BY <1>1, <1>2 DEF Elements

LEMMA CallsOfAll ==
  ASSUME NEW groups, NEW g \in DOMAIN groups, NEW c \in Calls(<<groups[g]>>)
  PROVE  c \in Calls(groups)
<1>1. c \in UNION {Elements(item.calls) : item \in Elements(groups[g].items)}
  BY DEF Calls
<1> QED BY <1>1 DEF Calls

LEMMA SameFunctions ==
  ASSUME NEW new, NEW old, DOMAIN new = DOMAIN old,
         \A i \in DOMAIN old : new[i].kind = old[i].kind /\ new[i].name = old[i].name
  PROVE  FunctionNames(new) = FunctionNames(old)
<1>1. \A n : n \in FunctionNames(new) <=>
             \E i \in DOMAIN new : new[i].kind = "function" /\ new[i].name = n
  BY FunctionNamesOf
<1>2. \A n : n \in FunctionNames(old) <=>
             \E i \in DOMAIN old : old[i].kind = "function" /\ old[i].name = n
  BY FunctionNamesOf
<1>3. \A n : n \in FunctionNames(new) <=> n \in FunctionNames(old)
  BY <1>1, <1>2
<1> QED BY <1>3

-----------------------------------------------------------------------------
\* What the two passes leave alone.
SameItems(new, old) ==
  /\ DOMAIN new = DOMAIN old
  /\ \A g \in DOMAIN old :
       /\ new[g].module = old[g].module /\ new[g].uses = old[g].uses
       /\ DOMAIN new[g].items = DOMAIN old[g].items
       /\ \A i \in DOMAIN old[g].items :
            /\ new[g].items[i].kind = old[g].items[i].kind
            /\ new[g].items[i].name = old[g].items[i].name
            /\ new[g].items[i].public = old[g].items[i].public
            /\ DOMAIN new[g].items[i].calls = DOMAIN old[g].items[i].calls

\* A group is a record with these fields, and so are its items and calls.
LEMMA MergedTypes ==
  ASSUME TypeOK
  PROVE  /\ DOMAIN merged = 1 .. Len(merged) /\ Len(merged) \in Nat /\ Len(merged) >= 1
         /\ \A g \in DOMAIN merged :
              /\ merged[g] \in GroupType
              /\ \A i \in DOMAIN merged[g].items :
                   /\ merged[g].items[i] \in MergedItemType
                   /\ \A k \in DOMAIN merged[g].items[i].calls :
                        merged[g].items[i].calls[k] \in MergedCallType
<1>1. merged \in Seq(GroupType) /\ merged # <<>>
  BY DEF TypeOK
<1>2. ASSUME NEW g \in DOMAIN merged
      PROVE  /\ merged[g] \in GroupType
             /\ \A i \in DOMAIN merged[g].items :
                  /\ merged[g].items[i] \in MergedItemType
                  /\ \A k \in DOMAIN merged[g].items[i].calls :
                       merged[g].items[i].calls[k] \in MergedCallType
  <2>1. merged[g] \in GroupType
    BY <1>1
  <2>2. merged[g].items \in Seq(MergedItemType)
    BY <2>1 DEF GroupType
  <2>3. ASSUME NEW i \in DOMAIN merged[g].items
        PROVE  /\ merged[g].items[i] \in MergedItemType
               /\ \A k \in DOMAIN merged[g].items[i].calls :
                    merged[g].items[i].calls[k] \in MergedCallType
    <3>1. merged[g].items[i] \in MergedItemType
      BY <2>2
    <3>2. merged[g].items[i].calls \in Seq(MergedCallType)
      BY <3>1 DEF MergedItemType
    <3> QED BY <3>1, <3>2
  <2> QED BY <2>1, <2>3
<1> QED BY <1>1, <1>2

LEMMA ResolveRewrites ==
  ASSUME TypeOK
  PROVE  LET new == Rewritten(merged, Resolve)
         IN  /\ SameItems(new, merged)
             /\ \A g \in DOMAIN merged : \A c \in Calls(<<new[g]>>) :
                  \E d \in Calls(<<merged[g]>>) : c = Resolve(d)
<1> DEFINE new == Rewritten(merged, Resolve)
<1>1. DOMAIN new = DOMAIN merged
  BY DEF Rewritten
<1>2. ASSUME NEW g \in DOMAIN merged
      PROVE  /\ new[g].module = merged[g].module /\ new[g].uses = merged[g].uses
             /\ new[g].items = [i \in DOMAIN merged[g].items |->
                                  RewrittenItem(merged[g].items[i], Resolve)]
  <2>1. merged[g] \in GroupType
    BY MergedTypes
  <2>2. new[g] = [merged[g] EXCEPT !.items = [i \in DOMAIN merged[g].items |->
                                  RewrittenItem(merged[g].items[i], Resolve)]]
    BY DEF Rewritten
  <2> QED BY <2>1, <2>2 DEF GroupType
<1> HIDE DEF new
<1>3. ASSUME NEW g \in DOMAIN merged, NEW i \in DOMAIN merged[g].items
      PROVE  LET item == merged[g].items[i]
             IN  /\ new[g].items[i].kind = item.kind
                 /\ new[g].items[i].name = item.name
                 /\ new[g].items[i].public = item.public
                 /\ DOMAIN new[g].items[i].calls = DOMAIN item.calls
                 /\ \A c \in DOMAIN item.calls : new[g].items[i].calls[c] = Resolve(item.calls[c])
  <2>1. merged[g].items[i] \in MergedItemType
    BY MergedTypes
  <2>2. new[g].items[i] = [merged[g].items[i] EXCEPT !.calls =
                             [c \in DOMAIN merged[g].items[i].calls |->
                                Resolve(merged[g].items[i].calls[c])]]
    BY <1>2 DEF RewrittenItem
  <2> QED BY <2>1, <2>2 DEF MergedItemType
<1>4. SameItems(new, merged)
  BY <1>1, <1>2, <1>3 DEF SameItems
<1>5. ASSUME NEW g \in DOMAIN merged, NEW c \in Calls(<<new[g]>>)
      PROVE  \E d \in Calls(<<merged[g]>>) : c = Resolve(d)
  <2>1. PICK i \in DOMAIN new[g].items : \E k \in DOMAIN new[g].items[i].calls :
               c = new[g].items[i].calls[k]
    BY CallsOf
  <2>2. PICK k \in DOMAIN new[g].items[i].calls : c = new[g].items[i].calls[k]
    BY <2>1
  <2>3. i \in DOMAIN merged[g].items
    BY <1>4 DEF SameItems
  <2>4. k \in DOMAIN merged[g].items[i].calls
    BY <1>4, <2>3 DEF SameItems
  <2>5. c = Resolve(merged[g].items[i].calls[k])
    BY <1>3, <2>2, <2>3, <2>4
  <2> QED BY <2>3, <2>4, <2>5, CallsOf
<1> QED BY <1>4, <1>5 DEF new

LEMMA ConstructRewrites ==
  ASSUME TypeOK
  PROVE  LET new == Rewritten(merged, Construct)
         IN  /\ SameItems(new, merged)
             /\ \A g \in DOMAIN merged : \A c \in Calls(<<new[g]>>) :
                  \E d \in Calls(<<merged[g]>>) : c = Construct(d)
<1> DEFINE new == Rewritten(merged, Construct)
<1>1. DOMAIN new = DOMAIN merged
  BY DEF Rewritten
<1>2. ASSUME NEW g \in DOMAIN merged
      PROVE  /\ new[g].module = merged[g].module /\ new[g].uses = merged[g].uses
             /\ new[g].items = [i \in DOMAIN merged[g].items |->
                                  RewrittenItem(merged[g].items[i], Construct)]
  <2>1. merged[g] \in GroupType
    BY MergedTypes
  <2>2. new[g] = [merged[g] EXCEPT !.items = [i \in DOMAIN merged[g].items |->
                                  RewrittenItem(merged[g].items[i], Construct)]]
    BY DEF Rewritten
  <2> QED BY <2>1, <2>2 DEF GroupType
<1> HIDE DEF new
<1>3. ASSUME NEW g \in DOMAIN merged, NEW i \in DOMAIN merged[g].items
      PROVE  LET item == merged[g].items[i]
             IN  /\ new[g].items[i].kind = item.kind
                 /\ new[g].items[i].name = item.name
                 /\ new[g].items[i].public = item.public
                 /\ DOMAIN new[g].items[i].calls = DOMAIN item.calls
                 /\ \A c \in DOMAIN item.calls : new[g].items[i].calls[c] = Construct(item.calls[c])
  <2>1. merged[g].items[i] \in MergedItemType
    BY MergedTypes
  <2>2. new[g].items[i] = [merged[g].items[i] EXCEPT !.calls =
                             [c \in DOMAIN merged[g].items[i].calls |->
                                Construct(merged[g].items[i].calls[c])]]
    BY <1>2 DEF RewrittenItem
  <2> QED BY <2>1, <2>2 DEF MergedItemType
<1>4. SameItems(new, merged)
  BY <1>1, <1>2, <1>3 DEF SameItems
<1>5. ASSUME NEW g \in DOMAIN merged, NEW c \in Calls(<<new[g]>>)
      PROVE  \E d \in Calls(<<merged[g]>>) : c = Construct(d)
  <2>1. PICK i \in DOMAIN new[g].items : \E k \in DOMAIN new[g].items[i].calls :
               c = new[g].items[i].calls[k]
    BY CallsOf
  <2>2. PICK k \in DOMAIN new[g].items[i].calls : c = new[g].items[i].calls[k]
    BY <2>1
  <2>3. i \in DOMAIN merged[g].items
    BY <1>4 DEF SameItems
  <2>4. k \in DOMAIN merged[g].items[i].calls
    BY <1>4, <2>3 DEF SameItems
  <2>5. c = Construct(merged[g].items[i].calls[k])
    BY <1>3, <2>2, <2>3, <2>4
  <2> QED BY <2>3, <2>4, <2>5, CallsOf
<1> QED BY <1>4, <1>5 DEF new

-----------------------------------------------------------------------------
\* The names of the functions that the calling file declares.
Own(g) == FunctionNames(merged[g].items)

\* What a name means is decided by what the passes leave alone.
LEMMA SameMeaning ==
  ASSUME SameItems(merged', merged), TypeOK
  PROVE  /\ Len(merged') = Len(merged)
         /\ LocalNames' = LocalNames
         /\ \A g \in DOMAIN merged : Own(g)' = Own(g)
         /\ \A n : \A g \in DOMAIN merged : Exports(g, n)' <=> Exports(g, n)
         /\ \A n : Exporters(n)' = Exporters(n)
<1>1. DOMAIN merged' = DOMAIN merged /\ Len(merged') = Len(merged)
  BY MergedTypes DEF SameItems
<1>2. \A g \in DOMAIN merged : Own(g)' = Own(g)
  <2> SUFFICES ASSUME NEW g \in DOMAIN merged
               PROVE  FunctionNames(merged'[g].items) = FunctionNames(merged[g].items)
    BY DEF Own, FunctionNames, Elements
  <2> QED BY SameFunctions DEF SameItems
<1>3. LocalNames' = LocalNames
  BY <1>2, MergedTypes DEF LocalNames, Own
<1>4. ASSUME NEW n, NEW g \in DOMAIN merged PROVE Exports(g, n)' <=> Exports(g, n)
  <2>1. 1 \in DOMAIN merged
    BY MergedTypes
  <2>2. Exports(g, n)' <=>
          /\ merged'[g].module \in merged'[1].uses
          /\ \E i \in DOMAIN merged'[g].items :
               LET item == merged'[g].items[i]
               IN  item.kind = "function" /\ item.public /\ item.name = n
    BY DEF Exports, Elements
  <2> QED BY <2>1, <2>2, ExportsOf DEF SameItems
<1>5. ASSUME NEW n PROVE Exporters(n)' = Exporters(n)
  <2>1. Exporters(n)' = {merged'[g].module : g \in {h \in 2 .. Len(merged') : Exports(h, n)'}}
    BY DEF Exporters, Exports
  <2>2. \A g \in 2 .. Len(merged) : g \in DOMAIN merged /\ merged'[g].module = merged[g].module
    BY MergedTypes DEF SameItems
  <2> QED BY <1>1, <1>4, <2>1, <2>2, ExportersOf
<1> QED BY <1>1, <1>2, <1>3, <1>4, <1>5

-----------------------------------------------------------------------------
(***************************************************************************)
(* The inductive invariant.  A hidden call stays as written.  Until the    *)
(* first pass any other callee is the caller's own function or as written. *)
(* After it such a call means its own file's function, or a function of    *)
(* the entry file, or the one exporter of its name, or nothing yet.  The   *)
(* second pass only turns the last of these into one of the others, by     *)
(* another name.                                                           *)
(***************************************************************************)
AsWritten(c) == c.name = c.source.name /\ c.module = Root

AsMerged(g, c) ==
  /\ c.name = c.source.name
  /\ c.module = IF c.name \in Own(g) /\ ~ c.source.hidden THEN merged[g].module ELSE Root

MeansOwn(g, c) == c.name = c.source.name /\ c.module = merged[g].module
MeansLocal(c) == c.module = Root /\ c.name \in LocalNames
MeansNothing(c) == c.module = Root /\ c.name \notin LocalNames /\ Exporters(c.name) = {}
MeansImport(c) == Exporters(c.name) = {c.module}

Meant(g, c) ==
  IF c.source.hidden THEN AsWritten(c)
  ELSE IF c.source.name \in Own(g) THEN MeansOwn(g, c)
  ELSE MeansLocal(c) \/ MeansNothing(c) \/ MeansImport(c)

EveryCall(P(_, _)) == \A g \in DOMAIN merged : \A c \in Calls(<<merged[g]>>) : P(g, c)

Named ==
  /\ phase \in {"next", "search", "resolve"} => EveryCall(AsMerged)
  /\ phase \in {"construct", "done"} => EveryCall(Meant)

NamingInv == IInv /\ Named

LEMMA OnlyExporter ==
  ASSUME TypeOK, NEW n, ~ Ambiguous(n), Exporters(n) # {}
  PROVE  Exporters(n) = {CHOOSE m \in Exporters(n) : TRUE}
<1> DEFINE m == CHOOSE x \in Exporters(n) : TRUE
<1>1. m \in Exporters(n)
  OBVIOUS
<1> HIDE DEF m
<1>2. IsFiniteSet(Exporters(n))
  <2>1. Exporters(n) \subseteq Modules
    BY DEF Exporters, TypeOK
  <2> QED BY <2>1, SortsAssumption, FS_Subset
<1>3. Cardinality(Exporters(n)) \in Nat /\ Cardinality(Exporters(n)) <= 1
  BY <1>2, FS_CardinalityType DEF Ambiguous
<1>4. Cardinality({m}) = 1 /\ {m} \in SUBSET Exporters(n)
  BY <1>1, FS_Singleton
<1>5. Cardinality({m}) <= Cardinality(Exporters(n))
  BY <1>2, <1>4, FS_Subset
<1>6. Cardinality({m}) = Cardinality(Exporters(n))
  BY <1>3, <1>4, <1>5
<1>7. {m} = Exporters(n)
  BY <1>2, <1>4, <1>6, FS_Subset
<1> QED BY <1>7 DEF m

\* The modules of the groups behind the entry file's are not the root.
LEMMA ModuleOf ==
  ASSUME TypeOK
  PROVE  /\ merged[1].module = Root
         /\ \A g \in DOMAIN merged : g # 1 => merged[g].module \in Modules /\ merged[g].module # Root
         /\ \A n : Root \notin Exporters(n)
<1>1. ASSUME NEW g \in 2 .. Len(merged) PROVE merged[g].module \in Modules /\ merged[g].module # Root
  BY SortsAssumption DEF TypeOK
<1> QED BY <1>1, MergedTypes DEF TypeOK, Exporters

LEMMA ResolveMeans ==
  ASSUME TypeOK, NEW g \in DOMAIN merged, NEW c \in MergedCallType, AsMerged(g, c),
         Open(c) => ~ Ambiguous(c.name)
  PROVE  Meant(g, Resolve(c))
<1>0. CASE c.source.hidden
  BY <1>0 DEF Resolve, Open, AsMerged, Meant, AsWritten
<1>1. CASE ~ c.source.hidden /\ c.name \in Own(g)
  <2>1. ~ Open(c)
    BY <1>1, ModuleOf DEF AsMerged, Open, Own, LocalNames
  <2> QED BY <1>1, <2>1 DEF Resolve, AsMerged, Meant, MeansOwn
<1>2. CASE ~ c.source.hidden /\ c.name \notin Own(g)
  <2>1. c.module = Root /\ c.source.name \notin Own(g)
    BY <1>2 DEF AsMerged
  <2>2. CASE Open(c) /\ Exporters(c.name) # {}
    <3>1. Resolve(c).module = CHOOSE m \in Exporters(c.name) : TRUE
      BY <2>2 DEF Resolve, Imported, MergedCallType
    <3>2. Resolve(c).name = c.name /\ Resolve(c).source = c.source
      BY <2>2 DEF Resolve, Imported, MergedCallType
    <3>3. Exporters(c.name) = {Resolve(c).module}
      BY <2>2, <3>1, OnlyExporter
    <3> QED BY <1>2, <2>1, <3>2, <3>3 DEF Meant, MeansImport
  <2>3. CASE ~ (Open(c) /\ Exporters(c.name) # {})
    BY <1>2, <2>1, <2>3 DEF Resolve, Meant, MeansLocal, MeansNothing, Open
  <2> QED BY <2>2, <2>3
<1> QED BY <1>0, <1>1, <1>2

LEMMA ConstructMeans ==
  ASSUME TypeOK, NEW g \in DOMAIN merged, NEW c \in MergedCallType, Meant(g, c),
         Sugared(c) /\ Constructor[c.name] \notin LocalNames => ~ Ambiguous(Constructor[c.name])
  PROVE  Meant(g, Construct(c))
<1>1. CASE ~ Sugared(c)
  BY <1>1 DEF Construct
<1>2. CASE Sugared(c)
  <2> DEFINE new == Constructor[c.name]
  <2>1. ~ c.source.hidden /\ c.source.name \notin Own(g)
    BY <1>2, ModuleOf DEF Meant, MeansOwn, Sugared, Open, Own, LocalNames
  <2>2. CASE new \in LocalNames
    BY <1>2, <2>1, <2>2 DEF Construct, Meant, MeansLocal, Sugared, Open, MergedCallType
  <2>3. CASE new \notin LocalNames /\ Exporters(new) # {}
    <3>1. Construct(c) = Imported(c, new)
      BY <1>2, <2>3 DEF Construct
    <3>2. Construct(c).module = CHOOSE m \in Exporters(new) : TRUE
      BY <3>1 DEF Imported, MergedCallType
    <3>3. Construct(c).name = new /\ Construct(c).source = c.source
      BY <3>1 DEF Imported, MergedCallType
    <3>4. Exporters(new) = {Construct(c).module}
      BY <1>2, <2>3, <3>2, OnlyExporter
    <3> QED BY <2>1, <3>3, <3>4 DEF Meant, MeansImport
  <2>4. CASE new \notin LocalNames /\ Exporters(new) = {}
    BY <2>4 DEF Construct
  <2> QED BY <2>2, <2>3, <2>4
<1> QED BY <1>1, <1>2

\* mergeModule gives every call of the new group its first meaning.
LEMMA MergeNames ==
  ASSUME NEW module, NEW uses, NEW items \in Seq(ItemType)
  PROVE  LET new == Merge(module, uses, items)
         IN  /\ new.module = module
             /\ \A c \in Calls(<<new>>) :
                  /\ c.name = c.source.name
                  /\ c.module = IF c.name \in FunctionNames(new.items) /\ ~ c.source.hidden
                                THEN module ELSE Root
<1> DEFINE new == Merge(module, uses, items)
<1>1. new.module = module /\ DOMAIN new.items = DOMAIN items
  BY DEF Merge
<1>2. ASSUME NEW i \in DOMAIN items
      PROVE  /\ new.items[i].kind = items[i].kind /\ new.items[i].name = items[i].name
             /\ new.items[i].calls = [c \in DOMAIN items[i].calls |->
                  Callee(module, FunctionNames(items), items[i].calls[c])]
  <2>1. items[i] \in ItemType
    OBVIOUS
  <2>2. new.items[i] = [items[i] EXCEPT !.calls = [c \in DOMAIN items[i].calls |->
                  Callee(module, FunctionNames(items), items[i].calls[c])]]
    BY DEF Merge
  <2> QED BY <2>1, <2>2 DEF ItemType
<1> HIDE DEF new
<1>3. FunctionNames(new.items) = FunctionNames(items)
  BY <1>1, <1>2, SameFunctions
<1>4. ASSUME NEW c \in Calls(<<new>>)
      PROVE  /\ c.name = c.source.name
             /\ c.module = IF c.name \in FunctionNames(new.items) /\ ~ c.source.hidden
                           THEN module ELSE Root
  <2>1. PICK i \in DOMAIN new.items : \E k \in DOMAIN new.items[i].calls :
               c = new.items[i].calls[k]
    BY CallsOf
  <2>2. PICK k \in DOMAIN new.items[i].calls : c = new.items[i].calls[k]
    BY <2>1
  <2>3. new.items[i].calls = [d \in DOMAIN items[i].calls |->
                  Callee(module, FunctionNames(items), items[i].calls[d])]
    BY <1>1, <1>2
  <2>4. c = Callee(module, FunctionNames(items), items[i].calls[k])
    BY <2>2, <2>3
  <2> QED BY <1>3, <2>4 DEF Callee
<1> QED BY <1>1, <1>4 DEF new

LEMMA NamingInit == Init => NamingInv
<1> SUFFICES ASSUME Init PROVE EveryCall(AsMerged) /\ phase = "next"
  BY InitInv DEF NamingInv, Named
<1>1. project.entryItems \in Seq(ItemType)
  BY ProjectsAssumption DEF Init, ProjectType
<1>2. DOMAIN merged = {1} /\ merged[1] = Merge(Root, project.entryUses, project.entryItems)
  BY DEF Init
<1> QED BY <1>1, <1>2, MergeNames DEF Init, EveryCall, AsMerged, Own

LEMMA NamingNext == NamingInv /\ [Next]_vars => NamingInv'
<1> SUFFICES ASSUME NamingInv, [Next]_vars PROVE Named'
  BY NextInv DEF NamingInv
<1>0. TypeOK /\ IInv
  BY DEF NamingInv, IInv
<1>1. ASSUME merged' = merged, phase' \in {"next", "search", "resolve", "failed"} =>
               phase' = "failed" \/ phase \in {"next", "search", "resolve"},
             phase' \in {"construct", "done"} => phase' = phase
      PROVE  Named'
  <2>1. \A g : Own(g)' = Own(g)
    BY <1>1 DEF Own, FunctionNames, Elements
  <2>2. LocalNames' = LocalNames /\ \A n : Exporters(n)' = Exporters(n)
    BY <1>1 DEF LocalNames, FunctionNames, Elements, Exporters
  <2>3. EveryCall(AsMerged) => EveryCall(AsMerged)'
    BY <1>1, <2>1 DEF EveryCall, AsMerged
  <2>4. EveryCall(Meant) => EveryCall(Meant)'
    BY <1>1, <2>1, <2>2 DEF EveryCall, Meant, AsWritten, MeansOwn, MeansLocal, MeansNothing, MeansImport
  <2> QED BY <1>1, <2>3, <2>4 DEF NamingInv, Named
<1>2. ASSUME NEW f \in Files, MergeFile(f) PROVE Named'
  <2> DEFINE new == Merge(wanted, File(f).uses, File(f).items)
  <2>1. merged' = Append(merged, new) /\ phase' = "next" /\ EveryCall(AsMerged)
    BY <1>2 DEF MergeFile, NamingInv, Named
  <2>2. File(f).items \in Seq(ItemType)
    BY <1>0 DEF TypeOK, ProjectType, File, FileType
  <2>3. /\ new.module = wanted
        /\ \A c \in Calls(<<new>>) :
             /\ c.name = c.source.name
             /\ c.module = IF c.name \in FunctionNames(new.items) /\ ~ c.source.hidden
                           THEN wanted ELSE Root
    BY <2>2, MergeNames
  <2> HIDE DEF new
  <2>4. /\ DOMAIN merged' = DOMAIN merged \cup {Len(merged) + 1}
        /\ \A g \in DOMAIN merged : merged'[g] = merged[g]
        /\ merged'[Len(merged) + 1] = new
    <3>1. merged \in Seq(GroupType)
      BY <1>0 DEF TypeOK
    <3> QED BY <2>1, <3>1
  <2>5. ASSUME NEW g \in DOMAIN merged', NEW c \in Calls(<<merged'[g]>>)
        PROVE  AsMerged(g, c)'
    <3>1. CASE g \in DOMAIN merged
      BY <2>1, <2>4, <2>5, <3>1 DEF EveryCall, AsMerged, Own
    <3>2. CASE g = Len(merged) + 1
      BY <2>3, <2>4, <2>5, <3>2 DEF AsMerged, Own
    <3> QED BY <2>4, <3>1, <3>2
  <2>6. EveryCall(AsMerged)'
    BY <2>5 DEF EveryCall
  <2> QED BY <2>1, <2>6 DEF Named
<1>3. CASE ResolveCalls
  <2>1. /\ merged' = Rewritten(merged, Resolve) /\ phase' = "construct" /\ EveryCall(AsMerged)
        /\ \A c \in Calls(merged) : Open(c) => ~ Ambiguous(c.name)
    BY <1>3 DEF ResolveCalls, AmbiguousCall, NamingInv, Named
  <2>2. /\ SameItems(merged', merged)
        /\ \A g \in DOMAIN merged : \A c \in Calls(<<merged'[g]>>) :
             \E d \in Calls(<<merged[g]>>) : c = Resolve(d)
    BY <1>0, <2>1, ResolveRewrites
  <2>3. ASSUME NEW g \in DOMAIN merged, NEW c \in Calls(<<merged[g]>>)
        PROVE  Meant(g, Resolve(c))
    <3>1. c \in MergedCallType /\ c \in Calls(merged)
      BY <1>0, MergedTypes, CallsOf, CallsOfAll
    <3>2. AsMerged(g, c)
      BY <2>1 DEF EveryCall
    <3> QED BY <1>0, <2>1, <3>1, <3>2, ResolveMeans
  <2>4. \A g \in DOMAIN merged : \A c : Meant(g, c)' <=> Meant(g, c)
    BY <1>0, <2>2, SameMeaning
       DEF SameItems, Meant, AsWritten, MeansOwn, MeansLocal, MeansNothing, MeansImport
  <2>5. EveryCall(Meant)'
    <3>1. ASSUME NEW g \in DOMAIN merged', NEW c \in Calls(<<merged'[g]>>) PROVE Meant(g, c)'
      <4>1. g \in DOMAIN merged
        BY <2>2 DEF SameItems
      <4>2. Meant(g, c)
        BY <2>2, <2>3, <4>1
      <4> QED BY <2>4, <4>1, <4>2
    <3> QED BY <3>1 DEF EveryCall
  <2> QED BY <2>1, <2>5 DEF Named
<1>4. CASE ResolveConstructors
  <2>1. /\ merged' = Rewritten(merged, Construct) /\ phase' = "done" /\ EveryCall(Meant)
        /\ \A c \in Calls(merged) :
             Sugared(c) /\ Constructor[c.name] \notin LocalNames => ~ Ambiguous(Constructor[c.name])
    BY <1>4 DEF ResolveConstructors, AmbiguousConstructor, NamingInv, Named
  <2>2. /\ SameItems(merged', merged)
        /\ \A g \in DOMAIN merged : \A c \in Calls(<<merged'[g]>>) :
             \E d \in Calls(<<merged[g]>>) : c = Construct(d)
    BY <1>0, <2>1, ConstructRewrites
  <2>3. ASSUME NEW g \in DOMAIN merged, NEW c \in Calls(<<merged[g]>>)
        PROVE  Meant(g, Construct(c))
    <3>1. c \in MergedCallType /\ c \in Calls(merged)
      BY <1>0, MergedTypes, CallsOf, CallsOfAll
    <3>2. Meant(g, c)
      BY <2>1 DEF EveryCall
    <3> QED BY <1>0, <2>1, <3>1, <3>2, ConstructMeans
  <2>4. \A g \in DOMAIN merged : \A c : Meant(g, c)' <=> Meant(g, c)
    BY <1>0, <2>2, SameMeaning
       DEF SameItems, Meant, AsWritten, MeansOwn, MeansLocal, MeansNothing, MeansImport
  <2>5. EveryCall(Meant)'
    <3>1. ASSUME NEW g \in DOMAIN merged', NEW c \in Calls(<<merged'[g]>>) PROVE Meant(g, c)'
      <4>1. g \in DOMAIN merged
        BY <2>2 DEF SameItems
      <4>2. Meant(g, c)
        BY <2>2, <2>3, <4>1
      <4> QED BY <2>4, <4>1, <4>2
    <3> QED BY <3>1 DEF EveryCall
  <2> QED BY <2>1, <2>5 DEF Named
<1>5. CASE SkipLoaded \/ Want \/ NextDirectory \/ NotFound \/ LeaveLoop \/ RejectAmbiguous
           \/ UNCHANGED vars
  BY <1>1, <1>5 DEF SkipLoaded, Want, NextDirectory, NotFound, LeaveLoop, RejectAmbiguous, Fail, vars
<1>6. ASSUME NEW f \in Files, PassOver(f) \/ FailToParse(f) \/ RejectCode(f) PROVE Named'
  BY <1>1, <1>6 DEF PassOver, FailToParse, RejectCode, Fail
<1> QED BY <1>2, <1>3, <1>4, <1>5, <1>6 DEF Next

-----------------------------------------------------------------------------
\* In every reachable state a call is as merged, or means what Meant says; one
\* in an operand of hash<T>, keyEq<T> or HeapArray<T> is as written throughout.
THEOREM CallsAreNamed == Spec => []NamingInv
<1> QED BY NamingInit, NamingNext, PTL DEF Spec

LEMMA MeaningWhenDone ==
  ASSUME NamingInv, phase = "done"
  PROVE  TypeOK /\ \A g \in DOMAIN merged : \A c \in Calls(<<merged[g]>>) : Meant(g, c)
BY DEF NamingInv, IInv, Named, EveryCall

\* A call by the name of a function of its own file means that function, for
\* every project: where the collector finds the call, neither pass takes it for
\* another's.
THEOREM OwnFunctionsAreMeant == Spec => []OwnFunctionsWin
<1>1. NamingInv => OwnFunctionsWin
  BY MeaningWhenDone DEF OwnFunctionsWin, Meant, MeansOwn, Own
<1> QED BY <1>1, CallsAreNamed, PTL

\* Every qualified callee is a merged function that the caller may call.
THEOREM QualifiedCallsAreAnswered == Spec => []CallsAreAnswered
<1>1. NamingInv => CallsAreAnswered
  <2> SUFFICES ASSUME NamingInv, phase = "done", NEW g \in DOMAIN merged,
                      NEW c \in Calls(<<merged[g]>>), c.module # Root
               PROVE  \E h \in 2 .. Len(merged) :
                        /\ merged[h].module = c.module
                        /\ \E item \in Elements(merged[h].items) :
                             /\ item.kind = "function" /\ item.name = c.name
                             /\ item.public \/ g = h
    BY DEF CallsAreAnswered
  <2>1. TypeOK /\ Meant(g, c)
    BY MeaningWhenDone
  <2>0. ~ c.source.hidden
    BY <2>1 DEF Meant, AsWritten
  <2>2. CASE c.source.name \in Own(g)
    <3>1. c.name \in FunctionNames(merged[g].items) /\ c.module = merged[g].module
      BY <2>0, <2>1, <2>2 DEF Meant, MeansOwn, Own
    <3>2. g \in 2 .. Len(merged)
      BY <2>1, <3>1, ModuleOf, MergedTypes
    <3>3. \E item \in Elements(merged[g].items) : item.kind = "function" /\ item.name = c.name
      BY <3>1, FunctionNamesOf DEF Elements
    <3> QED BY <3>1, <3>2, <3>3
  <2>3. CASE c.source.name \notin Own(g)
    <3>1. c.module \in Exporters(c.name)
      BY <2>0, <2>1, <2>3 DEF Meant, MeansLocal, MeansNothing, MeansImport
    <3>2. PICK h \in 2 .. Len(merged) : merged[h].module = c.module /\ Exports(h, c.name)
      BY <3>1, ExportersOf
    <3> QED BY <3>2 DEF Exports
  <2> QED BY <2>2, <2>3
<1> QED BY <1>1, CallsAreNamed, PTL

\* An imported callee has one exporter, and a callee that the collector found
\* and the passes left bare has none or is the entry file's, for every project
\* that loads.
THEOREM CallsHaveOneMeaning == Spec => []OneMeaning
<1>1. NamingInv => OneMeaning
  <2> SUFFICES ASSUME NamingInv, phase = "done", NEW g \in DOMAIN merged,
                      NEW c \in Calls(<<merged[g]>>)
               PROVE  /\ c.module \notin {Root, merged[g].module} =>
                           \A h \in 2 .. Len(merged) : Exports(h, c.name) => merged[h].module = c.module
                      /\ /\ c.module = Root /\ ~ c.source.hidden
                         /\ c.name \notin FunctionNames(merged[1].items)
                         => \A h \in 2 .. Len(merged) : ~ Exports(h, c.name)
    BY DEF OneMeaning
  <2>1. TypeOK /\ Meant(g, c)
    BY MeaningWhenDone
  <2>2. \A h \in 2 .. Len(merged) : Exports(h, c.name) => merged[h].module \in Exporters(c.name)
    BY ExportersOf
  <2>3. ASSUME c.module \notin {Root, merged[g].module} PROVE Exporters(c.name) = {c.module}
    BY <2>1, <2>3 DEF Meant, AsWritten, MeansOwn, MeansLocal, MeansNothing, MeansImport
  <2>4. ASSUME c.module = Root, ~ c.source.hidden, c.name \notin LocalNames
        PROVE  Exporters(c.name) = {}
    <3>1. ~ MeansLocal(c) /\ ~ MeansImport(c)
      BY <2>1, <2>4, ModuleOf DEF MeansLocal, MeansImport
    <3>2. c.source.name \notin Own(g)
      BY <2>1, <2>4, ModuleOf DEF Meant, MeansOwn, Own, LocalNames
    <3> QED BY <2>1, <2>4, <3>1, <3>2 DEF Meant, MeansNothing
  <2> QED BY <2>2, <2>3, <2>4 DEF LocalNames
<1> QED BY <1>1, CallsAreNamed, PTL
=============================================================================
