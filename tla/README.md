# Axea: a verification of the compiler and its standard library

Axea is a compiled language: the program `axea` reads a source file and the
modules it uses, checks types, *capabilities* (read, write, take) and *regions*
(owned, borrowed), and then either interprets the program or lowers it to an
intermediate representation, LLVM IR and a binary. Memory is not collected: an
object is freed where its owner's scope ends, so the language is safe exactly
if the ownership passes and the lowering agree on who owns what. Containers are
written in the language itself (`src/std/collections.ax`).

This directory holds TLA+ models of the parts with interesting state, the TLC
runs that check them on small instances, and theorems about them checked by
TLAPS. `PROJECT.json` maps every definition to the lines it models, and lists
runs, hazards, findings and theorems.

Paths below are relative to the repository; CC is
`src/compiler/sema/CapabilityChecker.cpp`, RC
`src/compiler/sema/RegionChecker.cpp`, ML
`src/compiler/module/ModuleLoader.cpp`, UR
`src/compiler/module/UnqualifiedCallResolver.cpp`, IG
`src/compiler/ir/IrGenerator.cpp`, LE
`src/compiler/llvmir/LlvmIrEmitter.cpp`, CO `src/std/collections.ax`, TC
`src/compiler/sema/TypeChecker.cpp`, GM
`src/compiler/generics/GenericMonomorphizer.cpp`, IN
`src/compiler/interpreter/Interpreter.cpp`.

## 1. Inventory

The compiler is single-threaded and keeps nothing between two runs. What makes
it hard is neither concurrency nor crashes but fixed points over unordered
containers, walks that carry state through branches and scopes, several passes
that must agree about the same program, pointer structures, and 32-bit sizes.

| Component | State | Operations | Interacts with |
|---|---|---|---|
| Lexer, Parser | position in the text, then in the tokens | one function per construct; rewrites `for` into a block with a `while` | the tree (`ast/`) every later pass walks and some rewrite |
| **ModuleLoader**, **UnqualifiedCallResolver** | worklist and set of modules, merged declarations; index of exported names | `loadProgram`, `mergeModule`; two rewriting passes | parses files, merges trees, then calls the monomorphizer |
| **GenericMonomorphizer** | templates and instantiations by mangled name | repeated scan until no new instantiation | rewrites the merged tree before any check |
| **TypeChecker** | scopes, declared functions and structs, loop and return contexts | one function per statement and expression | its success is what the bodies of the ownership passes and the Interpreter assume |
| **CapabilityChecker: inference** | inferred and effective capability per parameter, registered functions and closures | passes of `inferExpr`/`inferStmt`, then verification | effective capabilities are read by RegionChecker, both back ends |
| **CapabilityChecker: move check** | set of moved names while walking a body | `checkMovesInExpr`/`Stmt` | overlaps with RegionChecker; knows captures of closures |
| **RegionChecker** | a chain of environments, each with bindings (region, moved) and possibly an accumulator of moves | `regionOfExpr`/`regionOfStmt`, `consumeOwned`, `markMoved` | runs after the move check; a body accepted by both is lowered |
| **Interpreter** | environment chain, values, objects they share, closures with what they captured | `execute`, `evaluate`, exceptions for break, continue and return | one of the two ways to run a program; the reference for the other |
| **IrGenerator** | registers, scopes, lists of registers to drop per scope | one lowering per construct; drops at the end of scopes, at break, continue, return | relies on the ownership passes; feeds the emitter |
| **LlvmIrEmitter** | stack slots of variables changed in branches and loops, text of helpers | one emitter per instruction; reference counts of Shared, string buffers | text for clang |
| **std/collections.ax** | buffers, chains, trees, linked nodes | push, pop, set, get, remove ... | compiled together with every program that uses it |
| std.io, std.math, CLI driver | none | wrappers, order of the passes | - |

Bold components are modelled; RegionChecker, the Interpreter and the two of code
generation in part (section 7). What makes each of them correct, and where it is
hard:

- *Capability inference* must end, whatever order the `unordered_map` yields, at
  the least assignment that accounts for every call, mutation and capture (no
  false blame), and an accepted declaration must cover what the body does along
  every chain of calls. Hard: recursion, declared capabilities trusted before
  they are verified, closures found while walking, a pass budget (CC:1042).
- *The ownership passes* must reject every body in which some execution uses a
  moved value or moves a borrowed one, and should not reject harmless ones.
  Hard: moves must leave a branch but not enter the other one; loops, early
  returns in a walk that is also a check; two passes with different knowledge.
- *Module loading* must merge what is used, all of it, once, from the nearest
  directory, for any order of directory listings and cyclic uses; *name
  resolution* must give a call the meaning its file gives it. Hard: names are
  rewritten after everything was merged into one tree.
- *The front end*: instantiation must leave nothing generic, with each instance
  once, and the type checker must accept only programs whose run never meets a
  value of another kind than its operations are made for. Hard: the checker and
  the Interpreter are two separate walks over some fifty kinds of expression and
  statement, each with its own environments, its own idea of what a closure
  captures and of where a union is tagged; the Interpreter trusts the checker and
  reads what is not there when it is wrong.
- *The containers* must implement the abstract types they are named for. Hard:
  relinking in place during a resize, rotations with stored heights, two-way
  links, a heap order that one wrong comparison breaks only much later.
- *Code generation* must make a name denote what the Interpreter says it denotes,
  behind every branch and loop, and free every object once and not while a name
  still refers to it, on every path out of every scope. Hard: names become
  registers in one walk while execution takes many paths; a second name for a
  value is the same register; what a loop changes moves to stack slots; a move
  must find the frame that would have dropped the value.

All hazards are listed with their lines in `PROJECT.json`; those without a
property say why.

## 2. Plan

Modules in the order of importance; the first six are done, the last in part.

1. `CapabilityInference` (the contract everything else trusts), with proofs.
2. `FunctionBodies`, `MoveCheck`, `RegionChecker`, `BodyExecution`, composed by
   `MoveSoundness`: both passes against execution.
3. `ModuleLoader` with both resolver passes, with proofs.
4. Containers: `Dictionary` implemented by `HashMap` and `SortedMap`, `DoubleEnded`
   by `List`, `Deque` and `LinkedList`, `PriorityBag` by `PriorityQueue`, with proofs
   for all of them.
5. `IrGenerator` (registers and lists of registers to drop), `LlvmIrEmitter`
   (LLVM values and slots) and `CompiledExecution` (what the instructions do,
   next to the Interpreter), composed by `CodeGeneration` with both checkers.
   The abstract specification is an owner per object; with a proof.
6. `Programs` (the tree), `Monomorphizer`, `TypeChecker`, `Interpreter`, composed
   by `FrontEnd`: what instantiation leaves, and type soundness.
7. Proofs, beyond those of 1, 3, 4 and 5: what the ownership passes promise
   (done), what the loader and the resolver promise (done), that every container
   implements its abstract specification (done). Left: that a drop frees what the
   frame owns, which needs `SameValue` first.

Runs are few and large: each composes several components where these interact.
MC modules only hold inputs and small
constants.

Recursion in modules with theorems is written with recursive functions or
folds: those of `SortedMap` are functions on the trees below the one they start at.
The modules of the front end use RECURSIVE operators, as the code is
mutually recursive there, and have no theorems.

## 3. What is modelled

### Capability inference
`CapabilityInference` is `CapabilityChecker::check` up to the point where the
effective capabilities are known. A parameter is a *slot*. The walk of a body
enters every branch, so it is a fixed sequence of events (a mutation, a capture,
a closure literal, an argument passed on); a program is one such sequence per
function and the declared capabilities. `inferred`, `effective` and `registered`
are `inferred_`, `effective_` and the keys of `functions_`; `changed` and
`iterations` are the locals of the loop. One action per kind of event (`Mutate`,
`Pass`, `MethodArgument`, `Capture`, `DiscoverClosure`) and one per step of the
loop (`StartPass`, `EnterBody`, `LeaveBody`, `EndPass`, `LeaveLoop`) and of the
verification (`Verify`, `Reject`, `Accept`). `EnterBody` picks any function not
walked yet: the order of an `unordered_map` is unspecified.

### Ownership passes
`FunctionBodies` represents a body as a sequence of tokens: the statements that
bind, read or consume a name holding a struct, and the constructs around them
(if, match, loop, block, unsafe). `MoveCheck` is `checkMovesIn*`: a stack of
sets of moved names. `RegionChecker` is the chain of `RegionEnv`s, with an action
per token; `envs` is the chain, the field `moved` of an environment its
accumulator. `BodyExecution` is the interpreter's control flow with its
environments (the assign-or-define rule included), where a slot is "moved" or
"borrowed" as the language means it. `MoveSoundness` runs the three one after
another, as `main.cpp` does.

The properties about accepted bodies hold for *tame* ones (operator `Tame`):
moves of an outer name inside a loop or a plain block, and whatever happens in
`unsafe`, are excluded, because `docs/language/0009`, `0028` and `0019` say the
analysis does not cover them. A few more restrictions of `Tame` stand for gaps
the code has and the documents do not mention; section 6 lists them.

### Module loading
`ModuleLoader` is `loadProgram` with `mergeModule` and both passes of
`UnqualifiedCallResolver`. A project is an assignment of files to directories
with what each declares, uses and calls. `worklist`, `loaded` and `merged` are
the variables of `loadProgram`; `wanted`, `place` and `unread` are the search
for one module (`unread` is a set: `directory_iterator` has no order).
`SkipLoaded`, `Want`, `PassOver`, `FailToParse`, `RejectCode`, `MergeFile`,
`NextDirectory`, `NotFound`, `LeaveLoop` are its control flow; `ResolveCalls`,
`ResolveConstructors` and `RejectAmbiguous` the resolver's. A call has a flag
`hidden`: it stands in an operand of `hash<T>`, `keyEq<T>` or `HeapArray<T>`, where
the collector that `mergeModule` and both passes share does not look (UR:99-243), so
none of them rewrites it (`Callee`, `Open`) nor finds it ambiguous.

### Containers
`HashMap` is `Map<K,V>` pointer by pointer: `heap` holds the entries, `buckets`
the heads of chains, and one action is one turn of a loop (`Step`,
`ResizeEntry`, `ResizeBucket`). An operation runs from its `Call` to its return.
`SortedMap` is the AVL tree; its operations are recursive functions in the code
and here, where a function's domain is the trees below its argument (`Subtrees`);
`Call` is the entry of a method and `Set` or `Remove` the rest of it. `Set<T>` and `SortedSet<T>` are the same code without a
value: the first is an instance of `HashMap` with a single value, the second
`SortedMap` with keys of its own and that value. `List`,
`Deque` and `LinkedList` have one action per method (`Stack` and `Queue` use a
subset), `PriorityQueue` one per turn of its sifting loops. In every module
`Content` (or `Copies`) is what the container holds, read through its
pointers and indices; that is the refinement mapping to `Dictionary`,
`DoubleEnded` and `PriorityBag`.

`Dictionary` and `DoubleEnded` have the operation that was called, with its key,
value or end, as a variable (`call`), set by a step of its own: what happens to the
content next must be that operation on that key, or at that end, and happens once.
It is not enough that each step is one some operation could make: a
resize that loses an entry would pass for a removal, a removal that takes the
successor's key for another one, and a queue that dequeues at the back for a deque.
In the table the operation is `call`, and a resize, which is the end of a set that is
already over, is none (`Asked`); in the trees it is `call` again (`treeCall` in
`MCDictionaries`); for the sequences it is `asked`, the method of the container, and
`Meant` says which end that is: the last value pushed on a List or a Stack is
popped first, a Queue dequeues the first.

Two abstractions: nothing is freed by these containers, and the model forgets an
entry that was unlinked, so that finitely many addresses suffice (no pointer of
the container can reach it any more); malloc never fails, and sizes stay below
2^31. A pop or get of what is not there is documented as undefined
(`docs/language/0034-maps-and-sets.md`, CO:474) and never called.

### Code generation
`IrGenerator` is `generateFunction` with the `IrScope` chain, over the tokens of
`FunctionBodies`; one action per construct. A register is a number, `scopes` the
chain (`regs` is `registers_`, `typed` the names `findSimpleType` knows),
`registers` is `registerCount`, and `tracked` is `liveScopeStack`: which frame
holds which register. The IR has the shape of the body, so `ir` keeps at each
token the registers of its instruction, its drops, and the pairs a branch merges
or a loop carries, the latter with their names, as there is one for each name even where two
names are one register. `LowerMatch` and `LowerArm` are `lowerMatchArm`,
`CloseBranches` is `mergeBranchScopes`, `CloseScope` the end of `lowerLoop` and of
a block. A barrier keeps what a branch assigns in the branch (`AssignedIn`).

`LlvmIrEmitter` is the one walk of `emitFunction` over that IR, as far as it
decides which LLVM value stands for a register: `llvmRegisterOf` is rebound at the
header and at the exit of a loop, for all the text behind. A loop has a slot for each
carried name, but a store goes to the first slot of the register (`SlotOf`).
`CompiledExecution` runs
both worlds in lockstep with the same free choices: `frames` are the
Interpreter's environments, `values` and `slots` the compiled program's, and
`heap` says what has become of each object (live, lent by the caller, given away,
opened by a match, freed). `CodeGeneration` composes these with `MoveCheck` and
`RegionChecker`, in the order of `main.cpp`: a body that both accept is lowered,
emitted and executed on every path.

A body holds either structs and enums (`owning`) or integers, which nobody drops
and which may therefore be carried and merged freely. The properties hold for
bodies that `AssignsOwnScope` and `Tame` (structs) or `CarriesAlone` (integers)
admit; `NoDeadCode` and `TwoBranches` are limits of the model. What the code
does with the others is in section 6. A match arm is an expression in this
language, so statements occur there only inside a branch or loop (`InArm`).

### Front end
`Programs` is the tree of `ast/`: constructors for expressions, statements,
declarations and spelled types, as the passes read them. Text is a sequence of
bytes, numbers are integers; a double is the integer it stands for.

`Monomorphizer` is `monomorphizeGenerics`: `Round` is one turn of its loop
(`SpelledBy` and `GenericCalls` are what it collects, `MissingStructs` and the
operators beside it the instances it appends, `Resolved` an item with mangled
names put in). `TypeChecker` is one operator per kind of expression and statement
(`Check...`), over a context (expected return type, break types of the loop, in
unsafe or not) and a chain of environments; a type checked is returned, an error is
a type of its own. `Register` and what follows it are the tables `check` fills
first. `Interpreter` is `evaluate` and `execute`: an operator per kind
(`Eval...`, `Exec...`) takes a machine (heap of shared objects, chain of
environments, budget) to an outcome: a value, one of the three signals, a "fault" (an error that
depends on values: out of bounds, division by zero ...), a "pointer fault", "stuck",
or "spent", when the bound of the model is used up. "stuck" is what the code has no
defined answer to: an internal error, a `std::get` of the wrong kind, a dereferenced
empty optional. `Eval` is the one entry: a node it does not know is a statement, for
`Exec`; the two are `evaluate` and `execute`.

`FrontEnd` runs the passes in the order of `run` in `main.cpp`: `Instantiate` is a
round, `Check` the checker, `CheckCapabilitiesAndRegions` the passes other modules
model (either answer), `RunStatement` one item of the top level of
`Interpreter::run`. A statement with all the calls it makes is one step, since
nothing else runs. `Check` chooses what is read where an else branch is an if: the
code casts it to a block (TC:1448), which is not defined.

`NeverStuck` is progress and `ValuesHaveTypes` preservation: at the end each
variable of the top level holds, down to a depth of four references, a value of the
type the checker gave it. `InstancesAreComplete` is what the later passes take
instantiation to promise, with the end of the rounds.

## 4. Runs

| Run | Instance | Shows |
|---|---|---|
| `capability_inference` | two functions with three parameters and a closure; up to two calls per body out of five (recursion, swapped parameters, mutual recursion), every contract that can be written | inference is below every closed assignment, exits closed, accepts only honoured contracts, blames only with reason, converges within the budget, ends |
| `capability_methods` (violation) | the same, with arguments of struct methods | finding 1 |
| `move_soundness` | about 18 000 tame bodies: all straight lines of four statements, ifs (also nested), matches, loops with break or continue, scopes | accepted bodies never use a moved value nor move a borrowed one; the walk covers execution; rejections on straight lines have a cause |
| `move_qualified_call` (violation) | calls written `module.f(x)` | finding 2 |
| `module_loading` | three files out of eighteen kinds, four layouts of directories, cyclic uses, broken files; and two modules with an entry file, all combinations of declaring, exporting and calling a function and a constructor, also by hidden calls; 492,640 states | everything used is merged, once, from the nearest place; calls mean what their file says, nothing private leaks, one meaning each; failures have a cause; the loader ends |
| `module_variables` (violation) | a parameter holding a closure with the name of a function | finding 3 |
| `collections_dictionaries` | Map: two buckets, four keys, two values; Set alike with one; SortedMap: five keys, two values; SortedSet: nine keys | every operation does to its key what it does to that of a `Dictionary`, and nothing else; right answers, load factor, balance, stored heights, every call returns; 163,090 states |
| `collections_sequences` | containers with up to five values of two kinds; PriorityQueue with up to eleven of three | every method acts at the end and with the value it names (`DoubleEnded`); refinement of `PriorityBag`, list alike in both directions, heap order; 123,428 states |
| `code_generation` | about 8 700 bodies: straight lines of four statements, ifs, matches, loops, blocks on structs and enums; loops with branches and jumps, nested loops and nested ifs on integers | names mean the same as in the Interpreter, nothing is used after its drop, dropped twice or by somebody who does not own it, or left behind; a register is in one frame; 281,093 states |
| `compiled_loops` (violation) | a second name for a value that a loop then changes | finding 4 |
| `front_end` | about 10 500 programs on seven declarations: 47 forms of one operand and 13 of two on variables of 19 types, function bodies of up to two of 38 fragments with 21 ways to end, captures, declarations in order and not, modules and externs, uses of eight templates alone and in pairs | an accepted program never gets stuck nor follows a bad pointer outside unsafe, its variables have the checked types, instances are complete, unique and reached in the bound |
| `closure_captures` (violation) | the forms of one operand in a closure | finding 5 |

Why the bounds are enough. *Capabilities*: there are three levels and the
interesting chains (own parameter, other parameter, other function and back,
through a closure) need at most two functions; the theorems then cover any
number. *Bodies*: a shape has one construct, or one inside another, with a
statement before, after and in each branch; `MaxLaps` = 2 lets a loop body see
its own effects; three names are an owner, a second local and a binding of an
arm; integers are assigned in every order before, in and behind a loop, a loop in
a loop or an if in an if, with a jump or return in between. *Files*: two files of the same module in different directories, a cycle of
two modules and a third file that must be passed over are the cases the code
distinguishes. *Hash table*: with `InitialBuckets` = 2 (8 in the code) the table
doubles at the second and the fourth key; the hashes 0, 8, 4
and -1 put three keys into one bucket of two and of four, so that the two
doublings move chains of two and of three entries and part them; the fourth is negative. *Tree*: nine keys
make every rotation happen, at the root and below it, on insertion and removal
(two rotations in one removal need twelve nodes and are not reached).
*Priority queue*: eleven values are four levels with a last node without
sibling. *Programs*: a disagreement of checker and Interpreter shows at one form
applied to the wrong type, or where two statements of a body meet (an assignment
behind a capture, an address taken before a branch), so every form meets every
type and every fragment every other; of the 10,522 programs 2,109 pass
the checker and are run, the others are rejected, as they should be.

Constants named bounds: `MaxLaps` (laps of a loop), `MaxLength` (sequences),
`MaxSize` (priority queue), `Entries` and `Nodes` (addresses), `MaxLaps` and `MaxRounds` of `FrontEnd` (turns
and nested calls of one statement; rounds of instantiation, of which
`InstancesAreComplete` says that no program of the run needs the last). A run without
deadlock checking is one whose program really ends: `check()` and `loadProgram`
return, a body is checked, compiled and executed to its end. The containers' runs check deadlock.

**Fairness.** Liveness is stated only where a sequential call must end:
`Terminates` of the inference and of the loader under weak fairness of `Next`
(the call keeps executing), `EveryCallReturns` of the hash table under weak
fairness of the steps of an operation that was called. Nobody is assumed to
call another operation. `FrontEnd` states no liveness: a program may loop for
ever, and the rounds of instantiation are bounded by an invariant.

## 5. What is proved

All theorems hold for every value of the constants: any set of functions,
parameters, files, priorities.

- `CapabilityInferenceProofs`. `TypeCorrect`. `InferredIsLeast`: inference stays
  below every closed assignment, by induction over steps: a raise is demanded by
  an event that the closed assignment accounts for (`DemandBelowClosed`).
  `RejectionsAreJustified` follows. `CapabilitiesOnlyRise`.
  `QuietExitsAreClosed` needs an invariant about the middle of a pass: as long
  as nothing changed in it, every event already passed is accounted for
  (`QuietInv`); it is not enough to know this at the end, since a pass reads
  what it may raise later. `AcceptanceIsSound` adds `VerifyInv`: functions that
  left `unverified` have their effective capabilities. The budget:
  `CapIsEnoughForSmallSignatures` by a measure, the number of levels left, that
  each changing pass lowers (`MeasureInv`).
- `WalkProofs` and `MoveSoundnessProofs`, on the two ownership passes. They show,
  for bodies of any length and nesting:
  - `EveryMoveIsRecorded` (every body): the chain is one environment per open
    construct, and every move some scope knows of is in the accumulator around it.
    `Recorded` is that alone, kept by each operation on chains (`DefineRecords`,
    `MarkRecords`, `AppendRecords`, `OuterRecords`).
  - `RejectsOnlyForCause` (every straight line): `Agrees`, the chain and the frames
    say the same of every name, goes along the walk and the execution alike.
  - `TameUsesNothingMoved`, `TameMovesNothingBorrowed` and `TameWalkCovers` (every
    tame body, any number of laps): what the passes are for. The theorems have
    `Tame(body)` as a premise inside the box, so they also speak of a set `Bodies`
    where other bodies are not tame.

  The argument for the last three has four parts. (1) *Structure*: for a balanced
  sequence of tokens, which end closes which opening, which branch belongs to it,
  which names are bound where (`ScopeOf`, `TheOpening`, `TheConstruct`,
  `BoundOutside` ...). `FunctionBodies` only chooses such positions. (2) *The walk
  as a sequence of chains*: `Walked(b, w, n)` says of `w`, one chain before each
  token outside unsafe blocks, that each follows from the one before by the
  operation of its token (`Stepped`), and that between two tokens of one scope the
  outer levels only grow (`WalkGrows`: no region changes, no move is
  forgotten), that the innermost environment of a construct is of its kind
  (`WalkShapes`) and that what the first branch of an if has moved is kept until
  its end (`WalkElses`). The growth between distant tokens is what makes loops work: the
  execution comes back to a token which the walk has passed once. (3) *Cover*:
  `Covers(fs, es, ...)` compares frames and chain at every level, not just the
  innermost: what is borrowed is known as such, what is moved is known as moved or is
  pending in the accumulator of a branch that is still open. Without the levels
  it would say nothing about what is true behind the end of a scope, without
  the pending moves it would be wrong within a branch. (4) *Execution*: `Follows`
  adds that the frames bind exactly the names bound there (`Scoped`), that what a
  loop or an unsafe block started from is covered (`Stored`: this is where break,
  continue and the next lap lead), that only what a caller may have lent is borrowed
  (`Lent`) and that an unsafe block's own names are its own (`Isolated`).
  `RunFollows` proves it for each action of the execution, with `EnterFollows`,
  `MatchFollows`, `LeaveLoop` and `LeaveEnd` for the ways in and out of scopes.
  Captures are not RegionChecker's business: `MoveInv` shows that MoveCheck
  lets no name be used after its capture.

  Two facts of the language had to be stated for this: that an if has one else
  (`Balanced`), which the parser gives, and where each kind of token has its names
  (`Formed`).
- `ModuleLoaderProofs`. `IInv` joins `TypeOK`, `Pending` (a module some merged
  file uses is loaded or on the worklist), `Requested` (what is on the worklist
  is used by some merged file), `Progress` (a loaded module is merged, unless it
  is the one being searched, and that one is not) and `MergedOnceAndNeeded`. From it
  `MergesOnceAndOnlyUsed`, and `MergesEveryUse` because at the end the worklist
  is empty. The rewriting passes keep it since they touch calls only.
  `FindsTheNearest` and `FailsOnlyForCause` need an invariant of one search
  (`Searched`): the places behind it and the files it has passed hold no file that is
  wanted. `OwnFunctionsAreMeant`, `QualifiedCallsAreAnswered` and `CallsHaveOneMeaning`
  need what a call means between the two passes (`Named`): as merged before the
  first; after it its own file's function, or one of the entry file, or that of the one
  exporter, or nothing yet, and the second pass only turns the last of these into
  one of the others. A hidden call is as merged throughout, which the invariant says
  of each call, so the theorems are about the calls that are collected.
- `DictionariesProofs`. Of the table: `AnswersHold`, `LengthAndLoadHold` and
  `TableImplementsDictionary`: what was called takes effect on its key in one step, and
  every other step of the table is none of `Dictionary`, under the same mapping TLC
  checks. `IInv` says that every entry is reached, that a
  key has one entry, in the chain of its bucket, that no two pointers meet (`Apart`),
  and, in the middle of an operation or a resize, what is still ahead. The entries
  reached from a pointer are the least set closed under `next` (`From`), so no
  induction along chains is needed: an entry is reached because each closed set has it.
  `EntriesAssumption`, at least as many addresses as keys, stands for a malloc that
  succeeds; it is needed because an unlinked address is reused. `UsesTheTable` says
  all of it of the behaviours TLC runs, where a `Set` is the table with one value.

  Of the tree: `SearchFindsHolds`, `TreeStaysBalanced` and `TreeIsDictionary`, from
  `TreeInv`: the root holds some set of entries, `size` is their number, and the
  operation under way is about a key there can be (`Calling`).
  `Holds(t, P)`, that t is a search tree of exactly the entries P, balanced and
  with true heights, is a property of all nodes of t. It is stated without
  recursion: there is a set of pairs of a tree and its entries, <<t, P>> one of
  them, in which each pair is accounted for by the pairs of the two subtrees
  (`Accounted`). Two families of facts lead to `TreeInv`. (1) *Rotations*: a node
  whose two sides differ by two in height is put right by the one rotation, or the two,
  that the code picks, with the height it had or one less (`LeftTooHigh`,
  `RightTooHigh`, `Rebalanced`). The picking is what matters: an
  insertion goes by where the new key is, a removal by the child's own balance.
  (2) *The ways down*: an insertion leaves a tree that is higher by at most one,
  and then leans where the key went (`Inserted`, `Grown`); a removal one that is lower
  by at most one (`Removed`, `Lowered`), also where a node takes over its successor's
  entry, as that is the least to its right (`MinValueNodeIsLeast`, `SucceededIs`). The
  induction over trees is one over heights. That the recursive functions
  exist at all, and so obey their equations (`InsertNodeIs`, `RemoveNodeIs`, `SearchIs` ...), is
  shown by functions that agree with them up to a bounded height.
  `KeysAssumption`: the keys of a sorted container are integers, standing
  for any type with an order, and the one value of a set is a value.
- `SequencesProofs`. Heap order is not inductive: while a value sifts, one
  place is out of order. `Sifting` says which, and that what is above it is no
  greater than what is below it, so that it may change places; `IInv` adds the
  types. `QueueIsBag` is the refinement of `PriorityBag`: a swap keeps the number of
  places of each value (`SwapKeepsCopies`), and the first value is a least one, for
  the first place where a value less than it stood would have a parent that is
  less as well (`FirstIsLeast`, by `LeastMember`, so no induction is needed).
  `ContainersAreSequences` is the refinement of `DoubleEnded` by the five others.
  `SequencesInv` says that the method that was called is still one that may be
  called (`Called`: a pop finds something, an index is in use), and what the container's
  state is (`Holding`): for a List, that the places in use are in the buffer and written;
  for a Deque, that `start` and the next `length` places are; for a
  LinkedList, that there is a path: an ordering of the allocated nodes, none
  twice, whose neighbours are what `next` and `prev` say (`Chained`). Turned around,
  the path is one for the other end (`ChainedBackwards`), so a push and a pop at either
  end are one lemma each (`ChainedWith`, `ChainedWithout`), and `LinksAgree` follows.
  That the recursive function of `Walk` reads the values along the path (`WalkAlong`)
  is by the first step at which it would not. `UsesTheQueue` carries the results on the
  queue over to the behaviours TLC runs. `NodesAssumption`, an address for each node a
  list may have, stands for a malloc that succeeds; `MaxLength` bounds the steps of the
  model and is any number here.

- `IrGeneratorProofs`. `RegistersAreTrackedOnce`: the frames hold a register at
  most once. `IInv` adds that every register bound in a scope or held in a frame
  is at most `registers`, so that a new one is in neither; an assignment of an
  old one erases its entry first (`ConsumeErases`), which would fail if there were
  two. `FoundIsBounded` follows a name up the chain of scopes, `MergeAllType`
  numbers the registers of a merge. The scopes need not be balanced for this.
- `CodeGenerationProofs` lifts this to `TrackedOnce` of the composition: the
  generator's steps there are those of an instance, the other passes leave its
  variables alone.

Left to TLC alone, and why: `Terminates` and `EveryCallReturns` (liveness). The
front end (`NeverStuck`, `ValuesHaveTypes`, `InstancesAreComplete`): what RECURSIVE
operators compute. `SameValue`, `NeverUsesFreed`, `DropsItsOwn` and
`FreesWhatItOwns`: they relate two executions, the Interpreter's and the compiled
one, through the registers a merge and a loop carry.

## 6. Findings and divergences

Five runs end in a violation, each quoting the document it contradicts:

1. `capability_methods`: an argument of a struct method is not compared with the
   method's parameter (CC:473), so a function that forwards its parameter there
   is inferred `read` although `docs/language/0010-capability-inference.md:79`
   says it needs what the callee needs.
2. `move_qualified_call`: a call written `module.f(x)` consumes none of its
   arguments (RC:654), so a value given away can be used afterwards.
3. `module_variables`: the resolver rewrites a call of a parameter or local that
   holds a closure when a used module exports a function of that name (UR:338).
4. `compiled_loops`: after `a = p` both names are one register, and a loop that
   changes `p` rebinds that register (LE:6687), so the compiled program reads the
   new value through `a`; `docs/language/0028-loops.md:84` claims only the carried
   variable is rebound.
5. `closure_captures`: the collector of a closure's names (IN:3088) enters no
   operand of `string`, `share`, `&`, heap array, hash and key-equality
   expressions, though `docs/language/0067-closures.md:81` speaks of every name
   anywhere in the body; such a name is not captured and is unbound in the call.

Seen while modelling, and not kept as runs. In the move analysis, all excluded
by `Tame`:

- a block that is not a branch does not propagate its moves (RC:985), also the
  block a `for` over a range becomes;
- captures by a closure in top-level code mark nothing (RC:1009), although
  `docs/language/0067-closures.md:27` speaks of every capture;
- the moves of a match arm are marked before the next arm is walked (RC:947),
  while the comment at RC:873 says arms start alike; this only rejects more;
- accumulators identify bindings by name: moving an arm's binding also moves an
  outer name that it hides (RC:845, RC:947);
- a match one of whose arms yields a borrowed value returns at once and leaves
  the later arms unchecked (RC:957);
- an assignment binds in the innermost environment for RegionChecker (RC:1059) and
  changes the nearest binding in the Interpreter: a name that an arm binds to a
  borrowed payload, assigned a struct of its own in a branch of the arm, counts as
  borrowed again behind the branch, and a match on it there moves it without a mark.
  `Tame` keeps such names apart where a parameter is borrowed; without that, `Covers`
  is not inductive.

In code generation, where `code_generation` leaves the bodies out or states less:

- `llvmRegisterOf` is not restored behind the first block of a branch, so what a
  loop there rebinds is used in the other block (LE:6522; `CarriesAlone`);
- what a match arm assigns to an outer name stops at the arm's own barrier and is
  lost behind the match (IG:1576), and a struct assigned to a name of an outer
  block is dropped at the end of the inner one (IG:3003; `AssignsOwnScope`);
- a match on a borrowed enum drops the payload at the end of the arm (IG:1566;
  the bodies match owned enums only);
- leaks, which `MovesUnconditionally` leaves out of `FreesWhatItOwns`: break and
  continue drop nothing (IG:3291), what one branch moves is dropped on no path,
  an owned enum parameter is tracked nowhere, so it leaks when it is overwritten
  (IG:3493), and a matched enum's box is never freed; that last one is an "opened"
  object, not a "live" one, also where the property applies;
- a module-qualified call takes no argument out of its frame (IG:2222), as in
  finding 2;
- `IrGenerator.hpp:359` says an entry is searched "innermost to outermost"; the
  code goes from the outermost frame inwards. As a register is tracked once, it
  makes no difference.

In the front end, where the programs of `front_end` stay clear of it:

- arguments of methods, of module-qualified calls and of closures are evaluated as
  they are (IN:1562, IN:1709, IN:2348): a function named there does not become a
  value and a value is not tagged for a union parameter, nor is a closure's result
  (IN:3584), although the checker accepts all of them;
- an assignment binds in the innermost environment for the checker (TC:1592) and
  changes the nearest binding in the Interpreter, so a name assigned another type
  in an inner scope has changed its type behind it;
- whether a function always returns is asked of both branches of an if as blocks
  (TC:1448), though behind `else` the parser also puts an if (`Parser.cpp:1495`): what the
  cast reads there is undefined. The model takes either answer (`misread`); the
  programs have an else-if whose branches all return, where both are harmless. With
  one that does not return everywhere the function may be accepted and end without
  the value it declares, against "every path through the block"
  (`TypeChecker.hpp:197`);
- breaks inside the value of an assignment or return, or in an argument, are not
  seen when the checker asks whether a loop can end (TC:427);
- a struct with two fields of one struct type is not hashable, because the set of
  structs on the way is never popped;
- a heap array or malloc of strings or structs is filled with the integer 0
  (IN:3723); the address of an arm's binding is a null pointer; the cast of a null
  pointer, or to or from a type of size 0, is not defined (IN:2819);
- a struct with a method called `join` runs into an empty optional (IN:1879), and
  `clone` of a `Shared` struct calls the struct's own `clone` (IN:1746);
- a type whose text has a `|` anywhere is cut at it when a value is tagged, also
  where the union is only part of the type;
- a function of a module and an extern of one name are told apart differently by
  the two (IN:1713);
- a slice of a str may cut a code point, and indexing it reads past its end;
- instantiation skips the arguments of built-in generics (`Optional<Box<i32>>`
  stays as it is and is rejected), the fields of enum variants (GM:882) and type
  parameters an impl renames, throws for an array or function type with a bracket
  in it, and takes the first alternative for a union; a generic Display impl is not
  registered; a template that spells itself with a larger type never ends (GM:1031).

Elsewhere:

- inference has a budget of four passes per function and four more (CC:1042); a
  function of ten parameters that passes each one to its neighbour needs more,
  although the comment at CC:1039 says the loop always converges.
  `SmallSignaturesConverge` is the bound that does hold;
- a call in an operand of `hash<T>`, `keyEq<T>` or `HeapArray<T>` is collected by
  nobody (UR:99-243 takes these for leaves; the list of leaves at UR:240 does not
  name them): a module's call of its own function there is not qualified, against the
  purpose that ML:59-79 states, and a call of a used module's function is not resolved, against
  `UnqualifiedCallResolver.hpp:8`. Such a call stays bare, so it is unknown to later
  passes, or means a function of the entry file that happens to have the name.
  `OwnFunctionsWin`, `OneMeaning` and `FailsForCause` speak of the calls that are
  collected, and `CallsAreAnswered` of all;
- modules are loaded in the order of a stack (ML:207), `ModuleLoader.hpp:21` and
  `docs/language/0066-modules.md:144` say breadth-first;
- a file named like the entry file is passed over in every directory (ML:224),
  while `0066-modules.md:47` makes the declared name decide;
- whether a module may write `S(...)` for its own struct depends on what the
  entry file uses (UR:396).

## 7. Not modelled

Lexer and Parser are total functions from text to a tree that keep nothing; what
could be wrong with them is about characters and tokens, which the models abstract,
so a model would restate the grammar. The Parser's rewriting of `for` is in
`FunctionBodies`. Of IrGenerator and LlvmIrEmitter the
ownership and the flow of values are modelled; instructions on values, strings,
arrays, unions and optionals, names whose address is taken, trampolines of
closures, type declarations, printing, and the counts of `Shared` are not. Of the
Interpreter, the methods of the containers that were built in before
`collections.ax` (IN:1896-2235; no constructor makes one any more), the digits of
doubles, wrap-around of i32 and the texts formatting produces are left out. The CLI driver, `std.io` and
`std.math` have no state of their own; only the order of the passes is used.
Left out of modelled parts: extern declarations in the loader (merged like
structs); the regions of array elements in RegionChecker; `clone` and
`newListFrom` of List, which change no existing list; overflow of a container's
length or bucket count at 2^31.
