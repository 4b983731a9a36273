---------------------------- MODULE RegionChecker ----------------------------
(***************************************************************************)
(* RegionChecker::checkFunction: one walk over a function body that knows  *)
(* of each name whether it owns or borrows its struct and whether it has   *)
(* been moved, and rejects the body at the first use of a moved name and   *)
(* the first move or return of a borrowed one.                             *)
(*                                                                         *)
(* A RegionEnv never writes into its parent, so what a scope marks as      *)
(* moved is forgotten when the scope ends; a branch also collects the      *)
(* names in a set of its own, which is marked in the enclosing scope when  *)
(* the branches are merged.  regionOfExpr makes an environment for the     *)
(* branch and one for its block; nothing is defined in the former but the  *)
(* bindings of a match arm, so here they are one.                          *)
(***************************************************************************)
EXTENDS FunctionBodies

VARIABLES
  body,     \* the body being checked
  at,       \* the next token of the walk
  envs,     \* the chain of RegionEnvs, the innermost last
  verdict,  \* "none", "accepted" or "rejected"
  trace     \* the chain before each token walked (an auxiliary variable)

checkerVars == <<body, at, envs, verdict, trace>>

Info == [region : Region, moved : BOOLEAN]
Unbound == [region |-> "none", moved |-> FALSE]
Binding(region) == [region |-> region, moved |-> FALSE]

(***************************************************************************)
(* binds is bindings_; a "branch" env has an accumulator of its own, moved; *)
(* earlier holds those of the branches before it of the same if, scrutinee *)
(* the region of the value a match takes apart.                            *)
(***************************************************************************)
Env == [binds : [Names -> Info],
        opening : {"function", "if", "match", "loop", "block"},
        moved : SUBSET Names,
        earlier : SUBSET Names,
        scrutinee : Region]

EnvOf(opening, region) ==
  [binds |-> [x \in Names |-> Unbound], opening |-> opening,
   moved |-> {}, earlier |-> {}, scrutinee |-> region]

Top(es) == es[Len(es)]
Outer(es) == SubSeq(es, 1, Len(es) - 1)

\* RegionEnv::get goes up the chain to the first env that binds the name.
Holders(es, x) == {i \in 1 .. Len(es) : es[i].binds[x].region # "none"}
Has(es, x) == Holders(es, x) # {}
Get(es, x) ==
  IF Has(es, x)
  THEN es[CHOOSE i \in Holders(es, x) : \A j \in Holders(es, x) : j <= i].binds[x]
  ELSE Unbound

Define_KeepsMoved(es, x, info) ==
  [es EXCEPT ![Len(es)].binds[x] = [info EXCEPT !.moved = Get(es, x).moved]]
Define(es, x, info) ==
  [es EXCEPT ![Len(es)].binds[x] = info]

\* The env whose accumulator the innermost env has inherited, 0 if none.
Branches(es) == {i \in 1 .. Len(es) : es[i].opening \in {"if", "match"}}
Recorder(es) ==
  IF Branches(es) = {} THEN 0
  ELSE CHOOSE i \in Branches(es) : \A j \in Branches(es) : j <= i

MarkMoved_Silently(es, S) ==
  [es EXCEPT ![Len(es)].binds =
     [x \in Names |-> IF x \in S THEN [Get(es, x) EXCEPT !.moved = TRUE] ELSE @[x]]]

\* markMoved of every name in S: a shadowing entry in the innermost env, and
\* an entry in the accumulator.
MarkMoved(es, S) ==
  [i \in 1 .. Len(es) |->
     [es[i] EXCEPT
       !.binds = [x \in Names |-> IF i = Len(es) /\ x \in S
                                  THEN [Get(es, x) EXCEPT !.moved = TRUE]
                                  ELSE @[x]],
       !.moved = IF i = Recorder(es) THEN @ \cup S ELSE @]]

\* Merge a branch's moves into the chain es; a name local to it has no entry.
Merge(es, S) == MarkMoved(es, {x \in S : Has(es, x)})
-----------------------------------------------------------------------------
Init ==
  /\ at = 1
  /\ envs = << [EnvOf("function", "none") EXCEPT
                 !.binds = [x \in Names |-> Binding(body.params[x])]] >>
            \o IF body.toplevel THEN << >> ELSE << EnvOf("block", "none") >>
  /\ verdict = "none"
  /\ trace = [i \in 1 .. Len(body.code) |-> <<>>]

Here == body.code[at]

\* Where consumeOwned and requireOwned are called.
Consuming == {"copy", "give", "store", "return"}

\* A read of a moved name, or a consuming use of what is only borrowed; a
\* field that holds a struct is borrowed from its parent.
Fails ==
  \/ Here.of # NoName /\ Get(envs, Here.of).moved
  \/ Here.op \in Consuming /\ Get(envs, Here.of).region = "borrowed"
  \/ Here.op = "give_field"

\* The walk passes a token of one of these kinds.
Walk(ops) ==
  /\ verdict = "none"
  /\ at <= Len(body.code)
  /\ Here.op \in ops
  /\ ~ Fails
  /\ trace' = [trace EXCEPT ![at] = envs]
  /\ UNCHANGED <<body, verdict>>

Bind ==
  /\ Walk({"fresh"})
  /\ envs' = Define(envs, Here.to, Binding("owned"))
  /\ at' = at + 1

Copy ==
  /\ Walk({"copy"})
  /\ envs' = Define(MarkMoved(envs, {Here.of}), Here.to, Binding("owned"))
  /\ at' = at + 1

\* The arguments of a module-qualified call are read, whatever it takes; so
\* are the names a closure captures.
Read ==
  /\ Walk({"read", "module_give", "capture", "break", "continue"})
  /\ at' = at + 1
  /\ UNCHANGED envs

Consume ==
  /\ Walk({"give", "store", "return"})
  /\ envs' = MarkMoved(envs, {Here.of})
  /\ at' = at + 1

OpenIf ==
  /\ Walk({"if"})
  /\ envs' = Append(envs, EnvOf("if", "none"))
  /\ at' = at + 1

Else ==
  /\ Walk({"else"})
  /\ envs' = Append(Outer(envs),
                    [EnvOf("if", "none") EXCEPT !.earlier = Top(envs).moved])
  /\ at' = at + 1

ArmEnv_AlwaysOwned(scrutinee, name) ==
  [EnvOf("match", scrutinee) EXCEPT
     !.binds = [x \in Names |-> IF x = name THEN Binding("owned") ELSE Unbound]]
ArmEnv(scrutinee, name) ==
  [EnvOf("match", scrutinee) EXCEPT
     !.binds = [x \in Names |-> IF x = name THEN Binding(scrutinee) ELSE Unbound]]

OpenMatch ==
  /\ Walk({"match"})
  /\ LET region == Get(envs, Here.of).region
         consumed == IF region = "owned" THEN {Here.of} ELSE {}
     IN  envs' = Append(MarkMoved(envs, consumed), ArmEnv(region, Here.to))
  /\ at' = at + 1

\* The moves of an arm are merged before the next arm is walked.
Arm ==
  /\ Walk({"arm"})
  /\ envs' = Append(Merge(Outer(envs), Top(envs).moved),
                    ArmEnv(Top(envs).scrutinee, Here.to))
  /\ at' = at + 1

\* An arm whose value is borrowed ends the walk of the whole match.
Yield ==
  /\ Walk({"yield"})
  /\ IF Get(envs, Here.of).region = "borrowed"
     THEN /\ envs' = Merge(Outer(envs), Top(envs).moved)
          /\ at' = EndOf(body.code, at) + 1
     ELSE /\ at' = at + 1
          /\ UNCHANGED envs

OpenScope ==
  /\ Walk({"loop", "block"})
  /\ envs' = Append(envs, EnvOf(Here.op, "none"))
  /\ at' = at + 1

\* No case of regionOfExpr looks into an unsafe block.
SkipUnsafe ==
  /\ Walk({"unsafe"})
  /\ at' = EndOf(body.code, at + 1) + 1
  /\ UNCHANGED envs

Close_MergesLastBranch ==
  /\ Walk({"end"})
  /\ envs' = IF Top(envs).opening \in {"if", "match"}
             THEN Merge(Outer(envs), Top(envs).moved)
             ELSE Outer(envs)
  /\ at' = at + 1
Close ==
  /\ Walk({"end"})
  /\ envs' = IF Top(envs).opening \in {"if", "match"}
             THEN Merge(Outer(envs), Top(envs).moved \cup Top(envs).earlier)
             ELSE Outer(envs)
  /\ at' = at + 1

\* throw "use of moved value", "cannot move out of borrowed value" or
\* "is borrowed and does not outlive the call"
Reject ==
  /\ verdict = "none"
  /\ at <= Len(body.code)
  /\ Fails
  /\ verdict' = "rejected"
  /\ UNCHANGED <<body, at, envs, trace>>

Accept ==
  /\ verdict = "none"
  /\ at > Len(body.code)
  /\ verdict' = "accepted"
  /\ UNCHANGED <<body, at, envs, trace>>

Next ==
  \/ Bind \/ Copy \/ Read \/ Consume
  \/ OpenIf \/ Else \/ OpenMatch \/ Arm \/ Yield
  \/ OpenScope \/ SkipUnsafe \/ Close
  \/ Reject \/ Accept
=============================================================================
