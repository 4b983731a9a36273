----------------------------- MODULE WalkProofs -----------------------------
(***************************************************************************)
(* For every body: the structure of its sequence of tokens (which end      *)
(* closes which opening, what lies in between, which names are bound       *)
(* where; the operators of FunctionBodies choose an end and an opening,    *)
(* here these exist and are the only ones), and on it what RegionChecker's *)
(* chain of environments holds during its walk, told as a sequence of      *)
(* chains, one before each token outside unsafe blocks.                    *)
(***************************************************************************)
EXTENDS MoveSoundness, FiniteSetTheorems, NaturalsInduction, WellFoundedInduction, TLAPS

LEMMA Smallest ==
  ASSUME NEW T \in SUBSET Nat, T # {}
  PROVE  \E x \in T : \A y \in T : x <= y
<1>1. \E less : /\ IsWellFoundedOn(less, Nat)
                /\ \A x, y \in Nat : x < y => <<x, y>> \in less
  <2> DEFINE less == OpToRel(<, Nat)
  <2>1. IsWellFoundedOn(less, Nat)
    BY NatLessThanWellFounded
  <2>2. \A x, y \in Nat : x < y => <<x, y>> \in less
    BY DEF OpToRel
  <2> QED BY <2>1, <2>2
<1>2. PICK less : /\ IsWellFoundedOn(less, Nat)
                  /\ \A x, y \in Nat : x < y => <<x, y>> \in less
  BY <1>1
<1>3. PICK x \in T : \A y \in T : ~ (<<y, x>> \in less)
  <2>1. IsWellFoundedOn(less, Nat) /\ T \subseteq Nat
    BY <1>2
  <2> QED BY ONLY <2>1, T # {}, WFMin
<1>4. \A y \in T : ~ (y < x)
  BY <1>2, <1>3
<1> QED BY <1>4

LEMMA Largest ==
  ASSUME NEW n \in Nat, NEW T \in SUBSET (0 .. n), T # {}
  PROVE  \E x \in T : \A y \in T : y <= x
<1> DEFINE flipped == {k \in 0 .. n : n - k \in T}
<1>1. PICK y \in T : TRUE
  OBVIOUS
<1>2. n - y \in flipped
  <2>1. n - y \in 0 .. n /\ n - (n - y) = y
    OBVIOUS
  <2> QED BY <2>1
<1>3. PICK k \in flipped : \A l \in flipped : k <= l
  <2>1. flipped \subseteq Nat /\ flipped # {}
    <3>1. \A l \in flipped : l \in Nat
      OBVIOUS
    <3> QED BY <1>2, <3>1
  <2>2. \E x \in flipped : \A y2 \in flipped : x <= y2
    BY ONLY <2>1, Smallest
  <2> QED BY <2>2
<1>4. ASSUME NEW z \in T PROVE z <= n - k
  <2>1. n - z \in 0 .. n /\ n - (n - z) = z
    OBVIOUS
  <2>2. k <= n - z
    BY <1>3, <2>1
  <2> QED BY <1>3, <2>2
<1>5. n - k \in T
  BY <1>3
<1> QED BY <1>4, <1>5

-----------------------------------------------------------------------------
(***************************************************************************)
(* Depth counts up and down by one, as the tokens go by.                   *)
(***************************************************************************)
LEMMA DepthSteps ==
  ASSUME NEW code, NEW i \in Nat, i >= 1
  PROVE  /\ Depth(code, 1) = 0
         /\ Depth(code, i) \in Int
         /\ code[i].op \in Openings => Depth(code, i + 1) = Depth(code, i) + 1
         /\ code[i].op = "end" => Depth(code, i + 1) = Depth(code, i) - 1
         /\ code[i].op \notin Openings /\ code[i].op # "end" => Depth(code, i + 1) = Depth(code, i)
<1> DEFINE opens(k) == {j \in 1 .. k - 1 : code[j].op \in Openings}
           ends(k) == {j \in 1 .. k - 1 : code[j].op = "end"}
<1>1. /\ Cardinality(opens(i)) \in Nat /\ Cardinality(ends(i)) \in Nat
      /\ IsFiniteSet(opens(i)) /\ IsFiniteSet(ends(i))
  <2>1. IsFiniteSet(1 .. i - 1)
    BY FS_Interval
  <2>2. opens(i) \subseteq 1 .. i - 1 /\ ends(i) \subseteq 1 .. i - 1
    OBVIOUS
  <2> QED BY <2>1, <2>2, FS_Subset, FS_CardinalityType
<1>2. Depth(code, 1) = 0
  <2>1. opens(1) = {} /\ ends(1) = {}
    OBVIOUS
  <2>2. Cardinality(opens(1)) = 0 /\ Cardinality(ends(1)) = 0
    BY <2>1, FS_EmptySet
  <2> QED BY <2>2 DEF Depth
<1>9. /\ Depth(code, i) = Cardinality(opens(i)) - Cardinality(ends(i))
      /\ Depth(code, i + 1) = Cardinality(opens(i + 1)) - Cardinality(ends(i + 1))
  BY DEF Depth
<1>3. i \notin opens(i) /\ i \notin ends(i)
  OBVIOUS
<1>4. 1 .. (i + 1) - 1 = (1 .. i - 1) \cup {i}
  OBVIOUS
<1>5. ASSUME code[i].op \in Openings PROVE Depth(code, i + 1) = Depth(code, i) + 1
  <2>1. opens(i + 1) = opens(i) \cup {i}
    BY <1>4, <1>5
  <2>3. ends(i + 1) = ends(i)
    BY <1>4, <1>5 DEF Openings
  <2>2. Cardinality(opens(i + 1)) = Cardinality(opens(i)) + 1
    BY <1>1, <1>3, <2>1, FS_AddElement
  <2>4. Cardinality(ends(i + 1)) = Cardinality(ends(i))
    BY <2>3
  <2> HIDE DEF opens, ends
  <2> QED BY ONLY <1>1, <1>9, <2>2, <2>4
<1>6. ASSUME code[i].op = "end" PROVE Depth(code, i + 1) = Depth(code, i) - 1
  <2>1. ends(i + 1) = ends(i) \cup {i}
    BY <1>4, <1>6
  <2>3. opens(i + 1) = opens(i)
    BY <1>4, <1>6 DEF Openings
  <2>2. Cardinality(ends(i + 1)) = Cardinality(ends(i)) + 1
    BY <1>1, <1>3, <2>1, FS_AddElement
  <2> QED BY ONLY <1>1, <1>9, <2>2, <2>3
<1>7. ASSUME code[i].op \notin Openings, code[i].op # "end" PROVE Depth(code, i + 1) = Depth(code, i)
  <2>1. ends(i + 1) = ends(i) /\ opens(i + 1) = opens(i)
    BY <1>4, <1>7
  <2> QED BY <2>1 DEF Depth
<1>8. Depth(code, i) \in Int
  BY <1>1 DEF Depth
<1> QED BY <1>2, <1>5, <1>6, <1>7, <1>8

\* The depths of a balanced body: what the lemmas below need of it.
LEMMA Depths ==
  ASSUME NEW code \in Seq(Token), Balanced(code)
  PROVE  /\ Len(code) \in Nat
         /\ Depth(code, 1) = 0 /\ Depth(code, Len(code) + 1) = 0
         /\ \A i \in 1 .. Len(code) + 1 : Depth(code, i) \in Nat
         /\ \A i \in 1 .. Len(code) :
              /\ code[i].op \in Openings => Depth(code, i + 1) = Depth(code, i) + 1
              /\ code[i].op = "end" => /\ Depth(code, i + 1) = Depth(code, i) - 1
                                       /\ Depth(code, i) > 0
              /\ code[i].op \notin Openings /\ code[i].op # "end" =>
                   Depth(code, i + 1) = Depth(code, i)
              /\ code[i].op \in Middles => Depth(code, i) > 0
<1>1. Len(code) \in Nat
  OBVIOUS
<1>2. \A i \in 1 .. Len(code) + 1 : Depth(code, i) \in Nat
  BY <1>1, DepthSteps DEF Balanced
<1>3. Depth(code, 1) = 0
  BY DepthSteps
<1>4. ASSUME NEW i \in 1 .. Len(code)
      PROVE  /\ code[i].op \in Openings => Depth(code, i + 1) = Depth(code, i) + 1
             /\ code[i].op = "end" => Depth(code, i + 1) = Depth(code, i) - 1
             /\ code[i].op \notin Openings /\ code[i].op # "end" =>
                  Depth(code, i + 1) = Depth(code, i)
  BY <1>1, DepthSteps
<1>5. \A i \in 1 .. Len(code) : code[i].op = "end" => Depth(code, i) > 0
  BY <1>1, <1>2, <1>4
<1> QED BY <1>1, <1>2, <1>3, <1>4, <1>5 DEF Balanced

-----------------------------------------------------------------------------
(***************************************************************************)
(* Which end closes what.                                                  *)
(***************************************************************************)
\* All tokens from the i-th to the k-th are deeper than m.
Deeper(code, i, k, m) == \A t \in i .. k : Depth(code, t) > m

\* What is open innermost before the i-th token ends at the j-th.
EndsAt(code, i, j) ==
  /\ j \in i .. Len(code)
  /\ code[j].op = "end"
  /\ Depth(code, j) = Depth(code, i)
  /\ Deeper(code, i, j, Depth(code, i) - 1)

LEMMA EndExists ==
  ASSUME NEW code \in Seq(Token), Balanced(code),
         NEW i \in 1 .. Len(code) + 1, Depth(code, i) > 0
  PROVE  \E j \in Nat : EndsAt(code, i, j)
<1>1. /\ Len(code) \in Nat
      /\ Depth(code, Len(code) + 1) = 0
      /\ \A k \in 1 .. Len(code) + 1 : Depth(code, k) \in Nat
  BY Depths
<1> DEFINE T == {k \in Nat : k \in i .. Len(code) + 1 /\ Depth(code, k) < Depth(code, i)}
<1>2. Len(code) + 1 \in T
  <2>1. Len(code) + 1 \in Nat /\ Len(code) + 1 \in i .. Len(code) + 1
    BY <1>1
  <2> QED BY <1>1, <2>1
<1>3. PICK k \in T : \A l \in T : k <= l
  <2>1. T \subseteq Nat /\ T # {}
    BY <1>2
  <2>2. \E x \in T : \A y \in T : x <= y
    BY ONLY <2>1, Smallest
  <2> QED BY <2>2
<1>4. k \in i + 1 .. Len(code) + 1 /\ Depth(code, k) < Depth(code, i)
  <2>1. k \in i .. Len(code) + 1 /\ Depth(code, k) < Depth(code, i)
    BY <1>3
  <2>2. k # i
    BY <1>1, <2>1
  <2> QED BY <1>1, <2>1, <2>2
<1>5. Deeper(code, i, k - 1, Depth(code, i) - 1)
  <2>1. ASSUME NEW t \in i .. k - 1, ~ (Depth(code, t) > Depth(code, i) - 1) PROVE FALSE
    <3>1. t \in i .. Len(code) + 1 /\ t < k /\ t \in Nat
      BY <1>1, <1>4
    <3>2. Depth(code, t) < Depth(code, i)
      BY <1>1, <2>1, <3>1
    <3> QED BY <1>3, <3>1, <3>2
  <2> QED BY <2>1 DEF Deeper
<1>6. k - 1 \in 1 .. Len(code) /\ (k - 1) + 1 = k /\ k - 1 \in i .. Len(code)
  BY <1>1, <1>4
<1>7. Depth(code, k - 1) >= Depth(code, i)
  BY <1>1, <1>4, <1>5, <1>6 DEF Deeper
<1>8. code[k - 1].op = "end" /\ Depth(code, k) = Depth(code, k - 1) - 1
  <2>1. Depth(code, k) < Depth(code, k - 1)
    BY <1>1, <1>4, <1>6, <1>7
  <2>2. Depth(code, k) \in Nat /\ Depth(code, k - 1) \in Nat
    BY <1>1, <1>4, <1>6
  <2>3. code[k - 1].op \notin Openings
    BY <1>6, <2>1, <2>2, Depths
  <2> QED BY <1>6, <2>1, <2>2, <2>3, Depths
<1>9. Depth(code, k - 1) = Depth(code, i)
  BY <1>1, <1>4, <1>6, <1>7, <1>8
<1>10. EndsAt(code, i, k - 1)
  BY <1>5, <1>6, <1>8, <1>9 DEF EndsAt
<1> QED BY <1>6, <1>10

LEMMA TheEnd ==
  ASSUME NEW code \in Seq(Token), Balanced(code),
         NEW i \in 1 .. Len(code) + 1, Depth(code, i) > 0
  PROVE  /\ EndsAt(code, i, EndOf(code, i))
         /\ \A j : EndsAt(code, i, j) => j = EndOf(code, i)
<1>1. /\ Len(code) \in Nat
      /\ \A k \in 1 .. Len(code) + 1 : Depth(code, k) \in Nat
      /\ \A k \in 1 .. Len(code) : code[k].op = "end" => Depth(code, k + 1) = Depth(code, k) - 1
  BY Depths
<1> DEFINE First(j) == /\ code[j].op = "end" /\ Depth(code, j) = Depth(code, i)
                       /\ \A k \in i .. j - 1 : ~ (code[k].op = "end" /\ Depth(code, k) = Depth(code, i))
<1>2. ASSUME NEW j, EndsAt(code, i, j)
      PROVE  j \in i .. Len(code) /\ First(j)
  <2>1. ASSUME NEW k \in i .. j - 1, code[k].op = "end", Depth(code, k) = Depth(code, i)
        PROVE  FALSE
    <3>1. k \in 1 .. Len(code) /\ k + 1 \in i .. j
      BY <1>1, <1>2 DEF EndsAt
    <3>2. Depth(code, k + 1) = Depth(code, i) - 1
      BY <1>1, <2>1, <3>1
    <3>3. Depth(code, k + 1) > Depth(code, i) - 1
      BY <1>2, <3>1 DEF EndsAt, Deeper
    <3> QED BY <1>1, <3>2, <3>3
  <2> QED BY <1>2, <2>1 DEF EndsAt
<1>3. PICK e : EndsAt(code, i, e)
  BY EndExists
<1>4. ASSUME NEW j \in i .. Len(code), First(j) PROVE j = e
  <2>1. e \in i .. Len(code) /\ First(e)
    BY <1>2, <1>3
  <2>2. ~ (e \in i .. j - 1) /\ ~ (j \in i .. e - 1)
    BY <1>4, <2>1
  <2> QED BY <1>1, <2>1, <2>2
<1>5. EndOf(code, i) \in i .. Len(code) /\ First(EndOf(code, i))
  <2>1. \E j \in i .. Len(code) : First(j)
    BY <1>2, <1>3
  <2>2. EndOf(code, i) = CHOOSE j \in i .. Len(code) : First(j)
    BY DEF EndOf
  <2> HIDE DEF First
  <2> QED BY <2>1, <2>2
<1>6. EndOf(code, i) = e
  BY <1>4, <1>5
<1>7. \A j : EndsAt(code, i, j) => j = e
  BY <1>2, <1>4
<1> QED BY <1>3, <1>6, <1>7

\* The tokens before the end of a scope have the same end, if as deep.
LEMMA SameEnd ==
  ASSUME NEW code \in Seq(Token), Balanced(code),
         NEW i \in 1 .. Len(code) + 1, Depth(code, i) > 0,
         NEW k \in i .. EndOf(code, i), Depth(code, k) = Depth(code, i)
  PROVE  k \in 1 .. Len(code) /\ EndOf(code, k) = EndOf(code, i)
<1>1. EndsAt(code, i, EndOf(code, i)) /\ Len(code) \in Nat
  BY TheEnd, Depths
<1>2. k \in 1 .. Len(code) /\ k \in 1 .. Len(code) + 1
  BY <1>1 DEF EndsAt
<1>3. EndsAt(code, k, EndOf(code, i))
  BY <1>1, <1>2 DEF EndsAt, Deeper
<1> QED BY <1>2, <1>3, TheEnd

\* An opening and its end.
LEMMA ScopeOf ==
  ASSUME NEW code \in Seq(Token), Balanced(code),
         NEW o \in 1 .. Len(code), code[o].op \in Openings
  PROVE  LET e == EndOf(code, o + 1)
         IN  /\ e \in o + 1 .. Len(code) /\ code[e].op = "end"
             /\ Depth(code, o + 1) = Depth(code, o) + 1
             /\ Depth(code, e) = Depth(code, o) + 1
             /\ Depth(code, e + 1) = Depth(code, o)
             /\ Deeper(code, o + 1, e, Depth(code, o))
<1>1. /\ o + 1 \in 1 .. Len(code) + 1
      /\ Depth(code, o) \in Nat
      /\ Depth(code, o + 1) = Depth(code, o) + 1
  BY Depths
<1>2. EndsAt(code, o + 1, EndOf(code, o + 1))
  BY <1>1, TheEnd
<1>3. EndOf(code, o + 1) \in o + 1 .. Len(code) /\ EndOf(code, o + 1) \in 1 .. Len(code)
  BY <1>2 DEF EndsAt
<1>4. code[EndOf(code, o + 1)].op = "end" /\ Depth(code, EndOf(code, o + 1)) = Depth(code, o) + 1
  BY <1>1, <1>2 DEF EndsAt
<1>5. Depth(code, EndOf(code, o + 1) + 1) = Depth(code, o)
  <2>1. Depth(code, EndOf(code, o + 1) + 1) = Depth(code, EndOf(code, o + 1)) - 1
    BY <1>3, <1>4, Depths
  <2> QED BY <1>1, <1>4, <2>1
<1>6. Deeper(code, o + 1, EndOf(code, o + 1), Depth(code, o))
  <2>1. Depth(code, o + 1) - 1 = Depth(code, o)
    BY <1>1
  <2>2. Deeper(code, o + 1, EndOf(code, o + 1), Depth(code, o + 1) - 1)
    BY <1>2 DEF EndsAt
  <2> QED BY <2>1, <2>2
<1> QED BY <1>1, <1>3, <1>4, <1>5, <1>6

\* The scope is what stays deeper.
LEMMA ScopeIsDeeper ==
  ASSUME NEW code \in Seq(Token), Balanced(code),
         NEW o \in 1 .. Len(code), code[o].op \in Openings,
         NEW i \in o + 1 .. Len(code) + 1
  PROVE  EndOf(code, o + 1) >= i <=> Deeper(code, o + 1, i, Depth(code, o))
<1> DEFINE e == EndOf(code, o + 1)
<1>1. /\ e \in o + 1 .. Len(code)
      /\ Depth(code, e + 1) = Depth(code, o)
      /\ Deeper(code, o + 1, e, Depth(code, o))
      /\ Depth(code, o) \in Nat
  BY ScopeOf, Depths
<1>2. ASSUME e >= i PROVE Deeper(code, o + 1, i, Depth(code, o))
  BY <1>1, <1>2 DEF Deeper
<1>3. ASSUME ~ (e >= i) PROVE ~ Deeper(code, o + 1, i, Depth(code, o))
  <2>1. e + 1 \in o + 1 .. i
    <3>1. e \in Int /\ i \in Int /\ o \in Int /\ o + 1 <= e /\ ~ (e >= i)
      BY <1>1, <1>3
    <3> QED BY ONLY <3>1
  <2> QED BY <1>1, <2>1 DEF Deeper
<1> QED BY <1>2, <1>3

\* The opening that an end closes, and no other.
LEMMA TheOpening ==
  ASSUME NEW code \in Seq(Token), Balanced(code),
         NEW e \in 1 .. Len(code), code[e].op = "end"
  PROVE  LET o == OpeningOf(code, e)
         IN  /\ o \in 1 .. e - 1 /\ code[o].op \in Openings
             /\ EndOf(code, o + 1) = e
             /\ \A i \in 1 .. Len(code) : code[i].op \in Openings /\ EndOf(code, i + 1) = e => i = o
<1>1. /\ Len(code) \in Nat
      /\ Depth(code, 1) = 0
      /\ Depth(code, e) > 0
      /\ \A k \in 1 .. Len(code) + 1 : Depth(code, k) \in Nat
  BY Depths
<1> DEFINE T == {k \in 0 .. e - 1 : k >= 1 /\ Depth(code, k) < Depth(code, e)}
<1>2. PICK o \in T : \A k \in T : k <= o
  <2>1. e - 1 \in Nat /\ T \in SUBSET (0 .. e - 1)
    OBVIOUS
  <2>2. 1 \in T
    <3>1. e # 1
      BY <1>1
    <3>2. 1 \in 0 .. e - 1
      BY <3>1
    <3> QED BY <1>1, <3>2
  <2>3. \E x \in T : \A y \in T : y <= x
    <3>1. T # {}
      BY <2>2
    <3> HIDE DEF T
    <3> QED BY ONLY <2>1, <3>1, Largest
  <2> QED BY <2>3
<1>3. o \in 1 .. e - 1 /\ Depth(code, o) < Depth(code, e)
  BY <1>2
<1>4. \A k \in o + 1 .. e : Depth(code, k) >= Depth(code, e)
  <2>1. ASSUME NEW k \in o + 1 .. e, Depth(code, k) < Depth(code, e) PROVE FALSE
    <3>1. k # e
      BY <1>1, <2>1
    <3>2. k \in T
      BY <1>3, <2>1, <3>1
    <3>3. k <= o
      BY <1>2, <3>2
    <3> QED BY <1>3, <2>1, <3>3
  <2>2. \A k \in o + 1 .. e : Depth(code, k) \in Nat
    BY <1>1, <1>3
  <2> QED BY <1>1, <2>1, <2>2
<1>5. o \in 1 .. Len(code) /\ o + 1 \in o + 1 .. e
  BY <1>1, <1>3
<1>6. code[o].op \in Openings /\ Depth(code, o + 1) = Depth(code, o) + 1 /\ Depth(code, o) \in Nat
  <2>1. Depth(code, o) \in Nat /\ Depth(code, o + 1) > Depth(code, o)
    <3>1. Depth(code, o) \in Nat /\ Depth(code, o + 1) \in Nat /\ Depth(code, e) \in Nat
      BY <1>1, <1>5
    <3>2. Depth(code, o + 1) >= Depth(code, e)
      BY <1>4, <1>5
    <3> QED BY <1>3, <3>1, <3>2
  <2>2. code[o].op \in Openings
    BY <1>5, <2>1, Depths
  <2> QED BY <1>5, <2>1, <2>2, Depths
<1>7. Depth(code, o + 1) = Depth(code, e)
  <2>1. Depth(code, o + 1) >= Depth(code, e) /\ Depth(code, e) \in Nat
    BY <1>1, <1>4, <1>5
  <2> QED BY <1>3, <1>6, <2>1
<1>8. EndsAt(code, o + 1, e)
  <2>1. \A k \in o + 1 .. e : Depth(code, k) > Depth(code, o + 1) - 1
    BY <1>1, <1>3, <1>4, <1>7
  <2> QED BY <1>3, <1>1, <1>7, <2>1 DEF EndsAt, Deeper
<1>9. EndOf(code, o + 1) = e
  <2>1. o + 1 \in 1 .. Len(code) + 1 /\ Depth(code, o + 1) > 0
    BY <1>1, <1>5, <1>6
  <2> QED BY <1>8, <2>1, TheEnd
<1>10. ASSUME NEW i \in 1 .. Len(code), code[i].op \in Openings, EndOf(code, i + 1) = e
       PROVE  i = o
  <2>1. /\ e \in i + 1 .. Len(code) /\ Depth(code, e) = Depth(code, i) + 1
        /\ Deeper(code, i + 1, e, Depth(code, i))
        /\ Depth(code, i) \in Nat
    BY <1>10, ScopeOf, Depths
  <2>2. Deeper(code, o + 1, e, Depth(code, o)) /\ Depth(code, e) = Depth(code, o) + 1
    BY <1>5, <1>6, <1>9, ScopeOf
  <2>3. ~ (i \in o + 1 .. e)
    BY <1>6, <2>1, <2>2 DEF Deeper
  <2>4. ~ (o \in i + 1 .. e)
    BY <1>6, <2>1, <2>2 DEF Deeper
  <2> QED BY <1>3, <2>1, <2>3, <2>4
<1>11. OpeningOf(code, e) = o
  <2>1. o \in 1 .. e /\ \A i \in 1 .. e : i \in 1 .. Len(code)
    BY <1>3
  <2>2. \A i \in 1 .. e : code[i].op \in Openings /\ EndOf(code, i + 1) = e <=> i = o
    BY <1>6, <1>9, <1>10, <2>1
  <2> QED BY <2>1, <2>2 DEF OpeningOf
<1> QED BY <1>3, <1>6, <1>9, <1>10, <1>11

\* The construct an else or an arm belongs to.
LEMMA TheConstruct ==
  ASSUME NEW code \in Seq(Token), Balanced(code),
         NEW k \in 1 .. Len(code), code[k].op \in Middles
  PROVE  LET e == EndOf(code, k)
             o == OpeningOf(code, e)
         IN  /\ e \in k + 1 .. Len(code) /\ code[e].op = "end"
             /\ o \in 1 .. k - 1
             /\ code[o].op = (IF code[k].op = "else" THEN "if" ELSE "match")
             /\ EndOf(code, o + 1) = e
             /\ Depth(code, k) = Depth(code, o) + 1
             /\ Depth(code, k + 1) = Depth(code, k)
<1> DEFINE e == EndOf(code, k)
           o == OpeningOf(code, e)
<1>1. Len(code) \in Nat /\ Depth(code, k) \in Nat /\ Depth(code, k) > 0 /\ k \in 1 .. Len(code) + 1
  BY Depths
<1>2. EndsAt(code, k, e)
  BY <1>1, TheEnd
<1>3. e \in k .. Len(code) /\ e \in 1 .. Len(code) /\ code[e].op = "end" /\ Depth(code, e) = Depth(code, k)
  BY <1>2 DEF EndsAt
<1>4. e # k /\ code[k].op \notin Openings /\ code[k].op # "end"
  BY <1>3 DEF Middles, Openings
<1>5. Depth(code, k + 1) = Depth(code, k)
  BY <1>4, Depths
<1>6. o \in 1 .. e - 1 /\ code[o].op \in Openings /\ EndOf(code, o + 1) = e
  BY <1>3, TheOpening
<1>7. o \in 1 .. Len(code)
  BY <1>3, <1>6
<1>8. Depth(code, e) = Depth(code, o) + 1 /\ Depth(code, o) \in Nat
  BY <1>6, <1>7, ScopeOf, Depths
<1>9. ~ (o \in k .. e)
  <2>1. ASSUME o \in k .. e PROVE FALSE
    <3>1. Depth(code, o) > Depth(code, k) - 1
      BY <1>2, <2>1 DEF EndsAt, Deeper
    <3> QED BY <1>1, <1>3, <1>8, <3>1
  <2> QED BY <2>1
<1>10. o \in 1 .. k - 1
  BY <1>3, <1>6, <1>9
<1>11. code[o].op = IF code[k].op = "else" THEN "if" ELSE "match"
  BY DEF Balanced
<1> QED BY <1>3, <1>4, <1>5, <1>6, <1>8, <1>10, <1>11

LEMMA BranchStarts ==
  ASSUME NEW code \in Seq(Token), Balanced(code),
         NEW o \in 1 .. Len(code), code[o].op \in Openings,
         NEW b \in BranchesOf(code, o)
  PROVE  /\ b \in o + 1 .. EndOf(code, o + 1)
         /\ Depth(code, b) = Depth(code, o) + 1
         /\ \/ b = o + 1
            \/ /\ b - 1 \in o + 1 .. EndOf(code, o + 1) /\ code[b - 1].op \in Middles
               /\ Depth(code, b - 1) = Depth(code, o) + 1
               /\ EndOf(code, b - 1) = EndOf(code, o + 1)
<1> DEFINE e == EndOf(code, o + 1)
<1>1. /\ Len(code) \in Nat
      /\ e \in o + 1 .. Len(code) /\ code[e].op = "end"
      /\ Depth(code, o + 1) = Depth(code, o) + 1
      /\ Depth(code, o) \in Nat
  BY ScopeOf, Depths
<1>2. CASE b = o + 1
  BY <1>1, <1>2
<1>3. CASE b # o + 1
  <2>1. PICK k \in o + 1 .. e : /\ code[k].op \in Middles /\ Depth(code, k) = Depth(code, o + 1)
                                /\ b = k + 1
    BY <1>3 DEF BranchesOf
  <2>2. k # e /\ k \in 1 .. Len(code) /\ code[k].op \notin Openings /\ code[k].op # "end"
    BY <1>1, <2>1 DEF Middles, Openings
  <2>3. Depth(code, b) = Depth(code, k)
    BY <2>1, <2>2, Depths
  <2>4. b - 1 = k
    BY <2>1
  <2>5. EndOf(code, k) = e
    <3>1. o + 1 \in 1 .. Len(code) + 1 /\ Depth(code, o + 1) > 0
      BY <1>1
    <3> QED BY <2>1, <3>1, SameEnd
  <2> QED BY <1>1, <2>1, <2>2, <2>3, <2>4, <2>5
<1> QED BY <1>2, <1>3

LEMMA TheLoop ==
  ASSUME NEW code \in Seq(Token), NEW i \in 1 .. Len(code), LoopsAround(code, i) # {}
  PROVE  /\ LoopOf(code, i) \in 1 .. i - 1
         /\ code[LoopOf(code, i)].op = "loop"
         /\ EndOf(code, LoopOf(code, i) + 1) >= i
<1>1. LoopsAround(code, i) \in SUBSET (0 .. i) /\ i \in Nat
  BY DEF LoopsAround
<1>2. \E j \in LoopsAround(code, i) : \A k \in LoopsAround(code, i) : k <= j
  BY ONLY <1>1, Largest, LoopsAround(code, i) # {}
<1>3. LoopOf(code, i) \in LoopsAround(code, i)
  BY <1>2 DEF LoopOf
<1> QED BY <1>3 DEF LoopsAround
-----------------------------------------------------------------------------
(***************************************************************************)
(* Which names are bound where.                                            *)
(***************************************************************************)
\* The name is bound before the i-th token, at depth m or further out.
BoundTo(b, x, i, m) ==
  \/ b.params[x] # "none"
  \/ \E j \in 1 .. i - 1 : /\ b.code[j].to = x
                           /\ Depth(b.code, j + 1) <= m
                           /\ Visible(b.code, j, i)

Closes(token) == token.op \in Middles \cup {"end"}

\* A binding is gone as soon as a token is less deep.
LEMMA VisibleDeeper ==
  ASSUME NEW code \in Seq(Token), Balanced(code),
         NEW i \in 1 .. Len(code) + 1, NEW j \in 1 .. i - 1, Visible(code, j, i)
  PROVE  \A t \in j + 1 .. i : Depth(code, t) >= Depth(code, j + 1)
<1>1. /\ Len(code) \in Nat
      /\ \A k \in 1 .. Len(code) + 1 : Depth(code, k) \in Nat
  BY Depths
<1> DEFINE T == {k \in Nat : k \in j + 1 .. i /\ Depth(code, k) < Depth(code, j + 1)}
<1>2. ASSUME T # {} PROVE FALSE
  <2>1. PICK k \in T : \A l \in T : k <= l
    <3>1. T \subseteq Nat
      OBVIOUS
    <3>2. \E x \in T : \A y \in T : x <= y
      BY ONLY <1>2, <3>1, Smallest
    <3> QED BY <3>2
  <2>2. k \in j + 1 .. i /\ Depth(code, k) < Depth(code, j + 1) /\ k \in 1 .. Len(code) + 1
    BY <1>1, <2>1
  <2>3. k # j + 1 /\ j + 1 \in 1 .. Len(code) + 1
    BY <1>1, <2>2
  <2>4. k - 1 \in j + 1 .. i - 1 /\ k - 1 \in 1 .. Len(code) /\ (k - 1) + 1 = k
        /\ k - 1 \in Nat /\ k - 1 < k /\ k - 1 \in j + 1 .. i
    BY <1>1, <2>2, <2>3
  <2>5. Depth(code, k - 1) >= Depth(code, j + 1)
    <3>1. ~ (k - 1 \in T)
      BY <2>1, <2>4
    <3>2. ~ (Depth(code, k - 1) < Depth(code, j + 1))
      BY <2>4, <3>1
    <3>3. Depth(code, k - 1) \in Nat /\ Depth(code, j + 1) \in Nat
      BY <1>1, <2>3, <2>4
    <3> QED BY <3>2, <3>3
  <2>6. Depth(code, k) \in Nat /\ Depth(code, k - 1) \in Nat /\ Depth(code, j + 1) \in Nat
    BY <1>1, <2>2, <2>3, <2>4
  <2>7. code[k - 1].op = "end" /\ Depth(code, k) = Depth(code, k - 1) - 1
    <3>1. code[k - 1].op \notin Openings
      BY <2>2, <2>4, <2>5, <2>6, Depths
    <3> QED BY <2>2, <2>4, <2>5, <2>6, <3>1, Depths
  <2>8. Depth(code, k - 1) = Depth(code, j + 1)
    BY <2>2, <2>5, <2>6, <2>7
  <2> QED BY <2>4, <2>7, <2>8 DEF Visible
<1>3. ASSUME NEW t \in j + 1 .. i PROVE Depth(code, t) >= Depth(code, j + 1)
  <2>1. t \in Nat /\ t \in 1 .. Len(code) + 1 /\ j + 1 \in 1 .. Len(code) + 1
    BY <1>1
  <2>2. ~ (Depth(code, t) < Depth(code, j + 1))
    BY <1>2, <2>1
  <2> QED BY <1>1, <2>1, <2>2
<1> QED BY <1>3

LEMMA BoundIsBoundTo ==
  ASSUME NEW b \in BodyType, Balanced(b.code), NEW x,
         NEW i \in 1 .. Len(b.code) + 1
  PROVE  Bound(b, x, i) <=> BoundTo(b, x, i, Depth(b.code, i))
<1>1. b.code \in Seq(Token) /\ Len(b.code) \in Nat
  BY DEF BodyType
<1>2. ASSUME NEW j \in 1 .. i - 1, Visible(b.code, j, i)
      PROVE  Depth(b.code, j + 1) <= Depth(b.code, i)
  <2>1. i \in j + 1 .. i /\ j + 1 \in 1 .. Len(b.code) + 1
    BY <1>1
  <2>2. Depth(b.code, i) >= Depth(b.code, j + 1)
    BY <1>1, <1>2, <2>1, VisibleDeeper
  <2> QED BY <1>1, <2>1, <2>2, Depths
<1> QED BY <1>2 DEF Bound, BoundTo

\* What a stretch of tokens deeper than m binds and closes is deeper than m.
LEMMA BoundToSkip ==
  ASSUME NEW b \in BodyType, Balanced(b.code), NEW x \in Names, NEW m \in Nat,
         NEW i \in 1 .. Len(b.code) + 1, NEW k \in i .. Len(b.code) + 1,
         \A t \in i .. k - 1 : /\ Closes(b.code[t]) => Depth(b.code, t) > m
                               /\ b.code[t].to # NoName => Depth(b.code, t + 1) > m
  PROVE  BoundTo(b, x, i, m) <=> BoundTo(b, x, k, m)
<1>0. b.code \in Seq(Token) /\ Len(b.code) \in Nat /\ x # NoName
  BY NamesAssumption DEF BodyType
<1>1. \A t \in 1 .. Len(b.code) + 1 : Depth(b.code, t) \in Nat
  BY <1>0, Depths
<1>2. ASSUME NEW j \in 1 .. i - 1, b.code[j].to = x, Depth(b.code, j + 1) <= m,
             Visible(b.code, j, i)
      PROVE  j \in 1 .. k - 1 /\ Visible(b.code, j, k)
  <2>1. ASSUME NEW t \in j + 1 .. k - 1, Closes(b.code[t]), Depth(b.code, t) = Depth(b.code, j + 1)
        PROVE  FALSE
    <3>1. CASE t \in i .. k - 1
      <4>1. j + 1 \in 1 .. Len(b.code) + 1 /\ t \in 1 .. Len(b.code) + 1
        BY <1>0
      <4>2. Depth(b.code, t) > m
        BY <2>1, <3>1
      <4> QED BY <1>1, <1>2, <2>1, <4>1, <4>2
    <3>2. CASE t \in j + 1 .. i - 1
      BY <1>2, <2>1, <3>2 DEF Visible, Closes
    <3> QED BY <3>1, <3>2
  <2> QED BY <2>1 DEF Visible, Closes
<1>3. ASSUME NEW j \in 1 .. k - 1, b.code[j].to = x, Depth(b.code, j + 1) <= m,
             Visible(b.code, j, k)
      PROVE  j \in 1 .. i - 1 /\ Visible(b.code, j, i)
  <2>1. ~ (j \in i .. k - 1)
    <3>1. ASSUME j \in i .. k - 1 PROVE FALSE
      <4>1. Depth(b.code, j + 1) > m /\ j + 1 \in 1 .. Len(b.code) + 1
        BY <1>0, <1>3, <3>1
      <4> QED BY <1>1, <1>3, <4>1
    <3> QED BY <3>1
  <2>2. j \in 1 .. i - 1
    BY <2>1
  <2> QED BY <1>3, <2>2 DEF Visible
<1> QED BY <1>2, <1>3 DEF BoundTo

\* What is bound outside of a scope was bound at its opening.
LEMMA BoundOutside ==
  ASSUME NEW b \in BodyType, Balanced(b.code), NEW x \in Names,
         NEW o \in 1 .. Len(b.code), NEW i \in o + 1 .. Len(b.code) + 1,
         Deeper(b.code, o + 1, i, Depth(b.code, o)),
         NEW m \in Nat, m <= Depth(b.code, o), BoundTo(b, x, i, m)
  PROVE  Bound(b, x, o)
<1>0. b.code \in Seq(Token) /\ Len(b.code) \in Nat
  BY DEF BodyType
<1>1. \A t \in 1 .. Len(b.code) + 1 : Depth(b.code, t) \in Nat
  BY <1>0, Depths
<1>2. CASE b.params[x] # "none"
  BY <1>2 DEF Bound
<1>3. CASE b.params[x] = "none"
  <2>1. PICK j \in 1 .. i - 1 : /\ b.code[j].to = x /\ Depth(b.code, j + 1) <= m
                                /\ Visible(b.code, j, i)
    BY <1>3 DEF BoundTo
  <2>2. ~ (j \in o .. i - 1)
    <3>1. ASSUME j \in o .. i - 1 PROVE FALSE
      <4>1. j + 1 \in o + 1 .. i /\ j + 1 \in 1 .. Len(b.code) + 1
        BY <1>0, <3>1
      <4>2. Depth(b.code, j + 1) > Depth(b.code, o)
        BY <4>1 DEF Deeper
      <4> QED BY <1>1, <2>1, <4>1, <4>2
    <3> QED BY <3>1
  <2>3. j \in 1 .. o - 1
    BY <2>2
  <2>4. Visible(b.code, j, o)
    BY <2>1, <2>3 DEF Visible
  <2> QED BY <2>1, <2>3, <2>4 DEF Bound
<1> QED BY <1>2, <1>3

\* A token that closes nothing adds what it binds.
LEMMA BoundToNext ==
  ASSUME NEW b \in BodyType, Balanced(b.code), NEW x, NEW m \in Nat,
         NEW i \in 1 .. Len(b.code), ~ Closes(b.code[i])
  PROVE  BoundTo(b, x, i + 1, m) <=>
           BoundTo(b, x, i, m) \/ (b.code[i].to = x /\ Depth(b.code, i + 1) <= m)
<1>0. b.code \in Seq(Token) /\ Len(b.code) \in Nat /\ i + 1 - 1 = i
  BY DEF BodyType
<1>1. ASSUME NEW j \in 1 .. i - 1 PROVE Visible(b.code, j, i + 1) <=> Visible(b.code, j, i)
  <2>1. \A k : k \in j + 1 .. i + 1 - 1 <=> k \in j + 1 .. i - 1 \/ k = i
    BY <1>0
  <2>2. b.code[i].op \notin Middles \cup {"end"}
    BY DEF Closes
  <2> DEFINE n == i + 1
  <2>3. \A k : k \in j + 1 .. n - 1 <=> k \in j + 1 .. i - 1 \/ k = i
    BY <2>1
  <2> HIDE DEF n
  <2>4. Visible(b.code, j, n) <=> Visible(b.code, j, i)
    BY ONLY <2>2, <2>3 DEF Visible
  <2> QED BY <2>4 DEF n
<1>2. Visible(b.code, i, i + 1)
  <2>1. i + 1 .. i + 1 - 1 = {}
    BY <1>0
  <2> QED BY <2>1 DEF Visible
<1>3. 1 .. (i + 1) - 1 = (1 .. i - 1) \cup {i}
  BY <1>0
<1> QED BY <1>1, <1>2, <1>3 DEF BoundTo

\* In a branch the names around the construct are bound, and what it binds.
LEMMA BoundInBranch ==
  ASSUME NEW b \in BodyType, Balanced(b.code), Formed(b.code), NEW x \in Names, NEW m \in Nat,
         NEW o \in 1 .. Len(b.code), b.code[o].op \in Openings,
         NEW i \in BranchesOf(b.code, o)
  PROVE  /\ m <= Depth(b.code, o) => (BoundTo(b, x, i, m) <=> BoundTo(b, x, o, m))
         /\ BoundTo(b, x, i, Depth(b.code, o) + 1) <=>
              BoundTo(b, x, o, Depth(b.code, o)) \/ b.code[i - 1].to = x
<1> DEFINE d == Depth(b.code, o)
<1>0. b.code \in Seq(Token) /\ Len(b.code) \in Nat
  BY DEF BodyType
<1>1. /\ i \in o + 1 .. EndOf(b.code, o + 1)
      /\ EndOf(b.code, o + 1) \in o + 1 .. Len(b.code)
      /\ Depth(b.code, i) = d + 1
      /\ Deeper(b.code, o + 1, EndOf(b.code, o + 1), d)
  BY <1>0, BranchStarts, ScopeOf
<1>2. /\ \A t \in 1 .. Len(b.code) + 1 : Depth(b.code, t) \in Nat
      /\ i \in 1 .. Len(b.code) /\ i - 1 \in 1 .. Len(b.code) /\ (i - 1) + 1 = i
  BY <1>0, <1>1, Depths
<1>3. ASSUME NEW n \in Nat, n <= d PROVE BoundTo(b, x, i, n) <=> BoundTo(b, x, o, n)
  <2>1. ASSUME NEW t \in o .. i - 1
        PROVE  /\ Closes(b.code[t]) => Depth(b.code, t) > n
               /\ Depth(b.code, t + 1) > n
    <3>1. t + 1 \in o + 1 .. EndOf(b.code, o + 1) /\ t + 1 \in 1 .. Len(b.code) + 1
      BY <1>0, <1>1
    <3>6. /\ d \in Nat /\ Depth(b.code, t + 1) \in Nat
          /\ t # o => Depth(b.code, t) \in Nat
      BY <1>0, <1>2, <3>1
    <3>2. Depth(b.code, t + 1) > n
      <4>1. Depth(b.code, t + 1) > d
        BY <1>1, <3>1 DEF Deeper
      <4> HIDE DEF d
      <4> QED BY <1>3, <3>6, <4>1
    <3>3. Closes(b.code[t]) => t # o
      BY DEF Closes, Middles, Openings
    <3>4. t # o => t \in o + 1 .. EndOf(b.code, o + 1) /\ t \in 1 .. Len(b.code) + 1
      BY <1>0, <1>1
    <3>5. t # o => Depth(b.code, t) > n
      <4>1. t # o => Depth(b.code, t) > d
        BY <1>1, <3>4 DEF Deeper
      <4> HIDE DEF d
      <4> QED BY <1>3, <3>6, <4>1
    <3> QED BY <3>2, <3>3, <3>5
  <2>2. o \in 1 .. Len(b.code) + 1 /\ i \in o .. Len(b.code) + 1
    BY <1>0, <1>1
  <2> QED BY <2>1, <2>2, BoundToSkip
<1>4. \A j \in 1 .. i - 1 : Depth(b.code, j + 1) = d + 1 /\ Visible(b.code, j, i) => j = i - 1
  <2>1. SUFFICES ASSUME NEW j \in 1 .. i - 1, Depth(b.code, j + 1) = d + 1,
                        Visible(b.code, j, i), j # i - 1
                 PROVE  FALSE
    OBVIOUS
  <2>2. i - 1 \in j + 1 .. i - 1 /\ i - 1 \in j + 1 .. i
    BY <1>1, <2>1
  <2>3. CASE i = o + 1
    <3>1. \A t \in j + 1 .. i : Depth(b.code, t) >= Depth(b.code, j + 1)
      BY <1>0, <1>1, <1>2, <2>1, VisibleDeeper
    <3>2. Depth(b.code, o) >= d + 1
      BY <2>1, <2>2, <2>3, <3>1
    <3> QED BY <1>2, <3>2
  <2>4. CASE i # o + 1
    <3>1. b.code[i - 1].op \in Middles /\ Depth(b.code, i - 1) = d + 1
      BY <1>0, <2>4, BranchStarts
    <3> QED BY <2>1, <2>2, <3>1 DEF Visible
  <2> QED BY <2>3, <2>4
<1>5. Visible(b.code, i - 1, i) /\ Depth(b.code, (i - 1) + 1) = d + 1
  BY <1>1, <1>2 DEF Visible
<1>6. BoundTo(b, x, i, d + 1) <=> BoundTo(b, x, i, d) \/ b.code[i - 1].to = x
  <2>1. ASSUME NEW j \in 1 .. i - 1, b.code[j].to = x, Depth(b.code, j + 1) <= d + 1,
               Visible(b.code, j, i)
        PROVE  BoundTo(b, x, i, d) \/ b.code[i - 1].to = x
    <3>1. j + 1 \in 1 .. Len(b.code) + 1
      BY <1>0, <1>1
    <3>2. Depth(b.code, j + 1) \in Nat /\ d \in Nat
      BY <1>2, <3>1
    <3>3. CASE Depth(b.code, j + 1) = d + 1
      BY <1>4, <2>1, <3>3
    <3>4. CASE Depth(b.code, j + 1) <= d
      BY <2>1, <3>4 DEF BoundTo
    <3> QED BY <2>1, <3>2, <3>3, <3>4
  <2>2. ASSUME b.code[i - 1].to = x PROVE BoundTo(b, x, i, d + 1)
    <3>1. i - 1 \in 1 .. i - 1 /\ Depth(b.code, (i - 1) + 1) <= d + 1
      BY <1>2, <1>5
    <3> QED BY <1>5, <2>2, <3>1 DEF BoundTo
  <2>3. BoundTo(b, x, i, d) => BoundTo(b, x, i, d + 1)
    <3>1. \A j \in 1 .. i - 1 : Depth(b.code, j + 1) <= d => Depth(b.code, j + 1) <= d + 1
      <4>1. ASSUME NEW j \in 1 .. i - 1, Depth(b.code, j + 1) <= d PROVE Depth(b.code, j + 1) <= d + 1
        <5>1. j + 1 \in 1 .. Len(b.code) + 1
          BY <1>0, <1>1
        <5> QED BY <1>2, <4>1, <5>1
      <4> QED BY <4>1
    <3> QED BY <3>1 DEF BoundTo
  <2> QED BY <2>1, <2>2, <2>3 DEF BoundTo
<1>7. d \in Nat
  BY <1>2
<1> QED BY <1>3, <1>6, <1>7

-----------------------------------------------------------------------------
(***************************************************************************)
(* Which constructs are around a token.                                    *)
(***************************************************************************)
LEMMA InsideIsDeeper ==
  ASSUME NEW code \in Seq(Token), Balanced(code),
         NEW i \in 1 .. Len(code) + 1, NEW X \in SUBSET Openings
  PROVE  Inside(code, i, X) =
           {o \in 1 .. i - 1 : code[o].op \in X /\ Deeper(code, o + 1, i, Depth(code, o))}
<1>1. ASSUME NEW o \in 1 .. i - 1, code[o].op \in X
      PROVE  EndOf(code, o + 1) >= i <=> Deeper(code, o + 1, i, Depth(code, o))
  <2>1. o \in 1 .. Len(code) /\ i \in o + 1 .. Len(code) + 1 /\ code[o].op \in Openings
    BY <1>1
  <2> QED BY <2>1, ScopeIsDeeper
<1> QED BY <1>1 DEF Inside

\* The constructs around a construct, and around what is directly in it.
LEMMA InsideOf ==
  ASSUME NEW code \in Seq(Token), Balanced(code), NEW X \in SUBSET Openings,
         NEW o \in 1 .. Len(code), code[o].op \in Openings
  PROVE  LET e == EndOf(code, o + 1)
         IN  /\ \A i \in o + 1 .. e :
                  /\ Inside(code, o, X) \subseteq Inside(code, i, X)
                  /\ code[o].op \in X => o \in Inside(code, i, X)
                  /\ Depth(code, i) = Depth(code, o) + 1 =>
                       Inside(code, i, X) =
                         Inside(code, o, X) \cup (IF code[o].op \in X THEN {o} ELSE {})
             /\ Inside(code, e + 1, X) = Inside(code, o, X)
             /\ \A j \in Inside(code, o, X) :
                  j \in 1 .. o - 1 /\ Depth(code, j) < Depth(code, o)
<1> DEFINE e == EndOf(code, o + 1)
           In(i) == {j \in 1 .. i - 1 : code[j].op \in X /\ Deeper(code, j + 1, i, Depth(code, j))}
<1>1. /\ e \in o + 1 .. Len(code) /\ Depth(code, e + 1) = Depth(code, o)
      /\ \A t \in o + 1 .. e : Depth(code, t) > Depth(code, o)
  BY ScopeOf DEF Deeper
<1>2. Len(code) \in Nat /\ \A i \in 1 .. Len(code) + 1 : Depth(code, i) \in Nat
  BY Depths
<1> HIDE DEF e
<1>3. \A i \in o .. e + 1 : i \in 1 .. Len(code) + 1
  BY <1>1, <1>2
<1>4. \A i \in o .. e + 1 : Inside(code, i, X) = In(i)
  BY <1>3, InsideIsDeeper
<1>5. \A j \in In(o) : j \in 1 .. o - 1 /\ Depth(code, j) < Depth(code, o)
  <2>1. ASSUME NEW j \in In(o) PROVE j \in 1 .. o - 1 /\ Depth(code, j) < Depth(code, o)
    <3>1. j \in 1 .. o - 1 /\ Deeper(code, j + 1, o, Depth(code, j))
      OBVIOUS
    <3>2. o \in j + 1 .. o
      BY <3>1
    <3>3. Depth(code, j) \in Nat /\ Depth(code, o) \in Nat
      BY <1>2, <3>1
    <3> QED BY <3>1, <3>2, <3>3 DEF Deeper
  <2> QED BY <2>1
<1>6. ASSUME NEW j \in In(o), NEW i \in o .. e + 1 PROVE j \in In(i)
  <2>1. j \in 1 .. o - 1 /\ code[j].op \in X /\ Deeper(code, j + 1, o, Depth(code, j))
        /\ Depth(code, j) < Depth(code, o)
    BY <1>5
  <2>2. ASSUME NEW t \in j + 1 .. i PROVE Depth(code, t) > Depth(code, j)
    <3>1. CASE t \in j + 1 .. o
      BY <2>1, <3>1 DEF Deeper
    <3>2. CASE t \in o + 1 .. e
      <4>1. Depth(code, t) > Depth(code, o)
        BY <1>1, <3>2
      <4>2. Depth(code, t) \in Nat /\ Depth(code, o) \in Nat /\ Depth(code, j) \in Nat
        BY <1>1, <1>2, <2>1, <3>2
      <4> QED BY <2>1, <4>1, <4>2
    <3>3. CASE t = e + 1
      BY <1>1, <2>1, <3>3
    <3>4. t \in j + 1 .. o \/ t \in o + 1 .. e \/ t = e + 1
      BY <1>1, <2>1
    <3> QED BY <3>1, <3>2, <3>3, <3>4
  <2>3. j \in 1 .. i - 1
    BY <1>1, <2>1
  <2> QED BY <2>1, <2>2, <2>3 DEF Deeper
<1>7. ASSUME NEW i \in o + 1 .. e + 1, NEW j \in In(i), j < o PROVE j \in In(o)
  <2>1. j \in 1 .. i - 1 /\ code[j].op \in X /\ Deeper(code, j + 1, i, Depth(code, j))
    OBVIOUS
  <2>2. j \in 1 .. o - 1 /\ \A t \in j + 1 .. o : t \in j + 1 .. i
    BY <1>1, <1>7, <2>1
  <2> QED BY <2>1, <2>2 DEF Deeper
<1>8. ASSUME NEW i \in o + 1 .. e + 1, NEW j \in In(i), j > o
      PROVE  Depth(code, i) > Depth(code, o) + 1
  <2>1. j \in 1 .. i - 1 /\ Deeper(code, j + 1, i, Depth(code, j))
    OBVIOUS
  <2>2. j \in o + 1 .. e /\ i \in j + 1 .. i
    BY <1>1, <1>8, <2>1
  <2>3. Depth(code, j) > Depth(code, o) /\ Depth(code, i) > Depth(code, j)
    BY <1>1, <2>1, <2>2 DEF Deeper
  <2>4. Depth(code, j) \in Nat /\ Depth(code, i) \in Nat /\ Depth(code, o) \in Nat
    BY <1>1, <1>2, <2>2
  <2> QED BY <2>3, <2>4
<1>9. ASSUME NEW i \in o + 1 .. e, code[o].op \in X PROVE o \in In(i)
  <2>1. \A t \in o + 1 .. i : t \in o + 1 .. e
    BY <1>1
  <2>2. o \in 1 .. i - 1
    BY <1>1
  <2> QED BY <1>1, <1>9, <2>1, <2>2 DEF Deeper
<1>10. ASSUME NEW i \in o + 1 .. e, Depth(code, i) = Depth(code, o) + 1
       PROVE  In(i) = In(o) \cup (IF code[o].op \in X THEN {o} ELSE {})
  <2>1. \A j \in In(i) : j < o \/ j = o \/ j > o
    OBVIOUS
  <2>2. \A j \in In(i) : ~ (j > o)
    <3>1. i \in o + 1 .. e + 1 /\ Depth(code, o) \in Nat
      BY <1>1, <1>2
    <3> HIDE DEF In
    <3> QED BY <1>8, <1>10, <3>1
  <2>3. \A j \in In(i) : j \in In(o) \/ (j = o /\ code[o].op \in X)
    <3>1. i \in o + 1 .. e + 1
      BY <1>1
    <3>2. \A j \in In(i) : code[j].op \in X
      OBVIOUS
    <3> HIDE DEF In
    <3> QED BY <1>7, <2>1, <2>2, <3>1, <3>2
  <2>4. i \in o .. e + 1
    BY <1>1
  <2> HIDE DEF In
  <2> QED BY <1>6, <1>9, <2>3, <2>4
<1>11. In(e + 1) = In(o)
  <2>1. e + 1 \in o + 1 .. e + 1 /\ e + 1 \in o .. e + 1 /\ Depth(code, o) \in Nat
    BY <1>1, <1>2
  <2>2. \A j \in In(e + 1) : ~ (j > o)
    <3> HIDE DEF In
    <3> QED BY <1>1, <1>8, <2>1
  <2>3. o \notin In(e + 1)
    <3>1. ASSUME o \in In(e + 1) PROVE FALSE
      <4>1. Deeper(code, o + 1, e + 1, Depth(code, o))
        BY <3>1
      <4>2. e + 1 \in o + 1 .. e + 1
        BY <1>1
      <4> QED BY <1>1, <2>1, <4>1, <4>2 DEF Deeper
    <3> QED BY <3>1
  <2>4. \A j \in In(e + 1) : j < o
    <3>1. \A j \in In(e + 1) : j < o \/ j = o \/ j > o
      OBVIOUS
    <3> HIDE DEF In
    <3> QED BY <2>2, <2>3, <3>1
  <2> HIDE DEF In
  <2> QED BY <1>6, <1>7, <2>1, <2>4
<1>12. \A i \in o + 1 .. e : i \in o .. e + 1
  BY <1>1
<1>13. o \in o .. e + 1 /\ e + 1 \in o .. e + 1
  BY <1>1
<1> HIDE DEF In
<1> QED BY <1>4, <1>5, <1>6, <1>9, <1>10, <1>11, <1>12, <1>13 DEF e

\* What opens and closes nothing leaves the constructs around it.
LEMMA InsideNext ==
  ASSUME NEW code \in Seq(Token), Balanced(code), NEW X \in SUBSET Openings,
         NEW i \in 1 .. Len(code), code[i].op \notin Openings, code[i].op # "end"
  PROVE  Inside(code, i + 1, X) = Inside(code, i, X)
<1>1. /\ Len(code) \in Nat /\ Depth(code, i + 1) = Depth(code, i)
      /\ i \in 1 .. Len(code) + 1 /\ i + 1 \in 1 .. Len(code) + 1
  BY Depths
<1>2. \A o \in 1 .. i : code[o].op \in X => o \in 1 .. i - 1
  <2>1. \A o \in 1 .. i : o = i \/ o \in 1 .. i - 1
    OBVIOUS
  <2> QED BY <2>1
<1>3. ASSUME NEW o \in 1 .. i - 1
      PROVE  Deeper(code, o + 1, i + 1, Depth(code, o)) <=> Deeper(code, o + 1, i, Depth(code, o))
  <2>1. \A t \in o + 1 .. i : t \in o + 1 .. i + 1
    OBVIOUS
  <2>2. \A t \in o + 1 .. i + 1 : t \in o + 1 .. i \/ t = i + 1
    OBVIOUS
  <2>3. i \in o + 1 .. i
    OBVIOUS
  <2> QED BY <1>1, <2>1, <2>2, <2>3 DEF Deeper
<1>4. \A o \in 1 .. i - 1 : o \in 1 .. i
  OBVIOUS
<1> DEFINE In(k) == {o \in 1 .. k - 1 : code[o].op \in X /\ Deeper(code, o + 1, k, Depth(code, o))}
<1>5. Inside(code, i, X) = In(i) /\ Inside(code, i + 1, X) = In(i + 1)
  BY <1>1, InsideIsDeeper
<1>6. \A o : o \in In(i + 1) <=>
        o \in 1 .. i /\ code[o].op \in X /\ Deeper(code, o + 1, i + 1, Depth(code, o))
  OBVIOUS
<1>7. \A o : o \in In(i) <=>
        o \in 1 .. i - 1 /\ code[o].op \in X /\ Deeper(code, o + 1, i, Depth(code, o))
  OBVIOUS
<1> HIDE DEF In
<1>8. \A o : o \in In(i) <=> o \in In(i + 1)
  BY ONLY <1>2, <1>3, <1>4, <1>6, <1>7
<1>9. In(i) = In(i + 1)
  <2>1. In(i) \subseteq In(i + 1) /\ In(i + 1) \subseteq In(i)
    BY ONLY <1>8
  <2> QED BY ONLY <2>1
<1> QED BY <1>5, <1>9

\* Every level of depth has been opened.
LEMMA Levels ==
  ASSUME NEW code \in Seq(Token), Balanced(code),
         NEW i \in 1 .. Len(code) + 1, NEW l \in 1 .. Depth(code, i)
  PROVE  \E o \in 1 .. i - 1 : /\ code[o].op \in Openings /\ Depth(code, o) = l - 1
                               /\ Deeper(code, o + 1, i, l - 1)
<1>1. Len(code) \in Nat /\ Depth(code, 1) = 0 /\ \A t \in 1 .. Len(code) + 1 : Depth(code, t) \in Nat
  BY Depths
<1> DEFINE T == {t \in 0 .. i : t >= 1 /\ Depth(code, t) <= l - 1}
<1>2. 1 \in T /\ T \in SUBSET (0 .. i) /\ i \in Nat
  BY <1>1
<1>3. PICK o \in T : \A t \in T : t <= o
  <2>1. T # {}
    BY <1>2
  <2> HIDE DEF T
  <2> QED BY ONLY <1>2, <2>1, Largest
<1>4. o \in 1 .. i /\ Depth(code, o) <= l - 1 /\ o # i
  BY <1>1
<1>5. ASSUME NEW t \in o + 1 .. i PROVE Depth(code, t) > l - 1
  <2>1. ~ (t <= o) /\ t \in 0 .. i /\ t >= 1 /\ t \in 1 .. Len(code) + 1
    BY <1>4
  <2>2. t \notin T
    <3> HIDE DEF T
    <3> QED BY <1>3, <2>1
  <2>3. ~ (Depth(code, t) <= l - 1)
    BY <2>1, <2>2
  <2> QED BY <1>1, <2>1, <2>3
<1> HIDE DEF T
<1>6. o \in 1 .. i - 1 /\ o \in 1 .. Len(code) /\ o + 1 \in o + 1 .. i
      /\ Depth(code, o) \in Nat /\ Depth(code, o + 1) > l - 1
      /\ o \in 1 .. Len(code) + 1 /\ o + 1 \in 1 .. Len(code) + 1
  <2>1. o \in 1 .. i - 1 /\ o \in 1 .. Len(code) /\ o + 1 \in o + 1 .. i
        /\ o \in 1 .. Len(code) + 1 /\ o + 1 \in 1 .. Len(code) + 1
    BY <1>1, <1>4
  <2> QED BY <1>1, <1>5, <2>1
<1>7. Depth(code, o + 1) \in Nat /\ l \in Nat
  BY <1>1, <1>6
<1>8. /\ code[o].op \in Openings => Depth(code, o + 1) = Depth(code, o) + 1
      /\ code[o].op = "end" => Depth(code, o + 1) = Depth(code, o) - 1
      /\ code[o].op \notin Openings /\ code[o].op # "end" => Depth(code, o + 1) = Depth(code, o)
  BY <1>6, Depths
<1>9. code[o].op \in Openings /\ Depth(code, o) = l - 1
  BY <1>4, <1>6, <1>7, <1>8
<1> QED BY <1>5, <1>6, <1>9 DEF Deeper
-----------------------------------------------------------------------------
\* The instances see the same structure of a body.
LEMMA SameStructure ==
  /\ \A code, i : Regions!EndOf(code, i) = EndOf(code, i)
  /\ \A code, i : Run!Depth(code, i) = Depth(code, i)
  /\ \A code, i : Run!EndOf(code, i) = EndOf(code, i)
  /\ \A code, i : Run!OpeningOf(code, i) = OpeningOf(code, i)
  /\ \A code, i : Run!BranchesOf(code, i) = BranchesOf(code, i)
  /\ \A code, i : Run!LoopOf(code, i) = LoopOf(code, i)
  /\ Run!Middles = Middles
<1>0. \A S : Run!Cardinality(S) = Cardinality(S) /\ Regions!Cardinality(S) = Cardinality(S)
  BY DEF Cardinality, Run!Cardinality, Regions!Cardinality
<1>1. \A code, i : Run!Depth(code, i) = Depth(code, i) /\ Regions!Depth(code, i) = Depth(code, i)
  BY <1>0 DEF Run!Depth, Regions!Depth, Depth, Openings, Run!Openings, Regions!Openings
<1>2. \A code, i : Regions!EndOf(code, i) = EndOf(code, i)
  BY <1>1 DEF EndOf, Regions!EndOf
<1>3. \A code, i : Run!EndOf(code, i) = EndOf(code, i)
  BY <1>1 DEF EndOf, Run!EndOf
<1>4. \A code, i : Run!OpeningOf(code, i) = OpeningOf(code, i)
  BY <1>3 DEF OpeningOf, Run!OpeningOf, Openings, Run!Openings
<1>5. Run!Middles = Middles
  BY DEF Middles, Run!Middles
<1>6. \A code, i : Run!BranchesOf(code, i) = BranchesOf(code, i)
  BY <1>1, <1>3, <1>5 DEF BranchesOf, Run!BranchesOf
<1>7. \A code, i : Run!LoopsAround(code, i) = LoopsAround(code, i)
  BY <1>3 DEF LoopsAround, Run!LoopsAround
<1>8. \A code, i : Run!LoopOf(code, i) = LoopOf(code, i)
  BY <1>7 DEF LoopOf, Run!LoopOf
<1> QED BY <1>1, <1>2, <1>3, <1>4, <1>5, <1>6, <1>8

-----------------------------------------------------------------------------
(***************************************************************************)
(* RegionChecker's chain of environments, seen from each of its levels.    *)
(***************************************************************************)
Chains == Seq(Regions!Env)
Branch(env) == env.opening \in {"if", "match"}

\* What the innermost n environments' outside knows of a name.
Known(es, n, x) == Regions!Get(SubSeq(es, 1, n), x)

\* Prefixes of a chain.
LEMMA Prefix ==
  ASSUME NEW S, NEW s \in Seq(S), NEW n \in 0 .. Len(s)
  PROVE  /\ SubSeq(s, 1, n) \in Seq(S) /\ Len(SubSeq(s, 1, n)) = n
         /\ \A i \in 1 .. n : SubSeq(s, 1, n)[i] = s[i]
         /\ \A k \in 0 .. n : SubSeq(SubSeq(s, 1, n), 1, k) = SubSeq(s, 1, k)
         /\ SubSeq(s, 1, Len(s)) = s
<1>1. SubSeq(s, 1, n) \in Seq(S) /\ Len(SubSeq(s, 1, n)) = n
      /\ \A i \in 1 .. n : SubSeq(s, 1, n)[i] = s[i]
  OBVIOUS
<1>2. ASSUME NEW k \in 0 .. n PROVE SubSeq(SubSeq(s, 1, n), 1, k) = SubSeq(s, 1, k)
  <2>1. k \in 0 .. Len(s) /\ k \in 0 .. Len(SubSeq(s, 1, n))
    BY <1>1
  <2>2. /\ SubSeq(s, 1, k) \in Seq(S) /\ Len(SubSeq(s, 1, k)) = k
        /\ \A i \in 1 .. k : SubSeq(s, 1, k)[i] = s[i]
    BY <2>1
  <2> DEFINE p == SubSeq(s, 1, n)
  <2>3. /\ p \in Seq(S) /\ Len(p) = n /\ k \in 0 .. Len(p)
    BY <1>1, <2>1
  <2>4. /\ SubSeq(p, 1, k) \in Seq(S) /\ Len(SubSeq(p, 1, k)) = k
        /\ \A i \in 1 .. k : SubSeq(p, 1, k)[i] = p[i]
    <3> HIDE DEF p
    <3> QED BY <2>3
  <2>5. \A i \in 1 .. k : SubSeq(p, 1, k)[i] = SubSeq(s, 1, k)[i]
    BY <1>1, <2>2, <2>4
  <2> HIDE DEF p
  <2> DEFINE u == SubSeq(p, 1, k)
             v == SubSeq(s, 1, k)
  <2>6. u \in Seq(S) /\ v \in Seq(S) /\ Len(u) = Len(v) /\ \A i \in 1 .. Len(u) : u[i] = v[i]
    BY <2>2, <2>4, <2>5
  <2>7. u = v
    <3> HIDE DEF u, v
    <3> QED BY <2>6
  <2> QED BY <2>7 DEF p
<1>3. SubSeq(s, 1, Len(s)) = s
  <2> DEFINE v == SubSeq(s, 1, Len(s))
  <2>1. v \in Seq(S) /\ Len(v) = Len(s) /\ \A i \in 1 .. Len(v) : v[i] = s[i]
    OBVIOUS
  <2>2. v = s
    <3> HIDE DEF v
    <3> QED BY <2>1
  <2> QED BY <2>2
<1> QED BY <1>1, <1>2, <1>3

\* Only the bindings count for what is known.
LEMMA KnownSame ==
  ASSUME NEW es \in Chains, NEW fs \in Chains, NEW n \in 0 .. Len(es), n <= Len(fs),
         \A i \in 1 .. n : es[i].binds = fs[i].binds, NEW x
  PROVE  Known(es, n, x) = Known(fs, n, x)
<1>1. Len(SubSeq(es, 1, n)) = n /\ \A i \in 1 .. n : SubSeq(es, 1, n)[i] = es[i]
  BY Prefix DEF Chains
<1>2. Len(SubSeq(fs, 1, n)) = n /\ \A i \in 1 .. n : SubSeq(fs, 1, n)[i] = fs[i]
  <2>1. n \in 0 .. Len(fs)
    OBVIOUS
  <2> QED BY <2>1, Prefix DEF Chains
<1>3. Regions!Holders(SubSeq(es, 1, n), x) = Regions!Holders(SubSeq(fs, 1, n), x)
  BY <1>1, <1>2 DEF Regions!Holders
<1>4. Regions!Holders(SubSeq(es, 1, n), x) \subseteq 1 .. n
  BY <1>1 DEF Regions!Holders
<1> DEFINE H == Regions!Holders(SubSeq(es, 1, n), x)
           T == CHOOSE i \in H : \A j \in H : j <= i
<1>5. CASE H = {}
  BY <1>3, <1>5 DEF Known, Regions!Get, Regions!Has, Regions!Unbound
<1>6. CASE H # {}
  <2>1. n \in Nat /\ H \in SUBSET (0 .. n)
    BY <1>4
  <2>2. \E i \in H : \A j \in H : j <= i
    <3> HIDE DEF H
    <3> QED BY ONLY <2>1, <1>6, Largest
  <2>3. T \in H
    <3> HIDE DEF H
    <3> QED BY <2>2
  <2>4. T \in 1 .. n
    BY <1>4, <2>3
  <2>5. SubSeq(es, 1, n)[T].binds = SubSeq(fs, 1, n)[T].binds
    BY <1>1, <1>2, <2>4
  <2>6. Known(es, n, x) = SubSeq(es, 1, n)[T].binds[x]
    BY <1>6 DEF Known, Regions!Get, Regions!Has
  <2>7. Known(fs, n, x) = SubSeq(fs, 1, n)[T].binds[x]
    BY <1>3, <1>6 DEF Known, Regions!Get, Regions!Has
  <2> QED BY <2>5, <2>6, <2>7
<1> QED BY <1>5, <1>6

\* A name is looked for in the innermost environment, then further out.
LEMMA KnownStep ==
  ASSUME NEW es \in Chains, NEW x \in Names
  PROVE  /\ Known(es, 0, x) = Regions!Unbound
         /\ \A n \in 1 .. Len(es) :
              Known(es, n, x) = IF es[n].binds[x].region # "none" THEN es[n].binds[x]
                                ELSE Known(es, n - 1, x)
         /\ Known(es, Len(es), x) = Regions!Get(es, x)
<1>1. Known(es, 0, x) = Regions!Unbound
  <2>1. Len(SubSeq(es, 1, 0)) = 0
    BY Prefix DEF Chains
  <2>2. Regions!Holders(SubSeq(es, 1, 0), x) = {}
    BY <2>1 DEF Regions!Holders
  <2> QED BY <2>2 DEF Known, Regions!Get, Regions!Has
<1>2. ASSUME NEW n \in 1 .. Len(es)
      PROVE  Known(es, n, x) = IF es[n].binds[x].region # "none" THEN es[n].binds[x]
                               ELSE Known(es, n - 1, x)
  <2> DEFINE p == SubSeq(es, 1, n)
             q == SubSeq(es, 1, n - 1)
             H == Regions!Holders(p, x)
             T == CHOOSE i \in H : \A j \in H : j <= i
  <2>1. Len(p) = n /\ \A i \in 1 .. n : p[i] = es[i]
    BY Prefix DEF Chains
  <2>2. n - 1 \in 0 .. Len(es) /\ Len(q) = n - 1 /\ \A i \in 1 .. n - 1 : q[i] = es[i]
    <3>1. n - 1 \in 0 .. Len(es)
      OBVIOUS
    <3> QED BY <3>1, Prefix DEF Chains
  <2>3. H = {i \in 1 .. n : es[i].binds[x].region # "none"}
    BY <2>1 DEF Regions!Holders
  <2>4. Regions!Holders(q, x) = {i \in 1 .. n - 1 : es[i].binds[x].region # "none"}
    BY <2>2 DEF Regions!Holders
  <2>5. CASE es[n].binds[x].region # "none"
    <3>1. n \in H /\ \A j \in H : j <= n
      BY <2>3, <2>5
    <3>2. T = n
      <4>1. \A i \in H : (\A j \in H : j <= i) => i = n
        <5>1. ASSUME NEW i \in H, \A j \in H : j <= i PROVE i = n
          <6>1. n <= i /\ i \in 1 .. n
            BY <2>3, <3>1, <5>1
          <6> QED BY <6>1
        <5> QED BY <5>1
      <4> HIDE DEF H
      <4> QED BY <3>1, <4>1
    <3>3. H # {}
      BY <3>1
    <3>4. Known(es, n, x) = p[T].binds[x]
      BY <3>3 DEF Known, Regions!Get, Regions!Has
    <3> HIDE DEF p, H, T
    <3> QED BY <2>1, <2>5, <3>2, <3>4
  <2>6. CASE es[n].binds[x].region = "none"
    <3>1. H = Regions!Holders(q, x)
      <4>1. \A i \in 1 .. n : es[i].binds[x].region # "none" => i \in 1 .. n - 1
        BY <2>6
      <4>2. \A i \in 1 .. n - 1 : i \in 1 .. n
        OBVIOUS
      <4> HIDE DEF H, p, q
      <4> QED BY <2>3, <2>4, <4>1, <4>2
    <3>2. \A i \in H : p[i] = q[i]
      BY <2>1, <2>2, <2>4, <3>1
    <3>3. CASE H = {}
      BY <2>6, <3>1, <3>3 DEF Known, Regions!Get, Regions!Has
    <3>4. CASE H # {}
      <4>1. n \in Nat /\ H \in SUBSET (0 .. n)
        BY <2>3
      <4>2. \E i \in H : \A j \in H : j <= i
        <5> HIDE DEF H
        <5> QED BY ONLY <4>1, <3>4, Largest
      <4>3. T \in H
        <5> HIDE DEF H
        <5> QED BY <4>2
      <4>4. Known(es, n, x) = p[T].binds[x]
        BY <3>4 DEF Known, Regions!Get, Regions!Has
      <4>5. Known(es, n - 1, x) = q[T].binds[x]
        BY <3>1, <3>4 DEF Known, Regions!Get, Regions!Has
      <4> HIDE DEF p, q, H, T
      <4> QED BY <2>6, <3>2, <4>3, <4>4, <4>5
    <3> QED BY <3>3, <3>4
  <2> QED BY <2>5, <2>6
<1>3. Known(es, Len(es), x) = Regions!Get(es, x)
  <2>1. SubSeq(es, 1, Len(es)) = es
    BY Prefix DEF Chains
  <2> QED BY <2>1 DEF Known
<1> QED BY <1>1, <1>2, <1>3

LEMMA InfoType ==
  ASSUME NEW es \in Chains, NEW x \in Names, NEW n \in 0 .. Len(es)
  PROVE  Known(es, n, x) \in Regions!Info /\ Regions!Get(es, x) \in Regions!Info
<1>1. \A i \in 1 .. Len(es) : es[i].binds[x] \in Regions!Info
  <2>1. \A i \in 1 .. Len(es) : es[i] \in Regions!Env
    BY DEF Chains
  <2>2. \A i \in 1 .. Len(es) : es[i].binds \in [Names -> Regions!Info]
    BY <2>1 DEF Regions!Env
  <2> QED BY <2>2
<1>2. Regions!Unbound \in Regions!Info
  BY DEF Regions!Unbound, Regions!Info, Regions!Region
<1>3. ASSUME NEW p \in Chains, \A i \in 1 .. Len(p) : p[i].binds[x] \in Regions!Info
      PROVE  Regions!Get(p, x) \in Regions!Info
  <2> DEFINE H == Regions!Holders(p, x)
  <2>1. CASE H = {}
    BY <1>2, <2>1 DEF Regions!Get, Regions!Has
  <2>2. CASE H # {}
    <3>1. H \in SUBSET (0 .. Len(p)) /\ Len(p) \in Nat /\ H \subseteq 1 .. Len(p)
      BY DEF Regions!Holders, Chains
    <3>2. \E i \in H : \A j \in H : j <= i
      <4> HIDE DEF H
      <4> QED BY ONLY <3>1, <2>2, Largest
    <3>3. (CHOOSE i \in H : \A j \in H : j <= i) \in H
      <4> HIDE DEF H
      <4> QED BY <3>2
    <3>4. Regions!Get(p, x) = p[CHOOSE i \in H : \A j \in H : j <= i].binds[x]
      BY <2>2 DEF Regions!Get, Regions!Has
    <3> HIDE DEF H
    <3> QED BY <1>3, <3>1, <3>3, <3>4
  <2> QED BY <2>1, <2>2
<1>4. SubSeq(es, 1, n) \in Chains /\ \A i \in 1 .. Len(SubSeq(es, 1, n)) : SubSeq(es, 1, n)[i].binds[x] \in Regions!Info
  <2>1. /\ SubSeq(es, 1, n) \in Chains /\ Len(SubSeq(es, 1, n)) = n
        /\ \A i \in 1 .. n : SubSeq(es, 1, n)[i] = es[i]
    BY Prefix DEF Chains
  <2> QED BY <1>1, <2>1
<1> QED BY <1>1, <1>3, <1>4 DEF Known

\* The recorder of the first n environments is the last branch among them.
IsRecorder(es, n, r) ==
  /\ r \in 0 .. n
  /\ r # 0 => Branch(es[r])
  /\ \A j \in r + 1 .. n : ~ Branch(es[j])

LEMMA TheRecorder ==
  ASSUME NEW es \in Chains, NEW n \in 0 .. Len(es)
  PROVE  /\ IsRecorder(es, n, Regions!Recorder(SubSeq(es, 1, n)))
         /\ \A r : IsRecorder(es, n, r) => r = Regions!Recorder(SubSeq(es, 1, n))
<1> DEFINE p == SubSeq(es, 1, n)
           B == Regions!Branches(p)
           T == CHOOSE i \in B : \A j \in B : j <= i
<1>1. Len(p) = n /\ \A i \in 1 .. n : p[i] = es[i]
  BY Prefix DEF Chains
<1>2. B = {i \in 1 .. n : Branch(es[i])}
  BY <1>1 DEF Regions!Branches, Branch
<1>3. IsRecorder(es, n, Regions!Recorder(p))
  <2>1. CASE B = {}
    <3>1. Regions!Recorder(p) = 0
      BY <2>1 DEF Regions!Recorder
    <3>2. \A j \in 1 .. n : ~ Branch(es[j])
      BY <1>2, <2>1
    <3> HIDE DEF p
    <3> QED BY <3>1, <3>2 DEF IsRecorder
  <2>2. CASE B # {}
    <3>1. n \in Nat /\ B \in SUBSET (0 .. n)
      BY <1>2
    <3>2. \E i \in B : \A j \in B : j <= i
      <4> HIDE DEF B
      <4> QED BY ONLY <3>1, <2>2, Largest
    <3>3. T \in B /\ \A j \in B : j <= T
      <4> HIDE DEF B
      <4> QED BY <3>2
    <3>4. Regions!Recorder(p) = T
      BY <2>2 DEF Regions!Recorder
    <3> HIDE DEF T
    <3>5. T \in 1 .. n /\ Branch(es[T])
      BY <1>2, <3>3
    <3>6. ASSUME NEW j \in T + 1 .. n PROVE ~ Branch(es[j])
      <4>1. j \in 1 .. n /\ ~ (j <= T)
        BY <3>5
      <4>2. ~ (j \in B)
        BY <3>3, <4>1
      <4> HIDE DEF B
      <4> QED BY <1>2, <4>1, <4>2
    <3> HIDE DEF p, B
    <3> QED BY <3>4, <3>5, <3>6 DEF IsRecorder
  <2> QED BY <2>1, <2>2
<1> HIDE DEF p, B, T
<1>4. ASSUME NEW r, IsRecorder(es, n, r), NEW q, IsRecorder(es, n, q) PROVE r = q
  <2>1. r \in 0 .. n /\ q \in 0 .. n
    BY <1>4 DEF IsRecorder
  <2>2. ~ (r < q)
    <3>1. ASSUME r < q PROVE FALSE
      <4>1. q \in r + 1 .. n /\ q # 0
        BY <2>1, <3>1
      <4> QED BY <1>4, <4>1 DEF IsRecorder
    <3> QED BY <3>1
  <2>3. ~ (q < r)
    <3>1. ASSUME q < r PROVE FALSE
      <4>1. r \in q + 1 .. n /\ r # 0
        BY <2>1, <3>1
      <4> QED BY <1>4, <4>1 DEF IsRecorder
    <3> QED BY <3>1
  <2> QED BY <2>1, <2>2, <2>3
<1> QED BY <1>3, <1>4 DEF p

\* What the steps of the walk do to a chain.
LEMMA Defined ==
  ASSUME NEW es \in Chains, Len(es) > 0, NEW x \in Names, NEW info \in Regions!Info
  PROVE  LET new == Regions!Define(es, x, info)
         IN  /\ new \in Chains /\ Len(new) = Len(es)
             /\ \A i \in 1 .. Len(es) :
                  /\ new[i].opening = es[i].opening /\ new[i].scrutinee = es[i].scrutinee
                  /\ new[i].moved = es[i].moved /\ new[i].earlier = es[i].earlier
                  /\ i # Len(es) => new[i].binds = es[i].binds
             /\ \A y \in Names : new[Len(es)].binds[y] = IF y = x THEN info ELSE es[Len(es)].binds[y]
<1> DEFINE n == Len(es)
           env == [es[n] EXCEPT !.binds = [@ EXCEPT ![x] = info]]
           new == [es EXCEPT ![n] = env]
<1>1. n \in 1 .. Len(es) /\ es[n] \in Regions!Env /\ es \in Seq(Regions!Env)
  BY DEF Chains
<1>2. Regions!Define(es, x, info) = new
  BY DEF Regions!Define
<1>3. env \in Regions!Env
  <2>1. es[n].binds \in [Names -> Regions!Info]
    BY <1>1 DEF Regions!Env
  <2>2. [es[n].binds EXCEPT ![x] = info] \in [Names -> Regions!Info]
    BY <2>1
  <2> HIDE DEF n
  <2> QED BY <1>1, <2>2 DEF Regions!Env
<1>4. /\ env.opening = es[n].opening /\ env.scrutinee = es[n].scrutinee
      /\ env.moved = es[n].moved /\ env.earlier = es[n].earlier
      /\ \A y \in Names : env.binds[y] = IF y = x THEN info ELSE es[n].binds[y]
  BY <1>1 DEF Regions!Env
<1> HIDE DEF env
<1>5. new \in Seq(Regions!Env) /\ Len(new) = Len(es)
      /\ \A i \in 1 .. Len(es) : new[i] = IF i = n THEN env ELSE es[i]
  BY <1>1, <1>3
<1> HIDE DEF new
<1> QED BY <1>1, <1>2, <1>4, <1>5 DEF Chains

LEMMA Marked ==
  ASSUME NEW es \in Chains, Len(es) > 0, NEW S \in SUBSET Names
  PROVE  LET new == Regions!MarkMoved(es, S)
         IN  /\ new \in Chains /\ Len(new) = Len(es)
             /\ \A i \in 1 .. Len(es) :
                  /\ new[i].opening = es[i].opening /\ new[i].scrutinee = es[i].scrutinee
                  /\ new[i].earlier = es[i].earlier
                  /\ es[i].moved \subseteq new[i].moved
                  /\ i = Regions!Recorder(es) => S \subseteq new[i].moved
                  /\ i # Len(es) => new[i].binds = es[i].binds
             /\ \A y \in S : /\ new[Len(es)].binds[y].region = Regions!Get(es, y).region
                             /\ new[Len(es)].binds[y].moved
             /\ \A y \in Names \ S : new[Len(es)].binds[y] = es[Len(es)].binds[y]
<1> DEFINE n == Len(es)
           new == Regions!MarkMoved(es, S)
           binds(i) == [x \in Names |-> IF i = n /\ x \in S THEN [Regions!Get(es, x) EXCEPT !.moved = TRUE]
                                        ELSE es[i].binds[x]]
           moved(i) == IF i = Regions!Recorder(es) THEN es[i].moved \cup S ELSE es[i].moved
           env(i) == [es[i] EXCEPT !.binds = binds(i), !.moved = moved(i)]
<1>1. n \in 1 .. Len(es) /\ es \in Seq(Regions!Env) /\ \A i \in 1 .. n : es[i] \in Regions!Env
  BY DEF Chains
<1>2. \A x \in Names : Regions!Get(es, x) \in Regions!Info
  <2>1. Len(es) \in 0 .. Len(es)
    OBVIOUS
  <2> QED BY <2>1, InfoType
<1>3. new = [i \in 1 .. n |-> env(i)]
  BY DEF Regions!MarkMoved
<1>4. ASSUME NEW i \in 1 .. n
      PROVE  /\ env(i) \in Regions!Env
             /\ env(i).opening = es[i].opening /\ env(i).scrutinee = es[i].scrutinee
             /\ env(i).earlier = es[i].earlier
             /\ env(i).moved = moved(i)
             /\ env(i).binds = binds(i)
  <2>1. es[i] \in Regions!Env
    BY <1>1
  <2>2. es[i].binds \in [Names -> Regions!Info] /\ es[i].moved \in SUBSET Names
    BY <2>1 DEF Regions!Env
  <2>3. binds(i) \in [Names -> Regions!Info]
    BY <1>2, <2>2 DEF Regions!Info
  <2>4. moved(i) \in SUBSET Names
    BY <2>2
  <2> HIDE DEF binds, moved
  <2> QED BY <2>1, <2>3, <2>4 DEF Regions!Env
<1>5. new \in Seq(Regions!Env) /\ Len(new) = n /\ \A i \in 1 .. n : new[i] = env(i)
  <2>1. n \in Nat
    BY <1>1
  <2> HIDE DEF env, new, binds, moved, n
  <2>2. \A i \in 1 .. n : env(i) \in Regions!Env
    BY <1>4
  <2> QED BY <1>3, <2>1, <2>2
<1>6. \A i \in 1 .. n : i # n => env(i).binds = es[i].binds
  <2>1. \A i \in 1 .. n : es[i].binds \in [Names -> Regions!Info]
    BY <1>1 DEF Regions!Env
  <2>2. ASSUME NEW i \in 1 .. n, i # n PROVE binds(i) = es[i].binds
    <3>1. binds(i) = [x \in Names |-> es[i].binds[x]]
      BY <2>2
    <3> QED BY <2>1, <3>1
  <2> HIDE DEF binds, env
  <2> QED BY <1>4, <2>2
<1>7. \A y \in Names : binds(n)[y] = IF y \in S THEN [Regions!Get(es, y) EXCEPT !.moved = TRUE]
                                     ELSE es[n].binds[y]
  OBVIOUS
<1>8. \A i \in 1 .. n : es[i].moved \subseteq moved(i) /\ (i = Regions!Recorder(es) => S \subseteq moved(i))
  OBVIOUS
<1> HIDE DEF env, binds, moved, new
<1>9. \A i \in 1 .. n : /\ new[i].opening = es[i].opening /\ new[i].scrutinee = es[i].scrutinee
                        /\ new[i].earlier = es[i].earlier
                        /\ es[i].moved \subseteq new[i].moved
                        /\ i = Regions!Recorder(es) => S \subseteq new[i].moved
                        /\ i # n => new[i].binds = es[i].binds
  BY <1>4, <1>5, <1>6, <1>8
<1>10. \A y \in Names : new[n].binds[y] = IF y \in S THEN [Regions!Get(es, y) EXCEPT !.moved = TRUE]
                                          ELSE es[n].binds[y]
  BY <1>1, <1>4, <1>5, <1>7
<1>12. \A y \in S : new[n].binds[y].region = Regions!Get(es, y).region /\ new[n].binds[y].moved
  BY <1>2, <1>10 DEF Regions!Info
<1>13. \A y \in Names \ S : new[n].binds[y] = es[n].binds[y]
  BY <1>10
<1>11. new \in Chains
  BY <1>5 DEF Chains
<1> QED BY <1>5, <1>9, <1>11, <1>12, <1>13 DEF new

LEMMA Appended ==
  ASSUME NEW es \in Chains, NEW env \in Regions!Env
  PROVE  /\ Append(es, env) \in Chains /\ Len(Append(es, env)) = Len(es) + 1
         /\ \A i \in 1 .. Len(es) : Append(es, env)[i] = es[i]
         /\ Append(es, env)[Len(es) + 1] = env
BY DEF Chains

LEMMA WithoutTop ==
  ASSUME NEW es \in Chains, Len(es) > 0
  PROVE  /\ Regions!Outer(es) \in Chains /\ Len(Regions!Outer(es)) = Len(es) - 1
         /\ \A i \in 1 .. Len(es) - 1 : Regions!Outer(es)[i] = es[i]
         /\ Regions!Top(es) = es[Len(es)] /\ Regions!Top(es) \in Regions!Env
         /\ Regions!Top(es).moved \in SUBSET Names /\ Regions!Top(es).earlier \in SUBSET Names
         /\ Regions!Top(es).scrutinee \in Regions!Region
<1>1. Len(es) - 1 \in 0 .. Len(es) /\ Len(es) \in 1 .. Len(es)
  BY DEF Chains
<1>2. es[Len(es)] \in Regions!Env
  BY <1>1 DEF Chains
<1>3. es[Len(es)].moved \in SUBSET Names /\ es[Len(es)].earlier \in SUBSET Names
      /\ es[Len(es)].scrutinee \in Regions!Region
  BY <1>2 DEF Regions!Env
<1> QED BY <1>1, <1>2, <1>3, Prefix DEF Chains, Regions!Outer, Regions!Top

LEMMA NewEnvs ==
  /\ \A o \in {"function", "if", "match", "loop", "block"}, r \in Region :
       /\ Regions!EnvOf(o, r) \in Regions!Env
       /\ Regions!EnvOf(o, r).opening = o
       /\ Regions!EnvOf(o, r).scrutinee = r
       /\ Regions!EnvOf(o, r).moved = {}
       /\ Regions!EnvOf(o, r).earlier = {}
       /\ \A x \in Names : Regions!EnvOf(o, r).binds[x] = Regions!Unbound
  /\ \A moved \in SUBSET Names :
       LET else == [Regions!EnvOf("if", "none") EXCEPT !.earlier = moved]
       IN  /\ else \in Regions!Env /\ else.opening = "if" /\ else.scrutinee = "none"
           /\ else.moved = {} /\ else.earlier = moved
           /\ \A x \in Names : else.binds[x] = Regions!Unbound
  /\ \A region \in Region : \A name :
       LET arm == Regions!ArmEnv(region, name)
       IN  /\ arm \in Regions!Env /\ arm.opening = "match" /\ arm.scrutinee = region
           /\ arm.moved = {} /\ arm.earlier = {}
           /\ \A x \in Names : arm.binds[x] = IF x = name THEN Regions!Binding(region)
                                              ELSE Regions!Unbound
<1>1. Regions!Unbound \in Regions!Info /\ "none" \in Region
      /\ \A region \in Region : Regions!Binding(region) \in Regions!Info
  BY DEF Regions!Unbound, Regions!Binding, Regions!Info, Regions!Region, Region
<1>2. Regions!Region = Region
  BY DEF Regions!Region, Region
<1>3. \A o \in {"function", "if", "match", "loop", "block"}, r \in Region :
        /\ Regions!EnvOf(o, r) \in Regions!Env
        /\ Regions!EnvOf(o, r).opening = o
        /\ Regions!EnvOf(o, r).scrutinee = r
        /\ Regions!EnvOf(o, r).moved = {}
        /\ Regions!EnvOf(o, r).earlier = {}
        /\ \A x \in Names : Regions!EnvOf(o, r).binds[x] = Regions!Unbound
  BY <1>1, <1>2 DEF Regions!EnvOf, Regions!Env
<1>4. ASSUME NEW moved \in SUBSET Names
      PROVE
      LET else == [Regions!EnvOf("if", "none") EXCEPT !.earlier = moved]
      IN  /\ else \in Regions!Env /\ else.opening = "if" /\ else.scrutinee = "none"
          /\ else.moved = {} /\ else.earlier = moved
          /\ \A x \in Names : else.binds[x] = Regions!Unbound
  BY <1>1, <1>2, <1>3 DEF Regions!Env
<1>5. ASSUME NEW region \in Region, NEW name
      PROVE
      LET arm == Regions!ArmEnv(region, name)
      IN  /\ arm \in Regions!Env /\ arm.opening = "match" /\ arm.scrutinee = region
          /\ arm.moved = {} /\ arm.earlier = {}
          /\ \A x \in Names : arm.binds[x] = IF x = name THEN Regions!Binding(region)
                                             ELSE Regions!Unbound
  <2> DEFINE bs == [x \in Names |-> IF x = name THEN Regions!Binding(region) ELSE Regions!Unbound]
  <2>1. bs \in [Names -> Regions!Info]
    BY <1>1
  <2>2. \A x \in Names : bs[x] = IF x = name THEN Regions!Binding(region) ELSE Regions!Unbound
    OBVIOUS
  <2>3. Regions!ArmEnv(region, name) = [Regions!EnvOf("match", region) EXCEPT !.binds = bs]
    BY DEF Regions!ArmEnv
  <2> HIDE DEF bs
  <2>4. Regions!EnvOf("match", region) \in Regions!Env
        /\ Regions!EnvOf("match", region).opening = "match"
        /\ Regions!EnvOf("match", region).scrutinee = region
        /\ Regions!EnvOf("match", region).moved = {}
        /\ Regions!EnvOf("match", region).earlier = {}
    BY <1>3
  <2> DEFINE env == Regions!EnvOf("match", region)
  <2> HIDE DEF env
  <2>5. /\ [env EXCEPT !.binds = bs] \in Regions!Env
        /\ [env EXCEPT !.binds = bs].opening = "match" /\ [env EXCEPT !.binds = bs].scrutinee = region
        /\ [env EXCEPT !.binds = bs].moved = {} /\ [env EXCEPT !.binds = bs].earlier = {}
        /\ [env EXCEPT !.binds = bs].binds = bs
    BY ONLY <2>1, <2>4 DEF env, Regions!Env
  <2> QED BY <2>2, <2>3, <2>5 DEF env
<1> QED BY ONLY <1>3, <1>4, <1>5

\* A new environment knows of no move.
LEMMA NewEnvsKnowNoMove ==
  /\ \A opening \in {"function", "if", "match", "loop", "block"} :
       /\ Regions!EnvOf(opening, "none") \in Regions!Env
       /\ \A y \in Names : ~ Regions!EnvOf(opening, "none").binds[y].moved
  /\ \A moved \in SUBSET Names :
       /\ [Regions!EnvOf("if", "none") EXCEPT !.earlier = moved] \in Regions!Env
       /\ \A y \in Names : ~ [Regions!EnvOf("if", "none") EXCEPT !.earlier = moved].binds[y].moved
  /\ \A region \in Region : \A name :
       /\ Regions!ArmEnv(region, name) \in Regions!Env
       /\ \A y \in Names : ~ Regions!ArmEnv(region, name).binds[y].moved
<1>0. /\ "none" \in Region /\ {} \in SUBSET Names /\ "if" \in {"function", "if", "match", "loop", "block"}
      /\ ~ Regions!Unbound.moved /\ \A region : ~ Regions!Binding(region).moved
  BY DEF Region, Regions!Unbound, Regions!Binding
<1>1. \A opening \in {"function", "if", "match", "loop", "block"} :
        /\ Regions!EnvOf(opening, "none") \in Regions!Env
        /\ \A y \in Names : Regions!EnvOf(opening, "none").binds[y] = Regions!Unbound
  BY <1>0, NewEnvs
<1>2. \A moved \in SUBSET Names :
        /\ [Regions!EnvOf("if", "none") EXCEPT !.earlier = moved] \in Regions!Env
        /\ \A y \in Names : [Regions!EnvOf("if", "none") EXCEPT !.earlier = moved].binds[y] = Regions!Unbound
  BY NewEnvs
<1>3. \A region \in Region : \A name :
        /\ Regions!ArmEnv(region, name) \in Regions!Env
        /\ \A y \in Names : Regions!ArmEnv(region, name).binds[y]
                               = IF y = name THEN Regions!Binding(region) ELSE Regions!Unbound
  BY NewEnvs
<1>4. \A region \in Region : \A name : \A y \in Names : ~ Regions!ArmEnv(region, name).binds[y].moved
  BY <1>0, <1>3
<1>5. \A region \in Region : \A name :
        /\ Regions!ArmEnv(region, name) \in Regions!Env
        /\ \A y \in Names : ~ Regions!ArmEnv(region, name).binds[y].moved
  BY <1>3, <1>4
<1>6. \A opening \in {"function", "if", "match", "loop", "block"} :
        /\ Regions!EnvOf(opening, "none") \in Regions!Env
        /\ \A y \in Names : ~ Regions!EnvOf(opening, "none").binds[y].moved
  BY <1>0, <1>1
<1>7. \A moved \in SUBSET Names :
        /\ [Regions!EnvOf("if", "none") EXCEPT !.earlier = moved] \in Regions!Env
        /\ \A y \in Names : ~ [Regions!EnvOf("if", "none") EXCEPT !.earlier = moved].binds[y].moved
  BY <1>0, <1>2
<1> QED BY ONLY <1>5, <1>6, <1>7
-----------------------------------------------------------------------------
(***************************************************************************)
(* Every move that an environment knows of is with its recorder.           *)
(***************************************************************************)
Recorded(es) ==
  \A i \in 1 .. Len(es) : \A x \in Names :
    LET recorder == Regions!Recorder(SubSeq(es, 1, i))
    IN  es[i].binds[x].moved /\ recorder # 0 => x \in es[recorder].moved

LEMMA RecorderSame ==
  ASSUME NEW es \in Chains, NEW fs \in Chains, NEW n \in 0 .. Len(es), n <= Len(fs),
         \A i \in 1 .. n : es[i].opening = fs[i].opening
  PROVE  Regions!Recorder(SubSeq(es, 1, n)) = Regions!Recorder(SubSeq(fs, 1, n))
<1> DEFINE r == Regions!Recorder(SubSeq(es, 1, n))
<1>1. IsRecorder(es, n, r)
  BY TheRecorder
<1>2. n \in 0 .. Len(fs)
  OBVIOUS
<1>3. IsRecorder(fs, n, r)
  <2> HIDE DEF r
  <2> QED BY <1>1 DEF IsRecorder, Branch
<1> HIDE DEF r
<1> QED BY <1>2, <1>3, TheRecorder DEF r

LEMMA RecordedPrefix ==
  ASSUME NEW es \in Chains, NEW fs \in Chains, Len(fs) > 0, Len(es) >= Len(fs) - 1,
         Recorded(SubSeq(es, 1, Len(fs) - 1)),
         \A i \in 1 .. Len(fs) - 1 : /\ es[i].opening = fs[i].opening /\ es[i].binds = fs[i].binds
                                     /\ es[i].moved \subseteq fs[i].moved,
         \A x \in Names : LET recorder == Regions!Recorder(fs)
                          IN  fs[Len(fs)].binds[x].moved /\ recorder # 0 => x \in fs[recorder].moved
  PROVE  Recorded(fs)
<1> DEFINE n == Len(fs)
           p == SubSeq(es, 1, n - 1)
<1>1. n \in Nat /\ n - 1 \in 0 .. Len(es) /\ n \in 0 .. n /\ SubSeq(fs, 1, n) = fs /\ Len(es) \in Nat
  BY Prefix DEF Chains
<1>2. /\ Len(p) = n - 1
      /\ \A i \in 1 .. n - 1 : p[i] = es[i] /\ SubSeq(p, 1, i) = SubSeq(es, 1, i)
  <2>1. \A i \in 1 .. n - 1 : i \in 0 .. n - 1
    OBVIOUS
  <2> QED BY <1>1, <2>1, Prefix DEF Chains
<1>3. ASSUME NEW i \in 1 .. n, NEW x \in Names, fs[i].binds[x].moved,
             Regions!Recorder(SubSeq(fs, 1, i)) # 0
      PROVE  x \in fs[Regions!Recorder(SubSeq(fs, 1, i))].moved
  <2>1. CASE i = n
    BY <1>1, <1>3, <2>1
  <2>2. CASE i # n
    <3>1. i \in 1 .. n - 1 /\ i \in 0 .. Len(es) /\ i <= Len(fs)
      <4>1. n = Len(fs)
        OBVIOUS
      <4>2. i \in 1 .. n /\ n \in Nat /\ n - 1 \in 0 .. Len(es) /\ Len(es) \in Nat
        BY <1>1
      <4> HIDE DEF n, p
      <4> QED BY ONLY <2>2, <4>1, <4>2
    <3>2. \A j \in 1 .. i : es[j].opening = fs[j].opening
      BY <3>1
    <3>3. Regions!Recorder(SubSeq(es, 1, i)) = Regions!Recorder(SubSeq(fs, 1, i))
      BY <3>1, <3>2, RecorderSame
    <3>4. Regions!Recorder(SubSeq(es, 1, i)) \in 0 .. i
      BY <3>1, TheRecorder DEF IsRecorder
    <3> DEFINE r == Regions!Recorder(SubSeq(es, 1, i))
    <3>5. r \in 1 .. n - 1 /\ r # 0 /\ p[r] = es[r] /\ es[r].moved \subseteq fs[r].moved
      BY <1>1, <1>2, <1>3, <3>1, <3>3, <3>4
    <3>6. p[i].binds[x].moved /\ Regions!Recorder(SubSeq(p, 1, i)) = r /\ i \in 1 .. Len(p)
      BY <1>2, <1>3, <3>1
    <3>7. x \in p[r].moved
      <4> HIDE DEF p, r
      <4>1. Recorded(p)
        BY DEF p
      <4> QED BY <3>5, <3>6, <4>1 DEF Recorded
    <3> HIDE DEF p, r
    <3>8. r = Regions!Recorder(SubSeq(fs, 1, i))
      BY <3>3 DEF r
    <3> QED BY <3>5, <3>7, <3>8
  <2> QED BY <2>1, <2>2
<1> QED BY <1>3 DEF Recorded

LEMMA RecordedCut ==
  ASSUME NEW es \in Chains, NEW n \in 0 .. Len(es), Recorded(es)
  PROVE  Recorded(SubSeq(es, 1, n))
<1> DEFINE p == SubSeq(es, 1, n)
<1>1. /\ Len(p) = n
      /\ \A i \in 1 .. n : p[i] = es[i] /\ SubSeq(p, 1, i) = SubSeq(es, 1, i)
  <2>1. \A i \in 1 .. n : i \in 0 .. n
    OBVIOUS
  <2> QED BY <2>1, Prefix DEF Chains
<1>2. ASSUME NEW i \in 1 .. n, NEW x \in Names, p[i].binds[x].moved,
             Regions!Recorder(SubSeq(p, 1, i)) # 0
      PROVE  x \in p[Regions!Recorder(SubSeq(p, 1, i))].moved
  <2> DEFINE r == Regions!Recorder(SubSeq(es, 1, i))
  <2>1. r = Regions!Recorder(SubSeq(p, 1, i)) /\ i \in 1 .. Len(es) /\ i \in 0 .. Len(es)
    <3>1. i \in Int /\ 1 <= i /\ i <= n /\ n <= Len(es) /\ Len(es) \in Nat
      BY DEF Chains
    <3>2. SubSeq(p, 1, i) = SubSeq(es, 1, i)
      BY <1>1
    <3>3. i \in 1 .. Len(es) /\ i \in 0 .. Len(es)
      BY ONLY <3>1
    <3> QED BY <3>2, <3>3
  <2>2. r \in 0 .. i
    BY <2>1, TheRecorder DEF IsRecorder
  <2>3. es[i].binds[x].moved /\ r # 0
    BY <1>1, <1>2, <2>1
  <2>4. x \in es[r].moved
    BY <2>1, <2>3 DEF Recorded
  <2>5. r \in 1 .. n
    BY <2>2, <2>3
  <2> HIDE DEF r, p
  <2> QED BY <1>1, <2>1, <2>4, <2>5
<1> HIDE DEF p
<1> QED BY <1>1, <1>2 DEF Recorded, p

\* A change of the innermost environment.
LEMMA RecordedChange ==
  ASSUME NEW es \in Chains, Len(es) > 0, Recorded(es),
         NEW new \in Chains, Len(new) = Len(es),
         \A i \in 1 .. Len(es) : /\ new[i].opening = es[i].opening
                                 /\ es[i].moved \subseteq new[i].moved
                                 /\ i # Len(es) => new[i].binds = es[i].binds,
         \A y \in Names : new[Len(es)].binds[y].moved /\ Regions!Recorder(es) # 0 =>
                            es[Len(es)].binds[y].moved \/ y \in new[Regions!Recorder(es)].moved
  PROVE  Recorded(new)
<1>0. Len(es) \in Nat /\ Len(es) - 1 \in 0 .. Len(es) /\ Len(es) \in 0 .. Len(es)
      /\ SubSeq(es, 1, Len(es)) = es
  BY Prefix DEF Chains
<1>1. Recorded(SubSeq(es, 1, Len(es) - 1)) /\ Recorded(SubSeq(es, 1, Len(es)))
  BY <1>0, RecordedCut
<1>3. IsRecorder(es, Len(es), Regions!Recorder(es))
  BY <1>0, TheRecorder
<1>4. \A y \in Names : es[Len(es)].binds[y].moved /\ Regions!Recorder(es) # 0
                         => y \in es[Regions!Recorder(es)].moved
  <2>1. Len(es) \in 1 .. Len(es)
    BY <1>0
  <2> QED BY <1>0, <2>1 DEF Recorded
<1>11. Regions!Recorder(new) = Regions!Recorder(es)
  <2>1. SubSeq(new, 1, Len(es)) = new
    <3>1. new \in Chains /\ Len(new) = Len(es)
      OBVIOUS
    <3>2. Len(new) \in 0 .. Len(new)
      BY ONLY <1>0, <3>1
    <3>3. SubSeq(new, 1, Len(new)) = new
      BY ONLY <3>1, <3>2, Prefix DEF Chains
    <3> QED BY <3>1, <3>3
  <2>2. \A i \in 1 .. Len(es) : es[i].opening = new[i].opening
    OBVIOUS
  <2>3. Len(es) <= Len(new)
    <3>1. Len(new) = Len(es) /\ Len(es) \in Nat
      BY <1>0
    <3> QED BY ONLY <3>1
  <2>4. Regions!Recorder(SubSeq(es, 1, Len(es))) = Regions!Recorder(SubSeq(new, 1, Len(es)))
    BY <1>0, <2>2, <2>3, RecorderSame
  <2> QED BY <1>0, <2>1, <2>4
<1>12. Regions!Recorder(es) # 0 => Regions!Recorder(es) \in 1 .. Len(es)
  BY <1>3 DEF IsRecorder
<1>13. \A y \in Names : new[Len(new)].binds[y].moved /\ Regions!Recorder(new) # 0
                         => y \in new[Regions!Recorder(new)].moved
  BY <1>4, <1>11, <1>12
<1>14. \A i \in 1 .. Len(new) - 1 : /\ es[i].opening = new[i].opening /\ es[i].binds = new[i].binds
                                   /\ es[i].moved \subseteq new[i].moved
  <2>2. Len(new) = Len(es)
    OBVIOUS
  <2>3. Len(es) \in Nat
    BY <1>0
  <2>4. \A i \in 1 .. Len(es) - 1 : i \in 1 .. Len(es) /\ i # Len(es)
    BY ONLY <2>3
  <2>1. \A i \in 1 .. Len(new) - 1 : i \in 1 .. Len(es) /\ i # Len(es)
    BY ONLY <2>2, <2>4
  <2> QED BY <2>1
<1>15. Len(new) > 0 /\ Len(es) >= Len(new) - 1 /\ Len(new) - 1 = Len(es) - 1
  <2>1. Len(new) = Len(es) /\ Len(es) > 0
    OBVIOUS
  <2> QED BY ONLY <1>0, <2>1
<1> QED BY <1>1, <1>13, <1>14, <1>15, RecordedPrefix

LEMMA DefineRecords ==
  ASSUME NEW es \in Chains, Len(es) > 0, Recorded(es),
         NEW x \in Names, NEW info \in Regions!Info, ~ info.moved
  PROVE  Recorded(Regions!Define(es, x, info))
<1> DEFINE new == Regions!Define(es, x, info)
<1>11. /\ new \in Chains /\ Len(new) = Len(es)
      /\ \A i \in 1 .. Len(es) : /\ new[i].opening = es[i].opening
                                 /\ new[i].moved = es[i].moved
                                 /\ i # Len(es) => new[i].binds = es[i].binds
      /\ \A y \in Names : new[Len(es)].binds[y] = IF y = x THEN info ELSE es[Len(es)].binds[y]
  BY Defined
<1>12. \A y \in Names : new[Len(es)].binds[y].moved => es[Len(es)].binds[y].moved
  BY <1>11
<1> HIDE DEF new
<1>13. Recorded(new)
  BY RecordedChange, <1>11, <1>12
<1> QED BY <1>13 DEF new

LEMMA MarkRecords ==
  ASSUME NEW es \in Chains, Len(es) > 0, Recorded(es), NEW S \in SUBSET Names
  PROVE  Recorded(Regions!MarkMoved(es, S))
<1>3. IsRecorder(es, Len(es), Regions!Recorder(es))
  <2>1. Len(es) \in 0 .. Len(es) /\ SubSeq(es, 1, Len(es)) = es
    BY Prefix DEF Chains
  <2> QED BY <2>1, TheRecorder
<1> DEFINE new == Regions!MarkMoved(es, S)
<1>11. /\ new \in Chains /\ Len(new) = Len(es)
      /\ \A i \in 1 .. Len(es) : /\ new[i].opening = es[i].opening
                                 /\ es[i].moved \subseteq new[i].moved
                                 /\ i = Regions!Recorder(es) => S \subseteq new[i].moved
                                 /\ i # Len(es) => new[i].binds = es[i].binds
  BY Marked
<1>14. \A y \in Names : y \notin S => new[Len(es)].binds[y] = es[Len(es)].binds[y]
  BY Marked
<1>12. Regions!Recorder(es) # 0 => Regions!Recorder(es) \in 1 .. Len(es)
  BY <1>3 DEF IsRecorder
<1> HIDE DEF new
<1>15. \A y \in Names : new[Len(es)].binds[y].moved /\ Regions!Recorder(es) # 0 =>
                          es[Len(es)].binds[y].moved \/ y \in new[Regions!Recorder(es)].moved
  BY <1>11, <1>12, <1>14
<1>13. Recorded(new)
  BY RecordedChange, <1>11, <1>15
<1> QED BY <1>13 DEF new

LEMMA AppendRecords ==
  ASSUME NEW es \in Chains, Len(es) > 0, Recorded(es),
         NEW env \in Regions!Env, \A y \in Names : ~ env.binds[y].moved
  PROVE  Recorded(Append(es, env))
<1>0. Len(es) \in Nat /\ Len(es) - 1 \in 0 .. Len(es) /\ Len(es) \in 0 .. Len(es)
      /\ SubSeq(es, 1, Len(es)) = es
  BY Prefix DEF Chains
<1>1. Recorded(SubSeq(es, 1, Len(es) - 1)) /\ Recorded(SubSeq(es, 1, Len(es)))
  BY <1>0, RecordedCut
<1> DEFINE new == Append(es, env)
<1>11. /\ new \in Chains /\ Len(new) = Len(es) + 1
      /\ \A i \in 1 .. Len(es) : new[i] = es[i]
      /\ new[Len(es) + 1] = env
  BY Appended
<1> HIDE DEF new
<1>12. Len(new) - 1 = Len(es) /\ Len(new) > 0
  BY <1>0, <1>11
<1>13. Recorded(SubSeq(es, 1, Len(new) - 1))
  BY <1>1, <1>12
<1>14. \A y \in Names : ~ new[Len(new)].binds[y].moved
  BY <1>11
<1>15. \A i \in 1 .. Len(new) - 1 : /\ es[i].opening = new[i].opening /\ es[i].binds = new[i].binds
                                   /\ es[i].moved \subseteq new[i].moved
  BY <1>11, <1>12
<1>17. Len(es) >= Len(new) - 1
  BY <1>0, <1>12
<1>16. Recorded(new)
  BY <1>11, <1>12, <1>13, <1>14, <1>15, <1>17, RecordedPrefix
<1> QED BY <1>16 DEF new

LEMMA OuterRecords ==
  ASSUME NEW es \in Chains, Len(es) > 0, Recorded(es)
  PROVE  Recorded(Regions!Outer(es))
<1>1. Len(es) - 1 \in 0 .. Len(es)
  BY DEF Chains
<1> QED BY <1>1, RecordedCut DEF Regions!Outer

-----------------------------------------------------------------------------
(***************************************************************************)
(* RegionChecker's walk is where the depth of the body says.               *)
(***************************************************************************)
Code == body.code
D(i) == Depth(Code, i)
Base == IF body.toplevel THEN 1 ELSE 2

BodyIsFormed == body \in BodyType /\ WellFormedBody(body)

CheckerType ==
  /\ BodyIsFormed
  /\ at \in 1 .. Len(Code) + 1
  /\ envs \in Chains /\ Len(envs) = Base + D(at)
  /\ verdict \in {"none", "accepted", "rejected"}
  /\ trace \in [1 .. Len(Code) -> Chains]

LEMMA BodyFacts ==
  ASSUME BodyIsFormed
  PROVE  /\ Code \in Seq(Token) /\ Balanced(Code) /\ Formed(Code) /\ Len(Code) \in Nat
         /\ Base \in {1, 2}
         /\ body.params \in [Names -> Region]
         /\ D(1) = 0
         /\ \A i \in 1 .. Len(Code) + 1 : D(i) \in Nat
         /\ \A i \in 1 .. Len(Code) :
              /\ Code[i] \in Token
              /\ Code[i].op \in Openings \cup Middles \cup Statements \cup {"end"}
              /\ Code[i].op \in Openings => D(i + 1) = D(i) + 1
              /\ Code[i].op = "end" => D(i + 1) = D(i) - 1 /\ D(i) > 0
              /\ Code[i].op \in Middles => D(i + 1) = D(i) /\ D(i) > 0
              /\ Code[i].op \in Statements => D(i + 1) = D(i)
              /\ Code[i].op \in {"fresh", "copy"} => Code[i].to \in Names
              /\ Code[i].to # NoName => Code[i].to \in Names
              /\ Code[i].to \in Names => Code[i].op \in {"fresh", "copy", "match", "arm"}
              /\ Code[i].of # NoName <=> Code[i].of \in Names
              /\ Code[i].of # NoName <=>
                   Code[i].op \in {"copy", "read", "give", "store", "give_field", "module_give",
                                   "capture", "return", "yield", "match"}
<1>1. /\ Code \in Seq(Token) /\ Balanced(Code) /\ Formed(Code) /\ Len(Code) \in Nat
      /\ Base \in {1, 2} /\ body.params \in [Names -> Region]
  BY DEF BodyIsFormed, BodyType, WellFormedBody, Code, Base
<1>2. D(1) = 0 /\ \A i \in 1 .. Len(Code) + 1 : D(i) \in Nat
  BY <1>1, Depths DEF D
<1>3. ASSUME NEW i \in 1 .. Len(Code)
      PROVE  /\ Code[i] \in Token
             /\ Code[i].op \in Openings \cup Middles \cup Statements \cup {"end"}
             /\ Code[i].op \in Openings => D(i + 1) = D(i) + 1
             /\ Code[i].op = "end" => D(i + 1) = D(i) - 1 /\ D(i) > 0
             /\ Code[i].op \in Middles => D(i + 1) = D(i) /\ D(i) > 0
             /\ Code[i].op \in Statements => D(i + 1) = D(i)
  <2>1. Code[i] \in Token
    BY <1>1
  <2>2. Code[i].op \in Openings \cup Middles \cup Statements \cup {"end"}
    BY <2>1 DEF Token
  <2>3. Code[i].op \in Middles \cup Statements => Code[i].op \notin Openings /\ Code[i].op # "end"
    BY DEF Openings, Middles, Statements
  <2>4. /\ Code[i].op \in Openings => D(i + 1) = D(i) + 1
        /\ Code[i].op = "end" => D(i + 1) = D(i) - 1 /\ D(i) > 0
        /\ Code[i].op \notin Openings /\ Code[i].op # "end" => D(i + 1) = D(i)
        /\ Code[i].op \in Middles => D(i) > 0
    BY <1>1, Depths DEF D
  <2> QED BY <2>1, <2>2, <2>3, <2>4
<1>4. ASSUME NEW i \in 1 .. Len(Code)
      PROVE  /\ Code[i].op \in {"fresh", "copy"} => Code[i].to \in Names
             /\ Code[i].to # NoName => Code[i].to \in Names
             /\ Code[i].to \in Names => Code[i].op \in {"fresh", "copy", "match", "arm"}
             /\ Code[i].of # NoName <=> Code[i].of \in Names
             /\ Code[i].of # NoName <=>
                   Code[i].op \in {"copy", "read", "give", "store", "give_field", "module_give",
                                   "capture", "return", "yield", "match"}
  <2>1. Code[i].to \in Names \cup {NoName} /\ Code[i].of \in Names \cup {NoName}
    BY <1>3 DEF Token
  <2>2. /\ Code[i].op \in {"fresh", "copy"} => Code[i].to # NoName
        /\ Code[i].to # NoName => Code[i].op \in {"fresh", "copy", "match", "arm"}
        /\ Code[i].of # NoName <=>
                   Code[i].op \in {"copy", "read", "give", "store", "give_field", "module_give",
                                   "capture", "return", "yield", "match"}
    BY <1>1 DEF Formed
  <2> QED BY <2>1, <2>2, NamesAssumption
<1> QED BY <1>1, <1>2, <1>3, <1>4

\* Where the walk and the execution go behind a scope.
LEMMA BehindScope ==
  ASSUME BodyIsFormed, NEW o \in 1 .. Len(Code), Code[o].op \in Openings
  PROVE  LET e == EndOf(Code, o + 1)
         IN  /\ e \in o + 1 .. Len(Code) /\ Code[e].op = "end" /\ e + 1 \in 1 .. Len(Code) + 1
             /\ D(e) = D(o) + 1 /\ D(e + 1) = D(o)
             /\ Deeper(Code, o + 1, e, D(o))
<1>1. Code \in Seq(Token) /\ Balanced(Code) /\ Len(Code) \in Nat
  BY BodyFacts
<1>2. LET e == EndOf(Code, o + 1)
      IN  /\ e \in o + 1 .. Len(Code) /\ Code[e].op = "end"
          /\ D(e) = D(o) + 1 /\ D(e + 1) = D(o)
          /\ Deeper(Code, o + 1, e, D(o))
  BY <1>1, ScopeOf DEF D
<1>3. EndOf(Code, o + 1) + 1 \in 1 .. Len(Code) + 1
  BY <1>1, <1>2
<1> QED BY <1>2, <1>3

LEMMA BehindArm ==
  ASSUME BodyIsFormed, NEW i \in 1 .. Len(Code), Code[i].op \in Middles \cup {"yield"}
  PROVE  LET e == EndOf(Code, i)
         IN  /\ e \in i .. Len(Code) /\ Code[e].op = "end" /\ e + 1 \in 1 .. Len(Code) + 1
             /\ D(e) = D(i) /\ D(i) > 0 /\ D(e + 1) = D(i) - 1
<1>1. Code \in Seq(Token) /\ Balanced(Code) /\ Len(Code) \in Nat /\ i \in 1 .. Len(Code) + 1
  BY BodyFacts
<1>2. D(i) > 0
  <2>1. CASE Code[i].op \in Middles
    BY <2>1, BodyFacts
  <2>2. CASE Code[i].op = "yield"
    BY <2>2 DEF BodyIsFormed, WellFormedBody, InPlace, InArm, D, Code
  <2> QED BY <2>1, <2>2
<1>3. EndsAt(Code, i, EndOf(Code, i))
  BY <1>1, <1>2, TheEnd DEF D
<1>4. EndOf(Code, i) \in i .. Len(Code) /\ Code[EndOf(Code, i)].op = "end" /\ D(EndOf(Code, i)) = D(i)
  BY <1>3 DEF EndsAt, D
<1>5. EndOf(Code, i) \in 1 .. Len(Code) /\ EndOf(Code, i) + 1 \in 1 .. Len(Code) + 1
  BY <1>1, <1>4
<1>6. D(EndOf(Code, i) + 1) = D(EndOf(Code, i)) - 1
  BY <1>4, <1>5, BodyFacts
<1> QED BY <1>2, <1>4, <1>5, <1>6

LEMMA WalkTypes ==
  ASSUME CheckerType, NEW ops, Regions!Walk(ops)
  PROVE  /\ verdict = "none" /\ verdict' = "none" /\ body' = body
         /\ at \in 1 .. Len(Code) /\ at + 1 \in 1 .. Len(Code) + 1
         /\ Code[at].op \in ops
         /\ trace' \in [1 .. Len(Code) -> Chains]
         /\ trace'[at] = envs
         /\ \A i \in 1 .. Len(Code) : i # at => trace'[i] = trace[i]
         /\ envs \in Chains /\ Len(envs) = Base + D(at) /\ Len(envs) > 0
         /\ ~ Regions!Fails
<1>1. /\ Len(Code) \in Nat /\ Base \in {1, 2} /\ D(at) \in Nat
      /\ at \in 1 .. Len(Code) + 1 /\ envs \in Chains /\ Len(envs) = Base + D(at)
      /\ trace \in [1 .. Len(Code) -> Chains]
  BY BodyFacts DEF CheckerType
<1>2. /\ verdict = "none" /\ at <= Len(Code) /\ Code[at].op \in ops /\ ~ Regions!Fails
      /\ trace' = [trace EXCEPT ![at] = envs] /\ body' = body /\ verdict' = verdict
  BY DEF Regions!Walk, Regions!Here, Code
<1> QED BY <1>1, <1>2

LEMMA MergedType ==
  ASSUME NEW es \in Chains, Len(es) > 0, NEW S \in SUBSET Names
  PROVE  /\ Regions!Merge(es, S) \in Chains /\ Len(Regions!Merge(es, S)) = Len(es)
         /\ Recorded(es) => Recorded(Regions!Merge(es, S))
<1> DEFINE T == {x \in S : Regions!Has(es, x)}
<1>1. T \in SUBSET Names
  OBVIOUS
<1>2. Regions!Merge(es, S) = Regions!MarkMoved(es, T)
  BY DEF Regions!Merge
<1>3. Regions!MarkMoved(es, T) \in Chains /\ Len(Regions!MarkMoved(es, T)) = Len(es)
  <2> HIDE DEF T
  <2> QED BY <1>1, Marked
<1>4. Recorded(es) => Recorded(Regions!MarkMoved(es, T))
  <2> HIDE DEF T
  <2> QED BY <1>1, MarkRecords
<1> QED BY <1>2, <1>3, <1>4

\* What a step of the walk leaves: the depth of the chain is that of the token
\* the walk comes to, and every move is still recorded.
LEMMA StaysTyped ==
  ASSUME CheckerType, NEW ops, Regions!Walk(ops),
         NEW i \in 1 .. Len(Code) + 1, at' = i, envs' \in Chains, Len(envs') = Base + D(i)
  PROVE  CheckerType'
<1>1. /\ verdict' = "none" /\ body' = body
      /\ trace' \in [1 .. Len(Code) -> Chains]
  BY WalkTypes
<1>2. Code' = Code /\ Base' = Base /\ D(at)' = D(i) /\ BodyIsFormed'
  BY <1>1 DEF Code, Base, D, CheckerType, BodyIsFormed
<1> QED BY <1>1, <1>2 DEF CheckerType

LEMMA BindStep ==
  ASSUME CheckerType, Recorded(envs), Regions!Bind
  PROVE  CheckerType' /\ Recorded(envs)'
<1>1. /\ at \in 1 .. Len(Code) /\ at + 1 \in 1 .. Len(Code) + 1 /\ Code[at].op = "fresh"
      /\ envs \in Chains /\ Len(envs) = Base + D(at) /\ Len(envs) > 0
      /\ Regions!Walk({"fresh"})
      /\ envs' = Regions!Define(envs, Code[at].to, Regions!Binding("owned")) /\ at' = at + 1
  BY WalkTypes DEF Regions!Bind, Regions!Here, Code
<1>2. Code[at].to \in Names /\ D(at + 1) = D(at)
  BY <1>1, BodyFacts DEF CheckerType, Statements
<1>3. Regions!Binding("owned") \in Regions!Info /\ ~ Regions!Binding("owned").moved
  BY DEF Regions!Binding, Regions!Info, Regions!Region
<1>4. envs' \in Chains /\ Len(envs') = Len(envs)
  BY <1>1, <1>2, <1>3, Defined
<1>5. Recorded(envs')
  BY <1>1, <1>2, <1>3, DefineRecords
<1>6. CheckerType'
  BY <1>1, <1>2, <1>4, StaysTyped
<1> QED BY <1>5, <1>6 DEF Recorded

LEMMA CopyStep ==
  ASSUME CheckerType, Recorded(envs), Regions!Copy
  PROVE  CheckerType' /\ Recorded(envs)'
<1> DEFINE es == Regions!MarkMoved(envs, {Code[at].of})
<1>1. /\ at \in 1 .. Len(Code) /\ at + 1 \in 1 .. Len(Code) + 1 /\ Code[at].op = "copy"
      /\ envs \in Chains /\ Len(envs) = Base + D(at) /\ Len(envs) > 0
      /\ Regions!Walk({"copy"})
      /\ envs' = Regions!Define(es, Code[at].to, Regions!Binding("owned")) /\ at' = at + 1
  BY WalkTypes DEF Regions!Copy, Regions!Here, Code
<1>2. Code[at].to \in Names /\ Code[at].of \in Names /\ D(at + 1) = D(at)
  BY <1>1, BodyFacts DEF CheckerType, Statements
<1>3. Regions!Binding("owned") \in Regions!Info /\ ~ Regions!Binding("owned").moved
  BY DEF Regions!Binding, Regions!Info, Regions!Region
<1>4. es \in Chains /\ Len(es) = Len(envs) /\ Recorded(es)
  BY <1>1, <1>2, Marked, MarkRecords
<1> HIDE DEF es
<1>5. envs' \in Chains /\ Len(envs') = Len(envs)
  BY <1>1, <1>2, <1>3, <1>4, Defined
<1>6. Recorded(envs')
  BY <1>1, <1>2, <1>3, <1>4, DefineRecords
<1>7. CheckerType'
  BY <1>1, <1>2, <1>5, StaysTyped
<1> QED BY <1>6, <1>7 DEF Recorded

LEMMA ReadStep ==
  ASSUME CheckerType, Recorded(envs), Regions!Read
  PROVE  CheckerType' /\ Recorded(envs)'
<1> DEFINE ops == {"read", "module_give", "capture", "break", "continue"}
<1>1. /\ at \in 1 .. Len(Code) /\ at + 1 \in 1 .. Len(Code) + 1 /\ Code[at].op \in ops
      /\ envs \in Chains /\ Len(envs) = Base + D(at) /\ Len(envs) > 0
      /\ Regions!Walk(ops)
      /\ envs' = envs /\ at' = at + 1
  BY WalkTypes DEF Regions!Read, Regions!Here, Code
<1>2. D(at + 1) = D(at)
  BY <1>1, BodyFacts DEF CheckerType, Statements
<1>3. CheckerType'
  BY <1>1, <1>2, StaysTyped
<1> QED BY <1>1, <1>3 DEF Recorded

LEMMA ConsumeStep ==
  ASSUME CheckerType, Recorded(envs), Regions!Consume
  PROVE  CheckerType' /\ Recorded(envs)'
<1>1. /\ at \in 1 .. Len(Code) /\ at + 1 \in 1 .. Len(Code) + 1
      /\ Code[at].op \in {"give", "store", "return"}
      /\ envs \in Chains /\ Len(envs) = Base + D(at) /\ Len(envs) > 0
      /\ Regions!Walk({"give", "store", "return"})
      /\ envs' = Regions!MarkMoved(envs, {Code[at].of}) /\ at' = at + 1
  BY WalkTypes DEF Regions!Consume, Regions!Here, Code
<1>2. Code[at].of \in Names /\ D(at + 1) = D(at)
  BY <1>1, BodyFacts DEF CheckerType, Statements
<1>3. envs' \in Chains /\ Len(envs') = Len(envs) /\ Recorded(envs')
  BY <1>1, <1>2, Marked, MarkRecords
<1>4. CheckerType'
  BY <1>1, <1>2, <1>3, StaysTyped
<1> QED BY <1>3, <1>4 DEF Recorded

\* A scope opens: an environment that knows of no move.
LEMMA Opened ==
  ASSUME CheckerType, NEW ops, Regions!Walk(ops), ops \subseteq Openings,
         NEW es \in Chains, Len(es) = Len(envs), Recorded(es),
         NEW env \in Regions!Env, \A y \in Names : ~ env.binds[y].moved,
         envs' = Append(es, env), at' = at + 1
  PROVE  CheckerType' /\ Recorded(envs)'
<1>1. /\ at \in 1 .. Len(Code) /\ at + 1 \in 1 .. Len(Code) + 1 /\ Code[at].op \in Openings
      /\ Len(es) = Base + D(at) /\ Len(es) > 0
  BY WalkTypes
<1>2. D(at + 1) = D(at) + 1 /\ D(at) \in Nat /\ Base \in {1, 2}
  BY <1>1, BodyFacts DEF CheckerType
<1>3. envs' \in Chains /\ Len(envs') = Base + D(at + 1)
  BY <1>1, <1>2, Appended
<1>4. Recorded(envs')
  BY <1>1, AppendRecords
<1>5. CheckerType'
  BY <1>1, <1>3, StaysTyped
<1> QED BY <1>4, <1>5 DEF Recorded

LEMMA OpenStep ==
  ASSUME CheckerType, Recorded(envs), Regions!OpenIf \/ Regions!OpenScope
  PROVE  CheckerType' /\ Recorded(envs)'
<1>1. CASE Regions!OpenIf
  <2>1. /\ Regions!Walk({"if"}) /\ at' = at + 1
        /\ envs' = Append(envs, Regions!EnvOf("if", "none"))
    BY <1>1 DEF Regions!OpenIf
  <2>2. /\ Regions!EnvOf("if", "none") \in Regions!Env
        /\ \A y \in Names : ~ Regions!EnvOf("if", "none").binds[y].moved
    BY NewEnvsKnowNoMove
  <2>3. envs \in Chains /\ {"if"} \subseteq Openings
    BY DEF CheckerType, Openings
  <2> QED BY <2>1, <2>2, <2>3, Opened
<1>2. CASE Regions!OpenScope
  <2>1. /\ Regions!Walk({"loop", "block"}) /\ at' = at + 1
        /\ envs' = Append(envs, Regions!EnvOf(Code[at].op, "none"))
    BY <1>2 DEF Regions!OpenScope, Regions!Here, Code
  <2>2. Code[at].op \in {"loop", "block"}
    BY <2>1, WalkTypes
  <2>3. /\ Regions!EnvOf(Code[at].op, "none") \in Regions!Env
        /\ \A y \in Names : ~ Regions!EnvOf(Code[at].op, "none").binds[y].moved
    BY <2>2, NewEnvsKnowNoMove
  <2>4. envs \in Chains /\ {"loop", "block"} \subseteq Openings
    BY DEF CheckerType, Openings
  <2> QED BY <2>1, <2>3, <2>4, Opened
<1> QED BY <1>1, <1>2

LEMMA OpenMatchStep ==
  ASSUME CheckerType, Recorded(envs), Regions!OpenMatch
  PROVE  CheckerType' /\ Recorded(envs)'
<1> DEFINE region == Regions!Get(envs, Code[at].of).region
           consumed == IF region = "owned" THEN {Code[at].of} ELSE {}
           es == Regions!MarkMoved(envs, consumed)
           env == Regions!ArmEnv(region, Code[at].to)
<1>1. /\ Regions!Walk({"match"}) /\ at' = at + 1 /\ envs' = Append(es, env)
  BY DEF Regions!OpenMatch, Regions!Here, Code
<1>2. /\ at \in 1 .. Len(Code) /\ Code[at].op = "match" /\ envs \in Chains /\ Len(envs) > 0
  BY <1>1, WalkTypes
<1>3. Code[at].of \in Names
  BY <1>2, BodyFacts DEF CheckerType
<1>4. region \in Region
  <2>1. Len(envs) \in 0 .. Len(envs)
    BY <1>2
  <2>2. Regions!Get(envs, Code[at].of) \in Regions!Info
    BY <1>2, <1>3, <2>1, InfoType
  <2> QED BY <2>2 DEF Regions!Info, Regions!Region, Region
<1>5. consumed \in SUBSET Names
  BY <1>3
<1> HIDE DEF region, consumed
<1>6. es \in Chains /\ Len(es) = Len(envs) /\ Recorded(es)
  BY <1>2, <1>5, Marked, MarkRecords
<1>7. env \in Regions!Env /\ \A y \in Names : ~ env.binds[y].moved
  BY <1>4, NewEnvsKnowNoMove
<1>8. {"match"} \subseteq Openings
  BY DEF Openings
<1> HIDE DEF es, env
<1> QED BY <1>1, <1>6, <1>7, <1>8, Opened

\* A branch closes and the next one opens.
LEMMA Continued ==
  ASSUME CheckerType, Recorded(envs), NEW ops, Regions!Walk(ops), ops \subseteq Middles,
         NEW es \in Chains, Len(es) = Len(envs) - 1, Recorded(es),
         NEW env \in Regions!Env, \A y \in Names : ~ env.binds[y].moved,
         envs' = Append(es, env), at' = at + 1
  PROVE  CheckerType' /\ Recorded(envs)'
<1>1. /\ at \in 1 .. Len(Code) /\ at + 1 \in 1 .. Len(Code) + 1 /\ Code[at].op \in Middles
      /\ Len(envs) = Base + D(at)
  BY WalkTypes
<1>2. D(at + 1) = D(at) /\ D(at) \in Nat /\ D(at) > 0 /\ Base \in {1, 2}
  BY <1>1, BodyFacts DEF CheckerType
<1>3. Len(es) = Base + D(at) - 1 /\ Len(es) > 0
  BY <1>1, <1>2
<1>4. envs' \in Chains /\ Len(envs') = Base + D(at + 1)
  BY <1>2, <1>3, Appended
<1>5. Recorded(envs')
  BY <1>3, AppendRecords
<1>6. CheckerType'
  BY <1>1, <1>4, StaysTyped
<1> QED BY <1>5, <1>6 DEF Recorded

\* Without the innermost environment there still is one.
LEMMA Inward ==
  ASSUME CheckerType, Recorded(envs), D(at) > 0, at \in 1 .. Len(Code)
  PROVE  /\ envs \in Chains /\ Len(envs) > 0
         /\ Regions!Outer(envs) \in Chains /\ Len(Regions!Outer(envs)) = Len(envs) - 1
         /\ Len(Regions!Outer(envs)) > 0
         /\ Recorded(Regions!Outer(envs))
         /\ Regions!Top(envs).moved \in SUBSET Names /\ Regions!Top(envs).earlier \in SUBSET Names
         /\ Regions!Top(envs).scrutinee \in Region
<1>1. envs \in Chains /\ Len(envs) = Base + D(at) /\ D(at) \in Nat /\ Base \in {1, 2}
  BY BodyFacts DEF CheckerType
<1>2. Len(envs) > 0 /\ Len(envs) - 1 > 0
  BY <1>1
<1>3. Regions!Region = Region
  BY DEF Regions!Region, Region
<1> QED BY <1>1, <1>2, <1>3, WithoutTop, OuterRecords

LEMMA ElseStep ==
  ASSUME CheckerType, Recorded(envs), Regions!Else
  PROVE  CheckerType' /\ Recorded(envs)'
<1> DEFINE env == [Regions!EnvOf("if", "none") EXCEPT !.earlier = Regions!Top(envs).moved]
<1>1. /\ Regions!Walk({"else"}) /\ at' = at + 1 /\ envs' = Append(Regions!Outer(envs), env)
  BY DEF Regions!Else
<1>2. at \in 1 .. Len(Code) /\ Code[at].op = "else"
  BY <1>1, WalkTypes
<1>3. D(at) > 0
  BY <1>2, BodyFacts DEF CheckerType, Middles
<1>4. /\ Regions!Outer(envs) \in Chains /\ Len(Regions!Outer(envs)) = Len(envs) - 1
      /\ Recorded(Regions!Outer(envs)) /\ Regions!Top(envs).moved \in SUBSET Names
  BY <1>2, <1>3, Inward
<1>5. env \in Regions!Env /\ \A y \in Names : ~ env.binds[y].moved
  BY <1>4, NewEnvsKnowNoMove
<1>6. {"else"} \subseteq Middles
  BY DEF Middles
<1> HIDE DEF env
<1> QED BY <1>1, <1>4, <1>5, <1>6, Continued

LEMMA ArmStep ==
  ASSUME CheckerType, Recorded(envs), Regions!Arm
  PROVE  CheckerType' /\ Recorded(envs)'
<1> DEFINE scrutinee == Regions!Top(envs).scrutinee
           es == Regions!Merge(Regions!Outer(envs), Regions!Top(envs).moved)
           env == Regions!ArmEnv(scrutinee, Code[at].to)
<1>1. /\ Regions!Walk({"arm"}) /\ at' = at + 1 /\ envs' = Append(es, env)
  BY DEF Regions!Arm, Regions!Here, Code
<1>2. at \in 1 .. Len(Code) /\ Code[at].op = "arm"
  BY <1>1, WalkTypes
<1>3. D(at) > 0
  BY <1>2, BodyFacts DEF CheckerType, Middles
<1>4. /\ Regions!Outer(envs) \in Chains /\ Len(Regions!Outer(envs)) = Len(envs) - 1
      /\ Len(Regions!Outer(envs)) > 0
      /\ Recorded(Regions!Outer(envs)) /\ Regions!Top(envs).moved \in SUBSET Names
      /\ scrutinee \in Region
  BY <1>2, <1>3, Inward
<1>5. es \in Chains /\ Len(es) = Len(envs) - 1 /\ Recorded(es)
  BY <1>4, MergedType
<1> HIDE DEF scrutinee
<1>6. env \in Regions!Env /\ \A y \in Names : ~ env.binds[y].moved
  BY <1>4, NewEnvsKnowNoMove
<1>7. {"arm"} \subseteq Middles
  BY DEF Middles
<1> HIDE DEF es, env
<1> QED BY <1>1, <1>5, <1>6, <1>7, Continued

LEMMA YieldStep ==
  ASSUME CheckerType, Recorded(envs), Regions!Yield
  PROVE  CheckerType' /\ Recorded(envs)'
<1>1. /\ Regions!Walk({"yield"}) /\ at \in 1 .. Len(Code) /\ at + 1 \in 1 .. Len(Code) + 1
      /\ Code[at].op = "yield" /\ envs \in Chains /\ Len(envs) = Base + D(at)
  <2>1. Regions!Walk({"yield"})
    BY DEF Regions!Yield
  <2> QED BY <2>1, WalkTypes
<1>2. CASE Regions!Get(envs, Code[at].of).region = "borrowed"
  <2> DEFINE e == EndOf(Code, at)
             es == Regions!Merge(Regions!Outer(envs), Regions!Top(envs).moved)
  <2>1. envs' = es /\ at' = e + 1
    BY <1>2, SameStructure DEF Regions!Yield, Regions!Here, Code
  <2>2. e + 1 \in 1 .. Len(Code) + 1 /\ D(at) > 0 /\ D(e + 1) = D(at) - 1
    BY <1>1, BehindArm DEF CheckerType
  <2>3. es \in Chains /\ Len(es) = Len(envs) - 1 /\ Recorded(es)
    BY <1>1, <2>2, Inward, MergedType
  <2>4. D(at) \in Nat /\ Base \in {1, 2}
    BY <1>1, BodyFacts DEF CheckerType
  <2>5. Len(es) = Base + D(e + 1)
    BY <1>1, <2>2, <2>3, <2>4
  <2> HIDE DEF e, es
  <2>6. CheckerType'
    BY <1>1, <2>1, <2>2, <2>3, <2>5, StaysTyped
  <2> QED BY <2>1, <2>3, <2>6 DEF Recorded
<1>3. CASE Regions!Get(envs, Code[at].of).region # "borrowed"
  <2>1. envs' = envs /\ at' = at + 1
    BY <1>3 DEF Regions!Yield, Regions!Here, Code
  <2>2. D(at + 1) = D(at)
    BY <1>1, BodyFacts DEF CheckerType, Statements
  <2>3. CheckerType'
    BY <1>1, <2>1, <2>2, StaysTyped
  <2> QED BY <2>1, <2>3 DEF Recorded
<1> QED BY <1>2, <1>3

LEMMA SkipStep ==
  ASSUME CheckerType, Recorded(envs), Regions!SkipUnsafe
  PROVE  CheckerType' /\ Recorded(envs)'
<1> DEFINE e == EndOf(Code, at + 1)
<1>1. Regions!Walk({"unsafe"}) /\ envs' = envs /\ at' = e + 1
  BY SameStructure DEF Regions!SkipUnsafe, Code
<1>2. /\ at \in 1 .. Len(Code) /\ Code[at].op = "unsafe"
      /\ envs \in Chains /\ Len(envs) = Base + D(at)
  BY <1>1, WalkTypes
<1>3. e + 1 \in 1 .. Len(Code) + 1 /\ D(e + 1) = D(at)
  BY <1>2, BehindScope DEF CheckerType, Openings
<1> HIDE DEF e
<1>4. CheckerType'
  BY <1>1, <1>2, <1>3, StaysTyped
<1> QED BY <1>1, <1>4 DEF Recorded

LEMMA CloseStep ==
  ASSUME CheckerType, Recorded(envs), Regions!Close
  PROVE  CheckerType' /\ Recorded(envs)'
<1>1. /\ Regions!Walk({"end"}) /\ at' = at + 1
      /\ envs' = IF Regions!Top(envs).opening \in {"if", "match"}
                 THEN Regions!Merge(Regions!Outer(envs),
                                    Regions!Top(envs).moved \cup Regions!Top(envs).earlier)
                 ELSE Regions!Outer(envs)
  BY DEF Regions!Close
<1>2. /\ at \in 1 .. Len(Code) /\ at + 1 \in 1 .. Len(Code) + 1 /\ Code[at].op = "end"
      /\ Len(envs) = Base + D(at)
  BY <1>1, WalkTypes
<1>3. D(at + 1) = D(at) - 1 /\ D(at) > 0 /\ D(at) \in Nat /\ Base \in {1, 2}
  BY <1>2, BodyFacts DEF CheckerType
<1>4. /\ Regions!Outer(envs) \in Chains /\ Len(Regions!Outer(envs)) = Len(envs) - 1
      /\ Len(Regions!Outer(envs)) > 0 /\ Recorded(Regions!Outer(envs))
      /\ (Regions!Top(envs).moved \cup Regions!Top(envs).earlier) \in SUBSET Names
  BY <1>2, <1>3, Inward
<1>5. envs' \in Chains /\ Len(envs') = Len(envs) - 1 /\ Recorded(envs')
  <2>1. CASE Regions!Top(envs).opening \in {"if", "match"}
    BY <1>1, <1>4, <2>1, MergedType
  <2>2. CASE Regions!Top(envs).opening \notin {"if", "match"}
    BY <1>1, <1>4, <2>2
  <2> QED BY <2>1, <2>2
<1>6. Len(envs') = Base + D(at + 1)
  BY <1>2, <1>3, <1>5
<1>7. CheckerType'
  BY <1>1, <1>2, <1>5, <1>6, StaysTyped
<1> QED BY <1>5, <1>7 DEF Recorded

LEMMA VerdictStep ==
  ASSUME CheckerType, Recorded(envs), Regions!Reject \/ Regions!Accept
  PROVE  CheckerType' /\ Recorded(envs)'
<1>1. /\ body' = body /\ at' = at /\ envs' = envs /\ trace' = trace
      /\ verdict' \in {"accepted", "rejected"}
  BY DEF Regions!Reject, Regions!Accept
<1> QED BY <1>1 DEF CheckerType, Recorded, BodyIsFormed, Code, Base, D

LEMMA CheckerSteps ==
  ASSUME CheckerType, Recorded(envs), Regions!Next
  PROVE  CheckerType' /\ Recorded(envs)'
BY BindStep, CopyStep, ReadStep, ConsumeStep, OpenStep, OpenMatchStep, ElseStep, ArmStep,
   YieldStep, SkipStep, CloseStep, VerdictStep DEF Regions!Next

LEMMA CheckerStarts ==
  ASSUME Init
  PROVE  CheckerType /\ Recorded(envs)
<1>1. BodyIsFormed
  BY BodiesAssumption DEF Init, BodyIsFormed
<1> DEFINE first == [Regions!EnvOf("function", "none") EXCEPT
                       !.binds = [x \in Names |-> Regions!Binding(body.params[x])]]
           block == Regions!EnvOf("block", "none")
<1>2. first \in Regions!Env /\ \A x \in Names : ~ first.binds[x].moved
  <2>1. \A x \in Names : Regions!Binding(body.params[x]) \in Regions!Info
                         /\ ~ Regions!Binding(body.params[x]).moved
    <3>1. \A x \in Names : body.params[x] \in Region
      BY <1>1, BodyFacts
    <3> QED BY <3>1 DEF Regions!Binding, Regions!Info, Regions!Region, Region
  <2> DEFINE bs == [x \in Names |-> Regions!Binding(body.params[x])]
  <2>2. bs \in [Names -> Regions!Info] /\ \A x \in Names : ~ bs[x].moved
    BY <2>1
  <2>3. Regions!EnvOf("function", "none") \in Regions!Env
    BY NewEnvsKnowNoMove
  <2> HIDE DEF bs
  <2>4. [Regions!EnvOf("function", "none") EXCEPT !.binds = bs] \in Regions!Env
        /\ [Regions!EnvOf("function", "none") EXCEPT !.binds = bs].binds = bs
    BY <2>2, <2>3 DEF Regions!Env
  <2> QED BY <2>2, <2>4 DEF bs
<1>3. block \in Regions!Env /\ \A x \in Names : ~ block.binds[x].moved
  BY NewEnvsKnowNoMove
<1> HIDE DEF first, block
<1>4. envs \in Chains /\ Len(envs) = Base
      /\ \A i \in 1 .. Len(envs) : envs[i] \in {first, block}
  <2>1. envs = << first >> \o (IF body.toplevel THEN << >> ELSE << block >>)
    BY DEF Init, Regions!Init, first, block
  <2>2. CASE body.toplevel
    <3>1. envs = << first >>
      BY <2>1, <2>2
    <3> QED BY <1>2, <2>2, <3>1 DEF Base, Chains
  <2>3. CASE ~ body.toplevel
    <3>1. envs = << first >> \o << block >>
      BY <2>1, <2>3
    <3> QED BY <1>2, <1>3, <2>3, <3>1 DEF Base, Chains
  <2> QED BY <2>2, <2>3
<1>5. \A i \in 1 .. Len(envs), x \in Names : ~ envs[i].binds[x].moved
  BY <1>2, <1>3, <1>4
<1>6. at = 1 /\ verdict = "none" /\ trace = [i \in 1 .. Len(Code) |-> << >>]
  BY DEF Init, Regions!Init, Code
<1>7. trace \in [1 .. Len(Code) -> Chains] /\ at \in 1 .. Len(Code) + 1
  <2>1. << >> \in Chains /\ Len(Code) \in Nat
    BY <1>1, BodyFacts DEF Chains
  <2> QED BY <1>6, <2>1
<1>8. Len(envs) = Base + D(at)
  BY <1>1, <1>4, <1>6, BodyFacts
<1> QED BY <1>1, <1>4, <1>5, <1>6, <1>7, <1>8 DEF CheckerType, Recorded

(***************************************************************************)
(* RegionChecker's scope chain is as deep as the walk, in every body, and  *)
(* a move that any scope knows of is with the branch around this scope.    *)
(***************************************************************************)
THEOREM EveryMoveIsRecorded == Spec => []MovesAreRecorded
<1> DEFINE Inv == CheckerType /\ Recorded(envs)
<1>1. Init => Inv
  BY CheckerStarts
<1>2. Inv /\ [Next]_vars => Inv'
  <2>1. ASSUME Inv, CheckRegions PROVE Inv'
    BY <2>1, CheckerSteps DEF CheckRegions
  <2>2. ASSUME Inv, CheckMoves \/ Execute \/ UNCHANGED vars PROVE Inv'
    <3>1. UNCHANGED <<body, at, envs, verdict, trace>>
      <4>1. CASE CheckMoves
        BY <4>1 DEF CheckMoves, regionsOnly, Moves!Next, Moves!Pass, Moves!Give, Moves!Capture,
             Moves!OpenFresh, Moves!OpenBlock, Moves!NextBranch, Moves!Close, Moves!SkipUnsafe,
             Moves!Reject, Moves!Accept, Moves!Walk
      <4>2. CASE Execute
        BY <4>2 DEF Execute, regionsOnly, Run!Next, Run!RunStatement, Run!RunReturn,
             Run!EnterBranch, Run!LeaveBranch, Run!StartLap, Run!SkipLoop, Run!EnterBlock,
             Run!LeaveScope, Run!Unwind, Run!Execute
      <4>3. CASE UNCHANGED vars
        BY <4>3 DEF vars, regionsOnly
      <4> QED BY <2>2, <4>1, <4>2, <4>3
    <3> QED BY <2>2, <3>1 DEF CheckerType, Recorded, BodyIsFormed, Code, Base, D
  <2> QED BY <2>1, <2>2 DEF Next
<1>3. Inv => MovesAreRecorded
  BY DEF Recorded, MovesAreRecorded
<1> QED BY <1>1, <1>2, <1>3, PTL DEF Spec

-----------------------------------------------------------------------------
(***************************************************************************)
(* What the walk knows of a name at each level of the chain.               *)
(***************************************************************************)
\* The first n environments of fs are those of es, which may know of more
\* moves by now.
Grown(es, fs, n) ==
  /\ n \in Nat /\ n <= Len(es) /\ n <= Len(fs)
  /\ \A i \in 1 .. n :
       /\ fs[i].opening = es[i].opening /\ fs[i].scrutinee = es[i].scrutinee
       /\ fs[i].earlier = es[i].earlier
       /\ es[i].moved \subseteq fs[i].moved
  /\ \A i \in 0 .. n, x \in Names :
       /\ Known(fs, i, x).region = Known(es, i, x).region
       /\ Known(es, i, x).moved => Known(fs, i, x).moved

LEMMA GrownTrans ==
  ASSUME NEW es, NEW fs, NEW gs, NEW n, Grown(es, fs, n), Grown(fs, gs, n)
  PROVE  Grown(es, gs, n)
<1>1. /\ n \in Nat /\ n <= Len(es) /\ n <= Len(gs)
      /\ \A i \in 1 .. n :
           /\ gs[i].opening = es[i].opening /\ gs[i].scrutinee = es[i].scrutinee
           /\ gs[i].earlier = es[i].earlier
           /\ es[i].moved \subseteq gs[i].moved
  BY DEF Grown
<1>2. \A i \in 0 .. n, x \in Names :
        /\ Known(gs, i, x).region = Known(es, i, x).region
        /\ Known(es, i, x).moved => Known(gs, i, x).moved
  BY DEF Grown
<1> QED BY <1>1, <1>2 DEF Grown

LEMMA GrownLess ==
  ASSUME NEW es, NEW fs, NEW n, Grown(es, fs, n), NEW k \in 0 .. n,
         Len(es) \in Nat, Len(fs) \in Nat
  PROVE  Grown(es, fs, k)
<1>1. n \in Nat /\ k \in Nat /\ k <= n /\ k <= Len(es) /\ k <= Len(fs)
  BY DEF Grown
<1>2. (\A i \in 1 .. k : i \in 1 .. n) /\ (\A i \in 0 .. k : i \in 0 .. n)
  BY <1>1
<1> QED BY <1>1, <1>2 DEF Grown

LEMMA GrownSame ==
  ASSUME NEW es \in Chains, NEW fs \in Chains, NEW n \in 0 .. Len(es), n <= Len(fs),
         \A i \in 1 .. n : fs[i] = es[i]
  PROVE  Grown(es, fs, n)
<1>1. ASSUME NEW i \in 0 .. n, NEW x PROVE Known(es, i, x) = Known(fs, i, x)
  <2>1. i \in 0 .. Len(es) /\ i <= Len(fs) /\ \A j \in 1 .. i : j \in 1 .. n
    BY DEF Chains
  <2>2. \A j \in 1 .. i : es[j].binds = fs[j].binds
    BY <2>1
  <2> QED BY <2>1, <2>2, KnownSame
<1>2. n \in Nat /\ n <= Len(es)
  BY DEF Chains
<1> QED BY <1>1, <1>2 DEF Grown

\* A new binding changes only the innermost level.
LEMMA KnownDefined ==
  ASSUME NEW es \in Chains, Len(es) > 0, NEW x \in Names, NEW info \in Regions!Info,
         info.region # "none"
  PROVE  LET new == Regions!Define(es, x, info)
         IN  /\ new \in Chains /\ Len(new) = Len(es)
             /\ Grown(es, new, Len(es) - 1)
             /\ \A y \in Names : Known(new, Len(es), y) = IF y = x THEN info ELSE Known(es, Len(es), y)
             /\ \A i \in 1 .. Len(es) :
                  /\ new[i].opening = es[i].opening /\ new[i].scrutinee = es[i].scrutinee
                  /\ new[i].moved = es[i].moved /\ new[i].earlier = es[i].earlier
<1> DEFINE new == Regions!Define(es, x, info)
<1>1. /\ new \in Chains /\ Len(new) = Len(es)
      /\ \A i \in 1 .. Len(es) :
           /\ new[i].opening = es[i].opening /\ new[i].scrutinee = es[i].scrutinee
           /\ new[i].moved = es[i].moved /\ new[i].earlier = es[i].earlier
           /\ i # Len(es) => new[i].binds = es[i].binds
      /\ \A y \in Names : new[Len(es)].binds[y] = IF y = x THEN info ELSE es[Len(es)].binds[y]
  BY Defined
<1> HIDE DEF new
<1>2. Len(es) \in Nat /\ Len(es) - 1 \in 0 .. Len(es) /\ Len(es) \in 1 .. Len(es)
  BY DEF Chains
<1>3. \A i \in 1 .. Len(es) - 1 : i \in 1 .. Len(es) /\ i # Len(es)
  BY <1>2
<1>4. ASSUME NEW i \in 0 .. Len(es) - 1, NEW y PROVE Known(new, i, y) = Known(es, i, y)
  <2>1. i \in 0 .. Len(es) /\ i <= Len(new) /\ \A j \in 1 .. i : j \in 1 .. Len(es) - 1
    BY <1>1, <1>2
  <2>2. \A j \in 1 .. i : es[j].binds = new[j].binds
    BY <1>1, <1>3, <2>1
  <2> QED BY <1>1, <2>1, <2>2, KnownSame
<1>5. Grown(es, new, Len(es) - 1)
  <2>1. Len(es) - 1 \in Nat /\ Len(es) - 1 <= Len(es) /\ Len(es) - 1 <= Len(new)
    BY <1>1, <1>2
  <2>2. \A i \in 1 .. Len(es) - 1 :
          /\ new[i].opening = es[i].opening /\ new[i].scrutinee = es[i].scrutinee
          /\ new[i].earlier = es[i].earlier
          /\ es[i].moved \subseteq new[i].moved
    BY <1>1, <1>3
  <2> QED BY <1>4, <2>1, <2>2 DEF Grown
<1>6. ASSUME NEW y \in Names
      PROVE  Known(new, Len(es), y) = IF y = x THEN info ELSE Known(es, Len(es), y)
  <2>1. Known(new, Len(es), y) = IF new[Len(es)].binds[y].region # "none" THEN new[Len(es)].binds[y]
                                 ELSE Known(new, Len(es) - 1, y)
    BY <1>1, <1>2, KnownStep
  <2>2. Known(es, Len(es), y) = IF es[Len(es)].binds[y].region # "none" THEN es[Len(es)].binds[y]
                                ELSE Known(es, Len(es) - 1, y)
    BY <1>2, KnownStep
  <2>3. Known(new, Len(es) - 1, y) = Known(es, Len(es) - 1, y)
    <3>1. Len(es) - 1 \in 0 .. Len(es) - 1
      BY <1>2
    <3> QED BY <1>4, <3>1
  <2>4. new[Len(es)].binds[y] = IF y = x THEN info ELSE es[Len(es)].binds[y]
    BY <1>1
  <2> QED BY <2>1, <2>2, <2>3, <2>4
<1> QED BY <1>1, <1>5, <1>6 DEF new

\* Marking as moved loses nothing, and the innermost level learns of it.
LEMMA KnownMarked ==
  ASSUME NEW es \in Chains, Len(es) > 0, NEW S \in SUBSET Names
  PROVE  LET new == Regions!MarkMoved(es, S)
         IN  /\ new \in Chains /\ Len(new) = Len(es)
             /\ Grown(es, new, Len(es))
             /\ \A i \in 0 .. Len(es) - 1, y \in Names : Known(new, i, y) = Known(es, i, y)
             /\ \A y \in Names \ S : Known(new, Len(es), y) = Known(es, Len(es), y)
             /\ \A y \in S : Known(es, Len(es), y).region # "none" => Known(new, Len(es), y).moved
             /\ \A y \in S : Known(new, Len(es), y).moved => Known(es, Len(es), y).region # "none"
             /\ Branch(es[Len(es)]) => S \subseteq new[Len(es)].moved
<1> DEFINE new == Regions!MarkMoved(es, S)
<1>1. /\ new \in Chains /\ Len(new) = Len(es)
      /\ \A i \in 1 .. Len(es) :
           /\ new[i].opening = es[i].opening /\ new[i].scrutinee = es[i].scrutinee
           /\ new[i].earlier = es[i].earlier
           /\ es[i].moved \subseteq new[i].moved
           /\ i = Regions!Recorder(es) => S \subseteq new[i].moved
           /\ i # Len(es) => new[i].binds = es[i].binds
      /\ \A y \in S : /\ new[Len(es)].binds[y].region = Regions!Get(es, y).region
                      /\ new[Len(es)].binds[y].moved
      /\ \A y \in Names \ S : new[Len(es)].binds[y] = es[Len(es)].binds[y]
  BY Marked
<1> HIDE DEF new
<1>2. Len(es) \in Nat /\ Len(es) - 1 \in 0 .. Len(es) /\ Len(es) \in 1 .. Len(es) /\ Len(es) \in 0 .. Len(es)
  BY DEF Chains
<1>3. \A i \in 1 .. Len(es) - 1 : i \in 1 .. Len(es) /\ i # Len(es)
  BY <1>2
<1>4. ASSUME NEW i \in 0 .. Len(es) - 1, NEW y PROVE Known(new, i, y) = Known(es, i, y)
  <2>1. i \in 0 .. Len(es) /\ i <= Len(new) /\ \A j \in 1 .. i : j \in 1 .. Len(es) - 1
    BY <1>1, <1>2
  <2>2. \A j \in 1 .. i : es[j].binds = new[j].binds
    BY <1>1, <1>3, <2>1
  <2> QED BY <1>1, <2>1, <2>2, KnownSame
<1>5. Len(es) - 1 \in 0 .. Len(es) - 1
  BY <1>2
<1>6. ASSUME NEW y \in Names
      PROVE  /\ y \notin S => Known(new, Len(es), y) = Known(es, Len(es), y)
             /\ y \in S => /\ Known(new, Len(es), y).region = Known(es, Len(es), y).region
                           /\ Known(es, Len(es), y).region # "none" <=> Known(new, Len(es), y).moved
                           /\ Known(es, Len(es), y).moved => Known(new, Len(es), y).moved
  <2>1. Known(new, Len(es), y) = IF new[Len(es)].binds[y].region # "none" THEN new[Len(es)].binds[y]
                                 ELSE Known(new, Len(es) - 1, y)
    BY <1>1, <1>2, KnownStep
  <2>2. Known(es, Len(es), y) = IF es[Len(es)].binds[y].region # "none" THEN es[Len(es)].binds[y]
                                ELSE Known(es, Len(es) - 1, y)
    BY <1>2, KnownStep
  <2>3. Known(new, Len(es) - 1, y) = Known(es, Len(es) - 1, y)
    BY <1>4, <1>5
  <2>4. Known(es, Len(es), y) = Regions!Get(es, y)
    BY KnownStep
  <2>5. CASE y \notin S
    <3>1. new[Len(es)].binds[y] = es[Len(es)].binds[y]
      BY <1>1, <2>5
    <3> QED BY <2>1, <2>2, <2>3, <2>5, <3>1
  <2>6. CASE y \in S /\ Regions!Get(es, y).region # "none"
    <3>1. /\ new[Len(es)].binds[y].region = Regions!Get(es, y).region
          /\ new[Len(es)].binds[y].moved
      BY <1>1, <2>6
    <3>2. Known(new, Len(es), y) = new[Len(es)].binds[y]
      BY <2>1, <2>6, <3>1
    <3> QED BY <2>4, <2>6, <3>1, <3>2
  <2>7. CASE y \in S /\ Regions!Get(es, y).region = "none"
    <3>1. new[Len(es)].binds[y].region = "none"
      BY <1>1, <2>7
    <3>2. es[Len(es)].binds[y].region = "none"
      BY <2>2, <2>4, <2>7
    <3>3. Known(new, Len(es), y) = Known(es, Len(es), y)
      BY <2>1, <2>2, <2>3, <3>1, <3>2
    <3>4. Known(es, Len(es), y) = Regions!Unbound
      <4>1. \A i \in Regions!Holders(es, y) : es[i].binds[y].region # "none"
        BY DEF Regions!Holders
      <4>2. ASSUME Regions!Has(es, y) PROVE FALSE
        <5> DEFINE H == Regions!Holders(es, y)
        <5>1. H # {} /\ H \in SUBSET (0 .. Len(es)) /\ Len(es) \in Nat
          BY <1>2, <4>2 DEF Regions!Has, Regions!Holders
        <5>2. \E i \in H : \A j \in H : j <= i
          <6> HIDE DEF H
          <6> QED BY ONLY <5>1, Largest
        <5>3. (CHOOSE i \in H : \A j \in H : j <= i) \in H
          <6> HIDE DEF H
          <6> QED BY <5>2
        <5>4. Regions!Get(es, y) = es[CHOOSE i \in H : \A j \in H : j <= i].binds[y]
          BY <4>2 DEF Regions!Get
        <5> HIDE DEF H
        <5> QED BY <2>7, <4>1, <5>3, <5>4 DEF H
      <4> QED BY <2>4, <4>2 DEF Regions!Get
    <3> QED BY <2>4, <2>7, <3>3, <3>4 DEF Regions!Unbound
  <2> QED BY <2>5, <2>6, <2>7
<1>7. Grown(es, new, Len(es))
  <2>1. ASSUME NEW i \in 0 .. Len(es), NEW y \in Names
        PROVE  /\ Known(new, i, y).region = Known(es, i, y).region
               /\ Known(es, i, y).moved => Known(new, i, y).moved
    <3>1. CASE i = Len(es)
      BY <1>6, <3>1
    <3>2. CASE i # Len(es)
      <4>1. i \in 0 .. Len(es) - 1
        BY <1>2, <3>2
      <4> QED BY <1>4, <4>1
    <3> QED BY <3>1, <3>2
  <2> QED BY <1>1, <1>2, <2>1 DEF Grown
<1>8. Branch(es[Len(es)]) => S \subseteq new[Len(es)].moved
  <2>1. ASSUME Branch(es[Len(es)]) PROVE Regions!Recorder(es) = Len(es)
    <3>1. IsRecorder(es, Len(es), Len(es))
      BY <1>2, <2>1 DEF IsRecorder
    <3>2. SubSeq(es, 1, Len(es)) = es
      BY <1>2, Prefix DEF Chains
    <3> QED BY <1>2, <3>1, <3>2, TheRecorder
  <2> QED BY <1>1, <1>2, <2>1
<1> QED BY <1>1, <1>4, <1>6, <1>7, <1>8 DEF new

LEMMA KnownAppended ==
  ASSUME NEW es \in Chains, NEW env \in Regions!Env
  PROVE  LET new == Append(es, env)
         IN  /\ new \in Chains /\ Len(new) = Len(es) + 1 /\ new[Len(es) + 1] = env
             /\ Grown(es, new, Len(es))
             /\ \A i \in 0 .. Len(es), y \in Names : Known(new, i, y) = Known(es, i, y)
             /\ \A y \in Names : Known(new, Len(es) + 1, y) =
                  IF env.binds[y].region # "none" THEN env.binds[y] ELSE Known(es, Len(es), y)
<1> DEFINE new == Append(es, env)
<1>1. /\ new \in Chains /\ Len(new) = Len(es) + 1
      /\ \A i \in 1 .. Len(es) : new[i] = es[i]
      /\ new[Len(es) + 1] = env
  BY Appended
<1> HIDE DEF new
<1>2. Len(es) \in Nat /\ Len(es) \in 0 .. Len(es) /\ Len(es) <= Len(new) /\ Len(es) + 1 \in 1 .. Len(new)
      /\ Len(es) + 1 - 1 = Len(es)
  BY <1>1 DEF Chains
<1>3. Grown(es, new, Len(es))
  BY <1>1, <1>2, GrownSame
<1>4. ASSUME NEW i \in 0 .. Len(es), NEW y PROVE Known(new, i, y) = Known(es, i, y)
  <2>1. i <= Len(new) /\ \A j \in 1 .. i : j \in 1 .. Len(es)
    BY <1>1, <1>2
  <2>2. \A j \in 1 .. i : es[j].binds = new[j].binds
    BY <1>1, <2>1
  <2> QED BY <1>1, <2>1, <2>2, KnownSame
<1>5. ASSUME NEW y \in Names
      PROVE  Known(new, Len(es) + 1, y) =
               IF env.binds[y].region # "none" THEN env.binds[y] ELSE Known(es, Len(es), y)
  <2>1. Known(new, Len(es) + 1, y) =
          IF new[Len(es) + 1].binds[y].region # "none" THEN new[Len(es) + 1].binds[y]
          ELSE Known(new, Len(es) + 1 - 1, y)
    BY <1>1, <1>2, KnownStep
  <2> QED BY <1>1, <1>2, <1>4, <2>1
<1> QED BY <1>1, <1>3, <1>4, <1>5 DEF new

LEMMA KnownOuter ==
  ASSUME NEW es \in Chains, Len(es) > 0
  PROVE  LET new == Regions!Outer(es)
         IN  /\ new \in Chains /\ Len(new) = Len(es) - 1
             /\ Grown(es, new, Len(es) - 1)
             /\ \A i \in 1 .. Len(es) - 1 : new[i] = es[i]
             /\ \A i \in 0 .. Len(es) - 1, y \in Names : Known(new, i, y) = Known(es, i, y)
<1> DEFINE new == Regions!Outer(es)
<1>1. /\ new \in Chains /\ Len(new) = Len(es) - 1
      /\ \A i \in 1 .. Len(es) - 1 : new[i] = es[i]
  BY WithoutTop
<1> HIDE DEF new
<1>2. Len(es) \in Nat /\ Len(es) - 1 \in 0 .. Len(es) /\ Len(es) - 1 <= Len(new)
  BY <1>1 DEF Chains
<1>3. Grown(es, new, Len(es) - 1)
  BY <1>1, <1>2, GrownSame
<1>4. ASSUME NEW i \in 0 .. Len(es) - 1, NEW y PROVE Known(new, i, y) = Known(es, i, y)
  <2>1. i \in 0 .. Len(es) /\ i <= Len(new) /\ \A j \in 1 .. i : j \in 1 .. Len(es) - 1
    BY <1>1, <1>2
  <2>2. \A j \in 1 .. i : es[j].binds = new[j].binds
    BY <1>1, <2>1
  <2> QED BY <1>1, <2>1, <2>2, KnownSame
<1> QED BY <1>1, <1>3, <1>4 DEF new

\* What a branch moved is moved behind it, as far as the name is bound there.
LEMMA KnownMerged ==
  ASSUME NEW es \in Chains, Len(es) > 0, NEW S \in SUBSET Names
  PROVE  LET new == Regions!Merge(es, S)
         IN  /\ new \in Chains /\ Len(new) = Len(es)
             /\ Grown(es, new, Len(es))
             /\ \A y \in S : Known(es, Len(es), y).region # "none" =>
                  /\ Known(new, Len(es), y).moved
                  /\ Branch(es[Len(es)]) => y \in new[Len(es)].moved
<1> DEFINE T == {x \in S : Regions!Has(es, x)}
           new == Regions!MarkMoved(es, T)
<1>1. T \in SUBSET Names
  OBVIOUS
<1>2. Regions!Merge(es, S) = new
  BY DEF Regions!Merge
<1>3. /\ new \in Chains /\ Len(new) = Len(es) /\ Grown(es, new, Len(es))
      /\ \A y \in T : Known(es, Len(es), y).region # "none" => Known(new, Len(es), y).moved
      /\ Branch(es[Len(es)]) => T \subseteq new[Len(es)].moved
  <2> HIDE DEF T
  <2> QED BY <1>1, KnownMarked
<1>4. ASSUME NEW y \in S, Known(es, Len(es), y).region # "none" PROVE y \in T
  <2>1. Known(es, Len(es), y) = Regions!Get(es, y)
    BY KnownStep
  <2> QED BY <1>4, <2>1 DEF Regions!Get, Regions!Unbound
<1> HIDE DEF T, new
<1> QED BY <1>2, <1>3, <1>4

-----------------------------------------------------------------------------
(***************************************************************************)
(* One step of the walk.                                                   *)
(***************************************************************************)
IsBody(b) == b \in BodyType /\ WellFormedBody(b)
BaseOf(b) == IF b.toplevel THEN 1 ELSE 2
DepthAt(b, i) == Depth(b.code, i)
OpenAt(b, i) == Inside(b.code, i, {"unsafe"}) = {}
NextOf(b, i) == IF b.code[i].op = "unsafe" THEN EndOf(b.code, i + 1) + 1 ELSE i + 1

\* The chain behind a token, if no arm ends its match.
Stepped(es, token) ==
  LET top == Regions!Top(es)
      region == Regions!Get(es, token.of).region
      owned == Regions!Binding("owned")
  IN  CASE token.op = "fresh" -> Regions!Define(es, token.to, owned)
        [] token.op = "copy" -> Regions!Define(Regions!MarkMoved(es, {token.of}), token.to, owned)
        [] token.op \in {"give", "store", "return"} -> Regions!MarkMoved(es, {token.of})
        [] token.op \in {"if", "loop", "block"} -> Append(es, Regions!EnvOf(token.op, "none"))
        [] token.op = "match" ->
             Append(Regions!MarkMoved(es, IF region = "owned" THEN {token.of} ELSE {}),
                    Regions!ArmEnv(region, token.to))
        [] token.op = "else" ->
             Append(Regions!Outer(es), [Regions!EnvOf("if", "none") EXCEPT !.earlier = top.moved])
        [] token.op = "arm" ->
             Append(Regions!Merge(Regions!Outer(es), top.moved), Regions!ArmEnv(top.scrutinee, token.to))
        [] token.op = "end" ->
             IF top.opening \in {"if", "match"}
             THEN Regions!Merge(Regions!Outer(es), top.moved \cup top.earlier)
             ELSE Regions!Outer(es)
        [] OTHER -> es

Passes(es, token) ==
  /\ token.of # NoName => ~ Regions!Get(es, token.of).moved
  /\ token.op \in Regions!Consuming => Regions!Get(es, token.of).region # "borrowed"
  /\ token.op # "give_field"

LEMMA FormedFacts ==
  ASSUME NEW b, IsBody(b)
  PROVE  /\ b.code \in Seq(Token) /\ Balanced(b.code) /\ Formed(b.code) /\ Len(b.code) \in Nat
         /\ BaseOf(b) \in {1, 2}
         /\ b.params \in [Names -> Region]
         /\ DepthAt(b, 1) = 0
         /\ \A i \in 1 .. Len(b.code) + 1 : DepthAt(b, i) \in Nat
         /\ \A i \in 1 .. Len(b.code) :
              /\ b.code[i] \in Token
              /\ b.code[i].op \in Openings \cup Middles \cup Statements \cup {"end"}
              /\ b.code[i].op \in Openings => DepthAt(b, i + 1) = DepthAt(b, i) + 1
              /\ b.code[i].op = "end" => DepthAt(b, i + 1) = DepthAt(b, i) - 1 /\ DepthAt(b, i) > 0
              /\ b.code[i].op \in Middles => DepthAt(b, i + 1) = DepthAt(b, i) /\ DepthAt(b, i) > 0
              /\ b.code[i].op \in Statements => DepthAt(b, i + 1) = DepthAt(b, i)
              /\ b.code[i].op \in {"fresh", "copy"} => b.code[i].to \in Names
              /\ b.code[i].to # NoName => b.code[i].to \in Names
              /\ b.code[i].to \in Names => b.code[i].op \in {"fresh", "copy", "match", "arm"}
              /\ b.code[i].of # NoName <=> b.code[i].of \in Names
              /\ b.code[i].of # NoName <=>
                   b.code[i].op \in {"copy", "read", "give", "store", "give_field", "module_give",
                                     "capture", "return", "yield", "match"}
<1>1. /\ b.code \in Seq(Token) /\ Balanced(b.code) /\ Formed(b.code) /\ Len(b.code) \in Nat
      /\ BaseOf(b) \in {1, 2} /\ b.params \in [Names -> Region]
  BY DEF IsBody, BodyType, WellFormedBody, BaseOf
<1>2. DepthAt(b, 1) = 0 /\ \A i \in 1 .. Len(b.code) + 1 : DepthAt(b, i) \in Nat
  BY <1>1, Depths DEF DepthAt
<1>3. ASSUME NEW i \in 1 .. Len(b.code)
      PROVE  /\ b.code[i] \in Token
             /\ b.code[i].op \in Openings \cup Middles \cup Statements \cup {"end"}
             /\ b.code[i].op \in Openings => DepthAt(b, i + 1) = DepthAt(b, i) + 1
             /\ b.code[i].op = "end" => DepthAt(b, i + 1) = DepthAt(b, i) - 1 /\ DepthAt(b, i) > 0
             /\ b.code[i].op \in Middles => DepthAt(b, i + 1) = DepthAt(b, i) /\ DepthAt(b, i) > 0
             /\ b.code[i].op \in Statements => DepthAt(b, i + 1) = DepthAt(b, i)
  <2>1. b.code[i] \in Token
    BY <1>1
  <2>2. b.code[i].op \in Openings \cup Middles \cup Statements \cup {"end"}
    BY <2>1 DEF Token
  <2>3. b.code[i].op \in Middles \cup Statements => b.code[i].op \notin Openings /\ b.code[i].op # "end"
    BY DEF Openings, Middles, Statements
  <2>4. /\ b.code[i].op \in Openings => DepthAt(b, i + 1) = DepthAt(b, i) + 1
        /\ b.code[i].op = "end" => DepthAt(b, i + 1) = DepthAt(b, i) - 1 /\ DepthAt(b, i) > 0
        /\ b.code[i].op \notin Openings /\ b.code[i].op # "end" => DepthAt(b, i + 1) = DepthAt(b, i)
        /\ b.code[i].op \in Middles => DepthAt(b, i) > 0
    BY <1>1, Depths DEF DepthAt
  <2> QED BY <2>1, <2>2, <2>3, <2>4
<1>4. ASSUME NEW i \in 1 .. Len(b.code)
      PROVE  /\ b.code[i].op \in {"fresh", "copy"} => b.code[i].to \in Names
             /\ b.code[i].to # NoName => b.code[i].to \in Names
             /\ b.code[i].to \in Names => b.code[i].op \in {"fresh", "copy", "match", "arm"}
             /\ b.code[i].of # NoName <=> b.code[i].of \in Names
             /\ b.code[i].of # NoName <=>
                   b.code[i].op \in {"copy", "read", "give", "store", "give_field", "module_give",
                                     "capture", "return", "yield", "match"}
  <2>1. b.code[i].to \in Names \cup {NoName} /\ b.code[i].of \in Names \cup {NoName}
    BY <1>3 DEF Token
  <2>2. /\ b.code[i].op \in {"fresh", "copy"} => b.code[i].to # NoName
        /\ b.code[i].to # NoName => b.code[i].op \in {"fresh", "copy", "match", "arm"}
        /\ b.code[i].of # NoName <=>
                   b.code[i].op \in {"copy", "read", "give", "store", "give_field", "module_give",
                                     "capture", "return", "yield", "match"}
    BY <1>1 DEF Formed
  <2> QED BY <2>1, <2>2, NamesAssumption
<1> QED BY <1>1, <1>2, <1>3, <1>4

\* Whether a construct and what is directly in it are outside unsafe blocks.
LEMMA OpenOf ==
  ASSUME NEW b, IsBody(b), NEW o \in 1 .. Len(b.code), b.code[o].op \in Openings
  PROVE  LET e == EndOf(b.code, o + 1)
         IN  /\ \A i \in o + 1 .. e :
                  /\ OpenAt(b, i) => OpenAt(b, o) /\ b.code[o].op # "unsafe"
                  /\ DepthAt(b, i) = DepthAt(b, o) + 1 /\ OpenAt(b, o) /\ b.code[o].op # "unsafe"
                       => OpenAt(b, i)
             /\ OpenAt(b, e + 1) <=> OpenAt(b, o)
<1> DEFINE U == {"unsafe"}
           e == EndOf(b.code, o + 1)
<1>1. /\ b.code \in Seq(Token) /\ Balanced(b.code) /\ U \in SUBSET Openings
      /\ \A x : x \in U <=> x = "unsafe"
  BY FormedFacts DEF Openings
<1> HIDE DEF U
<1>2. /\ \A i \in o + 1 .. e :
           /\ Inside(b.code, o, U) \subseteq Inside(b.code, i, U)
           /\ b.code[o].op \in U => o \in Inside(b.code, i, U)
           /\ Depth(b.code, i) = Depth(b.code, o) + 1 =>
                Inside(b.code, i, U) = Inside(b.code, o, U) \cup (IF b.code[o].op \in U THEN {o} ELSE {})
      /\ Inside(b.code, e + 1, U) = Inside(b.code, o, U)
  BY <1>1, InsideOf
<1> HIDE DEF e
<1>3. \A i : OpenAt(b, i) <=> Inside(b.code, i, U) = {}
  BY DEF OpenAt, U
<1> QED BY <1>1, <1>2, <1>3 DEF DepthAt, e

\* The walk steps over unsafe blocks and never into one.
LEMMA NextOpen ==
  ASSUME NEW b, IsBody(b), NEW i \in 1 .. Len(b.code), OpenAt(b, i)
  PROVE  LET n == NextOf(b, i)
         IN  /\ n \in i + 1 .. Len(b.code) + 1 /\ OpenAt(b, n)
             /\ \A t \in i + 1 .. n - 1 : ~ OpenAt(b, t)
             /\ b.code[i].op \in Openings \ {"unsafe"} => DepthAt(b, n) = DepthAt(b, i) + 1
             /\ b.code[i].op = "end" => DepthAt(b, n) = DepthAt(b, i) - 1
             /\ b.code[i].op \in Middles \cup Statements \cup {"unsafe"} => DepthAt(b, n) = DepthAt(b, i)
             /\ b.code[i].op # "unsafe" => n = i + 1
<1>0. /\ b.code \in Seq(Token) /\ Balanced(b.code) /\ Len(b.code) \in Nat
      /\ b.code[i].op \in Openings \cup Middles \cup Statements \cup {"end"}
  BY FormedFacts
<1>1. {"unsafe"} \in SUBSET Openings
  BY DEF Openings
<1>6. ASSUME b.code[i].op # "unsafe", OpenAt(b, i + 1)
      PROVE  LET n == NextOf(b, i)
             IN  /\ n = i + 1 /\ n \in i + 1 .. Len(b.code) + 1 /\ OpenAt(b, n)
                 /\ \A t \in i + 1 .. n - 1 : ~ OpenAt(b, t)
  <2>1. NextOf(b, i) = i + 1
    BY <1>6 DEF NextOf
  <2>2. i + 1 \in i + 1 .. Len(b.code) + 1 /\ \A t \in i + 1 .. (i + 1) - 1 : FALSE
    BY <1>0
  <2> QED BY <1>6, <2>1, <2>2
<1>2. CASE b.code[i].op = "unsafe"
  <2> DEFINE e == EndOf(b.code, i + 1)
  <2>1. b.code[i].op \in Openings /\ NextOf(b, i) = e + 1
    BY <1>2 DEF Openings, NextOf
  <2>2. e \in i + 1 .. Len(b.code) /\ Depth(b.code, e + 1) = Depth(b.code, i)
    BY <1>0, <2>1, ScopeOf
  <2>3. OpenAt(b, e + 1) /\ \A t \in i + 1 .. e : ~ OpenAt(b, t)
    BY <1>2, <2>1, OpenOf
  <2> HIDE DEF e
  <2>4. e + 1 \in i + 1 .. Len(b.code) + 1 /\ e + 1 - 1 = e
    BY <1>0, <2>2
  <2>5. "unsafe" \notin Openings \ {"unsafe"} /\ "unsafe" # "end"
    OBVIOUS
  <2> QED BY <1>2, <2>1, <2>2, <2>3, <2>4, <2>5 DEF DepthAt
<1>3. CASE b.code[i].op \in Openings \ {"unsafe"}
  <2>2. Depth(b.code, i + 1) = Depth(b.code, i) + 1 /\ i + 1 \in i + 1 .. EndOf(b.code, i + 1)
    BY <1>0, <1>3, ScopeOf
  <2>3. OpenAt(b, i + 1)
    BY <1>3, <2>2, OpenOf DEF DepthAt
  <2>4. b.code[i].op # "end" /\ b.code[i].op \notin Middles \cup Statements \cup {"unsafe"}
    BY <1>3 DEF Openings, Middles, Statements
  <2>5. OpenAt(b, i + 1) /\ DepthAt(b, i + 1) = DepthAt(b, i) + 1
    BY <2>2, <2>3 DEF DepthAt
  <2> QED BY <1>3, <1>6, <2>4, <2>5
<1>4. CASE b.code[i].op = "end"
  <2> DEFINE o == OpeningOf(b.code, i)
  <2>2. o \in 1 .. i - 1 /\ b.code[o].op \in Openings /\ EndOf(b.code, o + 1) = i
    BY <1>0, <1>4, TheOpening
  <2> HIDE DEF o
  <2>3. o \in 1 .. Len(b.code) /\ i \in o + 1 .. i
    BY <2>2
  <2>4. OpenAt(b, i + 1)
    BY <2>2, <2>3, OpenOf
  <2>5. DepthAt(b, i + 1) = DepthAt(b, i) - 1
    BY <1>4, FormedFacts
  <2>6. "end" \notin Openings \cup Middles \cup Statements \cup {"unsafe"}
    BY DEF Openings, Middles, Statements
  <2> QED BY <1>4, <1>6, <2>4, <2>5, <2>6
<1>5. CASE b.code[i].op \in Middles \cup Statements
  <2>1. b.code[i].op \notin Openings /\ b.code[i].op # "end" /\ b.code[i].op # "unsafe"
    BY <1>5 DEF Openings, Middles, Statements
  <2>3. Inside(b.code, i + 1, {"unsafe"}) = Inside(b.code, i, {"unsafe"})
    BY <1>0, <1>1, <2>1, InsideNext
  <2>4. DepthAt(b, i + 1) = DepthAt(b, i)
    BY <1>5, FormedFacts
  <2>5. OpenAt(b, i + 1)
    BY <2>3 DEF OpenAt
  <2> QED BY <1>5, <1>6, <2>1, <2>4, <2>5
<1> QED BY <1>0, <1>2, <1>3, <1>4, <1>5

LEMMA SteppedCases ==
  ASSUME NEW es, NEW token
  PROVE  LET top == Regions!Top(es)
             region == Regions!Get(es, token.of).region
             owned == Regions!Binding("owned")
         IN  /\ token.op = "fresh" => Stepped(es, token) = Regions!Define(es, token.to, owned)
             /\ token.op = "copy" =>
                  Stepped(es, token) = Regions!Define(Regions!MarkMoved(es, {token.of}), token.to, owned)
             /\ token.op \in {"give", "store", "return"} =>
                  Stepped(es, token) = Regions!MarkMoved(es, {token.of})
             /\ token.op \in {"if", "loop", "block"} =>
                  Stepped(es, token) = Append(es, Regions!EnvOf(token.op, "none"))
             /\ token.op = "match" =>
                  Stepped(es, token) =
                    Append(Regions!MarkMoved(es, IF region = "owned" THEN {token.of} ELSE {}),
                           Regions!ArmEnv(region, token.to))
             /\ token.op = "else" =>
                  Stepped(es, token) =
                    Append(Regions!Outer(es), [Regions!EnvOf("if", "none") EXCEPT !.earlier = top.moved])
             /\ token.op = "arm" =>
                  Stepped(es, token) =
                    Append(Regions!Merge(Regions!Outer(es), top.moved), Regions!ArmEnv(top.scrutinee, token.to))
             /\ token.op = "end" =>
                  Stepped(es, token) = IF top.opening \in {"if", "match"}
                                       THEN Regions!Merge(Regions!Outer(es), top.moved \cup top.earlier)
                                       ELSE Regions!Outer(es)
             /\ token.op \in {"read", "module_give", "capture", "break", "continue", "yield", "unsafe", "give_field"}
                  => Stepped(es, token) = es
BY DEF Stepped

\* What a statement does to the chain.
LEMMA SteppedStatement ==
  ASSUME NEW b, IsBody(b), NEW i \in 1 .. Len(b.code), b.code[i].op \in Statements,
         NEW es \in Chains, Len(es) > 0
  PROVE  LET new == Stepped(es, b.code[i])
         IN  /\ new \in Chains /\ Len(new) = Len(es)
             /\ Grown(es, new, Len(es) - 1)
             /\ b.code[i].op \notin {"fresh", "copy"} => Grown(es, new, Len(es))
             /\ \A k \in 1 .. Len(es) :
                  /\ new[k].opening = es[k].opening /\ new[k].scrutinee = es[k].scrutinee
                  /\ new[k].earlier = es[k].earlier /\ es[k].moved \subseteq new[k].moved
<1> DEFINE t == b.code[i]
           new == Stepped(es, t)
           owned == Regions!Binding("owned")
<1>0. owned \in Regions!Info /\ owned.region # "none" /\ Len(es) \in Nat
      /\ Len(es) - 1 \in 0 .. Len(es) /\ Len(es) \in 0 .. Len(es)
  BY DEF Regions!Binding, Regions!Info, Regions!Region, Chains
<1>a. /\ t.op \in {"fresh", "copy"} => t.to \in Names
      /\ t.op \in {"copy", "give", "store", "return"} => t.of \in Names
  <2>1. /\ t.to # NoName => t.to \in Names
        /\ t.of # NoName <=> t.of \in Names
        /\ t.op \in {"fresh", "copy"} => t.to \in Names
        /\ t.of # NoName <=>
             t.op \in {"copy", "read", "give", "store", "give_field", "module_give",
                       "capture", "return", "yield", "match"}
    BY FormedFacts
  <2> HIDE DEF t
  <2> QED BY ONLY <2>1
<1>b. /\ t.op = "fresh" => new = Regions!Define(es, t.to, owned)
      /\ t.op = "copy" => new = Regions!Define(Regions!MarkMoved(es, {t.of}), t.to, owned)
      /\ t.op \in {"give", "store", "return"} => new = Regions!MarkMoved(es, {t.of})
  <2> HIDE DEF t
  <2> QED BY ONLY SteppedCases
<1>1. CASE t.op = "fresh"
  <2> HIDE DEF t, owned
  <2>1. t.to \in Names /\ new = Regions!Define(es, t.to, owned)
    <3> HIDE DEF new
    <3> QED BY ONLY <1>1, <1>a, <1>b
  <2>2. /\ new \in Chains /\ Len(new) = Len(es) /\ Grown(es, new, Len(es) - 1)
        /\ \A k \in 1 .. Len(es) :
             /\ new[k].opening = es[k].opening /\ new[k].scrutinee = es[k].scrutinee
             /\ new[k].moved = es[k].moved /\ new[k].earlier = es[k].earlier
    BY <1>0, <2>1, KnownDefined
  <2> HIDE DEF new
  <2> QED BY <1>1, <2>2 DEF t, new
<1>2. CASE t.op = "copy"
  <2> DEFINE m == Regions!MarkMoved(es, {t.of})
  <2> HIDE DEF t, owned
  <2>1. t.to \in Names /\ t.of \in Names /\ new = Regions!Define(m, t.to, owned)
    <3> HIDE DEF new
    <3> QED BY ONLY <1>2, <1>a, <1>b
  <2>2. {t.of} \in SUBSET Names
    BY <2>1
  <2>3. m \in Chains /\ Len(m) = Len(es) /\ Grown(es, m, Len(es))
    BY <2>2, KnownMarked
  <2> HIDE DEF m
  <2>4. /\ new \in Chains /\ Len(new) = Len(m) /\ Grown(m, new, Len(m) - 1)
        /\ \A k \in 1 .. Len(m) :
             /\ new[k].opening = m[k].opening /\ new[k].scrutinee = m[k].scrutinee
             /\ new[k].moved = m[k].moved /\ new[k].earlier = m[k].earlier
    BY <1>0, <2>1, <2>3, KnownDefined
  <2> HIDE DEF new
  <2>5. Grown(es, m, Len(es) - 1)
    BY <1>0, <2>3, GrownLess
  <2>6. Grown(es, new, Len(es) - 1)
    BY <2>3, <2>4, <2>5, GrownTrans
  <2> QED BY <1>2, <2>3, <2>4, <2>6 DEF t, new, Grown
<1>3. CASE t.op \in {"give", "store", "return"}
  <2> HIDE DEF t
  <2>1. t.of \in Names /\ new = Regions!MarkMoved(es, {t.of})
    <3> HIDE DEF new
    <3> QED BY ONLY <1>3, <1>a, <1>b
  <2>2. {t.of} \in SUBSET Names
    BY <2>1
  <2>3. new \in Chains /\ Len(new) = Len(es) /\ Grown(es, new, Len(es))
    BY <2>1, <2>2, KnownMarked
  <2> HIDE DEF new
  <2>4. Grown(es, new, Len(es) - 1)
    BY <1>0, <2>3, GrownLess
  <2> QED BY <2>3, <2>4 DEF t, new, Grown
<1>4. CASE t.op \in {"read", "module_give", "capture", "break", "continue", "yield", "give_field"}
  <2>1. new = es
    BY <1>4, SteppedCases
  <2>2. Len(es) <= Len(es)
    BY <1>0
  <2>3. Grown(es, es, Len(es))
    BY <1>0, <2>2, GrownSame
  <2>4. Grown(es, es, Len(es) - 1)
    BY <1>0, <2>3, GrownLess
  <2> QED BY <2>1, <2>3, <2>4
<1>5. t.op \in Statements
  OBVIOUS
<1> HIDE DEF t
<1> QED BY <1>1, <1>2, <1>3, <1>4, <1>5 DEF Statements

\* What the opening of a construct does to the chain.
LEMMA SteppedOpening ==
  ASSUME NEW b, IsBody(b), NEW i \in 1 .. Len(b.code), b.code[i].op \in Openings \ {"unsafe"},
         NEW es \in Chains, Len(es) > 0
  PROVE  LET new == Stepped(es, b.code[i])
         IN  /\ new \in Chains /\ Len(new) = Len(es) + 1
             /\ Grown(es, new, Len(es))
             /\ new[Len(es) + 1].opening = b.code[i].op
             /\ b.code[i].op = "match" =>
                  new[Len(es) + 1].scrutinee = Regions!Get(es, b.code[i].of).region
<1> DEFINE t == b.code[i]
           new == Stepped(es, t)
<1>0. Len(es) \in Nat /\ Len(es) \in 0 .. Len(es)
  BY DEF Chains
<1>1. CASE t.op \in {"if", "loop", "block"}
  <2> DEFINE env == Regions!EnvOf(t.op, "none")
  <2>1. new = Append(es, env) /\ t.op # "match"
    BY <1>1, SteppedCases
  <2>2. env \in Regions!Env /\ env.opening = t.op
    BY <1>1, NewEnvs DEF Region
  <2> HIDE DEF env
  <2>3. new \in Chains /\ Len(new) = Len(es) + 1 /\ new[Len(es) + 1] = env /\ Grown(es, new, Len(es))
    BY <2>1, <2>2, KnownAppended
  <2> HIDE DEF new, t
  <2> QED BY <2>1, <2>2, <2>3 DEF new, t
<1>2. CASE t.op = "match"
  <2> DEFINE region == Regions!Get(es, t.of).region
             S == IF region = "owned" THEN {t.of} ELSE {}
             m == Regions!MarkMoved(es, S)
             env == Regions!ArmEnv(region, t.to)
  <2>1. new = Append(m, env)
    BY <1>2, SteppedCases
  <2>2. t.of \in Names
    BY <1>2, FormedFacts
  <2>3. region \in Region
    <3>1. Regions!Get(es, t.of) \in Regions!Info
      BY <1>0, <2>2, InfoType
    <3> QED BY <3>1 DEF Regions!Info, Regions!Region, Region
  <2>4. S \in SUBSET Names
    BY <2>2
  <2> HIDE DEF region, S
  <2>5. m \in Chains /\ Len(m) = Len(es) /\ Grown(es, m, Len(es))
    BY <2>4, KnownMarked
  <2>6. env \in Regions!Env /\ env.opening = "match" /\ env.scrutinee = region
    BY <2>3, NewEnvs
  <2> HIDE DEF m, env
  <2>7. new \in Chains /\ Len(new) = Len(es) + 1 /\ new[Len(es) + 1] = env /\ Grown(m, new, Len(es))
    BY <2>1, <2>5, <2>6, KnownAppended
  <2>8. Grown(es, new, Len(es))
    BY <2>5, <2>7, GrownTrans
  <2> HIDE DEF new, t
  <2> QED BY <1>2, <2>6, <2>7, <2>8 DEF new, t, region
<1>3. t.op \in {"if", "loop", "block", "match"}
  BY DEF Openings
<1> HIDE DEF t
<1> QED BY <1>1, <1>2, <1>3

\* What the next branch and the end of a construct do to the chain.
LEMMA SteppedMiddle ==
  ASSUME NEW b, IsBody(b), NEW i \in 1 .. Len(b.code), b.code[i].op \in Middles,
         NEW es \in Chains, Len(es) > 1
  PROVE  LET new == Stepped(es, b.code[i])
             top == es[Len(es)]
         IN  /\ new \in Chains /\ Len(new) = Len(es)
             /\ Grown(es, new, Len(es) - 1)
             /\ b.code[i].op = "else" =>
                  new[Len(es)].opening = "if" /\ new[Len(es)].earlier = top.moved
             /\ b.code[i].op = "arm" =>
                  new[Len(es)].opening = "match" /\ new[Len(es)].scrutinee = top.scrutinee
<1> DEFINE t == b.code[i]
           new == Stepped(es, t)
           out == Regions!Outer(es)
           top == Regions!Top(es)
<1>0. Len(es) \in Nat /\ Len(es) > 0 /\ top = es[Len(es)]
  BY DEF Chains, Regions!Top
<1>1. /\ out \in Chains /\ Len(out) = Len(es) - 1 /\ Grown(es, out, Len(es) - 1) /\ Len(out) > 0
      /\ Len(out) + 1 = Len(es)
  BY <1>0, KnownOuter
<1>2. top.moved \in SUBSET Names /\ top.scrutinee \in Region
  BY <1>0, WithoutTop DEF Regions!Region, Region
<1>3. CASE t.op = "else"
  <2> DEFINE env == [Regions!EnvOf("if", "none") EXCEPT !.earlier = top.moved]
  <2>1. new = Append(out, env)
    BY <1>3, SteppedCases
  <2>2. env \in Regions!Env /\ env.opening = "if" /\ env.earlier = top.moved
    BY <1>2, NewEnvs
  <2> HIDE DEF env, out, top
  <2>3. new \in Chains /\ Len(new) = Len(out) + 1 /\ new[Len(out) + 1] = env /\ Grown(out, new, Len(out))
    BY <1>1, <2>1, <2>2, KnownAppended
  <2>4. Grown(es, new, Len(es) - 1)
    BY <1>1, <2>3, GrownTrans
  <2> HIDE DEF new, t
  <2> QED BY <1>0, <1>1, <1>3, <2>2, <2>3, <2>4 DEF new, t
<1>4. CASE t.op = "arm"
  <2> DEFINE env == Regions!ArmEnv(top.scrutinee, t.to)
             m == Regions!Merge(out, top.moved)
  <2>1. new = Append(m, env)
    BY <1>4, SteppedCases
  <2>2. env \in Regions!Env /\ env.opening = "match" /\ env.scrutinee = top.scrutinee
    BY <1>2, NewEnvs
  <2> HIDE DEF env, out, top
  <2>3. m \in Chains /\ Len(m) = Len(out) /\ Grown(out, m, Len(out))
    BY <1>1, <1>2, KnownMerged
  <2> HIDE DEF m
  <2>4. new \in Chains /\ Len(new) = Len(m) + 1 /\ new[Len(m) + 1] = env /\ Grown(m, new, Len(m))
    BY <2>1, <2>2, <2>3, KnownAppended
  <2>5. Grown(es, new, Len(es) - 1)
    BY <1>1, <2>3, <2>4, GrownTrans
  <2> HIDE DEF new, t
  <2> QED BY <1>0, <1>1, <1>4, <2>2, <2>3, <2>4, <2>5 DEF new, t
<1>5. t.op \in {"else", "arm"}
  BY DEF Middles
<1> HIDE DEF t
<1> QED BY <1>3, <1>4, <1>5

LEMMA SteppedEnd ==
  ASSUME NEW b, IsBody(b), NEW i \in 1 .. Len(b.code), b.code[i].op = "end",
         NEW es \in Chains, Len(es) > 1
  PROVE  LET new == Stepped(es, b.code[i])
             top == es[Len(es)]
         IN  /\ new \in Chains /\ Len(new) = Len(es) - 1
             /\ Grown(es, new, Len(es) - 1)
             /\ Branch(top) =>
                  \A y \in top.moved \cup top.earlier :
                    Known(es, Len(es) - 1, y).region # "none" =>
                      /\ Known(new, Len(es) - 1, y).moved
                      /\ Branch(es[Len(es) - 1]) => y \in new[Len(es) - 1].moved
<1> DEFINE t == b.code[i]
           new == Stepped(es, t)
           out == Regions!Outer(es)
           top == Regions!Top(es)
           S == top.moved \cup top.earlier
<1>0. Len(es) \in Nat /\ Len(es) > 0 /\ top = es[Len(es)] /\ Len(es) - 1 \in 1 .. Len(es) - 1
      /\ Len(es) - 1 \in 0 .. Len(es) - 1
  BY DEF Chains, Regions!Top
<1>1. /\ out \in Chains /\ Len(out) = Len(es) - 1 /\ Grown(es, out, Len(es) - 1) /\ Len(out) > 0
      /\ out[Len(es) - 1] = es[Len(es) - 1]
      /\ \A y \in Names : Known(out, Len(es) - 1, y) = Known(es, Len(es) - 1, y)
  BY <1>0, KnownOuter
<1>2. S \in SUBSET Names
  BY <1>0, WithoutTop
<1>3. new = IF Branch(top) THEN Regions!Merge(out, S) ELSE out
  BY SteppedCases DEF Branch
<1> HIDE DEF out, top, t, S
<1>4. CASE ~ Branch(top)
  <2> HIDE DEF new
  <2> QED BY <1>0, <1>1, <1>3, <1>4 DEF new, t
<1>5. CASE Branch(top)
  <2>1. new = Regions!Merge(out, S)
    BY <1>3, <1>5
  <2>2. /\ new \in Chains /\ Len(new) = Len(out) /\ Grown(out, new, Len(out))
        /\ \A y \in S : Known(out, Len(out), y).region # "none" =>
                  /\ Known(new, Len(out), y).moved
                  /\ Branch(out[Len(out)]) => y \in new[Len(out)].moved
    BY <1>1, <1>2, <2>1, KnownMerged
  <2>3. Grown(es, new, Len(es) - 1)
    BY <1>1, <2>2, GrownTrans
  <2> HIDE DEF new
  <2> QED BY <1>0, <1>1, <1>2, <2>2, <2>3 DEF new, t, S
<1> QED BY <1>4, <1>5

LEMMA SteppedType ==
  ASSUME NEW b, IsBody(b), NEW i \in 1 .. Len(b.code), OpenAt(b, i),
         NEW es \in Chains, Len(es) = BaseOf(b) + DepthAt(b, i)
  PROVE  LET new == Stepped(es, b.code[i])
         IN  /\ new \in Chains /\ Len(new) = BaseOf(b) + DepthAt(b, NextOf(b, i))
             /\ Grown(es, new, Len(es) - 1)
             /\ b.code[i].op = "unsafe" => new = es
<1>1. /\ b.code[i].op \in Openings \cup Middles \cup Statements \cup {"end"}
      /\ BaseOf(b) \in {1, 2} /\ DepthAt(b, i) \in Nat
      /\ b.code[i].op \in Middles \cup {"end"} => DepthAt(b, i) > 0
      /\ Len(es) \in Nat /\ Len(es) - 1 \in 0 .. Len(es) /\ Len(es) > 0
  <2>1. /\ b.code[i].op \in Openings \cup Middles \cup Statements \cup {"end"}
        /\ BaseOf(b) \in {1, 2} /\ DepthAt(b, i) \in Nat
        /\ b.code[i].op \in Middles \cup {"end"} => DepthAt(b, i) > 0
    BY FormedFacts
  <2> QED BY <2>1
<1>2. CASE b.code[i].op = "unsafe"
  <2>1. Stepped(es, b.code[i]) = es /\ DepthAt(b, NextOf(b, i)) = DepthAt(b, i)
    BY <1>2, SteppedCases, NextOpen
  <2>2. Grown(es, es, Len(es) - 1)
    <3>1. Len(es) - 1 <= Len(es)
      BY <1>1
    <3> QED BY <1>1, <3>1, GrownSame
  <2> QED BY <2>1, <2>2
<1>3. CASE b.code[i].op \in Openings \ {"unsafe"}
  <2>1. DepthAt(b, NextOf(b, i)) = DepthAt(b, i) + 1
    BY <1>3, NextOpen
  <2>2. LET new == Stepped(es, b.code[i])
        IN  new \in Chains /\ Len(new) = Len(es) + 1 /\ Grown(es, new, Len(es))
    BY <1>1, <1>3, SteppedOpening
  <2>3. Grown(es, Stepped(es, b.code[i]), Len(es) - 1)
    BY <1>1, <2>2, GrownLess
  <2> QED BY <1>1, <1>3, <2>1, <2>2, <2>3
<1>4. CASE b.code[i].op \in Statements
  <2>1. DepthAt(b, NextOf(b, i)) = DepthAt(b, i) /\ b.code[i].op # "unsafe"
    BY <1>4, NextOpen DEF Statements
  <2> QED BY <1>1, <1>4, <2>1, SteppedStatement
<1>5. CASE b.code[i].op \in Middles
  <2>1. DepthAt(b, NextOf(b, i)) = DepthAt(b, i) /\ b.code[i].op # "unsafe"
    BY <1>5, NextOpen DEF Middles
  <2>2. Len(es) > 1
    BY <1>1, <1>5
  <2> QED BY <1>1, <1>5, <2>1, <2>2, SteppedMiddle
<1>6. CASE b.code[i].op = "end"
  <2>1. DepthAt(b, NextOf(b, i)) = DepthAt(b, i) - 1
    BY <1>6, NextOpen
  <2>2. Len(es) > 1 /\ Len(es) - 1 = BaseOf(b) + (DepthAt(b, i) - 1)
    BY <1>1, <1>6
  <2> QED BY <1>6, <2>1, <2>2, SteppedEnd
<1> QED BY <1>1, <1>2, <1>3, <1>4, <1>5, <1>6
-----------------------------------------------------------------------------
(***************************************************************************)
(* The whole walk: w[i] is the chain before the i-th token, for the tokens *)
(* outside unsafe blocks up to the n-th.                                   *)
(***************************************************************************)
FirstChain(b) ==
  << [Regions!EnvOf("function", "none") EXCEPT
       !.binds = [x \in Names |-> Regions!Binding(b.params[x])]] >>
  \o IF b.toplevel THEN << >> ELSE << Regions!EnvOf("block", "none") >>

WalkTyped(b, w, n) ==
  /\ n \in 1 .. Len(b.code) + 1 /\ OpenAt(b, n)
  /\ \A i \in 1 .. n : OpenAt(b, i) => w[i] \in Chains /\ Len(w[i]) = BaseOf(b) + DepthAt(b, i)

WalkSteps(b, w, n) ==
  /\ w[1] = FirstChain(b)
  /\ \A i \in 1 .. n - 1 : OpenAt(b, i) =>
       /\ NextOf(b, i) \in 1 .. n
       /\ w[NextOf(b, i)] = Stepped(w[i], b.code[i])
       /\ Passes(w[i], b.code[i])

\* While the walk is inside a construct, what is around it is only added to.
WalkGrows(b, w, n) ==
  \A k \in 1 .. n : \A i \in 1 .. k : \A m \in Nat :
    OpenAt(b, i) /\ OpenAt(b, k) /\ (\A t \in i .. k : DepthAt(b, t) >= m)
      => Grown(w[i], w[k], BaseOf(b) + m - 1)

\* Inside a construct there is an environment of its kind.
WalkShapes(b, w, n) ==
  \A k \in 1 .. n : OpenAt(b, k) =>
    \A o \in 1 .. k - 1 :
      b.code[o].op \in Openings /\ Deeper(b.code, o + 1, k, DepthAt(b, o)) =>
        /\ w[k][BaseOf(b) + DepthAt(b, o) + 1].opening = b.code[o].op
        /\ b.code[o].op = "match" => w[k][BaseOf(b) + DepthAt(b, o) + 1].scrutinee
                                       = Regions!Get(w[o], b.code[o].of).region

\* Behind an else, the moves of the branch before it are kept.
WalkElses(b, w, n) ==
  \A k \in 1 .. n : OpenAt(b, k) =>
    \A j \in 1 .. k - 1 :
      OpenAt(b, j) /\ b.code[j].op = "else" /\ (\A t \in j .. k : DepthAt(b, t) >= DepthAt(b, j))
        => w[j][BaseOf(b) + DepthAt(b, j)].moved \subseteq w[k][BaseOf(b) + DepthAt(b, j)].earlier

Walked(b, w, n) ==
  WalkTyped(b, w, n) /\ WalkSteps(b, w, n) /\ WalkGrows(b, w, n) /\ WalkShapes(b, w, n) /\ WalkElses(b, w, n)

\* A middle stands in a construct of its kind.
LEMMA ConstructAround ==
  ASSUME NEW b, IsBody(b), NEW k \in 1 .. Len(b.code), b.code[k].op \in Middles,
         NEW o \in 1 .. k - 1, b.code[o].op \in Openings,
         Deeper(b.code, o + 1, k, DepthAt(b, o)), DepthAt(b, k) = DepthAt(b, o) + 1
  PROVE  /\ b.code[o].op = IF b.code[k].op = "else" THEN "if" ELSE "match"
         /\ EndOf(b.code, k) = EndOf(b.code, o + 1)
<1> DEFINE c == b.code
           e == EndOf(c, k)
           q == OpeningOf(c, e)
<1>0. c \in Seq(Token) /\ Balanced(c) /\ Len(c) \in Nat /\ o \in 1 .. Len(c)
      /\ k \in o + 1 .. Len(c) + 1 /\ o + 1 \in 1 .. Len(c) + 1
  BY FormedFacts
<1>1. /\ e \in k + 1 .. Len(c) /\ c[e].op = "end"
      /\ c[q].op = (IF c[k].op = "else" THEN "if" ELSE "match")
  BY <1>0, TheConstruct
<1>2. Depth(c, k) = Depth(c, o) + 1 /\ Deeper(c, o + 1, k, Depth(c, o)) /\ Depth(c, o) \in Nat
  BY FormedFacts, <1>0 DEF DepthAt
<1>3. EndOf(c, o + 1) >= k /\ Depth(c, o + 1) = Depth(c, o) + 1 /\ EndOf(c, o + 1) \in Nat
  BY <1>0, <1>2, ScopeIsDeeper, ScopeOf
<1>4. EndOf(c, k) = EndOf(c, o + 1)
  <2>1. k \in o + 1 .. EndOf(c, o + 1) /\ Depth(c, o + 1) > 0 /\ Depth(c, k) = Depth(c, o + 1)
    BY <1>0, <1>2, <1>3
  <2> QED BY <1>0, <2>1, SameEnd
<1>5. e \in 1 .. Len(c)
  BY <1>0, <1>1
<1> HIDE DEF e
<1>6. o = q
  BY <1>0, <1>1, <1>4, <1>5, TheOpening DEF e
<1> QED BY <1>1, <1>4, <1>6

\* An if has no more branches behind its else.
LEMMA NothingBehindElse ==
  ASSUME NEW b, IsBody(b), NEW j \in 1 .. Len(b.code), b.code[j].op = "else",
         NEW k \in j + 1 .. Len(b.code), b.code[k].op \in Middles, DepthAt(b, k) = DepthAt(b, j),
         \A t \in j .. k : DepthAt(b, t) >= DepthAt(b, j)
  PROVE  FALSE
<1> DEFINE c == b.code
           e == EndOf(c, j)
<1>0. c \in Seq(Token) /\ Balanced(c) /\ Len(c) \in Nat /\ c[j].op \in Middles
      /\ k \in 1 .. Len(c) /\ DepthAt(b, j) \in Nat /\ DepthAt(b, j) > 0 /\ j \in 1 .. Len(c) + 1
  BY FormedFacts DEF Middles
<1>1. e \in j + 1 .. Len(c) /\ c[e].op = "end" /\ Depth(c, e) = Depth(c, j)
  <2>1. EndsAt(c, j, e)
    BY <1>0, TheEnd DEF DepthAt
  <2> QED BY <1>0, <2>1, TheConstruct DEF EndsAt
<1>2. DepthAt(b, e + 1) = DepthAt(b, j) - 1
  <2>1. e \in 1 .. Len(c)
    BY <1>0, <1>1
  <2> HIDE DEF e
  <2>2. DepthAt(b, e + 1) = DepthAt(b, e) - 1
    BY <1>1, <2>1, FormedFacts
  <2> QED BY <1>1, <2>2 DEF DepthAt
<1> HIDE DEF e
<1>3. k \in j .. e
  <2>1. CASE e < k
    <3>1. e + 1 \in j .. k
      BY <1>1, <2>1
    <3>2. DepthAt(b, e + 1) >= DepthAt(b, j)
      BY <3>1
    <3> QED BY <1>0, <1>2, <3>2
  <2> QED BY <1>1, <2>1
<1>4. EndOf(c, k) = EndOf(c, j)
  BY <1>0, <1>3, SameEnd DEF DepthAt, e
<1>5. CASE c[k].op = "else"
  <2>1. j < k
    OBVIOUS
  <2> QED BY <1>0, <1>4, <1>5, <2>1 DEF Balanced
<1>6. CASE c[k].op = "arm"
  <2>1. /\ c[OpeningOf(c, EndOf(c, k))].op = (IF c[k].op = "else" THEN "if" ELSE "match")
        /\ c[OpeningOf(c, EndOf(c, j))].op = (IF c[j].op = "else" THEN "if" ELSE "match")
    BY <1>0, TheConstruct
  <2> QED BY <1>4, <1>6, <2>1
<1> QED BY <1>5, <1>6 DEF Middles

LEMMA WalkExtends ==
  ASSUME NEW b, IsBody(b), NEW w, NEW n, Walked(b, w, n), n <= Len(b.code),
         Passes(w[n], b.code[n]),
         NEW v, \A i \in 1 .. n : OpenAt(b, i) => v[i] = w[i],
         v[NextOf(b, n)] = Stepped(w[n], b.code[n])
  PROVE  Walked(b, v, NextOf(b, n))
<1> DEFINE k == NextOf(b, n)
           c == b.code
           es == w[n]
           new == Stepped(es, c[n])
<1>0. /\ n \in 1 .. Len(c) /\ Len(c) \in Nat /\ OpenAt(b, n)
      /\ k \in n + 1 .. Len(c) + 1 /\ OpenAt(b, k)
      /\ \A t \in n + 1 .. k - 1 : ~ OpenAt(b, t)
      /\ c[n].op # "unsafe" => k = n + 1
  <2>1. n \in 1 .. Len(c) /\ OpenAt(b, n) /\ Len(c) \in Nat
    BY FormedFacts DEF Walked, WalkTyped
  <2> QED BY <2>1, NextOpen
<1>1. /\ BaseOf(b) \in {1, 2} /\ DepthAt(b, n) \in Nat /\ DepthAt(b, k) \in Nat
      /\ \A i \in 1 .. Len(c) + 1 : DepthAt(b, i) \in Nat
      /\ c[n].op \in Openings \cup Middles \cup Statements \cup {"end"}
      /\ c[n].op \in Middles \cup {"end"} => DepthAt(b, n) > 0
  <2>1. k \in 1 .. Len(c) + 1 /\ n \in 1 .. Len(c) + 1
    BY <1>0
  <2> QED BY <1>0, <2>1, FormedFacts
<1>2. es \in Chains /\ Len(es) = BaseOf(b) + DepthAt(b, n) /\ Len(es) \in Nat /\ Len(es) > 0
  BY <1>0, <1>1 DEF Walked, WalkTyped
<1>3. /\ new \in Chains /\ Len(new) = BaseOf(b) + DepthAt(b, k)
      /\ Grown(es, new, Len(es) - 1)
      /\ c[n].op = "unsafe" => new = es
  BY <1>0, <1>2, SteppedType
<1>4. ASSUME NEW i \in 1 .. k, OpenAt(b, i) PROVE i \in 1 .. n \/ i = k
  BY <1>0, <1>4
<1>5. v[n] = es /\ v[k] = new
  BY <1>0
<1> HIDE DEF k, new, c
<1>6. WalkTyped(b, v, k)
  <2>1. k \in 1 .. Len(b.code) + 1
    BY <1>0 DEF c
  <2>2. ASSUME NEW i \in 1 .. k, OpenAt(b, i)
        PROVE  v[i] \in Chains /\ Len(v[i]) = BaseOf(b) + DepthAt(b, i)
    <3>1. CASE i = k
      BY <1>3, <1>5, <3>1
    <3>2. CASE i \in 1 .. n
      BY <2>2, <3>2 DEF Walked, WalkTyped
    <3> QED BY <1>4, <2>2, <3>1, <3>2
  <2> QED BY <1>0, <2>1, <2>2 DEF WalkTyped
<1>7. WalkSteps(b, v, k)
  <2>1. v[1] = FirstChain(b)
    <3>1. w[1] = FirstChain(b)
      BY DEF Walked, WalkSteps
    <3>2. OpenAt(b, 1) /\ 1 \in 1 .. n
      BY <1>0 DEF OpenAt, Inside
    <3> QED BY <3>1, <3>2
  <2>2. ASSUME NEW i \in 1 .. k - 1, OpenAt(b, i)
        PROVE  /\ NextOf(b, i) \in 1 .. k
               /\ v[NextOf(b, i)] = Stepped(v[i], b.code[i])
               /\ Passes(v[i], b.code[i])
    <3>1. i \in 1 .. k /\ i # k
      BY <1>0
    <3>2. i \in 1 .. n
      BY <1>4, <2>2, <3>1
    <3>3. CASE i = n
      <4>1. k \in 1 .. k
        BY <1>0
      <4> QED BY <1>5, <3>3, <4>1 DEF k, new, c
    <3>4. CASE i # n
      <4>1. i \in 1 .. n - 1 /\ i \in 1 .. Len(b.code)
        BY <1>0, <3>2, <3>4 DEF c
      <4>2. /\ NextOf(b, i) \in 1 .. n
            /\ w[NextOf(b, i)] = Stepped(w[i], b.code[i])
            /\ Passes(w[i], b.code[i])
        BY <2>2, <4>1 DEF Walked, WalkSteps
      <4>3. OpenAt(b, NextOf(b, i))
        BY <2>2, <4>1, NextOpen
      <4>4. NextOf(b, i) \in 1 .. k
        BY <1>0, <4>2
      <4> QED BY <2>2, <3>2, <4>2, <4>3, <4>4
    <3> QED BY <3>3, <3>4
  <2> QED BY <2>1, <2>2 DEF WalkSteps
<1>8. WalkGrows(b, v, k)
  <2>1. ASSUME NEW h \in 1 .. k, NEW i \in 1 .. h, NEW m \in Nat, OpenAt(b, i), OpenAt(b, h),
               \A t \in i .. h : DepthAt(b, t) >= m
        PROVE  Grown(v[i], v[h], BaseOf(b) + m - 1)
    <3>1. CASE h \in 1 .. n
      <4>1. i \in 1 .. n
        BY <1>0, <3>1
      <4>2. Grown(w[i], w[h], BaseOf(b) + m - 1)
        BY <2>1, <3>1 DEF Walked, WalkGrows
      <4> QED BY <2>1, <3>1, <4>1, <4>2
    <3>2. CASE h = k /\ i = k
      <4>1. m <= DepthAt(b, k)
        <5>1. k \in i .. h
          BY <1>0, <3>2
        <5> QED BY <1>1, <2>1, <5>1
      <4>2. BaseOf(b) + m - 1 \in 0 .. Len(new) /\ BaseOf(b) + m - 1 <= Len(new)
        BY <1>1, <1>3, <4>1
      <4>3. Grown(new, new, BaseOf(b) + m - 1)
        BY <1>3, <4>2, GrownSame
      <4> QED BY <1>5, <3>2, <4>3
    <3>3. CASE h = k /\ i \in 1 .. n
      <4>1. n \in i .. h /\ \A t \in i .. n : t \in i .. h
        BY <1>0, <3>3
      <4>2. \A t \in i .. n : DepthAt(b, t) >= m
        BY <2>1, <4>1
      <4>3. m <= DepthAt(b, n)
        BY <1>1, <2>1, <4>1
      <4>4. Grown(w[i], es, BaseOf(b) + m - 1)
        <5>1. n \in 1 .. n /\ i \in 1 .. n
          BY <1>0, <3>3
        <5> QED BY <1>0, <2>1, <4>2, <5>1 DEF Walked, WalkGrows
      <4>5. Grown(es, new, BaseOf(b) + m - 1)
        <5>1. BaseOf(b) + m - 1 \in 0 .. Len(es) - 1
          BY <1>1, <1>2, <4>3
        <5>2. Len(new) \in Nat
          BY <1>1, <1>3
        <5> QED BY <1>2, <1>3, <5>1, <5>2, GrownLess
      <4>6. Grown(w[i], new, BaseOf(b) + m - 1)
        BY <4>4, <4>5, GrownTrans
      <4> QED BY <1>5, <2>1, <3>3, <4>6
    <3>4. h \in 1 .. n \/ h = k
      BY <1>4, <2>1
    <3>5. i \in 1 .. n \/ i = k
      <4>1. i \in 1 .. k
        BY <1>0
      <4> QED BY <1>4, <2>1, <4>1
    <3> QED BY <3>1, <3>2, <3>3, <3>4, <3>5
  <2> QED BY <2>1 DEF WalkGrows
\* a level of es that new has too is of the same kind, unless the token is a middle
<1>9. ASSUME NEW p \in 1 .. Len(es), p <= Len(new), c[n].op \notin Middles \/ p # Len(es)
      PROVE  /\ new[p].opening = es[p].opening /\ new[p].scrutinee = es[p].scrutinee
             /\ new[p].earlier = es[p].earlier
  <2>1. CASE p # Len(es)
    <3>1. p \in 1 .. Len(es) - 1
      BY <1>2, <2>1
    <3> QED BY <1>3, <3>1 DEF Grown
  <2>2. CASE p = Len(es) /\ c[n].op = "unsafe"
    BY <1>3, <2>2
  <2>3. CASE p = Len(es) /\ c[n].op \in Openings \ {"unsafe"}
    <3>1. Grown(es, new, Len(es))
      BY <1>0, <1>2, <2>3, SteppedOpening DEF c, new
    <3> QED BY <3>1 DEF Grown
  <2>4. CASE p = Len(es) /\ c[n].op \in Statements
    BY <1>0, <1>2, <2>4, SteppedStatement DEF c, new
  <2>5. CASE p = Len(es) /\ c[n].op = "end"
    <3>1. Len(es) > 1
      BY <1>1, <1>2, <2>5
    <3>2. Len(new) = Len(es) - 1
      BY <1>0, <1>2, <2>5, <3>1, SteppedEnd DEF c, new
    <3> QED BY <1>2, <1>9, <2>5, <3>2
  <2> QED BY <1>1, <1>9, <2>1, <2>2, <2>3, <2>4, <2>5
<1>10. WalkShapes(b, v, k)
  <2>1. ASSUME NEW h \in 1 .. k, OpenAt(b, h), NEW o \in 1 .. h - 1,
               b.code[o].op \in Openings, Deeper(b.code, o + 1, h, DepthAt(b, o))
        PROVE  /\ v[h][BaseOf(b) + DepthAt(b, o) + 1].opening = b.code[o].op
               /\ b.code[o].op = "match" => v[h][BaseOf(b) + DepthAt(b, o) + 1].scrutinee
                                              = Regions!Get(v[o], b.code[o].of).region
    <3> DEFINE p == BaseOf(b) + DepthAt(b, o) + 1
    <3>0. o \in 1 .. Len(c) /\ DepthAt(b, o) \in Nat /\ OpenAt(b, o) /\ o \in 1 .. k
      <4>1. o \in 1 .. Len(c) /\ o \in 1 .. Len(c) + 1 /\ h \in o + 1 .. Len(c) + 1 /\ o \in 1 .. k
        BY <1>0
      <4>2. EndOf(c, o + 1) >= h
        BY <2>1, <4>1, FormedFacts, ScopeIsDeeper DEF c, DepthAt
      <4>3. h \in o + 1 .. EndOf(c, o + 1)
        <5>1. EndOf(c, o + 1) \in Nat
          BY <2>1, <4>1, FormedFacts, ScopeOf DEF c
        <5> QED BY <4>1, <4>2, <5>1
      <4> QED BY <1>1, <2>1, <4>1, <4>3, OpenOf DEF c
    <3>1. CASE h \in 1 .. n
      <4>1. o \in 1 .. n
        BY <1>0, <3>1
      <4>2. /\ w[h][p].opening = b.code[o].op
            /\ b.code[o].op = "match" => w[h][p].scrutinee = Regions!Get(w[o], b.code[o].of).region
        BY <2>1, <3>1 DEF Walked, WalkShapes
      <4> QED BY <2>1, <3>0, <3>1, <4>1, <4>2
    <3>2. CASE h = k /\ o = n
      <4>1. c[n].op \in Openings \ {"unsafe"}
        <5>1. ASSUME c[n].op = "unsafe" PROVE FALSE
          <6>1. DepthAt(b, k) = DepthAt(b, n)
            BY <1>0, <5>1, NextOpen DEF c, k
          <6>2. k \in o + 1 .. h
            BY <1>0, <3>2
          <6>3. Depth(b.code, k) > DepthAt(b, n)
            BY <2>1, <3>2, <6>2 DEF Deeper
          <6> QED BY <1>1, <6>1, <6>3 DEF DepthAt
        <5> QED BY <2>1, <3>2, <5>1 DEF c
      <4>2. /\ new[Len(es) + 1].opening = c[n].op
            /\ c[n].op = "match" => new[Len(es) + 1].scrutinee = Regions!Get(es, c[n].of).region
        BY <1>0, <1>2, <4>1, SteppedOpening DEF c, new
      <4>3. p = Len(es) + 1
        BY <1>2, <3>2
      <4> QED BY <1>5, <3>2, <4>2, <4>3 DEF c
    <3>3. CASE h = k /\ o \in 1 .. n - 1
      <4>1. Deeper(b.code, o + 1, n, DepthAt(b, o)) /\ DepthAt(b, n) > DepthAt(b, o)
        <5>1. n \in o + 1 .. h /\ \A t \in o + 1 .. n : t \in o + 1 .. h
          BY <1>0, <3>3
        <5> QED BY <2>1, <5>1 DEF Deeper, DepthAt
      <4>2. DepthAt(b, k) > DepthAt(b, o)
        <5>1. k \in o + 1 .. h
          BY <1>0, <3>3
        <5> QED BY <2>1, <5>1 DEF Deeper, DepthAt
      <4>3. /\ es[p].opening = b.code[o].op
            /\ b.code[o].op = "match" => es[p].scrutinee = Regions!Get(w[o], b.code[o].of).region
        <5>1. n \in 1 .. n
          BY <1>0
        <5>2. WalkShapes(b, w, n) /\ OpenAt(b, n) /\ o \in 1 .. n - 1
          BY <1>0, <3>3 DEF Walked
        <5>3. b.code[o].op \in Openings /\ Deeper(b.code, o + 1, n, DepthAt(b, o))
          BY <2>1, <4>1
        <5> QED BY ONLY <5>1, <5>2, <5>3 DEF WalkShapes
      <4>8. /\ BaseOf(b) \in Nat /\ DepthAt(b, o) \in Nat
            /\ DepthAt(b, n) \in Nat /\ DepthAt(b, k) \in Nat
            /\ DepthAt(b, n) > DepthAt(b, o) /\ DepthAt(b, k) > DepthAt(b, o)
            /\ Len(es) = BaseOf(b) + DepthAt(b, n) /\ Len(new) = BaseOf(b) + DepthAt(b, k)
        BY <1>1, <1>2, <1>3, <3>0, <4>1, <4>2
      <4>4. p \in 1 .. Len(es) /\ p <= Len(new)
        BY ONLY <4>8
      <4>5. v[o] = w[o] /\ v[h] = new
        <5>1. o \in 1 .. n
          BY <1>0, <3>3
        <5> QED BY <1>5, <3>0, <3>3, <5>1
      <4>6. CASE c[n].op \notin Middles \/ p # Len(es)
        BY <1>9, <4>3, <4>4, <4>5, <4>6
      <4>7. CASE c[n].op \in Middles /\ p = Len(es)
        <5>0. p = Len(es)
          BY <4>7
        <5>1. DepthAt(b, n) = DepthAt(b, o) + 1 /\ Len(es) > 1
          <6>1. BaseOf(b) > 0
            BY <1>1
          <6> QED BY ONLY <4>8, <5>0, <6>1
        <5>2. b.code[o].op = IF b.code[n].op = "else" THEN "if" ELSE "match"
          BY <1>0, <2>1, <3>3, <4>1, <4>7, <5>1, ConstructAround DEF c
        <5>3. /\ c[n].op = "else" => new[Len(es)].opening = "if"
              /\ c[n].op = "arm" => /\ new[Len(es)].opening = "match"
                                    /\ new[Len(es)].scrutinee = es[Len(es)].scrutinee
          BY <1>0, <1>2, <4>7, <5>1, SteppedMiddle DEF c, new
        <5>4. c[n].op \in {"else", "arm"}
          BY <4>7 DEF Middles
        <5> QED BY <4>3, <4>5, <4>7, <5>2, <5>3, <5>4 DEF c
      <4> QED BY <4>6, <4>7
    <3>4. h \in 1 .. n \/ h = k
      BY <1>4, <2>1
    <3>5. h = k => o = n \/ o \in 1 .. n - 1
      <4>1. ASSUME h = k PROVE o = n \/ o \in 1 .. n - 1
        <5>1. o \in 1 .. n
          <6>1. o # k
            BY <1>0, <4>1
          <6> QED BY <1>4, <3>0, <6>1
        <5> QED BY <1>0, <5>1
      <4> QED BY <4>1
    <3> QED BY <3>1, <3>2, <3>3, <3>4, <3>5
  <2> QED BY <2>1 DEF WalkShapes
<1>11. WalkElses(b, v, k)
  <2>1. ASSUME NEW h \in 1 .. k, OpenAt(b, h), NEW j \in 1 .. h - 1,
               OpenAt(b, j), b.code[j].op = "else",
               \A t \in j .. h : DepthAt(b, t) >= DepthAt(b, j)
        PROVE  v[j][BaseOf(b) + DepthAt(b, j)].moved \subseteq v[h][BaseOf(b) + DepthAt(b, j)].earlier
    <3> DEFINE p == BaseOf(b) + DepthAt(b, j)
    <3>0. j \in 1 .. n /\ j \in 1 .. Len(c) /\ DepthAt(b, j) \in Nat
      <4>1. j \in 1 .. k /\ j # k
        BY <1>0
      <4>2. j \in 1 .. n
        BY <1>4, <2>1, <4>1
      <4> QED BY <1>0, <1>1, <4>2
    <3>1. CASE h \in 1 .. n
      <4>1. w[j][p].moved \subseteq w[h][p].earlier
        BY <2>1, <3>1 DEF Walked, WalkElses
      <4> QED BY <2>1, <3>0, <3>1, <4>1
    <3>2. CASE h = k /\ j = n
      <4>1. c[n].op \in Middles /\ Len(es) > 1
        <5>1. c[n].op \in Middles
          BY <2>1, <3>2 DEF c, Middles
        <5> QED BY <1>1, <1>2, <5>1
      <4>2. new[Len(es)].earlier = es[Len(es)].moved
        BY <1>0, <1>2, <2>1, <3>2, <4>1, SteppedMiddle DEF c, new
      <4> QED BY <1>2, <1>5, <3>2, <4>2
    <3>3. CASE h = k /\ j # n
      <4>1. j \in 1 .. n - 1 /\ n \in j .. h /\ k \in j .. h /\ \A t \in j .. n : t \in j .. h
        BY <1>0, <3>0, <3>3
      <4>2. /\ DepthAt(b, n) >= DepthAt(b, j) /\ DepthAt(b, k) >= DepthAt(b, j)
            /\ \A t \in j .. n : DepthAt(b, t) >= DepthAt(b, j)
        BY <2>1, <4>1
      <4>3. w[j][p].moved \subseteq es[p].earlier
        <5>1. n \in 1 .. n
          BY <1>0
        <5> QED BY <1>0, <2>1, <4>1, <4>2, <5>1 DEF Walked, WalkElses
      <4>4. p \in 1 .. Len(es) /\ p <= Len(new)
        <5>1. /\ BaseOf(b) \in {1, 2} /\ DepthAt(b, j) \in Nat
              /\ DepthAt(b, n) \in Nat /\ DepthAt(b, k) \in Nat
              /\ DepthAt(b, n) >= DepthAt(b, j) /\ DepthAt(b, k) >= DepthAt(b, j)
          BY ONLY <1>1, <3>0, <4>2
        <5>2. Len(es) = BaseOf(b) + DepthAt(b, n) /\ Len(new) = BaseOf(b) + DepthAt(b, k)
          BY ONLY <1>2, <1>3
        <5> QED BY ONLY <5>1, <5>2
      <4>5. c[n].op \notin Middles \/ p # Len(es)
        <5>1. ASSUME c[n].op \in Middles, p = Len(es) PROVE FALSE
          <6>1. DepthAt(b, n) = DepthAt(b, j)
            BY <1>1, <1>2, <3>0, <5>1
          <6>2. n \in j + 1 .. Len(b.code)
            BY <1>0, <4>1 DEF c
          <6> QED BY <2>1, <3>0, <4>2, <5>1, <6>1, <6>2, NothingBehindElse DEF c
        <5> QED BY <5>1
      <4>6. new[p].earlier = es[p].earlier
        BY <1>9, <4>4, <4>5
      <4> QED BY <1>5, <2>1, <3>0, <3>3, <4>3, <4>6
    <3>4. h \in 1 .. n \/ h = k
      BY <1>4, <2>1
    <3> QED BY <3>1, <3>2, <3>3, <3>4
  <2> QED BY <2>1 DEF WalkElses
<1> QED BY <1>6, <1>7, <1>8, <1>10, <1>11 DEF Walked, k

-----------------------------------------------------------------------------
(***************************************************************************)
(* Without borrowed parameters nothing is ever known as borrowed.          *)
(***************************************************************************)
NoBorrow(es) ==
  \A i \in 1 .. Len(es) : /\ es[i].scrutinee # "borrowed"
                          /\ \A x \in Names : es[i].binds[x].region # "borrowed"

LEMMA NoBorrowKnown ==
  ASSUME NEW es \in Chains, NoBorrow(es), NEW x \in Names
  PROVE  Regions!Get(es, x).region # "borrowed"
<1> DEFINE H == Regions!Holders(es, x)
           T == CHOOSE i \in H : \A j \in H : j <= i
<1>1. CASE H = {}
  BY <1>1 DEF Regions!Get, Regions!Has, Regions!Unbound
<1>2. CASE H # {}
  <2>1. H \in SUBSET (0 .. Len(es)) /\ Len(es) \in Nat /\ H \subseteq 1 .. Len(es)
    BY DEF Regions!Holders, Chains
  <2>2. \E i \in H : \A j \in H : j <= i
    <3> HIDE DEF H
    <3> QED BY ONLY <2>1, <1>2, Largest
  <2>3. T \in H
    <3> HIDE DEF H
    <3> QED BY <2>2
  <2>4. Regions!Get(es, x) = es[T].binds[x]
    BY <1>2 DEF Regions!Get, Regions!Has
  <2> HIDE DEF H, T
  <2> QED BY <2>1, <2>3, <2>4 DEF NoBorrow
<1> QED BY <1>1, <1>2

LEMMA NoBorrowDefined ==
  ASSUME NEW es \in Chains, Len(es) > 0, NoBorrow(es), NEW x \in Names
  PROVE  NoBorrow(Regions!Define(es, x, Regions!Binding("owned")))
<1> DEFINE info == Regions!Binding("owned")
           new == Regions!Define(es, x, info)
<1>1. info \in Regions!Info /\ info.region = "owned"
  BY DEF Regions!Binding, Regions!Info, Regions!Region
<1> HIDE DEF info
<1>2. /\ Len(new) = Len(es)
      /\ \A i \in 1 .. Len(es) : /\ new[i].scrutinee = es[i].scrutinee
                                 /\ i # Len(es) => new[i].binds = es[i].binds
      /\ \A y \in Names : new[Len(es)].binds[y] = IF y = x THEN info ELSE es[Len(es)].binds[y]
  BY <1>1, Defined
<1> HIDE DEF new
<1>3. NoBorrow(new)
  BY <1>1, <1>2 DEF NoBorrow
<1> QED BY <1>3 DEF new, info

LEMMA NoBorrowMarked ==
  ASSUME NEW es \in Chains, Len(es) > 0, NoBorrow(es), NEW S \in SUBSET Names
  PROVE  NoBorrow(Regions!MarkMoved(es, S))
<1> DEFINE new == Regions!MarkMoved(es, S)
<1>1. /\ Len(new) = Len(es)
      /\ \A i \in 1 .. Len(es) : /\ new[i].scrutinee = es[i].scrutinee
                                 /\ i # Len(es) => new[i].binds = es[i].binds
      /\ \A y \in S : new[Len(es)].binds[y].region = Regions!Get(es, y).region
      /\ \A y \in Names \ S : new[Len(es)].binds[y] = es[Len(es)].binds[y]
  BY Marked
<1> HIDE DEF new
<1>2. \A y \in S : Regions!Get(es, y).region # "borrowed"
  BY NoBorrowKnown
<1>3. \A y \in Names : y \in S \/ y \in Names \ S
  OBVIOUS
<1>4. NoBorrow(new)
  BY <1>1, <1>2, <1>3 DEF NoBorrow
<1> QED BY <1>4 DEF new

LEMMA NoBorrowAppended ==
  ASSUME NEW es \in Chains, NoBorrow(es), NEW env \in Regions!Env, env.scrutinee # "borrowed",
         \A x \in Names : env.binds[x].region # "borrowed"
  PROVE  NoBorrow(Append(es, env))
<1> DEFINE new == Append(es, env)
<1>1. /\ Len(new) = Len(es) + 1 /\ Len(es) \in Nat
      /\ \A i \in 1 .. Len(es) : new[i] = es[i]
      /\ new[Len(es) + 1] = env
  BY Appended DEF Chains
<1> HIDE DEF new
<1>2. \A i \in 1 .. Len(new) : i \in 1 .. Len(es) \/ i = Len(es) + 1
  BY <1>1
<1>3. NoBorrow(new)
  BY <1>1, <1>2 DEF NoBorrow
<1> QED BY <1>3 DEF new

LEMMA NoBorrowOuter ==
  ASSUME NEW es \in Chains, Len(es) > 0, NoBorrow(es)
  PROVE  NoBorrow(Regions!Outer(es)) /\ Regions!Top(es).scrutinee # "borrowed"
<1> DEFINE new == Regions!Outer(es)
<1>1. /\ Len(new) = Len(es) - 1 /\ Len(es) \in Nat
      /\ \A i \in 1 .. Len(es) - 1 : new[i] = es[i]
      /\ Regions!Top(es) = es[Len(es)]
  BY WithoutTop DEF Chains
<1> HIDE DEF new
<1>2. \A i \in 1 .. Len(new) : i \in 1 .. Len(es) /\ new[i] = es[i]
  BY <1>1
<1>3. NoBorrow(new)
  BY <1>2 DEF NoBorrow
<1>4. Len(es) \in 1 .. Len(es)
  BY <1>1
<1> QED BY <1>1, <1>3, <1>4 DEF new, NoBorrow

LEMMA NoBorrowMerged ==
  ASSUME NEW es \in Chains, Len(es) > 0, NoBorrow(es), NEW S \in SUBSET Names
  PROVE  NoBorrow(Regions!Merge(es, S))
<1> DEFINE T == {x \in S : Regions!Has(es, x)}
<1>1. T \in SUBSET Names
  OBVIOUS
<1>2. NoBorrow(Regions!MarkMoved(es, T))
  <2> HIDE DEF T
  <2> QED BY <1>1, NoBorrowMarked
<1> QED BY <1>2 DEF Regions!Merge

LEMMA NoBorrowStepped ==
  ASSUME NEW b, IsBody(b), NEW i \in 1 .. Len(b.code),
         NEW es \in Chains, Len(es) = BaseOf(b) + DepthAt(b, i), NoBorrow(es)
  PROVE  NoBorrow(Stepped(es, b.code[i]))
<1> DEFINE t == b.code[i]
           new == Stepped(es, t)
<1>0. /\ t.op \in Openings \cup Middles \cup Statements \cup {"end"}
      /\ Len(es) \in Nat /\ Len(es) > 0 /\ (t.op \in {"else", "arm", "end"} => Len(es) > 1)
      /\ t.op \in {"fresh", "copy"} => t.to \in Names
      /\ t.op \in {"copy", "give", "store", "return", "match"} => t.of \in Names
  <2>1. /\ t.op \in Openings \cup Middles \cup Statements \cup {"end"}
        /\ t.op \in {"fresh", "copy"} => t.to \in Names
        /\ t.op \in {"copy", "give", "store", "return", "match"} => t.of \in Names
        /\ BaseOf(b) \in {1, 2} /\ DepthAt(b, i) \in Nat
        /\ t.op \in {"else", "arm", "end"} => DepthAt(b, i) > 0
    BY FormedFacts DEF Middles
  <2> HIDE DEF t
  <2> QED BY <2>1
<1>1. \A x : Regions!Binding(x).region = x /\ Regions!Unbound.region = "none"
  BY DEF Regions!Binding, Regions!Unbound
<1> SUFFICES NoBorrow(new)
  BY DEF new, t
<1> HIDE DEF t
<1>2. CASE t.op = "fresh"
  BY <1>0, <1>2, SteppedCases, NoBorrowDefined
<1>3. CASE t.op = "copy"
  <2> DEFINE m == Regions!MarkMoved(es, {t.of})
  <2>1. {t.of} \in SUBSET Names
    BY <1>0, <1>3
  <2>2. m \in Chains /\ Len(m) = Len(es) /\ NoBorrow(m)
    BY <1>0, <2>1, Marked, NoBorrowMarked
  <2>3. new = Regions!Define(m, t.to, Regions!Binding("owned"))
    BY <1>3, SteppedCases
  <2> HIDE DEF m
  <2> QED BY <1>0, <1>3, <2>2, <2>3, NoBorrowDefined
<1>4. CASE t.op \in {"give", "store", "return"}
  <2>1. {t.of} \in SUBSET Names
    BY <1>0, <1>4
  <2>2. new = Regions!MarkMoved(es, {t.of})
    BY <1>4, SteppedCases
  <2> QED BY <1>0, <2>1, <2>2, NoBorrowMarked
<1>5. CASE t.op \in {"if", "loop", "block"}
  <2> DEFINE env == Regions!EnvOf(t.op, "none")
  <2>1. env \in Regions!Env /\ env.scrutinee = "none" /\ \A x \in Names : env.binds[x] = Regions!Unbound
    BY <1>5, NewEnvs DEF Region
  <2>2. new = Append(es, env)
    BY <1>5, SteppedCases
  <2> HIDE DEF env
  <2> QED BY <1>1, <2>1, <2>2, NoBorrowAppended
<1>6. CASE t.op = "match"
  <2> DEFINE region == Regions!Get(es, t.of).region
             S == IF region = "owned" THEN {t.of} ELSE {}
             m == Regions!MarkMoved(es, S)
             env == Regions!ArmEnv(region, t.to)
  <2>1. new = Append(m, env)
    BY <1>6, SteppedCases
  <2>2. region \in Region /\ region # "borrowed"
    <3>1. t.of \in Names /\ Len(es) \in 0 .. Len(es)
      BY <1>0, <1>6
    <3>2. Regions!Get(es, t.of) \in Regions!Info
      BY <3>1, InfoType
    <3> QED BY <3>1, <3>2, NoBorrowKnown DEF Regions!Info, Regions!Region, Region
  <2>3. S \in SUBSET Names
    BY <1>0, <1>6
  <2> HIDE DEF region, S
  <2>4. m \in Chains /\ NoBorrow(m)
    BY <1>0, <2>3, Marked, NoBorrowMarked
  <2>5. env \in Regions!Env /\ env.scrutinee = region
        /\ \A x \in Names : env.binds[x] = IF x = t.to THEN Regions!Binding(region) ELSE Regions!Unbound
    BY <2>2, NewEnvs
  <2> HIDE DEF m, env
  <2>6. \A x \in Names : env.binds[x].region # "borrowed"
    BY <1>1, <2>2, <2>5
  <2> QED BY <2>1, <2>2, <2>4, <2>5, <2>6, NoBorrowAppended
<1>7. CASE t.op \in {"else", "arm", "end"}
  <2> DEFINE out == Regions!Outer(es)
             top == Regions!Top(es)
  <2>1. /\ out \in Chains /\ Len(out) > 0 /\ NoBorrow(out) /\ top.scrutinee # "borrowed"
        /\ top.moved \in SUBSET Names /\ top.earlier \in SUBSET Names /\ top.scrutinee \in Region
    <3>1. Len(es) - 1 > 0
      BY <1>0, <1>7
    <3> QED BY <1>0, <3>1, WithoutTop, NoBorrowOuter DEF Regions!Region, Region
  <2> HIDE DEF out, top
  <2>2. CASE t.op = "else"
    <3> DEFINE env == [Regions!EnvOf("if", "none") EXCEPT !.earlier = top.moved]
    <3>1. new = Append(out, env)
      BY <2>2, SteppedCases DEF out, top
    <3>2. env \in Regions!Env /\ env.scrutinee = "none" /\ \A x \in Names : env.binds[x] = Regions!Unbound
      BY <2>1, NewEnvs
    <3> HIDE DEF env
    <3> QED BY <1>1, <2>1, <3>1, <3>2, NoBorrowAppended
  <2>3. CASE t.op = "arm"
    <3> DEFINE env == Regions!ArmEnv(top.scrutinee, t.to)
               m == Regions!Merge(out, top.moved)
    <3>1. new = Append(m, env)
      BY <2>3, SteppedCases DEF out, top
    <3>2. env \in Regions!Env /\ env.scrutinee = top.scrutinee
          /\ \A x \in Names : env.binds[x] = IF x = t.to THEN Regions!Binding(top.scrutinee) ELSE Regions!Unbound
      BY <2>1, NewEnvs
    <3>3. m \in Chains /\ NoBorrow(m)
      BY <2>1, KnownMerged, NoBorrowMerged
    <3> HIDE DEF env, m
    <3>4. \A x \in Names : env.binds[x].region # "borrowed"
      BY <1>1, <2>1, <3>2
    <3> QED BY <2>1, <3>1, <3>2, <3>3, <3>4, NoBorrowAppended
  <2>4. CASE t.op = "end"
    <3> DEFINE S == top.moved \cup top.earlier
    <3>1. new = IF top.opening \in {"if", "match"} THEN Regions!Merge(out, S) ELSE out
      BY <2>4, SteppedCases DEF out, top
    <3>2. S \in SUBSET Names
      BY <2>1
    <3>3. NoBorrow(Regions!Merge(out, S))
      <4> HIDE DEF S
      <4> QED BY <2>1, <3>2, NoBorrowMerged
    <3> QED BY <2>1, <3>1, <3>3
  <2> QED BY <1>7, <2>2, <2>3, <2>4
<1>8. CASE t.op \in {"read", "module_give", "capture", "break", "continue", "yield", "unsafe", "give_field"}
  BY <1>8, SteppedCases
<1>9. \/ t.op \in {"fresh", "copy"} \/ t.op \in {"give", "store", "return"} \/ t.op \in {"if", "loop", "block"}
      \/ t.op = "match" \/ t.op \in {"else", "arm", "end"}
      \/ t.op \in {"read", "module_give", "capture", "break", "continue", "yield", "unsafe", "give_field"}
  BY <1>0 DEF Openings, Middles, Statements
<1> QED BY <1>2, <1>3, <1>4, <1>5, <1>6, <1>7, <1>8, <1>9

-----------------------------------------------------------------------------
(***************************************************************************)
(* RegionChecker's walk, told as a sequence of chains: trace holds what it *)
(* knew before each token behind it, envs what it knows where it is.  A    *)
(* walk is quiet if no borrowed value ends a match before its last arm.    *)
(***************************************************************************)
NoneBorrowed(b) == \A x \in Names : b.params[x] # "borrowed"
Quiet(b) == NoneBorrowed(b) \/ \A i \in 1 .. Len(b.code) : b.code[i].op # "yield"

Snapshots == [i \in 1 .. at |-> IF i = at THEN envs ELSE trace[i]]

WalkInv ==
  /\ CheckerType
  /\ Quiet(body) => Walked(body, Snapshots, at)
  /\ NoneBorrowed(body) => NoBorrow(envs)
  /\ verdict = "accepted" => at = Len(Code) + 1
  /\ verdict = "rejected" => at <= Len(Code) /\ ~ Passes(envs, Code[at])

LEMMA FailsOrPasses ==
  ~ Regions!Fails <=> Passes(envs, Code[at])
BY DEF Regions!Fails, Regions!Here, Passes, Code

LEMMA WalkMoves ==
  ASSUME CheckerType, Regions!Next, verdict' = "none",
         Code[at].op = "yield" => Regions!Get(envs, Code[at].of).region # "borrowed"
  PROVE  /\ at \in 1 .. Len(Code) /\ at' = NextOf(body, at) /\ body' = body
         /\ envs' = Stepped(envs, Code[at]) /\ Passes(envs, Code[at])
         /\ trace'[at] = envs /\ \A i \in 1 .. Len(Code) : i # at => trace'[i] = trace[i]
<1> DEFINE t == Code[at]
           P == /\ at \in 1 .. Len(Code) /\ at' = NextOf(body, at) /\ body' = body
                /\ envs' = Stepped(envs, t) /\ Passes(envs, t)
                /\ trace'[at] = envs /\ \A i \in 1 .. Len(Code) : i # at => trace'[i] = trace[i]
<1>0. ASSUME NEW ops, Regions!Walk(ops), at' = NextOf(body, at), envs' = Stepped(envs, t)
      PROVE  P
  <2>1. /\ at \in 1 .. Len(Code) /\ body' = body /\ ~ Regions!Fails
        /\ trace'[at] = envs /\ \A i \in 1 .. Len(Code) : i # at => trace'[i] = trace[i]
    BY <1>0, WalkTypes
  <2> QED BY <1>0, <2>1, FailsOrPasses
<1>1. ASSUME NEW ops, Regions!Walk(ops) PROVE t.op \in ops /\ t = Regions!Here
  BY <1>1, WalkTypes DEF Regions!Here, Code
<1>2. ASSUME NEW ops, Regions!Walk(ops), at' = at + 1, "unsafe" \notin ops
      PROVE  at' = NextOf(body, at)
  BY <1>1, <1>2 DEF NextOf, Code
<1> HIDE DEF t, P
<1> SUFFICES P
  BY DEF P, t
<1>3. CASE Regions!Bind
  <2>1. Regions!Walk({"fresh"}) /\ at' = at + 1
        /\ envs' = Regions!Define(envs, Regions!Here.to, Regions!Binding("owned"))
    BY <1>3 DEF Regions!Bind
  <2>2. at' = NextOf(body, at) /\ t.op = "fresh" /\ t = Regions!Here
    BY <2>1, <1>1, <1>2
  <2>3. envs' = Stepped(envs, t)
    BY <2>1, <2>2, SteppedCases
  <2> QED BY <1>0, <2>1, <2>2, <2>3
<1>4. CASE Regions!Copy
  <2>1. Regions!Walk({"copy"}) /\ at' = at + 1
        /\ envs' = Regions!Define(Regions!MarkMoved(envs, {Regions!Here.of}), Regions!Here.to,
                                  Regions!Binding("owned"))
    BY <1>4 DEF Regions!Copy
  <2>2. at' = NextOf(body, at) /\ t.op = "copy" /\ t = Regions!Here
    BY <2>1, <1>1, <1>2
  <2>3. envs' = Stepped(envs, t)
    BY <2>1, <2>2, SteppedCases
  <2> QED BY <1>0, <2>1, <2>2, <2>3
<1>5. CASE Regions!Read
  <2> DEFINE ops == {"read", "module_give", "capture", "break", "continue"}
  <2>1. Regions!Walk(ops) /\ at' = at + 1 /\ envs' = envs
    BY <1>5 DEF Regions!Read
  <2>2. at' = NextOf(body, at) /\ t.op \in ops
    BY <2>1, <1>1, <1>2
  <2>3. envs' = Stepped(envs, t)
    BY <2>1, <2>2, SteppedCases
  <2> QED BY <1>0, <2>1, <2>2, <2>3
<1>6. CASE Regions!Consume
  <2> DEFINE ops == {"give", "store", "return"}
  <2>1. Regions!Walk(ops) /\ at' = at + 1 /\ envs' = Regions!MarkMoved(envs, {Regions!Here.of})
    BY <1>6 DEF Regions!Consume
  <2>2. at' = NextOf(body, at) /\ t.op \in ops /\ t = Regions!Here
    BY <2>1, <1>1, <1>2
  <2>3. t.op \in ops => Stepped(envs, t) = Regions!MarkMoved(envs, {t.of})
    BY SteppedCases
  <2>4. envs' = Stepped(envs, t)
    BY <2>1, <2>2, <2>3
  <2>5. Regions!Walk(ops) /\ at' = NextOf(body, at) /\ envs' = Stepped(envs, t)
    BY <2>1, <2>2, <2>4
  <2> HIDE DEF ops
  <2> QED BY ONLY <1>0, <2>5
<1>7. CASE Regions!OpenIf
  <2>1. Regions!Walk({"if"}) /\ at' = at + 1 /\ envs' = Append(envs, Regions!EnvOf("if", "none"))
    BY <1>7 DEF Regions!OpenIf
  <2>2. at' = NextOf(body, at) /\ t.op = "if"
    BY <2>1, <1>1, <1>2
  <2>3. envs' = Stepped(envs, t)
    <3>1. Stepped(envs, t) = Append(envs, Regions!EnvOf(t.op, "none"))
      BY <2>2, SteppedCases
    <3> QED BY <2>1, <2>2, <3>1
  <2> QED BY <1>0, <2>1, <2>2, <2>3
<1>8. CASE Regions!Else
  <2>1. Regions!Walk({"else"}) /\ at' = at + 1
        /\ envs' = Append(Regions!Outer(envs),
                          [Regions!EnvOf("if", "none") EXCEPT !.earlier = Regions!Top(envs).moved])
    BY <1>8 DEF Regions!Else
  <2>2. at' = NextOf(body, at) /\ t.op = "else"
    BY <2>1, <1>1, <1>2
  <2>3. envs' = Stepped(envs, t)
    BY <2>1, <2>2, SteppedCases
  <2> QED BY <1>0, <2>1, <2>2, <2>3
<1>9. CASE Regions!OpenMatch
  <2> DEFINE region == Regions!Get(envs, Regions!Here.of).region
  <2>1. Regions!Walk({"match"}) /\ at' = at + 1
        /\ envs' = Append(Regions!MarkMoved(envs, IF region = "owned" THEN {Regions!Here.of} ELSE {}),
                          Regions!ArmEnv(region, Regions!Here.to))
    BY <1>9 DEF Regions!OpenMatch
  <2>2. at' = NextOf(body, at) /\ t.op = "match" /\ t = Regions!Here
    BY <2>1, <1>1, <1>2
  <2>3. envs' = Stepped(envs, t)
    BY <2>1, <2>2, SteppedCases
  <2> QED BY <1>0, <2>1, <2>2, <2>3
<1>10. CASE Regions!Arm
  <2>1. Regions!Walk({"arm"}) /\ at' = at + 1
        /\ envs' = Append(Regions!Merge(Regions!Outer(envs), Regions!Top(envs).moved),
                          Regions!ArmEnv(Regions!Top(envs).scrutinee, Regions!Here.to))
    BY <1>10 DEF Regions!Arm
  <2>2. at' = NextOf(body, at) /\ t.op = "arm" /\ t = Regions!Here
    BY <2>1, <1>1, <1>2
  <2>3. envs' = Stepped(envs, t)
    BY <2>1, <2>2, SteppedCases
  <2> QED BY <1>0, <2>1, <2>2, <2>3
<1>11. CASE Regions!Yield
  <2>1. Regions!Walk({"yield"})
    BY <1>11 DEF Regions!Yield
  <2>2. t.op = "yield" /\ t = Regions!Here
    BY <2>1, <1>1
  <2>3. at' = at + 1 /\ envs' = envs
    BY <1>11, <2>2 DEF Regions!Yield, Regions!Here, Code, t
  <2>4. at' = NextOf(body, at)
    BY <1>2, <2>1, <2>3
  <2>5. envs' = Stepped(envs, t)
    BY <2>2, <2>3, SteppedCases
  <2> QED BY <1>0, <2>1, <2>4, <2>5
<1>12. CASE Regions!OpenScope
  <2> DEFINE ops == {"loop", "block"}
  <2>1. Regions!Walk(ops) /\ at' = at + 1
        /\ envs' = Append(envs, Regions!EnvOf(Regions!Here.op, "none"))
    BY <1>12 DEF Regions!OpenScope
  <2>2. at' = NextOf(body, at) /\ t.op \in ops /\ t = Regions!Here
    BY <2>1, <1>1, <1>2
  <2>3. envs' = Stepped(envs, t)
    BY <2>1, <2>2, SteppedCases
  <2> QED BY <1>0, <2>1, <2>2, <2>3
<1>13. CASE Regions!SkipUnsafe
  <2>1. Regions!Walk({"unsafe"}) /\ at' = EndOf(Code, at + 1) + 1 /\ envs' = envs
    BY <1>13, SameStructure DEF Regions!SkipUnsafe, Code
  <2>2. t.op = "unsafe"
    BY <2>1, <1>1
  <2>3. at' = NextOf(body, at)
    BY <2>1, <2>2 DEF NextOf, t, Code
  <2>4. envs' = Stepped(envs, t)
    BY <2>1, <2>2, SteppedCases
  <2> QED BY <1>0, <2>1, <2>3, <2>4
<1>14. CASE Regions!Close
  <2> DEFINE top == Regions!Top(envs)
  <2>1. Regions!Walk({"end"}) /\ at' = at + 1
        /\ envs' = IF top.opening \in {"if", "match"}
                   THEN Regions!Merge(Regions!Outer(envs), top.moved \cup top.earlier)
                   ELSE Regions!Outer(envs)
    BY <1>14 DEF Regions!Close
  <2>2. at' = NextOf(body, at) /\ t.op = "end"
    BY <2>1, <1>1, <1>2
  <2>3. envs' = Stepped(envs, t)
    BY <2>1, <2>2, SteppedCases
  <2> QED BY <1>0, <2>1, <2>2, <2>3
<1>15. ~ Regions!Reject /\ ~ Regions!Accept
  BY DEF Regions!Reject, Regions!Accept
<1> QED BY <1>3, <1>4, <1>5, <1>6, <1>7, <1>8, <1>9, <1>10, <1>11, <1>12, <1>13, <1>14, <1>15
        DEF Regions!Next

LEMMA WalkStarts ==
  ASSUME Init
  PROVE  WalkInv /\ Recorded(envs) /\ moveVerdict = "none" /\ verdict = "none" /\ Run!Init
<1> DEFINE first == [Regions!EnvOf("function", "none") EXCEPT
                       !.binds = [x \in Names |-> Regions!Binding(body.params[x])]]
           block == Regions!EnvOf("block", "none")
           b == body
           w == Snapshots
<1>1. CheckerType /\ Recorded(envs)
  BY CheckerStarts
<1>2. at = 1 /\ verdict = "none" /\ envs = FirstChain(b) /\ moveVerdict = "none" /\ Run!Init
  BY DEF Init, Regions!Init, Moves!Init, FirstChain
<1>3. IsBody(b) /\ envs \in Chains /\ Len(envs) = BaseOf(b) + DepthAt(b, 1) /\ BaseOf(b) \in {1, 2}
      /\ DepthAt(b, 1) = 0 /\ Len(b.code) \in Nat
  <2>1. IsBody(b)
    BY <1>1 DEF CheckerType, BodyIsFormed, IsBody
  <2>2. DepthAt(b, 1) = 0
    BY <1>1, BodyFacts DEF CheckerType, DepthAt, D, Code
  <2> QED BY <1>1, <1>2, <2>1, <2>2, FormedFacts DEF CheckerType, BaseOf, Base, DepthAt, D, Code
<1>4. w[1] = envs
  BY <1>2 DEF Snapshots
<1>5. OpenAt(b, 1)
  BY DEF OpenAt, Inside
<1>6. first \in Regions!Env /\ first.scrutinee = "none"
      /\ \A x \in Names : first.binds[x].region = body.params[x]
  <2>1. \A x \in Names : Regions!Binding(body.params[x]) \in Regions!Info
                         /\ Regions!Binding(body.params[x]).region = body.params[x]
    <3>1. \A x \in Names : body.params[x] \in Region
      BY <1>1, BodyFacts DEF CheckerType
    <3> QED BY <3>1 DEF Regions!Binding, Regions!Info, Regions!Region, Region
  <2> DEFINE bs == [x \in Names |-> Regions!Binding(body.params[x])]
  <2>2. bs \in [Names -> Regions!Info] /\ \A x \in Names : bs[x].region = body.params[x]
    BY <2>1
  <2>3. Regions!EnvOf("function", "none") \in Regions!Env /\ Regions!EnvOf("function", "none").scrutinee = "none"
    BY NewEnvs DEF Region
  <2> HIDE DEF bs
  <2>4. [Regions!EnvOf("function", "none") EXCEPT !.binds = bs] \in Regions!Env
        /\ [Regions!EnvOf("function", "none") EXCEPT !.binds = bs].binds = bs
        /\ [Regions!EnvOf("function", "none") EXCEPT !.binds = bs].scrutinee = "none"
    BY <2>2, <2>3 DEF Regions!Env
  <2> QED BY <2>2, <2>4 DEF bs
<1>7. block.scrutinee = "none" /\ \A x \in Names : block.binds[x].region = "none"
  BY NewEnvs DEF Region, Regions!Unbound
<1> HIDE DEF first, block
<1>8. \A i \in 1 .. Len(envs) : envs[i] \in {first, block}
  <2>1. envs = << first >> \o (IF body.toplevel THEN << >> ELSE << block >>)
    BY DEF Init, Regions!Init, first, block
  <2>2. CASE body.toplevel
    <3>1. envs = << first >>
      BY <2>1, <2>2
    <3> QED BY <3>1
  <2>3. CASE ~ body.toplevel
    <3>1. envs = << first >> \o << block >>
      BY <2>1, <2>3
    <3> QED BY <3>1
  <2> QED BY <2>2, <2>3
<1>9. NoneBorrowed(body) => NoBorrow(envs)
  BY <1>6, <1>7, <1>8 DEF NoneBorrowed, NoBorrow
<1> HIDE DEF w, b
<1>10. Walked(b, w, 1)
  <2>0. \A i \in 1 .. 1 : i = 1
    OBVIOUS
  <2>1. WalkTyped(b, w, 1)
    BY <1>3, <1>4, <1>5, <2>0 DEF WalkTyped
  <2>2. WalkSteps(b, w, 1)
    BY <1>2, <1>4 DEF WalkSteps
  <2>3. WalkGrows(b, w, 1)
    <3> SUFFICES ASSUME NEW k \in 1 .. 1, NEW i \in 1 .. k, NEW m \in Nat,
                        \A t \in i .. k : DepthAt(b, t) >= m
                 PROVE  Grown(w[i], w[k], BaseOf(b) + m - 1)
      BY DEF WalkGrows
    <3>1. k = 1 /\ i = 1
      OBVIOUS
    <3>2. m = 0
      <4>1. DepthAt(b, 1) >= m
        BY <3>1
      <4> QED BY <1>3, <4>1
    <3>3. BaseOf(b) + m - 1 \in 0 .. Len(envs) /\ BaseOf(b) + m - 1 \in Nat
      BY <1>3, <3>2
    <3> QED BY <1>3, <1>4, <3>1, <3>3, GrownSame
  <2>4. WalkShapes(b, w, 1) /\ WalkElses(b, w, 1)
    <3>1. \A k \in 1 .. 1 : \A o \in 1 .. k - 1 : FALSE
      OBVIOUS
    <3> QED BY <3>1 DEF WalkShapes, WalkElses
  <2> QED BY <2>1, <2>2, <2>3, <2>4 DEF Walked
<1> QED BY <1>1, <1>2, <1>9, <1>10 DEF WalkInv, b, w

LEMMA WalkStep ==
  ASSUME WalkInv, Recorded(envs), Regions!Next
  PROVE  WalkInv' /\ Recorded(envs)'
         /\ (\A i \in 1 .. at : Quiet(body) /\ i <= at' /\ OpenAt(body, i) => Snapshots'[i] = Snapshots[i])
<1> DEFINE b == body
           w == Snapshots
           v == Snapshots'
<1>0. /\ CheckerType' /\ Recorded(envs)' /\ body' = body
      /\ IsBody(b) /\ Len(Code) \in Nat /\ at \in 1 .. Len(Code) + 1
      /\ envs \in Chains /\ Len(envs) = BaseOf(b) + DepthAt(b, at)
  <2>1. CheckerType' /\ Recorded(envs)'
    BY CheckerSteps DEF WalkInv
  <2>2. body' = body
    BY DEF Regions!Next, Regions!Bind, Regions!Copy, Regions!Read, Regions!Consume, Regions!OpenIf,
       Regions!Else, Regions!OpenMatch, Regions!Arm, Regions!Yield, Regions!OpenScope, Regions!SkipUnsafe,
       Regions!Close, Regions!Reject, Regions!Accept, Regions!Walk
  <2> QED BY <2>1, <2>2, FormedFacts DEF WalkInv, CheckerType, BodyIsFormed, IsBody, Code, Base, D, BaseOf, DepthAt
<1>1. CASE verdict' # "none"
  <2>1. verdict = "none" /\ (Regions!Reject \/ Regions!Accept)
    BY <1>1 DEF Regions!Next, Regions!Bind, Regions!Copy, Regions!Read, Regions!Consume, Regions!OpenIf,
       Regions!Else, Regions!OpenMatch, Regions!Arm, Regions!Yield, Regions!OpenScope, Regions!SkipUnsafe,
       Regions!Close, Regions!Reject, Regions!Accept, Regions!Walk
  <2>2. at' = at /\ envs' = envs /\ trace' = trace
    BY <2>1 DEF Regions!Reject, Regions!Accept
  <2>3. Snapshots' = Snapshots
    BY <2>2 DEF Snapshots
  <2>4. verdict' = "accepted" => at = Len(Code) + 1
    BY <1>0, <2>1 DEF Regions!Reject, Regions!Accept, Code
  <2>5. verdict' = "rejected" => at <= Len(Code) /\ ~ Passes(envs, Code[at])
    BY <2>1, FailsOrPasses DEF Regions!Reject, Regions!Accept, Code
  <2>6. Code' = Code
    BY <1>0 DEF Code
  <2> QED BY <1>0, <2>2, <2>3, <2>4, <2>5, <2>6 DEF WalkInv
<1>2. CASE verdict' = "none"
  <2>0. Code' = Code
    BY <1>0 DEF Code
  <2>1. ASSUME Quiet(b)
        PROVE  /\ Walked(b, v, at') /\ (NoneBorrowed(b) => NoBorrow(envs'))
               /\ \A i \in 1 .. at : OpenAt(b, i) => v[i] = w[i]
    <3>1. Walked(b, w, at) /\ (NoneBorrowed(b) => NoBorrow(envs))
      BY <2>1 DEF WalkInv
    <3>2. ASSUME Code[at].op = "yield", at \in 1 .. Len(Code)
          PROVE  Regions!Get(envs, Code[at].of).region # "borrowed"
      <4>1. NoBorrow(envs)
        BY <2>1, <3>1, <3>2 DEF Quiet, Code
      <4>2. Code[at].of \in Names
        BY <1>0, <3>2, FormedFacts DEF Code
      <4> QED BY <1>0, <4>1, <4>2, NoBorrowKnown
    <3>3. at \in 1 .. Len(Code)
      BY <1>2, <1>0 DEF Regions!Next, Regions!Bind, Regions!Copy, Regions!Read, Regions!Consume, Regions!OpenIf,
       Regions!Else, Regions!OpenMatch, Regions!Arm, Regions!Yield, Regions!OpenScope, Regions!SkipUnsafe,
       Regions!Close, Regions!Reject, Regions!Accept, Regions!Walk, Code
    <3>4. /\ at' = NextOf(body, at) /\ envs' = Stepped(envs, Code[at]) /\ Passes(envs, Code[at])
          /\ trace'[at] = envs /\ \A i \in 1 .. Len(Code) : i # at => trace'[i] = trace[i]
      BY <1>2, <3>2, <3>3, WalkMoves DEF WalkInv
    <3>5. OpenAt(b, at)
      BY <3>1 DEF Walked, WalkTyped
    <3>6. at' \in at + 1 .. Len(Code) + 1
      BY <1>0, <3>3, <3>4, <3>5, NextOpen DEF Code
    <3>7. \A i \in 1 .. at : v[i] = w[i]
      <4> SUFFICES ASSUME NEW i \in 1 .. at PROVE v[i] = w[i]
        OBVIOUS
      <4>1. i \in 1 .. at' /\ i # at' /\ i \in 1 .. Len(Code)
        BY <3>3, <3>6
      <4>2. v[i] = trace'[i]
        BY <4>1 DEF Snapshots
      <4>3. w[i] = IF i = at THEN envs ELSE trace[i]
        BY DEF Snapshots
      <4> QED BY <3>4, <4>1, <4>2, <4>3
    <3>8. v[at'] = envs' /\ w[at] = envs
      <4>1. at' \in 1 .. at' /\ at \in 1 .. at
        BY <3>3, <3>6
      <4> QED BY <4>1 DEF Snapshots
    <3>9. Walked(b, v, at')
      <4>1. v[NextOf(b, at)] = Stepped(w[at], b.code[at]) /\ Passes(w[at], b.code[at])
        BY <3>4, <3>8 DEF Code
      <4>2. at <= Len(b.code)
        BY <3>3 DEF Code
      <4> HIDE DEF v, w, b
      <4>3. Walked(b, v, NextOf(b, at))
        BY <1>0, <3>1, <3>7, <4>1, <4>2, WalkExtends
      <4> QED BY <3>4, <4>3 DEF b
    <3>10. NoneBorrowed(b) => NoBorrow(envs')
      BY <1>0, <3>1, <3>3, <3>4, NoBorrowStepped DEF Code
    <3> QED BY <3>7, <3>9, <3>10
  <2>2. NoneBorrowed(b) => Quiet(b)
    BY DEF Quiet
  <2>3. Quiet(body)' = Quiet(body) /\ NoneBorrowed(body)' = NoneBorrowed(body)
        /\ Walked(body, Snapshots, at)' = Walked(b, v, at')
        /\ NoBorrow(envs)' = NoBorrow(envs')
    BY <1>0
  <2>4. Quiet(body) => \A i \in 1 .. at : OpenAt(body, i) => v[i] = w[i]
    BY <2>1
  <2> HIDE DEF v, w
  <2> QED BY <1>0, <1>2, <2>1, <2>2, <2>3, <2>4 DEF WalkInv, v, w
<1>3. verdict' = "none" \/ verdict' # "none"
  OBVIOUS
<1> QED BY <1>1, <1>2
=============================================================================
