------------------------ MODULE MoveSoundnessProofs -------------------------
(***************************************************************************)
(* For every body: what the chain of Environments of an execution has to   *)
(* do with the chains of RegionChecker's walk.  On a straight line they    *)
(* agree; in a tame body, the walk covers every execution, and so no       *)
(* accepted tame body uses what is moved or moves what is borrowed.        *)
(***************************************************************************)
EXTENDS WalkProofs

(***************************************************************************)
(* The chain of Environments of an execution, seen from each of its levels. *)
(***************************************************************************)
Stacks == Seq(Run!Frame)

\* What a name denotes for the outermost n frames.
Holds(fs, n, x) == Run!Lookup(SubSeq(fs, 1, n), x)

LEMMA HoldsStep ==
  ASSUME NEW fs \in Stacks, NEW x \in Names
  PROVE  /\ Holds(fs, 0, x) = "unbound"
         /\ \A n \in 1 .. Len(fs) :
              Holds(fs, n, x) = IF fs[n][x] # "unbound" THEN fs[n][x] ELSE Holds(fs, n - 1, x)
         /\ Holds(fs, Len(fs), x) = Run!Lookup(fs, x)
<1>1. Holds(fs, 0, x) = "unbound"
  <2>1. Len(SubSeq(fs, 1, 0)) = 0
    BY Prefix DEF Stacks
  <2>2. Run!FramesWith(SubSeq(fs, 1, 0), x) = {}
    BY <2>1 DEF Run!FramesWith
  <2> QED BY <2>2 DEF Holds, Run!Lookup
<1>2. ASSUME NEW n \in 1 .. Len(fs)
      PROVE  Holds(fs, n, x) = IF fs[n][x] # "unbound" THEN fs[n][x] ELSE Holds(fs, n - 1, x)
  <2> DEFINE p == SubSeq(fs, 1, n)
             q == SubSeq(fs, 1, n - 1)
             H == Run!FramesWith(p, x)
             T == CHOOSE i \in H : \A j \in H : j <= i
  <2>0. Run!Innermost(H) = T
    BY DEF Run!Innermost
  <2>1. Len(p) = n /\ \A i \in 1 .. n : p[i] = fs[i]
    BY Prefix DEF Stacks
  <2>2. n - 1 \in 0 .. Len(fs) /\ Len(q) = n - 1 /\ \A i \in 1 .. n - 1 : q[i] = fs[i]
    <3>1. n - 1 \in 0 .. Len(fs)
      OBVIOUS
    <3> QED BY <3>1, Prefix DEF Stacks
  <2>3. H = {i \in 1 .. n : fs[i][x] # "unbound"}
    BY <2>1 DEF Run!FramesWith
  <2>4. Run!FramesWith(q, x) = {i \in 1 .. n - 1 : fs[i][x] # "unbound"}
    BY <2>2 DEF Run!FramesWith
  <2>5. CASE fs[n][x] # "unbound"
    <3>1. n \in H /\ \A j \in H : j <= n
      BY <2>3, <2>5
    <3>2. T = n
      <4>1. \A i \in H : (\A j \in H : j <= i) => i = n
        <5>1. ASSUME NEW i \in H, \A j \in H : j <= i PROVE i = n
          <6>1. n <= i /\ i \in 1 .. n
            BY <2>3, <3>1, <5>1
          <6> QED BY <6>1
        <5> QED BY <5>1
      <4> HIDE DEF H
      <4> QED BY <3>1, <4>1
    <3>3. H # {}
      BY <3>1
    <3>4. Holds(fs, n, x) = p[T][x]
      BY <2>0, <3>3 DEF Holds, Run!Lookup
    <3> HIDE DEF p, H, T
    <3> QED BY <2>1, <2>5, <3>2, <3>4
  <2>6. CASE fs[n][x] = "unbound"
    <3>1. H = Run!FramesWith(q, x)
      <4>1. \A i \in 1 .. n : fs[i][x] # "unbound" => i \in 1 .. n - 1
        BY <2>6
      <4>2. \A i \in 1 .. n - 1 : i \in 1 .. n
        OBVIOUS
      <4> HIDE DEF H, p, q
      <4> QED BY <2>3, <2>4, <4>1, <4>2
    <3>2. \A i \in H : p[i] = q[i]
      BY <2>1, <2>2, <2>4, <3>1
    <3>3. CASE H = {}
      BY <2>6, <3>1, <3>3 DEF Holds, Run!Lookup
    <3>4. CASE H # {}
      <4>1. n \in Nat /\ H \in SUBSET (0 .. n)
        BY <2>3
      <4>2. \E i \in H : \A j \in H : j <= i
        <5> HIDE DEF H
        <5> QED BY ONLY <4>1, <3>4, Largest
      <4>3. T \in H
        <5> HIDE DEF H
        <5> QED BY <4>2
      <4>4. Holds(fs, n, x) = p[T][x]
        BY <2>0, <3>4 DEF Holds, Run!Lookup
      <4>5. Holds(fs, n - 1, x) = q[T][x]
        BY <2>0, <3>1, <3>4 DEF Holds, Run!Lookup
      <4> HIDE DEF p, q, H, T
      <4> QED BY <2>6, <3>2, <4>3, <4>4, <4>5
    <3> QED BY <3>3, <3>4
  <2> QED BY <2>5, <2>6
<1>3. Holds(fs, Len(fs), x) = Run!Lookup(fs, x)
  <2>1. SubSeq(fs, 1, Len(fs)) = fs
    BY Prefix DEF Stacks
  <2> QED BY <2>1 DEF Holds
<1> QED BY <1>1, <1>2, <1>3

\* An outer part of a chain shows what the chain shows there.
LEMMA HoldsOuter ==
  ASSUME NEW fs \in Stacks, NEW n \in 0 .. Len(fs), NEW k \in 0 .. n, NEW x
  PROVE  /\ SubSeq(fs, 1, n) \in Stacks /\ Len(SubSeq(fs, 1, n)) = n
         /\ Holds(SubSeq(fs, 1, n), k, x) = Holds(fs, k, x)
BY Prefix DEF Holds, Stacks

\* The first frames of two chains, where they bind a name to the same.
LEMMA HoldsSame ==
  ASSUME NEW fs \in Stacks, NEW gs \in Stacks, NEW n \in 0 .. Len(fs), n <= Len(gs), NEW x \in Names,
         \A i \in 1 .. n : fs[i][x] = gs[i][x]
  PROVE  \A k \in 0 .. n : Holds(fs, k, x) = Holds(gs, k, x)
<1> DEFINE Bad == {k \in 0 .. n : Holds(fs, k, x) # Holds(gs, k, x)}
<1>1. n \in Nat /\ Bad \in SUBSET (0 .. n)
  OBVIOUS
<1>2. CASE Bad # {}
  <2>1. PICK k \in Bad : \A j \in Bad : k <= j
    <3> HIDE DEF Bad
    <3> QED BY ONLY <1>1, <1>2, Smallest
  <2>2. k # 0
    <3>1. k \in 0 .. n /\ Holds(fs, k, x) # Holds(gs, k, x)
      OBVIOUS
    <3>2. Holds(fs, 0, x) = "unbound" /\ Holds(gs, 0, x) = "unbound"
      BY HoldsStep
    <3> QED BY <3>1, <3>2
  <2>3. k \in 1 .. n /\ k - 1 \in 0 .. n /\ k \in 1 .. Len(fs) /\ k \in 1 .. Len(gs)
    <3>1. k \in 0 .. n /\ n <= Len(fs) /\ n <= Len(gs) /\ Len(fs) \in Nat /\ Len(gs) \in Nat
      BY DEF Stacks
    <3> QED BY ONLY <2>2, <3>1
  <2>4. Holds(fs, k - 1, x) = Holds(gs, k - 1, x)
    <3>1. k - 1 \notin Bad
      <4>1. ~ (k <= k - 1)
        BY <2>3
      <4> QED BY <2>1, <4>1
    <3> QED BY <2>3, <3>1
  <2>5. Holds(fs, k, x) = Holds(gs, k, x)
    <3>1. fs[k][x] = gs[k][x]
      BY <2>3
    <3>2. /\ Holds(fs, k, x) = IF fs[k][x] # "unbound" THEN fs[k][x] ELSE Holds(fs, k - 1, x)
          /\ Holds(gs, k, x) = IF gs[k][x] # "unbound" THEN gs[k][x] ELSE Holds(gs, k - 1, x)
      BY <2>3, HoldsStep
    <3> QED BY <2>4, <3>1, <3>2
  <2>6. k \in Bad
    BY <2>1
  <2> QED BY <2>5, <2>6
<1>3. CASE Bad = {}
  BY <1>3
<1> QED BY <1>2, <1>3

\* Between the frame that binds a name and the innermost one, the name is
\* that frame's; the frame is h.
HeldAt(fs, x, h) ==
  /\ h \in 1 .. Len(fs) /\ fs[h][x] # "unbound"
  /\ \A i \in h + 1 .. Len(fs) : fs[i][x] = "unbound"

LEMMA Holder ==
  ASSUME NEW fs \in Stacks, NEW x \in Names
  PROVE  /\ Run!Lookup(fs, x) \in Run!Slot
         /\ Run!Lookup(fs, x) = "unbound" <=> Run!FramesWith(fs, x) = {}
         /\ Run!FramesWith(fs, x) # {} =>
              HeldAt(fs, x, Run!Innermost(Run!FramesWith(fs, x)))
         /\ \A h : HeldAt(fs, x, h) => \A n \in h .. Len(fs) : Holds(fs, n, x) = fs[h][x]
<1> DEFINE H == Run!FramesWith(fs, x)
           h == Run!Innermost(H)
<1>1. H = {i \in 1 .. Len(fs) : fs[i][x] # "unbound"} /\ Len(fs) \in Nat
  BY DEF Run!FramesWith, Stacks
<1>2. ASSUME H # {} PROVE HeldAt(fs, x, h)
  <2>1. H \in SUBSET (0 .. Len(fs))
    BY <1>1
  <2>2. \E i \in H : \A j \in H : j <= i
    <3> HIDE DEF H
    <3> QED BY ONLY <1>1, <1>2, <2>1, Largest
  <2>3. h \in H /\ \A j \in H : j <= h
    <3> HIDE DEF H
    <3> QED BY <2>2 DEF h, Run!Innermost
  <2> HIDE DEF h
  <2>4. \A i \in h + 1 .. Len(fs) : i \notin H /\ i \in 1 .. Len(fs)
    <3> SUFFICES ASSUME NEW i \in h + 1 .. Len(fs) PROVE i \notin H /\ i \in 1 .. Len(fs)
      OBVIOUS
    <3>1. h \in 1 .. Len(fs) /\ ~ (i <= h)
      BY <1>1, <2>3
    <3> HIDE DEF H
    <3> QED BY <2>3, <3>1
  <2> QED BY <1>1, <2>3, <2>4 DEF HeldAt
<1>3. ASSUME NEW k, HeldAt(fs, x, k)
      PROVE  \A n \in k .. Len(fs) : Holds(fs, n, x) = fs[k][x]
  <2> DEFINE Bad == {n \in k .. Len(fs) : Holds(fs, n, x) # fs[k][x]}
  <2>1. k \in 1 .. Len(fs) /\ fs[k][x] # "unbound" /\ \A i \in k + 1 .. Len(fs) : fs[i][x] = "unbound"
    BY <1>3 DEF HeldAt
  <2>2. CASE Bad # {}
    <3>1. Bad \in SUBSET Nat
      BY <1>1, <2>1
    <3>2. PICK n \in Bad : \A j \in Bad : n <= j
      <4> HIDE DEF Bad
      <4> QED BY ONLY <2>2, <3>1, Smallest
    <3>3. n \in k .. Len(fs) /\ Holds(fs, n, x) # fs[k][x] /\ n \in 1 .. Len(fs)
      BY <1>1, <2>1
    <3>4. Holds(fs, n, x) = IF fs[n][x] # "unbound" THEN fs[n][x] ELSE Holds(fs, n - 1, x)
      BY <3>3, HoldsStep
    <3>5. n # k
      BY <2>1, <3>3, <3>4
    <3>6. n \in k + 1 .. Len(fs) /\ n - 1 \in k .. Len(fs)
      BY <2>1, <3>3, <3>5
    <3>7. Holds(fs, n - 1, x) = fs[k][x]
      <4>1. n - 1 \notin Bad
        <5>1. ~ (n <= n - 1)
          BY <3>3
        <5> QED BY <3>2, <5>1
      <4> QED BY <3>6, <4>1
    <3> QED BY <2>1, <3>3, <3>4, <3>6, <3>7
  <2>3. CASE Bad = {}
    BY <2>3
  <2> QED BY <2>2, <2>3
<1>4. ASSUME H # {} PROVE Run!Lookup(fs, x) = fs[h][x] /\ h \in 1 .. Len(fs) /\ fs[h][x] # "unbound"
  BY <1>2, <1>4 DEF Run!Lookup, HeldAt
<1>5. ASSUME H = {} PROVE Run!Lookup(fs, x) = "unbound"
  BY <1>5 DEF Run!Lookup
<1>6. \A i \in 1 .. Len(fs) : fs[i][x] \in Run!Slot
  BY DEF Stacks, Run!Frame
<1>7. "unbound" \in Run!Slot
  BY DEF Run!Slot
<1>8. Run!Lookup(fs, x) \in Run!Slot /\ (Run!Lookup(fs, x) = "unbound" <=> H = {})
  <2> HIDE DEF H, h
  <2> QED BY <1>4, <1>5, <1>6, <1>7
<1> QED BY <1>2, <1>3, <1>8 DEF H, h

\* What an assignment changes: the frame h that binds the name, or the innermost.
Rebound(fs, gs, x, slot, h) ==
  /\ h \in 1 .. Len(fs)
  /\ \A n \in 0 .. Len(fs), y \in Names :
       Holds(gs, n, y) = IF y = x /\ n >= h THEN slot ELSE Holds(fs, n, y)
  /\ \/ Run!Lookup(fs, x) = "unbound" /\ h = Len(fs)
     \/ /\ Run!Lookup(fs, x) # "unbound"
        /\ \A n \in h .. Len(fs) : Holds(fs, n, x) = Run!Lookup(fs, x)
  /\ \A n \in 1 .. Len(fs) : n # h => gs[n] = fs[n]
  /\ \A y \in Names : gs[h][y] = IF y = x THEN slot ELSE fs[h][y]

LEMMA Assigned ==
  ASSUME NEW fs \in Stacks, Len(fs) > 0, NEW x \in Names, NEW slot \in Run!Slot, slot # "unbound"
  PROVE  LET new == Run!Assign(fs, x, slot)
         IN  /\ new \in Stacks /\ Len(new) = Len(fs)
             /\ \E h : Rebound(fs, new, x, slot, h)
<1> DEFINE H == Run!FramesWith(fs, x)
           h == IF H = {} THEN Len(fs) ELSE Run!Innermost(H)
           new == Run!Assign(fs, x, slot)
<1>1. Len(fs) \in Nat /\ Len(fs) \in 1 .. Len(fs)
  BY DEF Stacks
<1>4. /\ h \in 1 .. Len(fs) /\ \A i \in h + 1 .. Len(fs) : fs[i][x] = "unbound"
      /\ \/ Run!Lookup(fs, x) = "unbound" /\ h = Len(fs)
         \/ Run!Lookup(fs, x) # "unbound" /\ \A n \in h .. Len(fs) : Holds(fs, n, x) = Run!Lookup(fs, x)
  <2>1. CASE H = {}
    <3>1. h = Len(fs) /\ Run!Lookup(fs, x) = "unbound"
      BY <2>1, Holder
    <3>2. \A i \in h + 1 .. Len(fs) : fs[i][x] = "unbound"
      BY <1>1, <3>1
    <3> QED BY <1>1, <3>1, <3>2
  <2>2. CASE H # {}
    <3>1. HeldAt(fs, x, h)
      BY <2>2, Holder
    <3>2. h \in 1 .. Len(fs) /\ (\A i \in h + 1 .. Len(fs) : fs[i][x] = "unbound") /\ fs[h][x] # "unbound"
      BY <3>1 DEF HeldAt
    <3> HIDE DEF h
    <3>3. \A n \in h .. Len(fs) : Holds(fs, n, x) = fs[h][x]
      BY <3>1, Holder
    <3>4. Run!Lookup(fs, x) = fs[h][x]
      <4>1. Len(fs) \in h .. Len(fs)
        BY <1>1, <3>2
      <4> QED BY <3>3, <4>1, HoldsStep
    <3> QED BY <3>2, <3>3, <3>4
  <2> QED BY <2>1, <2>2
<1>5. new = [fs EXCEPT ![h][x] = slot]
  BY DEF Run!Assign
<1> HIDE DEF H, h
<1>6. /\ new \in Stacks /\ Len(new) = Len(fs)
      /\ \A i \in 1 .. Len(fs) : i # h => new[i] = fs[i]
      /\ new[h] = [fs[h] EXCEPT ![x] = slot]
  <2>1. fs \in Seq(Run!Frame) /\ fs[h] \in Run!Frame
    BY <1>4 DEF Stacks
  <2>2. [fs[h] EXCEPT ![x] = slot] \in Run!Frame
    BY <2>1 DEF Run!Frame
  <2> QED BY <1>4, <1>5, <2>1, <2>2 DEF Stacks
<1>7. \A y \in Names : new[h][y] = IF y = x THEN slot ELSE fs[h][y]
  <2>1. fs[h] \in Run!Frame
    BY <1>4 DEF Stacks
  <2> QED BY <1>6, <2>1 DEF Run!Frame
<1> HIDE DEF new
<1>8. ASSUME NEW y \in Names, NEW n \in 0 .. Len(fs), y # x \/ n < h
      PROVE  Holds(new, n, y) = Holds(fs, n, y)
  <2>1. \A i \in 1 .. n : new[i][y] = fs[i][y]
    <3> SUFFICES ASSUME NEW i \in 1 .. n PROVE new[i][y] = fs[i][y]
      OBVIOUS
    <3>1. i \in 1 .. Len(fs) /\ (i # h \/ y # x)
      BY <1>1, <1>4, <1>8
    <3> QED BY <1>6, <1>7, <3>1
  <2>2. n \in 0 .. Len(new) /\ n <= Len(fs) /\ n \in 0 .. n
    BY <1>1, <1>6
  <2> QED BY <1>6, <2>1, <2>2, HoldsSame
<1>9. HeldAt(new, x, h)
  <2>1. \A i \in h + 1 .. Len(fs) : new[i][x] = "unbound"
    <3> SUFFICES ASSUME NEW i \in h + 1 .. Len(fs) PROVE new[i][x] = "unbound"
      OBVIOUS
    <3>1. i \in 1 .. Len(fs) /\ i # h
      BY <1>1, <1>4
    <3> QED BY <1>4, <1>6, <3>1
  <2> QED BY <1>4, <1>6, <1>7, <2>1 DEF HeldAt
<1>10. \A n \in h .. Len(fs) : Holds(new, n, x) = slot
  <2>1. new \in Stacks /\ HeldAt(new, x, h) /\ Len(new) = Len(fs)
    BY <1>6, <1>9
  <2>2. \A n \in h .. Len(new) : Holds(new, n, x) = new[h][x]
    BY ONLY <2>1, Holder
  <2>3. new[h][x] = slot
    BY <1>7
  <2> QED BY <2>1, <2>2, <2>3
<1>11. \A n \in 0 .. Len(fs), y \in Names :
         Holds(new, n, y) = IF y = x /\ n >= h THEN slot ELSE Holds(fs, n, y)
  <2> SUFFICES ASSUME NEW n \in 0 .. Len(fs), NEW y \in Names
               PROVE  Holds(new, n, y) = IF y = x /\ n >= h THEN slot ELSE Holds(fs, n, y)
    OBVIOUS
  <2>1. CASE y = x /\ n >= h
    <3>1. n \in h .. Len(fs)
      BY <1>4, <2>1
    <3> QED BY <1>10, <2>1, <3>1
  <2>2. CASE ~ (y = x /\ n >= h)
    <3>1. y # x \/ n < h
      BY <1>4, <2>2
    <3> QED BY <1>8, <2>2, <3>1
  <2> QED BY <2>1, <2>2
<1>12. Rebound(fs, new, x, slot, h)
  BY <1>4, <1>6, <1>7, <1>11 DEF Rebound
<1> QED BY <1>6, <1>12 DEF new

\* What is moved out of a name: its value, where the name is held, if it owns one.
LEMMA MovedAway ==
  ASSUME NEW fs \in Stacks, Len(fs) > 0, NEW x \in Names
  PROVE  LET new == Run!MovedOut(fs, x)
         IN  /\ new \in Stacks /\ Len(new) = Len(fs)
             /\ \E h \in 1 .. Len(fs) :
                  /\ \A n \in 0 .. Len(fs), y \in Names :
                       Holds(new, n, y) = IF y = x /\ n >= h /\ Run!Lookup(fs, x) = "owned"
                                          THEN "moved" ELSE Holds(fs, n, y)
                  /\ Run!Lookup(fs, x) = "owned" => \A n \in h .. Len(fs) : Holds(fs, n, x) = "owned"
             /\ \A y \in Names : Run!Lookup(new, y) = IF y = x /\ Run!Lookup(fs, x) = "owned"
                                                      THEN "moved" ELSE Run!Lookup(fs, y)
<1> DEFINE new == Run!MovedOut(fs, x)
<1>1. CASE Run!Lookup(fs, x) = "owned"
  <2>1. new = Run!Assign(fs, x, "moved")
    BY <1>1 DEF Run!MovedOut
  <2>2. "moved" \in Run!Slot /\ "moved" # "unbound"
    BY DEF Run!Slot
  <2> HIDE DEF new
  <2> DEFINE slot == "moved"
  <2>8. slot = "moved"
    OBVIOUS
  <2> HIDE DEF slot
  <2>3. new \in Stacks /\ Len(new) = Len(fs) /\ \E h : Rebound(fs, new, x, slot, h)
    <3>1. slot \in Run!Slot /\ slot # "unbound" /\ new = Run!Assign(fs, x, slot)
      BY <2>1, <2>2, <2>8
    <3> QED BY <3>1, Assigned
  <2>9. PICK h : Rebound(fs, new, x, slot, h)
    BY <2>3
  <2>4. /\ h \in 1 .. Len(fs)
        /\ \A n \in 0 .. Len(fs), y \in Names :
             Holds(new, n, y) = IF y = x /\ n >= h THEN "moved" ELSE Holds(fs, n, y)
        /\ \/ Run!Lookup(fs, x) = "unbound" /\ h = Len(fs)
           \/ \A n \in h .. Len(fs) : Holds(fs, n, x) = Run!Lookup(fs, x)
    BY <2>8, <2>9 DEF Rebound
  <2>5. \A n \in h .. Len(fs) : Holds(fs, n, x) = "owned"
    BY <1>1, <2>4
  <2>6. \A n \in 0 .. Len(fs), y \in Names :
          Holds(new, n, y) = IF y = x /\ n >= h /\ Run!Lookup(fs, x) = "owned"
                             THEN "moved" ELSE Holds(fs, n, y)
    BY <1>1, <2>4
  <2>7. \A y \in Names : Run!Lookup(new, y) = IF y = x /\ Run!Lookup(fs, x) = "owned"
                                              THEN "moved" ELSE Run!Lookup(fs, y)
    <3>1. Len(fs) \in 0 .. Len(fs) /\ Len(fs) >= h
      BY <2>4 DEF Stacks
    <3>2. \A y \in Names : Holds(new, Len(fs), y) = Run!Lookup(new, y)
                           /\ Holds(fs, Len(fs), y) = Run!Lookup(fs, y)
      BY <2>3, HoldsStep
    <3> QED BY <2>6, <3>1, <3>2
  <2> QED BY <2>3, <2>4, <2>5, <2>6, <2>7 DEF new
<1>2. CASE Run!Lookup(fs, x) # "owned"
  <2>1. new = fs
    BY <1>2 DEF Run!MovedOut
  <2>2. Len(fs) \in 1 .. Len(fs)
    BY DEF Stacks
  <2> QED BY <1>2, <2>1, <2>2
<1> QED BY <1>1, <1>2

\* A new frame covers what it binds.
LEMMA Pushed ==
  ASSUME NEW fs \in Stacks, NEW frame \in Run!Frame
  PROVE  LET new == Append(fs, frame)
         IN  /\ new \in Stacks /\ Len(new) = Len(fs) + 1
             /\ \A n \in 0 .. Len(fs), y \in Names : Holds(new, n, y) = Holds(fs, n, y)
             /\ \A y \in Names : Holds(new, Len(fs) + 1, y) =
                                   IF frame[y] # "unbound" THEN frame[y] ELSE Run!Lookup(fs, y)
<1> DEFINE new == Append(fs, frame)
<1>1. /\ new \in Stacks /\ Len(new) = Len(fs) + 1 /\ Len(fs) \in Nat
      /\ \A i \in 1 .. Len(fs) : new[i] = fs[i]
      /\ new[Len(fs) + 1] = frame
  BY DEF Stacks
<1> HIDE DEF new
<1>2. ASSUME NEW n \in 0 .. Len(fs), NEW y \in Names PROVE Holds(new, n, y) = Holds(fs, n, y)
  <2>1. \A i \in 1 .. n : new[i][y] = fs[i][y]
    BY <1>1
  <2>2. n \in 0 .. Len(new) /\ n <= Len(fs) /\ n \in 0 .. n
    BY <1>1
  <2> QED BY <1>1, <2>1, <2>2, HoldsSame
<1>3. ASSUME NEW y \in Names
      PROVE  Holds(new, Len(fs) + 1, y) = IF frame[y] # "unbound" THEN frame[y] ELSE Run!Lookup(fs, y)
  <2>1. Len(fs) + 1 \in 1 .. Len(new) /\ (Len(fs) + 1) - 1 = Len(fs) /\ Len(fs) \in 0 .. Len(fs)
    BY <1>1
  <2>2. Holds(new, Len(fs) + 1, y) = IF new[Len(fs) + 1][y] # "unbound" THEN new[Len(fs) + 1][y]
                                     ELSE Holds(new, Len(fs), y)
    BY <1>1, <2>1, HoldsStep
  <2>3. Holds(new, Len(fs), y) = Run!Lookup(fs, y)
    BY <1>2, <2>1, HoldsStep
  <2> QED BY <1>1, <2>2, <2>3
<1> QED BY <1>1, <1>2, <1>3 DEF new

\* What a statement leaves in the frames.
Ran(fs, token) ==
  LET consumed == IF token.op \in {"copy", "give", "store", "module_give", "capture"}
                  THEN Run!MovedOut(fs, token.of) ELSE fs
  IN  IF token.op \in {"fresh", "copy"} THEN Run!Assign(consumed, token.to, "owned") ELSE consumed

-----------------------------------------------------------------------------
(***************************************************************************)
(* On a straight line, what RegionChecker knows is what is so.             *)
(***************************************************************************)
Straight(b) == \A j \in 1 .. Len(b.code) : b.code[j].op \notin Openings

Simple == Statements \ {"break", "continue", "yield"}

LEMMA StraightFacts ==
  ASSUME NEW b, IsBody(b), Straight(b)
  PROVE  /\ Quiet(b)
         /\ \A i \in 1 .. Len(b.code) : b.code[i].op \in Simple /\ NextOf(b, i) = i + 1
         /\ \A i \in 1 .. Len(b.code) + 1 : OpenAt(b, i) /\ DepthAt(b, i) = 0
<1>1. ASSUME NEW i \in 1 .. Len(b.code) + 1 PROVE DepthAt(b, i) = 0
  <2> DEFINE O == {j \in 1 .. i - 1 : b.code[j].op \in Openings}
             E == {j \in 1 .. i - 1 : b.code[j].op = "end"}
  <2>1. Depth(b.code, i) = Cardinality(O) - Cardinality(E)
    BY DEF Depth
  <2>2. O = {}
    <3>1. \A j \in 1 .. i - 1 : j \in 1 .. Len(b.code)
      BY FormedFacts
    <3> QED BY <3>1 DEF Straight
  <2>3. Cardinality(O) = 0
    BY <2>2, FS_EmptySet
  <2>4. Cardinality(E) \in Nat
    <3>1. i - 1 \in Int /\ IsFiniteSet(1 .. i - 1)
      BY FS_Interval
    <3>2. IsFiniteSet(E)
      BY <3>1, FS_Subset
    <3> QED BY <3>2, FS_CardinalityType
  <2>5. DepthAt(b, i) \in Nat
    BY FormedFacts
  <2> HIDE DEF O, E
  <2> QED BY <2>1, <2>3, <2>4, <2>5 DEF DepthAt
<1>2. ASSUME NEW i \in 1 .. Len(b.code) PROVE b.code[i].op \in Simple /\ NextOf(b, i) = i + 1
  <2>1. i \in 1 .. Len(b.code) + 1 /\ b.code[i].op \notin Openings
    BY FormedFacts DEF Straight
  <2>2. DepthAt(b, i) = 0 /\ ~ (DepthAt(b, i) > 0)
    BY <1>1, <2>1
  <2>3. b.code[i].op \notin Middles \cup {"end"}
    BY <2>2, FormedFacts
  <2>4. b.code[i].op # "yield"
    BY <2>2 DEF IsBody, WellFormedBody, InPlace, InArm, DepthAt
  <2>5. b.code[i].op \notin {"break", "continue"}
    <3>1. \A j \in 1 .. i - 1 : b.code[j].op # "loop"
      <4>1. \A j \in 1 .. i - 1 : j \in 1 .. Len(b.code)
        BY FormedFacts
      <4> QED BY <4>1 DEF Straight, Openings
    <3>2. LoopsAround(b.code, i) = {}
      BY <3>1 DEF LoopsAround
    <3> QED BY <3>2 DEF IsBody, WellFormedBody, InPlace
  <2>6. b.code[i].op \in Statements /\ b.code[i].op # "unsafe"
    BY <2>1, <2>3, FormedFacts DEF Openings
  <2> QED BY <2>4, <2>5, <2>6 DEF Simple, NextOf
<1>3. ASSUME NEW i \in 1 .. Len(b.code) + 1 PROVE OpenAt(b, i)
  <2>1. \A j \in 1 .. i - 1 : b.code[j].op # "unsafe"
    <3>1. \A j \in 1 .. i - 1 : j \in 1 .. Len(b.code)
      BY FormedFacts
    <3> QED BY <3>1 DEF Straight, Openings
  <2> QED BY <2>1 DEF OpenAt, Inside
<1>4. Quiet(b)
  BY <1>2 DEF Quiet, Simple
<1> QED BY <1>1, <1>2, <1>3, <1>4

\* A name is bound, is borrowed where RegionChecker says so, and has been
\* moved where it says so.
Agrees(fs, es) ==
  \A x \in Names :
    /\ Regions!Get(es, x).region = "none" <=> Run!Lookup(fs, x) = "unbound"
    /\ Regions!Get(es, x).region = "borrowed" <=> Run!Lookup(fs, x) = "borrowed"
    /\ Regions!Get(es, x).moved => Run!Lookup(fs, x) = "moved"

LEMMA AgreesMoved ==
  ASSUME NEW fs \in Stacks, Len(fs) > 0, NEW es \in Chains, Len(es) > 0, Agrees(fs, es),
         NEW x \in Names, Regions!Get(es, x).region # "borrowed"
  PROVE  Agrees(Run!MovedOut(fs, x), Regions!MarkMoved(es, {x}))
<1> DEFINE gs == Run!MovedOut(fs, x)
           new == Regions!MarkMoved(es, {x})
<1>0. {x} \in SUBSET Names /\ \A y \in Names : y \in {x} \/ y \in Names \ {x}
  OBVIOUS
<1>1. \A y \in Names : Run!Lookup(gs, y) = IF y = x /\ Run!Lookup(fs, x) = "owned"
                                           THEN "moved" ELSE Run!Lookup(fs, y)
  BY MovedAway
<1>2. /\ new \in Chains /\ Len(new) = Len(es) /\ Grown(es, new, Len(es))
      /\ \A y \in Names \ {x} : Known(new, Len(es), y) = Known(es, Len(es), y)
      /\ \A y \in {x} : Known(new, Len(es), y).moved => Known(es, Len(es), y).region # "none"
  BY <1>0, KnownMarked
<1> HIDE DEF gs, new
<1>3. \A y \in Names : Known(es, Len(es), y) = Regions!Get(es, y) /\ Known(new, Len(es), y) = Regions!Get(new, y)
  BY <1>2, KnownStep
<1>4. Regions!Get(new, x).region = Regions!Get(es, x).region
  <2>1. Len(es) \in 0 .. Len(es)
    BY DEF Chains
  <2> QED BY <1>2, <1>3, <2>1 DEF Grown
<1>5. Run!Lookup(fs, x) \in Run!Slot
  BY Holder
<1>6. ASSUME NEW y \in Names
      PROVE  /\ Regions!Get(new, y).region = "none" <=> Run!Lookup(gs, y) = "unbound"
             /\ Regions!Get(new, y).region = "borrowed" <=> Run!Lookup(gs, y) = "borrowed"
             /\ Regions!Get(new, y).moved => Run!Lookup(gs, y) = "moved"
  <2>1. CASE y # x
    BY <1>0, <1>1, <1>2, <1>3, <2>1 DEF Agrees
  <2>2. CASE y = x
    BY <1>1, <1>2, <1>3, <1>4, <1>5, <2>2 DEF Agrees, Run!Slot
  <2> QED BY <2>1, <2>2
<1> QED BY <1>6 DEF Agrees, gs, new

LEMMA AgreesBound ==
  ASSUME NEW fs \in Stacks, Len(fs) > 0, NEW es \in Chains, Len(es) > 0, Agrees(fs, es), NEW x \in Names
  PROVE  Agrees(Run!Assign(fs, x, "owned"), Regions!Define(es, x, Regions!Binding("owned")))
<1> DEFINE gs == Run!Assign(fs, x, "owned")
           info == Regions!Binding("owned")
           new == Regions!Define(es, x, info)
<1>0. info \in Regions!Info /\ info.region = "owned" /\ ~ info.moved /\ "owned" \in Run!Slot
  BY DEF Regions!Binding, Regions!Info, Regions!Region, Run!Slot
<1> HIDE DEF info
<1>1. \A y \in Names : Run!Lookup(gs, y) = IF y = x THEN "owned" ELSE Run!Lookup(fs, y)
  <2>4. gs \in Stacks /\ Len(gs) = Len(fs) /\ \E h : Rebound(fs, gs, x, "owned", h)
    BY <1>0, Assigned
  <2>1. gs \in Stacks /\ Len(gs) = Len(fs)
        /\ \E h \in 1 .. Len(fs) : \A n \in 0 .. Len(fs), y \in Names :
             Holds(gs, n, y) = IF y = x /\ n >= h THEN "owned" ELSE Holds(fs, n, y)
    BY <2>4 DEF Rebound
  <2> HIDE DEF gs
  <2>2. Len(fs) \in 0 .. Len(fs) /\ \A h \in 1 .. Len(fs) : Len(fs) >= h
    BY DEF Stacks
  <2>3. \A y \in Names : Holds(gs, Len(fs), y) = IF y = x THEN "owned" ELSE Holds(fs, Len(fs), y)
    BY <2>1, <2>2
  <2> QED BY <2>1, <2>3, HoldsStep
<1>2. /\ new \in Chains /\ Len(new) = Len(es)
      /\ \A y \in Names : Known(new, Len(es), y) = IF y = x THEN info ELSE Known(es, Len(es), y)
  BY <1>0, KnownDefined
<1> HIDE DEF gs, new
<1>3. \A y \in Names : Regions!Get(new, y) = IF y = x THEN info ELSE Regions!Get(es, y)
  BY <1>2, KnownStep
<1> QED BY <1>0, <1>1, <1>3 DEF Agrees, gs, new, info

LEMMA AgreesStep ==
  ASSUME NEW b, IsBody(b), NEW i \in 1 .. Len(b.code), b.code[i].op \in Simple \ {"return"},
         NEW fs \in Stacks, Len(fs) > 0, NEW es \in Chains, Len(es) > 0,
         Agrees(fs, es), Passes(es, b.code[i])
  PROVE  Agrees(Ran(fs, b.code[i]), Stepped(es, b.code[i]))
<1> DEFINE t == b.code[i]
<1>0. /\ t.op \in {"fresh", "copy"} => t.to \in Names
      /\ t.op \in {"copy", "give", "store", "module_give", "capture"} => t.of \in Names
      /\ t.op \in {"copy", "give", "store"} => Regions!Get(es, t.of).region # "borrowed"
      /\ t.op # "give_field"
  BY FormedFacts DEF Passes, Regions!Consuming
<1> HIDE DEF t
<1> SUFFICES Agrees(Ran(fs, t), Stepped(es, t))
  BY DEF t
<1>1. CASE t.op = "fresh"
  <2>1. Ran(fs, t) = Run!Assign(fs, t.to, "owned")
    BY <1>1 DEF Ran
  <2>2. Stepped(es, t) = Regions!Define(es, t.to, Regions!Binding("owned"))
    BY <1>1, SteppedCases
  <2> QED BY <1>0, <1>1, <2>1, <2>2, AgreesBound
<1>2. CASE t.op = "copy"
  <2> DEFINE gs == Run!MovedOut(fs, t.of)
             new == Regions!MarkMoved(es, {t.of})
  <2>1. Ran(fs, t) = Run!Assign(gs, t.to, "owned")
    BY <1>2 DEF Ran
  <2>2. Stepped(es, t) = Regions!Define(new, t.to, Regions!Binding("owned"))
    BY <1>2, SteppedCases
  <2>3. Agrees(gs, new)
    BY <1>0, <1>2, AgreesMoved
  <2>4. gs \in Stacks /\ Len(gs) = Len(fs)
    BY <1>0, <1>2, MovedAway
  <2>5. {t.of} \in SUBSET Names
    BY <1>0, <1>2
  <2>6. new \in Chains /\ Len(new) = Len(es)
    BY <2>5, KnownMarked
  <2> HIDE DEF gs, new
  <2> QED BY <1>0, <1>2, <2>1, <2>2, <2>3, <2>4, <2>6, AgreesBound
<1>3. CASE t.op \in {"give", "store"}
  <2>1. Ran(fs, t) = Run!MovedOut(fs, t.of)
    BY <1>3 DEF Ran
  <2>2. Stepped(es, t) = Regions!MarkMoved(es, {t.of})
    BY <1>3, SteppedCases
  <2> QED BY <1>0, <1>3, <2>1, <2>2, AgreesMoved
<1>4. CASE t.op \in {"module_give", "capture"}
  <2> DEFINE gs == Run!MovedOut(fs, t.of)
  <2>1. Ran(fs, t) = gs /\ Stepped(es, t) = es
    BY <1>4, SteppedCases DEF Ran
  <2>2. \A y \in Names : Run!Lookup(gs, y) = IF y = t.of /\ Run!Lookup(fs, t.of) = "owned"
                                             THEN "moved" ELSE Run!Lookup(fs, y)
    BY <1>0, <1>4, MovedAway
  <2> HIDE DEF gs
  <2>3. Agrees(gs, es)
    BY <2>2 DEF Agrees
  <2> QED BY <2>1, <2>3
<1>5. CASE t.op = "read"
  BY <1>5, SteppedCases DEF Ran
<1>6. t.op \in Simple \ {"return"}
  BY DEF t
<1> QED BY <1>0, <1>1, <1>2, <1>3, <1>4, <1>5, <1>6 DEF Simple, Statements

\* The walk and the execution start from the parameters.
LEMMA FirstKnown ==
  ASSUME NEW b, IsBody(b), FirstChain(b) \in Chains, Len(FirstChain(b)) = BaseOf(b), NEW x \in Names
  PROVE  Regions!Get(FirstChain(b), x) = Regions!Binding(b.params[x])
<1> DEFINE first == [Regions!EnvOf("function", "none") EXCEPT
                       !.binds = [y \in Names |-> Regions!Binding(b.params[y])]]
           block == Regions!EnvOf("block", "none")
           es == FirstChain(b)
           n == BaseOf(b)
<1>1. first.binds[x] = Regions!Binding(b.params[x]) /\ block.binds[x] = Regions!Unbound
  <2>1. first.binds = [y \in Names |-> Regions!Binding(b.params[y])]
    BY DEF Regions!EnvOf
  <2> QED BY <2>1, NewEnvs DEF Region
<1>2. Regions!Binding(b.params[x]).region = b.params[x] /\ Regions!Unbound.region = "none"
      /\ (b.params[x] = "none" => Regions!Binding(b.params[x]) = Regions!Unbound)
  BY DEF Regions!Binding, Regions!Unbound
<1> HIDE DEF first, block
<1>3. es[1] = first /\ (n = 2 => es[2] = block) /\ n \in {1, 2}
  <2>1. es = << first >> \o (IF b.toplevel THEN << >> ELSE << block >>)
    BY DEF FirstChain, first, block
  <2>2. CASE b.toplevel
    <3>1. es = << first >> /\ n = 1
      BY <2>1, <2>2 DEF BaseOf
    <3> QED BY <3>1
  <2>3. CASE ~ b.toplevel
    <3>1. es = << first >> \o << block >> /\ n = 2
      BY <2>1, <2>3 DEF BaseOf
    <3> QED BY <3>1
  <2> QED BY <2>2, <2>3
<1> HIDE DEF es, n
<1>4. es \in Chains /\ Len(es) = n
  BY DEF es, n
<1>5. Known(es, 1, x) = Regions!Binding(b.params[x])
  <2>1. 1 \in 1 .. Len(es) /\ 1 - 1 = 0
    BY <1>3, <1>4
  <2>2. /\ Known(es, 1, x) = IF es[1].binds[x].region # "none" THEN es[1].binds[x] ELSE Known(es, 0, x)
        /\ Known(es, 0, x) = Regions!Unbound
    BY <1>4, <2>1, KnownStep
  <2> QED BY <1>1, <1>2, <1>3, <2>2
<1>6. Known(es, n, x) = Known(es, 1, x)
  <2>1. CASE n = 2
    <3>1. 2 \in 1 .. Len(es) /\ 2 - 1 = 1
      BY <1>4, <2>1
    <3>2. Known(es, 2, x) = IF es[2].binds[x].region # "none" THEN es[2].binds[x] ELSE Known(es, 1, x)
      BY <1>4, <3>1, KnownStep
    <3> QED BY <1>1, <1>2, <1>3, <2>1, <3>2
  <2> QED BY <1>3, <2>1
<1> QED BY <1>4, <1>5, <1>6, KnownStep DEF es

LEMMA FirstFrames ==
  ASSUME IsBody(body), Run!Init
  PROVE  /\ pc = 1 /\ frames \in Stacks /\ Len(frames) = 2
         /\ \A n \in 1 .. 2, x \in Names :
              Holds(frames, n, x) = IF body.params[x] = "none" THEN "unbound" ELSE body.params[x]
<1> DEFINE first == [x \in Names |-> IF body.params[x] = "none" THEN "unbound" ELSE body.params[x]]
<1>1. pc = 1 /\ frames = << first, Run!EmptyFrame >>
  BY DEF Run!Init
<1>2. first \in Run!Frame /\ Run!EmptyFrame \in Run!Frame
  BY FormedFacts DEF Run!Frame, Run!EmptyFrame, Run!Slot, Region
<1>3. \A x \in Names : Run!EmptyFrame[x] = "unbound"
  BY DEF Run!EmptyFrame
<1>4. \A x \in Names : first[x] = IF body.params[x] = "none" THEN "unbound" ELSE body.params[x]
  OBVIOUS
<1> HIDE DEF first
<1>5. frames \in Stacks /\ Len(frames) = 2 /\ frames[1] = first /\ frames[2] = Run!EmptyFrame
  BY <1>1, <1>2 DEF Stacks
<1>6. ASSUME NEW x \in Names PROVE Holds(frames, 1, x) = first[x] /\ Holds(frames, 2, x) = first[x]
  <2>1. 1 \in 1 .. Len(frames) /\ 2 \in 1 .. Len(frames) /\ 1 - 1 = 0 /\ 2 - 1 = 1
    BY <1>5
  <2>2. /\ Holds(frames, 0, x) = "unbound"
        /\ Holds(frames, 1, x) = IF frames[1][x] # "unbound" THEN frames[1][x] ELSE Holds(frames, 0, x)
        /\ Holds(frames, 2, x) = IF frames[2][x] # "unbound" THEN frames[2][x] ELSE Holds(frames, 1, x)
    BY <1>5, <2>1, HoldsStep
  <2> QED BY <1>3, <1>5, <2>2
<1>7. \A n \in 1 .. 2 : n = 1 \/ n = 2
  OBVIOUS
<1> QED BY <1>1, <1>4, <1>5, <1>6, <1>7

\* As far as the execution of a straight body has followed the walk.
StraightRun ==
  /\ frames \in Stacks /\ Len(frames) > 0 /\ pc \in 1 .. Len(Code) + 1
  /\ pc <= at => Agrees(frames, Snapshots[pc])

StraightInv ==
  /\ WalkInv /\ Recorded(envs)
  /\ verdict = "none" => Run!Init
  /\ Straight(body) => StraightRun

LEMMA StraightStarts ==
  WalkInv /\ Run!Init /\ Straight(body) => StraightRun
<1> SUFFICES ASSUME WalkInv, Run!Init, Straight(body)
             PROVE  StraightRun
  OBVIOUS
<1>1. IsBody(body) /\ at \in 1 .. Len(Code) + 1 /\ Len(Code) \in Nat
  BY FormedFacts DEF WalkInv, CheckerType, BodyIsFormed, IsBody, Code
<1>2. pc = 1 /\ frames \in Stacks /\ Len(frames) = 2
      /\ \A n \in 1 .. 2, x \in Names :
           Holds(frames, n, x) = IF body.params[x] = "none" THEN "unbound" ELSE body.params[x]
  BY <1>1, FirstFrames
<1>3. Snapshots[1] = FirstChain(body) /\ Snapshots[1] \in Chains /\ Len(Snapshots[1]) = BaseOf(body)
  <2>1. Walked(body, Snapshots, at)
    BY <1>1, StraightFacts DEF WalkInv
  <2>2. Snapshots[1] = FirstChain(body)
    BY <2>1 DEF Walked, WalkSteps
  <2>3. 1 \in 1 .. at /\ OpenAt(body, 1) /\ DepthAt(body, 1) = 0 /\ BaseOf(body) + 0 = BaseOf(body)
    BY <1>1, StraightFacts, FormedFacts
  <2>4. Snapshots[1] \in Chains /\ Len(Snapshots[1]) = BaseOf(body) + DepthAt(body, 1)
    BY <2>1, <2>3 DEF Walked, WalkTyped
  <2> QED BY <2>2, <2>3, <2>4
<1>4. ASSUME NEW x \in Names
      PROVE  /\ Regions!Get(Snapshots[1], x).region = "none" <=> Run!Lookup(frames, x) = "unbound"
             /\ Regions!Get(Snapshots[1], x).region = "borrowed" <=> Run!Lookup(frames, x) = "borrowed"
             /\ Regions!Get(Snapshots[1], x).moved => Run!Lookup(frames, x) = "moved"
  <2>1. Regions!Get(Snapshots[1], x) = Regions!Binding(body.params[x])
    BY <1>1, <1>3, FirstKnown
  <2>2. Regions!Binding(body.params[x]).region = body.params[x] /\ ~ Regions!Binding(body.params[x]).moved
    BY DEF Regions!Binding
  <2>3. Run!Lookup(frames, x) = IF body.params[x] = "none" THEN "unbound" ELSE body.params[x]
    <3>1. 2 \in 1 .. 2
      OBVIOUS
    <3>2. Holds(frames, 2, x) = Run!Lookup(frames, x)
      BY <1>2, HoldsStep
    <3> QED BY <1>2, <3>1, <3>2
  <2>4. body.params[x] \in Region
    BY <1>1, FormedFacts
  <2> QED BY <2>1, <2>2, <2>3, <2>4 DEF Region
<1>5. Agrees(frames, Snapshots[1])
  BY <1>4 DEF Agrees
<1> QED BY <1>1, <1>2, <1>5 DEF StraightRun

LEMMA StraightStep ==
  ASSUME WalkInv, StraightRun, Straight(body), Run!Next, UNCHANGED <<at, envs, verdict, trace>>
  PROVE  StraightRun'
<1>1. IsBody(body) /\ at \in 1 .. Len(Code) + 1 /\ Len(Code) \in Nat
  BY FormedFacts DEF WalkInv, CheckerType, BodyIsFormed, IsBody, Code
<1>2. body' = body /\ Code' = Code /\ Snapshots' = Snapshots
  BY DEF Run!Next, Run!RunStatement, Run!RunReturn, Run!EnterBranch, Run!LeaveBranch, Run!StartLap,
     Run!SkipLoop, Run!EnterBlock, Run!LeaveScope, Run!Unwind, Run!Execute, Code, Snapshots
<1>3. pc \in 1 .. Len(Code) /\ Code[pc].op \in Simple
  <2>1. pc <= Len(Code)
    BY DEF Run!Next, Run!RunStatement, Run!RunReturn, Run!EnterBranch, Run!LeaveBranch, Run!StartLap,
       Run!SkipLoop, Run!EnterBlock, Run!LeaveScope, Run!Unwind, Run!Execute, Run!Running, Code
  <2>2. pc \in 1 .. Len(Code)
    BY <1>1, <2>1 DEF StraightRun
  <2> QED BY <1>1, <2>2, StraightFacts DEF Code
<1>4. CASE Run!RunReturn
  <2>1. pc' = pc /\ frames' = frames
    BY <1>4 DEF Run!RunReturn
  <2> QED BY <1>2, <2>1 DEF StraightRun
<1>5. CASE Run!RunStatement
  <2>1. pc' = pc + 1 /\ frames' = Ran(frames, Code[pc]) /\ Code[pc].op # "return"
    BY <1>5 DEF Run!RunStatement, Run!Execute, Run!Now, Ran, Code
  <2>2. frames' \in Stacks /\ Len(frames') > 0
    <3> DEFINE t == Code[pc]
    <3>1. /\ t.op \in {"fresh", "copy"} => t.to \in Names
          /\ t.op \in {"copy", "give", "store", "module_give", "capture"} => t.of \in Names
      BY <1>1, <1>3, FormedFacts DEF Code
    <3> DEFINE gs == IF t.op \in {"copy", "give", "store", "module_give", "capture"}
                     THEN Run!MovedOut(frames, t.of) ELSE frames
    <3>2. gs \in Stacks /\ Len(gs) > 0
      <4> HIDE DEF t
      <4>1. CASE t.op \in {"copy", "give", "store", "module_give", "capture"}
        BY <3>1, <4>1, MovedAway DEF StraightRun
      <4> QED BY <4>1 DEF StraightRun
    <3>3. frames' = IF t.op \in {"fresh", "copy"} THEN Run!Assign(gs, t.to, "owned") ELSE gs
      BY <2>1 DEF Ran
    <3> HIDE DEF gs, t
    <3>4. "owned" \in Run!Slot /\ "owned" # "unbound"
      BY DEF Run!Slot
    <3>5. t.op \in {"fresh", "copy"} => Run!Assign(gs, t.to, "owned") \in Stacks
                                        /\ Len(Run!Assign(gs, t.to, "owned")) = Len(gs)
      BY <3>1, <3>2, <3>4, Assigned
    <3> QED BY <3>2, <3>3, <3>5
  <2>3. ASSUME pc + 1 <= at PROVE Agrees(frames', Snapshots[pc + 1])
    <3>1. pc \in 1 .. at - 1 /\ pc <= at /\ pc \in 1 .. at /\ pc \in 1 .. Len(Code) + 1
      BY <1>1, <1>3, <2>3
    <3>2. Walked(body, Snapshots, at)
      BY <1>1, StraightFacts DEF WalkInv
    <3>3. OpenAt(body, pc) /\ NextOf(body, pc) = pc + 1 /\ DepthAt(body, pc) = 0 /\ BaseOf(body) \in {1, 2}
      BY <1>1, <1>3, <3>1, StraightFacts, FormedFacts DEF Code
    <3>4. Snapshots[pc] \in Chains /\ Len(Snapshots[pc]) = BaseOf(body) + DepthAt(body, pc)
      BY <3>1, <3>2, <3>3 DEF Walked, WalkTyped
    <3>5. Snapshots[pc + 1] = Stepped(Snapshots[pc], Code[pc]) /\ Passes(Snapshots[pc], Code[pc])
      BY <3>1, <3>2, <3>3 DEF Walked, WalkSteps, Code
    <3> DEFINE es == Snapshots[pc]
    <3>6. es \in Chains /\ Len(es) > 0 /\ Agrees(frames, es) /\ Passes(es, Code[pc])
      BY <3>1, <3>3, <3>4, <3>5 DEF StraightRun
    <3> HIDE DEF es
    <3>7. Code[pc].op \in Simple \ {"return"} /\ frames \in Stacks /\ Len(frames) > 0
      BY <1>3, <2>1 DEF StraightRun
    <3>8. Agrees(Ran(frames, Code[pc]), Stepped(es, Code[pc]))
      BY <1>1, <1>3, <3>6, <3>7, AgreesStep DEF Code
    <3> QED BY <2>1, <3>5, <3>8 DEF es
  <2>4. pc + 1 \in 1 .. Len(Code) + 1
    BY <1>1, <1>3
  <2>5. at' = at
    OBVIOUS
  <2> QED BY <1>2, <2>1, <2>2, <2>3, <2>4, <2>5 DEF StraightRun
<1>6. Run!RunStatement \/ Run!RunReturn
  <2>1. Run!Now = Code[pc]
    BY DEF Run!Now, Code
  <2>2. Run!Middles = Middles
    BY SameStructure
  <2> QED BY <1>3, <2>1, <2>2 DEF Run!Next, Run!EnterBranch, Run!LeaveBranch, Run!StartLap,
       Run!SkipLoop, Run!EnterBlock, Run!LeaveScope, Run!Unwind, Run!Execute, Simple, Statements, Middles
<1> QED BY <1>4, <1>5, <1>6

\* The walk stays a walk, and a straight execution keeps following it.
LEMMA WalkAndExecution == Spec => []StraightInv
<1>1. Init => StraightInv
  BY WalkStarts, StraightStarts DEF StraightInv
<1>2. StraightInv /\ [Next]_vars => StraightInv'
  <2> SUFFICES ASSUME StraightInv, [Next]_vars PROVE StraightInv'
    OBVIOUS
  <2>1. CASE CheckRegions
    <3>1. /\ Regions!Next /\ verdict = "none" /\ UNCHANGED <<pc, frames, laps, returned>>
      BY <2>1 DEF CheckRegions, runOnly, Regions!Next, Regions!Bind, Regions!Copy, Regions!Read,
         Regions!Consume, Regions!OpenIf, Regions!Else, Regions!OpenMatch, Regions!Arm, Regions!Yield,
         Regions!OpenScope, Regions!SkipUnsafe, Regions!Close, Regions!Reject, Regions!Accept, Regions!Walk
    <3>2. body' = body
      BY <3>1 DEF Regions!Next, Regions!Bind, Regions!Copy, Regions!Read,
         Regions!Consume, Regions!OpenIf, Regions!Else, Regions!OpenMatch, Regions!Arm, Regions!Yield,
         Regions!OpenScope, Regions!SkipUnsafe, Regions!Close, Regions!Reject, Regions!Accept, Regions!Walk
    <3>3. WalkInv' /\ Recorded(envs)'
      BY <3>1, WalkStep DEF StraightInv
    <3>4. Run!Init /\ Run!Init'
      BY <3>1, <3>2 DEF StraightInv, Run!Init
    <3>5. Straight(body)' => StraightRun'
      <4>1. (WalkInv /\ Run!Init /\ Straight(body) => StraightRun)'
        BY StraightStarts, PTL
      <4> QED BY <3>3, <3>4, <4>1
    <3> QED BY <3>3, <3>4, <3>5 DEF StraightInv
  <2>2. CASE Execute
    <3>1. Run!Next /\ verdict # "none" /\ UNCHANGED <<at, envs, verdict, trace>>
      BY <2>2 DEF Execute, regionsOnly
    <3>2. body' = body
      BY <3>1 DEF Run!Next, Run!RunStatement, Run!RunReturn, Run!EnterBranch, Run!LeaveBranch,
         Run!StartLap, Run!SkipLoop, Run!EnterBlock, Run!LeaveScope, Run!Unwind, Run!Execute
    <3>3. WalkInv' /\ Recorded(envs)'
      BY <3>1, <3>2 DEF StraightInv, WalkInv, CheckerType, Recorded, BodyIsFormed, Code, Base, D, Snapshots
    <3>4. Straight(body)' => StraightRun'
      BY <3>1, <3>2, StraightStep DEF StraightInv
    <3> QED BY <3>1, <3>3, <3>4 DEF StraightInv
  <2>3. CASE CheckMoves \/ UNCHANGED vars
    <3>1. UNCHANGED <<body, at, envs, verdict, trace, pc, frames, laps, returned>>
      <4>1. CASE CheckMoves
        BY <4>1 DEF CheckMoves, regionsOnly, runOnly, Moves!Next, Moves!Pass, Moves!Give, Moves!Capture,
             Moves!OpenFresh, Moves!OpenBlock, Moves!NextBranch, Moves!Close, Moves!SkipUnsafe,
             Moves!Reject, Moves!Accept, Moves!Walk
      <4>2. CASE UNCHANGED vars
        BY <4>2 DEF vars, regionsOnly, runOnly
      <4> QED BY <2>3, <4>1, <4>2
    <3>2. WalkInv' /\ Recorded(envs)'
      BY <3>1 DEF StraightInv, WalkInv, CheckerType, Recorded, BodyIsFormed, Code, Base, D, Snapshots
    <3>3. (verdict = "none" => Run!Init)' /\ (Straight(body) => StraightRun)'
      BY <3>1 DEF StraightInv, Run!Init, StraightRun, Code, Snapshots
    <3> QED BY <3>2, <3>3 DEF StraightInv
  <2> QED BY <2>1, <2>2, <2>3 DEF Next
<1> QED BY <1>1, <1>2, PTL DEF Spec

(***************************************************************************)
(* On a straight line, of any body, RegionChecker rejects nothing that is  *)
(* harmless: the execution that comes to the token it refused uses a moved *)
(* name there or moves what is only borrowed.                              *)
(***************************************************************************)
THEOREM RejectsOnlyForCause == Spec => []RejectsForCause
<1>1. StraightInv => RejectsForCause
  <2> SUFFICES ASSUME StraightInv, verdict = "rejected", Run!Running, pc = at, Straight(body)
               PROVE  \/ Run!Now.op = "give_field"
                      \/ Slot(Run!Now.of) = "moved"
                      \/ Run!Now.op \in Regions!Consuming /\ Slot(Run!Now.of) = "borrowed"
    BY DEF RejectsForCause, Straight
  <2> DEFINE t == Code[at]
  <2>1. Run!Now = t /\ at \in 1 .. Len(Code) /\ ~ Passes(envs, t) /\ IsBody(body)
    <3>1. at \in 1 .. Len(Code) + 1 /\ at <= Len(Code) /\ Len(Code) \in Nat
      BY BodyFacts DEF StraightInv, WalkInv, CheckerType, Code
    <3> QED BY <3>1 DEF StraightInv, WalkInv, CheckerType, BodyIsFormed, IsBody, Run!Now, Code
  <2>2. Agrees(frames, envs)
    <3>1. at \in 1 .. at /\ pc <= at
      BY <2>1
    <3>2. Snapshots[at] = envs
      BY <3>1 DEF Snapshots
    <3> QED BY <3>1, <3>2 DEF StraightInv, StraightRun
  <2>3. t.op \in Regions!Consuming => t.of # NoName
    BY <2>1, FormedFacts DEF Regions!Consuming, Code
  <2>4. t.of # NoName => t.of \in Names
    BY <2>1, FormedFacts DEF Code
  <2> HIDE DEF t
  <2> QED BY <2>1, <2>2, <2>3, <2>4 DEF Passes, Agrees, Slot
<1> QED BY <1>1, WalkAndExecution, PTL

-----------------------------------------------------------------------------
(***************************************************************************)
(* A chain of environments covers a chain of frames if, at each level, it  *)
(* knows what is borrowed, and of what is moved either that it is, or a    *)
(* branch around the level will tell when it ends.                         *)
(***************************************************************************)
Pending(es, base, m, d, x) ==
  \E l \in m + 1 .. d : /\ \A j \in m + 1 .. l : Branch(es[base + j])
                        /\ x \in es[base + l].moved

RegionOf(slot) == IF slot = "borrowed" THEN "borrowed" ELSE "owned"

Covers(fs, es, base, N) ==
  \A m \in 0 .. Len(fs) - 2, x \in N :
    /\ Holds(fs, 2 + m, x) # "unbound" =>
         Known(es, base + m, x).region = RegionOf(Holds(fs, 2 + m, x))
    /\ Holds(fs, 2 + m, x) = "moved" =>
         Known(es, base + m, x).moved \/ Pending(es, base, m, Len(fs) - 2, x)

LEMMA CoversGrown ==
  ASSUME NEW fs \in Stacks, NEW d \in Nat, Len(fs) = 2 + d, NEW base \in {1, 2},
         NEW es, NEW new, Grown(es, new, base + d), NEW N \in SUBSET Names, Covers(fs, es, base, N)
  PROVE  Covers(fs, new, base, N)
<1> SUFFICES ASSUME NEW m \in 0 .. Len(fs) - 2, NEW x \in N
             PROVE  /\ Holds(fs, 2 + m, x) # "unbound" =>
                         Known(new, base + m, x).region = RegionOf(Holds(fs, 2 + m, x))
                    /\ Holds(fs, 2 + m, x) = "moved" =>
                         Known(new, base + m, x).moved \/ Pending(new, base, m, Len(fs) - 2, x)
  BY DEF Covers
<1>1. Len(fs) - 2 = d /\ base + m \in 0 .. base + d /\ x \in Names
  OBVIOUS
<1>2. /\ Known(new, base + m, x).region = Known(es, base + m, x).region
      /\ Known(es, base + m, x).moved => Known(new, base + m, x).moved
  BY <1>1 DEF Grown
<1>3. ASSUME Pending(es, base, m, d, x) PROVE Pending(new, base, m, d, x)
  <2>1. PICK l \in m + 1 .. d : (\A j \in m + 1 .. l : Branch(es[base + j])) /\ x \in es[base + l].moved
    BY <1>3 DEF Pending
  <2>2. \A j \in m + 1 .. l : base + j \in 1 .. base + d
    BY <1>1
  <2>3. base + l \in 1 .. base + d
    BY <1>1
  <2>4. \A j \in m + 1 .. l : Branch(new[base + j])
    BY <2>1, <2>2 DEF Grown, Branch
  <2>5. x \in new[base + l].moved
    BY <2>1, <2>3 DEF Grown
  <2> QED BY <2>4, <2>5 DEF Pending
<1>4. /\ Holds(fs, 2 + m, x) # "unbound" =>
           Known(es, base + m, x).region = RegionOf(Holds(fs, 2 + m, x))
      /\ Holds(fs, 2 + m, x) = "moved" =>
           Known(es, base + m, x).moved \/ Pending(es, base, m, Len(fs) - 2, x)
  BY DEF Covers
<1> QED BY <1>1, <1>2, <1>3, <1>4

\* The frames change, but to nothing that the chain has to know.
LEMMA CoversKept ==
  ASSUME NEW fs, NEW gs, Len(gs) = Len(fs), NEW base, NEW es, NEW N, Covers(fs, es, base, N),
         \A m \in 0 .. Len(fs) - 2, x \in N :
           \/ Holds(gs, 2 + m, x) = Holds(fs, 2 + m, x)
           \/ Holds(gs, 2 + m, x) = "owned" /\ Holds(fs, 2 + m, x) \notin {"unbound", "borrowed"}
  PROVE  Covers(gs, es, base, N)
<1> SUFFICES ASSUME NEW m \in 0 .. Len(fs) - 2, NEW x \in N
             PROVE  /\ Holds(gs, 2 + m, x) # "unbound" =>
                         Known(es, base + m, x).region = RegionOf(Holds(gs, 2 + m, x))
                    /\ Holds(gs, 2 + m, x) = "moved" =>
                         Known(es, base + m, x).moved \/ Pending(es, base, m, Len(fs) - 2, x)
  BY DEF Covers
<1>1. \/ Holds(gs, 2 + m, x) = Holds(fs, 2 + m, x)
      \/ Holds(gs, 2 + m, x) = "owned" /\ Holds(fs, 2 + m, x) \notin {"unbound", "borrowed"}
  OBVIOUS
<1>2. /\ Holds(fs, 2 + m, x) # "unbound" =>
           Known(es, base + m, x).region = RegionOf(Holds(fs, 2 + m, x))
      /\ Holds(fs, 2 + m, x) = "moved" =>
           Known(es, base + m, x).moved \/ Pending(es, base, m, Len(fs) - 2, x)
  BY DEF Covers
<1>3. CASE Holds(gs, 2 + m, x) = Holds(fs, 2 + m, x)
  BY <1>2, <1>3
<1>4. CASE Holds(gs, 2 + m, x) = "owned" /\ Holds(fs, 2 + m, x) \notin {"unbound", "borrowed"}
  BY <1>2, <1>4 DEF RegionOf
<1> QED BY <1>1, <1>3, <1>4

\* A value is moved away, and the chain takes note.
LEMMA CoversMoved ==
  ASSUME NEW fs \in Stacks, NEW d \in Nat, Len(fs) = 2 + d, NEW base \in {1, 2},
         NEW es, NEW new, Grown(es, new, base + d), NEW N \in SUBSET Names, Covers(fs, es, base, N),
         NEW x \in Names,
         x \in N /\ Run!Lookup(fs, x) = "owned" =>
           /\ Known(new, base + d, x).moved
           /\ \A m \in 0 .. d - 1 : Holds(fs, 2 + m, x) # "unbound" =>
                x \in new[base + d].moved /\ \A j \in m + 1 .. d : Branch(new[base + j])
  PROVE  Covers(Run!MovedOut(fs, x), new, base, N)
<1> DEFINE gs == Run!MovedOut(fs, x)
<1>1. Covers(fs, new, base, N)
  BY CoversGrown
<1>2. /\ gs \in Stacks /\ Len(gs) = 2 + d
      /\ \E h \in 1 .. Len(fs) :
           /\ \A n \in 0 .. Len(fs), y \in Names :
                Holds(gs, n, y) = IF y = x /\ n >= h /\ Run!Lookup(fs, x) = "owned"
                                  THEN "moved" ELSE Holds(fs, n, y)
           /\ Run!Lookup(fs, x) = "owned" => \A n \in h .. Len(fs) : Holds(fs, n, x) = "owned"
  <2>0. Len(fs) > 0
    OBVIOUS
  <2> QED BY <2>0, MovedAway
<1> HIDE DEF gs
<1>3. PICK h \in 1 .. Len(fs) :
        /\ \A n \in 0 .. Len(fs), y \in Names :
             Holds(gs, n, y) = IF y = x /\ n >= h /\ Run!Lookup(fs, x) = "owned"
                               THEN "moved" ELSE Holds(fs, n, y)
        /\ Run!Lookup(fs, x) = "owned" => \A n \in h .. Len(fs) : Holds(fs, n, x) = "owned"
  BY <1>2
<1>4. ASSUME NEW m \in 0 .. Len(gs) - 2, NEW y \in N
      PROVE  /\ Holds(gs, 2 + m, y) # "unbound" =>
                  Known(new, base + m, y).region = RegionOf(Holds(gs, 2 + m, y))
             /\ Holds(gs, 2 + m, y) = "moved" =>
                  Known(new, base + m, y).moved \/ Pending(new, base, m, Len(gs) - 2, y)
  <2>1. m \in 0 .. Len(fs) - 2 /\ 2 + m \in 0 .. Len(fs) /\ m \in 0 .. d /\ Len(gs) - 2 = d /\ Len(fs) - 2 = d
        /\ y \in Names
    BY <1>2
  <2>2. /\ Holds(fs, 2 + m, y) # "unbound" =>
             Known(new, base + m, y).region = RegionOf(Holds(fs, 2 + m, y))
        /\ Holds(fs, 2 + m, y) = "moved" =>
             Known(new, base + m, y).moved \/ Pending(new, base, m, d, y)
    BY <1>1, <2>1 DEF Covers
  <2>3. CASE y = x /\ 2 + m >= h /\ Run!Lookup(fs, x) = "owned"
    <3>1. Holds(gs, 2 + m, y) = "moved" /\ Holds(fs, 2 + m, x) = "owned"
      <4>1. 2 + m \in h .. Len(fs)
        BY <1>3, <2>1, <2>3
      <4> QED BY <1>3, <2>1, <2>3, <4>1
    <3>2. Known(new, base + m, y).region = RegionOf(Holds(gs, 2 + m, y))
      BY <2>2, <2>3, <3>1 DEF RegionOf
    <3>3. CASE m = d
      BY <2>1, <2>3, <3>2, <3>3
    <3>4. CASE m # d
      <4>1. m \in 0 .. d - 1 /\ d \in m + 1 .. d
        BY <2>1, <3>4
      <4>2. x \in new[base + d].moved /\ \A j \in m + 1 .. d : Branch(new[base + j])
        BY <2>3, <3>1, <4>1
      <4>3. Pending(new, base, m, d, y)
        BY <2>3, <4>1, <4>2 DEF Pending
      <4> QED BY <2>1, <3>2, <4>3
    <3> QED BY <3>3, <3>4
  <2>4. CASE ~ (y = x /\ 2 + m >= h /\ Run!Lookup(fs, x) = "owned")
    <3>1. Holds(gs, 2 + m, y) = Holds(fs, 2 + m, y)
      BY <1>3, <2>1, <2>4
    <3> QED BY <2>1, <2>2, <3>1
  <2> QED BY <2>3, <2>4
<1>5. Covers(gs, new, base, N)
  BY <1>4 DEF Covers
<1> QED BY <1>5 DEF gs

\* A name is bound to something new, and the chain takes note.
LEMMA CoversBound ==
  ASSUME NEW fs \in Stacks, NEW d \in Nat, Len(fs) = 2 + d, NEW base \in {1, 2},
         NEW es \in Chains, Len(es) = base + d, NEW N \in SUBSET Names, Covers(fs, es, base, N),
         NEW x \in Names, \A n \in 1 .. Len(fs) : Holds(fs, n, x) # "borrowed"
  PROVE  Covers(Run!Assign(fs, x, "owned"), Regions!Define(es, x, Regions!Binding("owned")), base, N)
<1> DEFINE gs == Run!Assign(fs, x, "owned")
           info == Regions!Binding("owned")
           new == Regions!Define(es, x, info)
           slot == "owned"
<1>0. info \in Regions!Info /\ info.region = "owned" /\ ~ info.moved
      /\ slot \in Run!Slot /\ slot # "unbound" /\ slot = "owned" /\ Len(fs) > 0 /\ Len(es) > 0
  BY DEF Regions!Binding, Regions!Info, Regions!Region, Run!Slot
<1> HIDE DEF info
<1>1. /\ new \in Chains /\ Len(new) = Len(es) /\ Grown(es, new, Len(es) - 1)
      /\ \A y \in Names : Known(new, Len(es), y) = IF y = x THEN info ELSE Known(es, Len(es), y)
      /\ \A i \in 1 .. Len(es) : new[i].opening = es[i].opening /\ new[i].moved = es[i].moved
  BY <1>0, KnownDefined
<1> HIDE DEF slot
<1>2. gs \in Stacks /\ Len(gs) = Len(fs) /\ \E h : Rebound(fs, gs, x, slot, h)
  <2>1. gs = Run!Assign(fs, x, slot)
    BY <1>0
  <2> HIDE DEF gs
  <2> QED BY <1>0, <2>1, Assigned
<1> HIDE DEF gs, new
<1>6. PICK h : Rebound(fs, gs, x, slot, h)
  BY <1>2
<1>3. /\ h \in 1 .. Len(fs)
      /\ \A n \in 0 .. Len(fs), y \in Names :
           Holds(gs, n, y) = IF y = x /\ n >= h THEN slot ELSE Holds(fs, n, y)
      /\ \/ Run!Lookup(fs, x) = "unbound" /\ h = Len(fs)
         \/ Run!Lookup(fs, x) # "unbound" /\ \A n \in h .. Len(fs) : Holds(fs, n, x) = Run!Lookup(fs, x)
  BY <1>6 DEF Rebound
<1>4. ASSUME NEW m \in 0 .. Len(gs) - 2, NEW y \in N
      PROVE  /\ Holds(gs, 2 + m, y) # "unbound" =>
                  Known(new, base + m, y).region = RegionOf(Holds(gs, 2 + m, y))
             /\ Holds(gs, 2 + m, y) = "moved" =>
                  Known(new, base + m, y).moved \/ Pending(new, base, m, Len(gs) - 2, y)
  <2>1. m \in 0 .. Len(fs) - 2 /\ 2 + m \in 0 .. Len(fs) /\ m \in 0 .. d /\ Len(gs) - 2 = d /\ Len(fs) - 2 = d
        /\ y \in Names
    BY <1>2
  <2>2. /\ Holds(fs, 2 + m, y) # "unbound" =>
             Known(es, base + m, y).region = RegionOf(Holds(fs, 2 + m, y))
        /\ Holds(fs, 2 + m, y) = "moved" =>
             Known(es, base + m, y).moved \/ Pending(es, base, m, d, y)
    BY <2>1 DEF Covers
  <2>3. Pending(es, base, m, d, y) => Pending(new, base, m, d, y)
    <3>1. \A j \in m + 1 .. d : base + j \in 1 .. Len(es)
      BY <2>1
    <3>2. \A j \in m + 1 .. d : Branch(es[base + j]) = Branch(new[base + j]) /\ new[base + j].moved = es[base + j].moved
      BY <1>1, <3>1 DEF Branch
    <3>3. \A l \in m + 1 .. d : \A j \in m + 1 .. l : j \in m + 1 .. d
      BY <2>1
    <3> QED BY <3>2, <3>3 DEF Pending
  <2>4. m # d => /\ Known(new, base + m, y).region = Known(es, base + m, y).region
                 /\ Known(es, base + m, y).moved => Known(new, base + m, y).moved
    <3>1. m # d => base + m \in 0 .. Len(es) - 1
      BY <2>1
    <3> QED BY <1>1, <2>1, <3>1 DEF Grown
  <2>5. m = d => Known(new, base + m, y) = IF y = x THEN info ELSE Known(es, base + m, y)
    BY <1>1, <2>1
  <2>6. CASE y = x /\ 2 + m >= h
    <3>1. Holds(gs, 2 + m, y) = "owned"
      BY <1>0, <1>3, <2>1, <2>6
    <3>2. CASE m = d
      BY <1>0, <2>5, <2>6, <3>1, <3>2 DEF RegionOf
    <3>3. CASE m # d
      <4>1. 2 + m \in 1 .. Len(fs) /\ 2 + m # Len(fs) /\ 2 + m \in h .. Len(fs)
        BY <2>1, <2>6, <3>3
      <4>2. h # Len(fs)
        BY <2>1, <2>6, <4>1
      <4>3. Holds(fs, 2 + m, x) # "unbound"
        <5>1. Run!Lookup(fs, x) # "unbound" /\ \A n \in h .. Len(fs) : Holds(fs, n, x) = Run!Lookup(fs, x)
          BY <1>3, <4>2
        <5> QED BY <4>1, <5>1
      <4>4. Holds(fs, 2 + m, x) # "borrowed"
        BY <4>1
      <4>5. Known(new, base + m, y).region = "owned"
        BY <2>2, <2>4, <2>6, <3>3, <4>3, <4>4 DEF RegionOf
      <4> QED BY <3>1, <4>5 DEF RegionOf
    <3> QED BY <3>2, <3>3
  <2>7. CASE ~ (y = x /\ 2 + m >= h)
    <3>1. Holds(gs, 2 + m, y) = Holds(fs, 2 + m, y)
      BY <1>3, <2>1, <2>7
    <3>2. CASE m # d
      BY <2>1, <2>2, <2>3, <2>4, <3>1, <3>2
    <3>3. CASE m = d
      <4>1. y # x
        BY <1>3, <2>1, <2>7, <3>3
      <4> QED BY <2>1, <2>2, <2>3, <2>5, <3>1, <3>3, <4>1
    <3> QED BY <3>2, <3>3
  <2> QED BY <2>6, <2>7
<1>5. Covers(gs, new, base, N)
  BY <1>4 DEF Covers
<1> QED BY <1>5 DEF gs, new, info
-----------------------------------------------------------------------------
(***************************************************************************)
(* What an execution of a tame body has to do with the walk over it.       *)
(***************************************************************************)
\* The names whose captures the walk does not know of are those captured before.
Shown(b, i) == Names \ {b.code[j].of : j \in {k \in 1 .. i - 1 : b.code[k].op = "capture"}}

\* A parameter, or a payload of one, may be the caller's.
MayLend(b, x) ==
  \/ b.params[x] = "borrowed"
  \/ ~ NoneBorrowed(b) /\ \E j \in 1 .. Len(b.code) : b.code[j].op \in {"match", "arm"} /\ b.code[j].to = x

\* There is a frame for each open scope, with the names bound there.
Scoped(b, i, fs) ==
  /\ i \in 1 .. Len(b.code) + 1
  /\ fs \in Stacks /\ Len(fs) = 2 + DepthAt(b, i)
  /\ \A m \in 0 .. DepthAt(b, i), x \in Names : Holds(fs, 2 + m, x) # "unbound" <=> BoundTo(b, x, i, m)

Lent(b, fs) ==
  \A n \in 1 .. Len(fs), x \in Names : Holds(fs, n, x) = "borrowed" => MayLend(b, x)

\* Where a break, a continue, the next lap and the end of an unsafe block lead,
\* the walk knew enough when it was at the construct.
Stored(b, w, i, fs) ==
  \A o \in Inside(b.code, i, {"loop", "unsafe"}) :
    OpenAt(b, o) => Covers(SubSeq(fs, 1, 2 + DepthAt(b, o)), w[o], BaseOf(b), Shown(b, o))

\* What an unsafe block binds is its own.
Isolated(b, i, fs) ==
  \A u \in Inside(b.code, i, {"unsafe"}), n \in 1 .. Len(fs), x \in Names :
    n >= 3 + DepthAt(b, u) => fs[n][x] \in {"unbound", "owned"}

Framed(b, w, i, fs) == Scoped(b, i, fs) /\ Lent(b, fs) /\ Stored(b, w, i, fs) /\ Isolated(b, i, fs)

Follows(b, w, i, fs) ==
  Framed(b, w, i, fs) /\ (OpenAt(b, i) => Covers(fs, w[i], BaseOf(b), Shown(b, i)))

WalkOf(b, w) == IsBody(b) /\ Tame(b) /\ Walked(b, w, Len(b.code) + 1)

LEMMA TameFacts ==
  ASSUME NEW b, IsBody(b), Tame(b)
  PROVE  /\ Quiet(b)
         /\ Straight(b) \/ \A i \in 1 .. Len(b.code) + 1 : Shown(b, i) = Names
         /\ \A i : Shown(b, i) \in SUBSET Names
         /\ \A i \in 1 .. Len(b.code) :
              /\ Shown(b, i + 1) \subseteq Shown(b, i)
              /\ b.code[i].op # "capture" => Shown(b, i + 1) = Shown(b, i)
              /\ b.code[i].op = "capture" => b.code[i].of \notin Shown(b, i + 1) /\ Straight(b)
              /\ b.code[i].op # "module_give"
              /\ b.code[i].op \in {"fresh", "copy"} => ~ MayLend(b, b.code[i].to)
              /\ b.code[i].to # NoName => b.params[b.code[i].to] # "borrowed"
              /\ b.code[i].op \in MovesOut =>
                   \A o \in Inside(b.code, i, {"loop", "block"}) : ~ Bound(b, b.code[i].of, o)
              /\ b.code[i].of # NoName =>
                   \A u \in Inside(b.code, i, {"unsafe"}) :
                     b.code[i].op \notin MovesOut /\ ~ Bound(b, b.code[i].of, u)
<1>0. Len(b.code) \in Nat
  BY FormedFacts
<1>1. Quiet(b)
  BY DEF Tame, Quiet, NoneBorrowed
<1>2. \A i \in 1 .. Len(b.code) : b.code[i].op = "capture" => Straight(b)
  BY DEF Tame, Straight
<1>3. ASSUME ~ Straight(b), NEW i \in 1 .. Len(b.code) + 1 PROVE Shown(b, i) = Names
  <2>1. \A k \in 1 .. i - 1 : k \in 1 .. Len(b.code)
    BY <1>0
  <2> QED BY <1>2, <1>3, <2>1 DEF Shown
<1>4. \A i : Shown(b, i) \in SUBSET Names
  BY DEF Shown
<1>5. ASSUME NEW i \in 1 .. Len(b.code)
      PROVE  /\ Shown(b, i + 1) \subseteq Shown(b, i)
             /\ b.code[i].op # "capture" => Shown(b, i + 1) = Shown(b, i)
             /\ b.code[i].op = "capture" => b.code[i].of \notin Shown(b, i + 1)
  <2>1. \A k : k \in 1 .. (i + 1) - 1 <=> k \in 1 .. i - 1 \/ k = i
    BY <1>0
  <2> QED BY <2>1 DEF Shown
<1>6. ASSUME NEW i \in 1 .. Len(b.code)
      PROVE  /\ b.code[i].op # "module_give"
             /\ b.code[i].to # NoName => b.params[b.code[i].to] # "borrowed"
             /\ b.code[i].op \in MovesOut =>
                  \A o \in Inside(b.code, i, {"loop", "block"}) : ~ Bound(b, b.code[i].of, o)
             /\ b.code[i].of # NoName =>
                  \A u \in Inside(b.code, i, {"unsafe"}) :
                    b.code[i].op \notin MovesOut /\ ~ Bound(b, b.code[i].of, u)
  BY DEF Tame, OwnScopeOnly
<1>7. ASSUME NEW i \in 1 .. Len(b.code), b.code[i].op \in {"fresh", "copy"}
      PROVE  ~ MayLend(b, b.code[i].to)
  <2>1. b.code[i].to # NoName
    BY <1>7, FormedFacts DEF Formed
  <2>2. \/ \A x \in Names : b.params[x] # "borrowed"
        \/ \A j \in 1 .. Len(b.code) : b.code[j].op \in {"match", "arm"} => b.code[j].to # b.code[i].to
    BY <1>7 DEF Tame
  <2> QED BY <1>6, <2>1, <2>2 DEF MayLend, NoneBorrowed
<1> QED BY <1>1, <1>2, <1>3, <1>4, <1>5, <1>6, <1>7

LEMMA ScopedFacts ==
  ASSUME NEW b, IsBody(b), NEW i, NEW fs, Scoped(b, i, fs)
  PROVE  /\ DepthAt(b, i) \in Nat /\ fs \in Stacks /\ Len(fs) = 2 + DepthAt(b, i) /\ Len(fs) > 0
         /\ \A x \in Names : Run!Lookup(fs, x) = Holds(fs, 2 + DepthAt(b, i), x)
         /\ \A x \in Names : Run!Lookup(fs, x) # "unbound" <=> Bound(b, x, i)
         /\ \A m \in 0 .. DepthAt(b, i), k \in 0 .. DepthAt(b, i), x \in Names :
              m <= k /\ Holds(fs, 2 + m, x) # "unbound" => Holds(fs, 2 + k, x) # "unbound"
<1> DEFINE d == DepthAt(b, i)
<1>1. d \in Nat /\ fs \in Stacks /\ Len(fs) = 2 + d /\ Len(fs) > 0 /\ d \in 0 .. d
  BY FormedFacts DEF Scoped
<1>2. \A m \in 0 .. d, x \in Names : Holds(fs, 2 + m, x) # "unbound" <=> BoundTo(b, x, i, m)
  BY DEF Scoped
<1>3. \A x \in Names : Run!Lookup(fs, x) = Holds(fs, 2 + d, x)
  BY <1>1, HoldsStep
<1>4. \A x \in Names : Bound(b, x, i) <=> BoundTo(b, x, i, d)
  BY BoundIsBoundTo, FormedFacts DEF IsBody, Scoped, DepthAt
<1>5. ASSUME NEW m \in 0 .. d, NEW k \in 0 .. d, NEW x \in Names, m <= k, BoundTo(b, x, i, m)
      PROVE  BoundTo(b, x, i, k)
  <2>1. CASE b.params[x] # "none"
    BY <2>1 DEF BoundTo
  <2>2. CASE b.params[x] = "none"
    <3>1. PICK j \in 1 .. i - 1 : b.code[j].to = x /\ Depth(b.code, j + 1) <= m /\ Visible(b.code, j, i)
      BY <1>5, <2>2 DEF BoundTo
    <3>2. Depth(b.code, j + 1) \in Int
      <4>1. j + 1 \in Nat /\ j + 1 >= 1
        BY DEF Scoped
      <4> QED BY <4>1, DepthSteps
    <3>3. Depth(b.code, j + 1) <= k
      BY <1>5, <3>1, <3>2
    <3> QED BY <3>1, <3>3 DEF BoundTo
  <2> QED BY <2>1, <2>2
<1> HIDE DEF d
<1> QED BY <1>1, <1>2, <1>3, <1>4, <1>5 DEF d

\* What is moved out of an outer scope crosses only branches, if the walk sees it.
LEMMA CrossesBranches ==
  ASSUME NEW b, NEW w, WalkOf(b, w), NEW i \in 1 .. Len(b.code), NEW fs, Scoped(b, i, fs),
         OpenAt(b, i), b.code[i].op \in MovesOut, b.code[i].of \in Names,
         NEW m \in Nat, m < DepthAt(b, i), Holds(fs, 2 + m, b.code[i].of) # "unbound"
  PROVE  \A j \in m + 1 .. DepthAt(b, i) : Branch(w[i][BaseOf(b) + j])
<1> DEFINE x == b.code[i].of
           d == DepthAt(b, i)
<1>0. IsBody(b) /\ Tame(b) /\ Walked(b, w, Len(b.code) + 1) /\ b \in BodyType /\ b.code \in Seq(Token)
      /\ Balanced(b.code) /\ Len(b.code) \in Nat /\ d \in Nat /\ i \in 1 .. Len(b.code) + 1
      /\ BaseOf(b) \in {1, 2}
  BY FormedFacts DEF WalkOf, IsBody
<1> SUFFICES ASSUME NEW j \in m + 1 .. d PROVE Branch(w[i][BaseOf(b) + j])
  OBVIOUS
<1>1. PICK o \in 1 .. i - 1 : /\ b.code[o].op \in Openings /\ Depth(b.code, o) = j - 1
                              /\ Deeper(b.code, o + 1, i, j - 1)
  <2>1. j \in 1 .. Depth(b.code, i)
    BY <1>0 DEF DepthAt
  <2> QED BY <1>0, <2>1, Levels
<1>2. o \in 1 .. Len(b.code) /\ i \in o + 1 .. Len(b.code) + 1 /\ m <= Depth(b.code, o)
  BY <1>0, <1>1
<1>3. Bound(b, x, o)
  <2>1. BoundTo(b, x, i, m)
    <3>1. m \in 0 .. d
      BY <1>0
    <3> QED BY <3>1 DEF Scoped
  <2>2. Deeper(b.code, o + 1, i, Depth(b.code, o))
    BY <1>1
  <2> HIDE DEF x
  <2> QED BY <1>0, <1>2, <2>1, <2>2, BoundOutside DEF x
<1>4. b.code[o].op \in {"if", "match"}
  <2>1. \A X \in SUBSET Openings : b.code[o].op \in X => o \in Inside(b.code, i, X)
    <3> SUFFICES ASSUME NEW X \in SUBSET Openings, b.code[o].op \in X PROVE o \in Inside(b.code, i, X)
      OBVIOUS
    <3>1. Inside(b.code, i, X) =
            {q \in 1 .. i - 1 : b.code[q].op \in X /\ Deeper(b.code, q + 1, i, Depth(b.code, q))}
      BY <1>0, InsideIsDeeper
    <3> QED BY <1>1, <3>1
  <2>2. {"loop", "block"} \in SUBSET Openings /\ {"unsafe"} \in SUBSET Openings
    BY DEF Openings
  <2>3. b.code[o].op \notin {"loop", "block"}
    <3>1. \A q \in Inside(b.code, i, {"loop", "block"}) : ~ Bound(b, x, q)
      BY <1>0, TameFacts
    <3> QED BY <1>3, <2>1, <2>2, <3>1
  <2>4. b.code[o].op # "unsafe"
    BY <2>1, <2>2 DEF OpenAt
  <2> QED BY <1>1, <2>3, <2>4 DEF Openings
<1>5. w[i][BaseOf(b) + DepthAt(b, o) + 1].opening = b.code[o].op
  <2>1. i \in 1 .. Len(b.code) + 1 /\ Deeper(b.code, o + 1, i, DepthAt(b, o))
    BY <1>0, <1>1 DEF DepthAt
  <2>2. WalkShapes(b, w, Len(b.code) + 1)
    BY <1>0 DEF Walked
  <2> QED BY <1>1, <2>1, <2>2 DEF WalkShapes
<1>6. BaseOf(b) + DepthAt(b, o) + 1 = BaseOf(b) + j
  BY <1>0, <1>1 DEF DepthAt
<1> QED BY <1>4, <1>5, <1>6 DEF Branch

\* Nothing is moved out of a loop or an unsafe block.
LEMMA StaysInside ==
  ASSUME NEW b, NEW w, WalkOf(b, w), NEW i \in 1 .. Len(b.code), NEW fs, Scoped(b, i, fs),
         b.code[i].op \in MovesOut, b.code[i].of \in Names,
         NEW o \in Inside(b.code, i, {"loop", "unsafe"})
  PROVE  /\ o \in 1 .. i - 1 /\ DepthAt(b, o) \in Nat /\ DepthAt(b, o) < DepthAt(b, i)
         /\ \A m \in 0 .. DepthAt(b, o) : Holds(fs, 2 + m, b.code[i].of) = "unbound"
<1> DEFINE x == b.code[i].of
<1>0. IsBody(b) /\ Tame(b) /\ b \in BodyType /\ b.code \in Seq(Token)
      /\ Balanced(b.code) /\ Len(b.code) \in Nat /\ DepthAt(b, i) \in Nat /\ i \in 1 .. Len(b.code) + 1
  BY FormedFacts DEF WalkOf, IsBody
<1>1. {"loop", "unsafe"} \in SUBSET Openings
  BY DEF Openings
<1>2. o \in 1 .. i - 1 /\ b.code[o].op \in {"loop", "unsafe"} /\ Deeper(b.code, o + 1, i, Depth(b.code, o))
  <2>1. Inside(b.code, i, {"loop", "unsafe"}) =
          {q \in 1 .. i - 1 : b.code[q].op \in {"loop", "unsafe"} /\ Deeper(b.code, q + 1, i, Depth(b.code, q))}
    BY <1>0, <1>1, InsideIsDeeper
  <2> QED BY <2>1
<1>3. o \in 1 .. Len(b.code) /\ i \in o + 1 .. Len(b.code) + 1 /\ i \in o + 1 .. i /\ o \in 1 .. Len(b.code) + 1
  BY <1>0, <1>2
<1>4. DepthAt(b, o) \in Nat /\ DepthAt(b, o) < DepthAt(b, i)
  <2>1. DepthAt(b, o) \in Nat
    BY <1>0, <1>3, FormedFacts
  <2>2. Depth(b.code, i) > Depth(b.code, o)
    BY <1>2, <1>3 DEF Deeper
  <2> QED BY <1>0, <2>1, <2>2 DEF DepthAt
<1>5. ~ Bound(b, x, o)
  <2>1. CASE b.code[o].op = "loop"
    <3>1. o \in Inside(b.code, i, {"loop", "block"})
      BY <2>1 DEF Inside
    <3> QED BY <1>0, <3>1, TameFacts
  <2>2. CASE b.code[o].op = "unsafe"
    <3>1. o \in Inside(b.code, i, {"unsafe"})
      BY <2>2 DEF Inside
    <3>2. x # NoName
      BY NamesAssumption
    <3> QED BY <1>0, <3>1, <3>2, TameFacts
  <2> QED BY <1>2, <2>1, <2>2
<1>6. ASSUME NEW m \in 0 .. DepthAt(b, o), Holds(fs, 2 + m, x) # "unbound" PROVE FALSE
  <2>1. m \in 0 .. DepthAt(b, i) /\ m \in Nat /\ m <= Depth(b.code, o)
    BY <1>0, <1>4 DEF DepthAt
  <2>2. BoundTo(b, x, i, m)
    BY <1>6, <2>1 DEF Scoped
  <2> HIDE DEF x
  <2>3. x \in Names
    BY DEF x
  <2> QED BY <1>0, <1>2, <1>3, <1>5, <2>1, <2>2, <2>3, BoundOutside
<1> QED BY <1>2, <1>4, <1>6

\* A move leaves the frames as they have to be.
LEMMA MovedFramed ==
  ASSUME NEW b, NEW w, WalkOf(b, w), NEW i \in 1 .. Len(b.code), NEW fs, Framed(b, w, i, fs),
         b.code[i].op \in MovesOut, b.code[i].of \in Names
  PROVE  Framed(b, w, i, Run!MovedOut(fs, b.code[i].of))
<1> DEFINE x == b.code[i].of
           gs == Run!MovedOut(fs, x)
           d == DepthAt(b, i)
<1>0. /\ IsBody(b) /\ Tame(b) /\ Scoped(b, i, fs) /\ Lent(b, fs) /\ Stored(b, w, i, fs) /\ x \in Names
      /\ i \in 1 .. Len(b.code) + 1
  BY DEF WalkOf, Framed, Scoped
<1>1. d \in Nat /\ fs \in Stacks /\ Len(fs) = 2 + d /\ Len(fs) > 0
  BY <1>0, ScopedFacts
<1> HIDE DEF d
<1>2. /\ gs \in Stacks /\ Len(gs) = Len(fs)
      /\ \E h \in 1 .. Len(fs) :
           /\ \A n \in 0 .. Len(fs), y \in Names :
                Holds(gs, n, y) = IF y = x /\ n >= h /\ Run!Lookup(fs, x) = "owned"
                                  THEN "moved" ELSE Holds(fs, n, y)
           /\ Run!Lookup(fs, x) = "owned" => \A n \in h .. Len(fs) : Holds(fs, n, x) = "owned"
  BY <1>0, <1>1, MovedAway
<1>3. \A n \in 0 .. Len(fs), y \in Names :
        Holds(gs, n, y) = Holds(fs, n, y) \/ (y = x /\ Holds(gs, n, y) = "moved" /\ Holds(fs, n, y) = "owned")
  <2>1. PICK h \in 1 .. Len(fs) :
           /\ \A n \in 0 .. Len(fs), y \in Names :
                Holds(gs, n, y) = IF y = x /\ n >= h /\ Run!Lookup(fs, x) = "owned"
                                  THEN "moved" ELSE Holds(fs, n, y)
           /\ Run!Lookup(fs, x) = "owned" => \A n \in h .. Len(fs) : Holds(fs, n, x) = "owned"
    BY <1>2
  <2> SUFFICES ASSUME NEW n \in 0 .. Len(fs), NEW y \in Names
               PROVE  Holds(gs, n, y) = Holds(fs, n, y)
                      \/ (y = x /\ Holds(gs, n, y) = "moved" /\ Holds(fs, n, y) = "owned")
    OBVIOUS
  <2>2. CASE y = x /\ n >= h /\ Run!Lookup(fs, x) = "owned"
    <3>1. n \in h .. Len(fs)
      BY <1>1, <2>2
    <3> QED BY <2>1, <2>2, <3>1
  <2>3. CASE ~ (y = x /\ n >= h /\ Run!Lookup(fs, x) = "owned")
    BY <2>1, <2>3
  <2> QED BY <2>2, <2>3
<1> HIDE DEF gs
<1>4. Scoped(b, i, gs)
  <2>1. \A m \in 0 .. d : 2 + m \in 0 .. Len(fs)
    BY <1>1
  <2>2. \A m \in 0 .. d, y \in Names : Holds(fs, 2 + m, y) # "unbound" <=> BoundTo(b, y, i, m)
    BY <1>0 DEF Scoped, d
  <2>3. \A m \in 0 .. d, y \in Names : Holds(gs, 2 + m, y) # "unbound" <=> BoundTo(b, y, i, m)
    BY <1>3, <2>1, <2>2
  <2> QED BY <1>0, <1>1, <1>2, <2>3 DEF Scoped, d
<1>5. Lent(b, gs)
  <2>1. \A n \in 1 .. Len(fs) : n \in 0 .. Len(fs)
    OBVIOUS
  <2> QED BY <1>0, <1>2, <1>3, <2>1 DEF Lent
<1>6. Stored(b, w, i, gs)
  <2> SUFFICES ASSUME NEW o \in Inside(b.code, i, {"loop", "unsafe"}), OpenAt(b, o)
               PROVE  Covers(SubSeq(gs, 1, 2 + DepthAt(b, o)), w[o], BaseOf(b), Shown(b, o))
    BY DEF Stored
  <2> DEFINE fo == SubSeq(fs, 1, 2 + DepthAt(b, o))
             go == SubSeq(gs, 1, 2 + DepthAt(b, o))
             N == Shown(b, o)
  <2>1. /\ DepthAt(b, o) \in Nat /\ DepthAt(b, o) < d
        /\ \A m \in 0 .. DepthAt(b, o) : Holds(fs, 2 + m, x) = "unbound"
    BY <1>0, StaysInside DEF d
  <2>2. Covers(fo, w[o], BaseOf(b), N)
    BY <1>0 DEF Stored
  <2>3. 2 + DepthAt(b, o) \in 0 .. Len(fs) /\ 2 + DepthAt(b, o) \in 0 .. Len(gs)
    BY <1>1, <1>2, <2>1
  <2>4. /\ Len(fo) = 2 + DepthAt(b, o) /\ Len(go) = 2 + DepthAt(b, o)
        /\ \A k \in 0 .. 2 + DepthAt(b, o) : \A y : Holds(fo, k, y) = Holds(fs, k, y) /\ Holds(go, k, y) = Holds(gs, k, y)
    BY <1>1, <1>2, <2>3, HoldsOuter
  <2>5. N \in SUBSET Names
    BY <1>0, TameFacts
  <2> HIDE DEF fo, go, N
  <2>6. ASSUME NEW m \in 0 .. Len(fo) - 2, NEW y \in N
        PROVE  Holds(go, 2 + m, y) = Holds(fo, 2 + m, y)
    <3>1. m \in 0 .. DepthAt(b, o) /\ 2 + m \in 0 .. 2 + DepthAt(b, o) /\ 2 + m \in 0 .. Len(fs)
      BY <2>1, <2>3, <2>4
    <3>2. Holds(gs, 2 + m, y) = Holds(fs, 2 + m, y)
      BY <1>3, <2>1, <2>5, <3>1
    <3> QED BY <2>4, <3>1, <3>2
  <2>7. Covers(go, w[o], BaseOf(b), N)
    BY <2>2, <2>4, <2>6, CoversKept
  <2> QED BY <2>7 DEF go, N
<1>7. Isolated(b, i, gs)
  <2>1. x # NoName
    BY <1>0, NamesAssumption
  <2>2. \A u \in Inside(b.code, i, {"unsafe"}) : FALSE
    BY <1>0, <2>1, TameFacts
  <2> QED BY <2>2 DEF Isolated
<1> QED BY <1>4, <1>5, <1>6, <1>7 DEF Framed, gs

\* So does an assignment, but for the name it may bind.
LEMMA BoundFramed ==
  ASSUME NEW b, NEW w, WalkOf(b, w), NEW i \in 1 .. Len(b.code), NEW fs, Framed(b, w, i, fs),
         b.code[i].op \in {"fresh", "copy"}
  PROVE  LET x == b.code[i].to
             gs == Run!Assign(fs, x, "owned")
         IN  /\ gs \in Stacks /\ Len(gs) = Len(fs) /\ x \in Names
             /\ \A m \in 0 .. DepthAt(b, i), y \in Names :
                  Holds(gs, 2 + m, y) # "unbound" <=>
                    Holds(fs, 2 + m, y) # "unbound" \/ (y = x /\ m = DepthAt(b, i))
             /\ Lent(b, gs) /\ Stored(b, w, i, gs) /\ Isolated(b, i, gs)
             /\ \A n \in 1 .. Len(fs) : Holds(fs, n, x) # "borrowed"
<1> DEFINE x == b.code[i].to
           slot == "owned"
           gs == Run!Assign(fs, x, slot)
           d == DepthAt(b, i)
<1>0. /\ IsBody(b) /\ Tame(b) /\ Scoped(b, i, fs) /\ Lent(b, fs) /\ Stored(b, w, i, fs) /\ Isolated(b, i, fs)
      /\ i \in 1 .. Len(b.code) + 1 /\ b \in BodyType /\ b.code \in Seq(Token) /\ Balanced(b.code)
  BY FormedFacts DEF WalkOf, Framed, Scoped, IsBody
<1>1. d \in Nat /\ fs \in Stacks /\ Len(fs) = 2 + d /\ Len(fs) > 0
  BY <1>0, ScopedFacts
<1>2. x \in Names /\ slot \in Run!Slot /\ slot # "unbound" /\ slot = "owned"
  BY <1>0, FormedFacts DEF Run!Slot
<1> HIDE DEF d, x, slot
<1>3. gs \in Stacks /\ Len(gs) = Len(fs) /\ \E h : Rebound(fs, gs, x, slot, h)
  BY <1>1, <1>2, Assigned
<1> HIDE DEF gs
<1>4. PICK h : Rebound(fs, gs, x, slot, h)
  BY <1>3
<1>5. /\ h \in 1 .. Len(fs)
      /\ \A n \in 0 .. Len(fs), y \in Names :
           Holds(gs, n, y) = IF y = x /\ n >= h THEN slot ELSE Holds(fs, n, y)
      /\ \/ Run!Lookup(fs, x) = "unbound" /\ h = Len(fs)
         \/ /\ Run!Lookup(fs, x) # "unbound"
            /\ \A n \in h .. Len(fs) : Holds(fs, n, x) = Run!Lookup(fs, x)
      /\ \A n \in 1 .. Len(fs) : n # h => gs[n] = fs[n]
      /\ \A y \in Names : gs[h][y] = IF y = x THEN slot ELSE fs[h][y]
  BY <1>4 DEF Rebound
<1>6. \A n \in 1 .. Len(fs) : Holds(fs, n, x) # "borrowed"
  <2>1. ~ MayLend(b, x)
    BY <1>0, TameFacts DEF x
  <2> QED BY <1>0, <1>2, <2>1 DEF Lent
<1>7. \A n \in 0 .. Len(fs) - 1, y \in Names :
        \/ Holds(gs, n, y) = Holds(fs, n, y)
        \/ y = x /\ Holds(gs, n, y) = slot /\ Holds(fs, n, y) # "unbound" /\ n \in 1 .. Len(fs)
  <2> SUFFICES ASSUME NEW n \in 0 .. Len(fs) - 1, NEW y \in Names, y = x, n >= h
               PROVE  Holds(gs, n, y) = slot /\ Holds(fs, n, y) # "unbound" /\ n \in 1 .. Len(fs)
    <3>1. \A n \in 0 .. Len(fs) - 1 : n \in 0 .. Len(fs)
      BY <1>1
    <3> QED BY <1>5, <3>1
  <2>1. n \in h .. Len(fs) /\ n \in 0 .. Len(fs) /\ n \in 1 .. Len(fs) /\ h # Len(fs)
    BY <1>1, <1>5
  <2> QED BY <1>5, <2>1
<1>8. \A m \in 0 .. d, y \in Names :
        Holds(gs, 2 + m, y) # "unbound" <=> Holds(fs, 2 + m, y) # "unbound" \/ (y = x /\ m = d)
  <2> SUFFICES ASSUME NEW m \in 0 .. d, NEW y \in Names
               PROVE  Holds(gs, 2 + m, y) # "unbound" <=> Holds(fs, 2 + m, y) # "unbound" \/ (y = x /\ m = d)
    OBVIOUS
  <2>1. CASE m = d
    <3>1. 2 + m = Len(fs) /\ 2 + m \in 0 .. Len(fs) /\ 2 + m >= h
      BY <1>1, <1>5, <2>1
    <3> QED BY <1>2, <1>5, <2>1, <3>1
  <2>2. CASE m # d
    <3>1. 2 + m \in 0 .. Len(fs) - 1
      BY <1>1, <2>2
    <3> QED BY <1>2, <1>7, <2>2, <3>1
  <2> QED BY <2>1, <2>2
<1>9. Lent(b, gs)
  <2>1. \A n \in 1 .. Len(fs) : n \in 0 .. Len(fs)
    OBVIOUS
  <2> QED BY <1>0, <1>2, <1>3, <1>5, <2>1 DEF Lent
<1>10. Isolated(b, i, gs)
  <2> SUFFICES ASSUME NEW u \in Inside(b.code, i, {"unsafe"}), NEW n \in 1 .. Len(fs), NEW y \in Names,
                      n >= 3 + DepthAt(b, u)
               PROVE  gs[n][y] \in {"unbound", "owned"}
    BY <1>3 DEF Isolated
  <2>1. fs[n][y] \in {"unbound", "owned"}
    BY <1>0 DEF Isolated
  <2> QED BY <1>2, <1>5, <2>1
<1>11. Stored(b, w, i, gs)
  <2> SUFFICES ASSUME NEW o \in Inside(b.code, i, {"loop", "unsafe"}), OpenAt(b, o)
               PROVE  Covers(SubSeq(gs, 1, 2 + DepthAt(b, o)), w[o], BaseOf(b), Shown(b, o))
    BY DEF Stored
  <2> DEFINE fo == SubSeq(fs, 1, 2 + DepthAt(b, o))
             go == SubSeq(gs, 1, 2 + DepthAt(b, o))
             N == Shown(b, o)
  <2>1. DepthAt(b, o) \in Nat /\ DepthAt(b, o) < d
    <3>1. {"loop", "unsafe"} \in SUBSET Openings
      BY DEF Openings
    <3>2. o \in 1 .. i - 1 /\ Deeper(b.code, o + 1, i, Depth(b.code, o))
      BY <1>0, <3>1, InsideIsDeeper
    <3>3. o \in 1 .. Len(b.code) + 1 /\ i \in o + 1 .. i
      BY <1>0, <3>2
    <3>4. DepthAt(b, o) \in Nat
      BY <1>0, <3>3, FormedFacts
    <3> QED BY <1>1, <3>2, <3>3, <3>4 DEF Deeper, DepthAt, d
  <2>2. Covers(fo, w[o], BaseOf(b), N)
    BY <1>0 DEF Stored
  <2>3. 2 + DepthAt(b, o) \in 0 .. Len(fs) /\ 2 + DepthAt(b, o) \in 0 .. Len(gs)
    BY <1>1, <1>3, <2>1
  <2>4. /\ Len(fo) = 2 + DepthAt(b, o) /\ Len(go) = 2 + DepthAt(b, o)
        /\ \A k \in 0 .. 2 + DepthAt(b, o) : \A y : Holds(fo, k, y) = Holds(fs, k, y) /\ Holds(go, k, y) = Holds(gs, k, y)
    BY <1>1, <1>3, <2>3, HoldsOuter
  <2>5. N \in SUBSET Names
    BY <1>0, TameFacts
  <2> HIDE DEF fo, go, N
  <2>6. ASSUME NEW m \in 0 .. Len(fo) - 2, NEW y \in N
        PROVE  \/ Holds(go, 2 + m, y) = Holds(fo, 2 + m, y)
               \/ Holds(go, 2 + m, y) = "owned" /\ Holds(fo, 2 + m, y) \notin {"unbound", "borrowed"}
    <3>1. 2 + m \in 0 .. 2 + DepthAt(b, o) /\ 2 + m \in 0 .. Len(fs) - 1
      BY <1>1, <2>1, <2>3, <2>4
    <3>2. \/ Holds(gs, 2 + m, y) = Holds(fs, 2 + m, y)
          \/ Holds(gs, 2 + m, y) = "owned" /\ Holds(fs, 2 + m, y) \notin {"unbound", "borrowed"}
      BY <1>2, <1>6, <1>7, <2>5, <3>1
    <3> QED BY <2>4, <3>1, <3>2
  <2>7. Covers(go, w[o], BaseOf(b), N)
    BY <2>2, <2>4, <2>6, CoversKept
  <2> QED BY <2>7 DEF go, N
<1> QED BY <1>2, <1>3, <1>6, <1>8, <1>9, <1>10, <1>11 DEF gs, x, slot, d

LEMMA WalkFacts ==
  ASSUME NEW b, NEW w, WalkOf(b, w), NEW i \in 1 .. Len(b.code) + 1, OpenAt(b, i)
  PROVE  /\ w[i] \in Chains /\ Len(w[i]) = BaseOf(b) + DepthAt(b, i) /\ Len(w[i]) > 0
         /\ DepthAt(b, i) \in Nat /\ BaseOf(b) \in {1, 2}
         /\ i <= Len(b.code) =>
              /\ Passes(w[i], b.code[i])
              /\ w[NextOf(b, i)] = Stepped(w[i], b.code[i])
<1>1. DepthAt(b, i) \in Nat /\ BaseOf(b) \in {1, 2} /\ Len(b.code) \in Nat
  BY FormedFacts DEF WalkOf
<1>2. WalkTyped(b, w, Len(b.code) + 1) /\ WalkSteps(b, w, Len(b.code) + 1)
  BY DEF WalkOf, Walked
<1>3. w[i] \in Chains /\ Len(w[i]) = BaseOf(b) + DepthAt(b, i)
  BY <1>2 DEF WalkTyped
<1>4. i <= Len(b.code) => i \in 1 .. (Len(b.code) + 1) - 1
  BY <1>1
<1> QED BY <1>1, <1>2, <1>3, <1>4 DEF WalkSteps

\* A move, and the walk takes note of it.
LEMMA CoversMove ==
  ASSUME NEW b, NEW w, WalkOf(b, w), NEW i \in 1 .. Len(b.code), OpenAt(b, i),
         NEW fs, Scoped(b, i, fs), b.code[i].op \in MovesOut, b.code[i].of \in Names,
         NEW N \in SUBSET Names, Covers(fs, w[i], BaseOf(b), N),
         NEW S \in SUBSET Names,
         b.code[i].of \in N /\ Run!Lookup(fs, b.code[i].of) = "owned" => b.code[i].of \in S
  PROVE  /\ Covers(Run!MovedOut(fs, b.code[i].of), Regions!MarkMoved(w[i], S), BaseOf(b), N)
         /\ Regions!MarkMoved(w[i], S) \in Chains /\ Len(Regions!MarkMoved(w[i], S)) = Len(w[i])
<1> DEFINE x == b.code[i].of
           d == DepthAt(b, i)
           base == BaseOf(b)
           es == w[i]
           new == Regions!MarkMoved(es, S)
<1>0. i \in 1 .. Len(b.code) + 1 /\ IsBody(b)
  BY FormedFacts DEF WalkOf, Scoped
<1>1. d \in Nat /\ base \in {1, 2} /\ es \in Chains /\ Len(es) = base + d /\ Len(es) > 0
  BY <1>0, WalkFacts
<1>2. fs \in Stacks /\ Len(fs) = 2 + d /\ Run!Lookup(fs, x) = Holds(fs, 2 + d, x)
  BY <1>0, ScopedFacts
<1>3. \A m \in Nat : m < d /\ Holds(fs, 2 + m, x) # "unbound" => \A j \in m + 1 .. d : Branch(es[base + j])
  BY <1>0, CrossesBranches
<1>4. Covers(fs, es, base, N) /\ x \in Names /\ (x \in N /\ Run!Lookup(fs, x) = "owned" => x \in S)
  OBVIOUS
<1> HIDE DEF x, d, base, es
<1>5. /\ new \in Chains /\ Len(new) = Len(es)
      /\ Grown(es, new, Len(es))
      /\ \A y \in S : Known(es, Len(es), y).region # "none" => Known(new, Len(es), y).moved
      /\ Branch(es[Len(es)]) => S \subseteq new[Len(es)].moved
  BY <1>1, KnownMarked
<1> HIDE DEF new
<1>6. Grown(es, new, base + d)
  BY <1>1, <1>5
<1>7. ASSUME x \in N, Run!Lookup(fs, x) = "owned"
      PROVE  /\ Known(new, base + d, x).moved
             /\ \A m \in 0 .. d - 1 : Holds(fs, 2 + m, x) # "unbound" =>
                  x \in new[base + d].moved /\ \A j \in m + 1 .. d : Branch(new[base + j])
  <2>1. d \in 0 .. Len(fs) - 2
    BY <1>1, <1>2
  <2>2. Known(es, base + d, x).region = "owned"
    BY <1>2, <1>4, <1>7, <2>1 DEF Covers, RegionOf
  <2>3. Known(new, base + d, x).moved
    BY <1>1, <1>4, <1>5, <1>7, <2>2
  <2>4. ASSUME NEW m \in 0 .. d - 1, Holds(fs, 2 + m, x) # "unbound"
        PROVE  x \in new[base + d].moved /\ \A j \in m + 1 .. d : Branch(new[base + j])
    <3>1. m \in Nat /\ m < d /\ d \in m + 1 .. d
      BY <1>1
    <3>2. \A j \in m + 1 .. d : Branch(es[base + j])
      BY <1>3, <2>4, <3>1
    <3>3. \A j \in m + 1 .. d : base + j \in 1 .. base + d
      BY <1>1
    <3>4. \A j \in m + 1 .. d : Branch(new[base + j])
      BY <1>6, <3>2, <3>3 DEF Grown, Branch
    <3>5. x \in new[base + d].moved
      BY <1>1, <1>4, <1>5, <1>7, <3>1, <3>2
    <3> QED BY <3>4, <3>5
  <2> QED BY <2>3, <2>4
<1>8. Covers(Run!MovedOut(fs, x), new, base, N)
  BY <1>1, <1>2, <1>4, <1>6, <1>7, CoversMoved
<1> QED BY <1>5, <1>8 DEF new, x, base, es

\* What is not an opening and closes nothing is followed by its own scope.
LEMMA NextFramed ==
  ASSUME NEW b, NEW w, WalkOf(b, w), NEW i \in 1 .. Len(b.code), b.code[i].op \in Statements,
         NEW gs
  PROVE  /\ i + 1 \in 1 .. Len(b.code) + 1
         /\ DepthAt(b, i + 1) = DepthAt(b, i)
         /\ OpenAt(b, i + 1) <=> OpenAt(b, i)
         /\ OpenAt(b, i) => w[i + 1] = Stepped(w[i], b.code[i]) /\ Passes(w[i], b.code[i])
         /\ Stored(b, w, i, gs) => Stored(b, w, i + 1, gs)
         /\ Isolated(b, i, gs) => Isolated(b, i + 1, gs)
         /\ \A x \in Names, m \in 0 .. DepthAt(b, i) :
              BoundTo(b, x, i + 1, m) <=>
                BoundTo(b, x, i, m) \/ (b.code[i].to = x /\ m = DepthAt(b, i))
<1>0. IsBody(b) /\ b \in BodyType /\ b.code \in Seq(Token) /\ Balanced(b.code) /\ Len(b.code) \in Nat
      /\ i \in 1 .. Len(b.code) + 1 /\ DepthAt(b, i) \in Nat /\ Depth(b.code, i + 1) = DepthAt(b, i)
  <2>1. i \in 1 .. Len(b.code) + 1
    BY FormedFacts DEF WalkOf
  <2> QED BY <2>1, FormedFacts DEF WalkOf, IsBody, DepthAt
<1>1. b.code[i].op \notin Openings /\ b.code[i].op # "end" /\ ~ Closes(b.code[i]) /\ b.code[i].op # "unsafe"
  BY DEF Statements, Openings, Closes, Middles
<1>2. \A X \in SUBSET Openings : Inside(b.code, i + 1, X) = Inside(b.code, i, X)
  BY <1>0, <1>1, InsideNext
<1>3. {"unsafe"} \in SUBSET Openings /\ {"loop", "unsafe"} \in SUBSET Openings
  BY DEF Openings
<1>4. OpenAt(b, i) => w[i + 1] = Stepped(w[i], b.code[i]) /\ Passes(w[i], b.code[i])
  <2>1. NextOf(b, i) = i + 1 /\ i <= Len(b.code)
    BY <1>0, <1>1 DEF NextOf
  <2> QED BY <1>0, <2>1, WalkFacts
<1>5. ASSUME NEW x \in Names, NEW m \in 0 .. DepthAt(b, i)
      PROVE  BoundTo(b, x, i + 1, m) <=>
               BoundTo(b, x, i, m) \/ (b.code[i].to = x /\ m = DepthAt(b, i))
  <2>1. m \in Nat /\ (Depth(b.code, i + 1) <= m <=> m = DepthAt(b, i))
    BY <1>0
  <2>2. BoundTo(b, x, i + 1, m) <=>
          BoundTo(b, x, i, m) \/ (b.code[i].to = x /\ Depth(b.code, i + 1) <= m)
    BY <1>0, <1>1, <2>1, BoundToNext
  <2> QED BY <2>1, <2>2
<1>6. i + 1 \in 1 .. Len(b.code) + 1
  BY <1>0
<1>7. Inside(b.code, i + 1, {"unsafe"}) = Inside(b.code, i, {"unsafe"})
      /\ Inside(b.code, i + 1, {"loop", "unsafe"}) = Inside(b.code, i, {"loop", "unsafe"})
  BY <1>2, <1>3
<1>8. OpenAt(b, i + 1) <=> OpenAt(b, i)
  BY <1>7 DEF OpenAt
<1>9. Stored(b, w, i, gs) => Stored(b, w, i + 1, gs)
  BY <1>7 DEF Stored
<1>10. Isolated(b, i, gs) => Isolated(b, i + 1, gs)
  BY <1>7 DEF Isolated
<1>11. DepthAt(b, i + 1) = DepthAt(b, i)
  BY <1>0 DEF DepthAt
<1> QED BY <1>4, <1>5, <1>6, <1>8, <1>9, <1>10, <1>11

LEMMA CoversFewer ==
  ASSUME NEW fs, NEW es, NEW base, NEW N, NEW M \in SUBSET N, Covers(fs, es, base, N)
  PROVE  Covers(fs, es, base, M)
BY DEF Covers

LEMMA SomeChain ==
  ASSUME NEW n \in Nat
  PROVE  \E es \in Chains : Len(es) = n
<1> DEFINE es == [i \in 1 .. n |-> Regions!EnvOf("block", "none")]
<1>1. Regions!EnvOf("block", "none") \in Regions!Env
  BY NewEnvs DEF Region
<1>2. es \in Chains /\ Len(es) = n
  BY <1>1 DEF Chains
<1> QED BY <1>2

\* A statement in the execution and in the walk.
LEMMA StatementFollows ==
  ASSUME NEW b, NEW w, WalkOf(b, w), NEW i \in 1 .. Len(b.code), NEW fs, Follows(b, w, i, fs),
         b.code[i].op \in Statements \ {"return", "break", "continue"}
  PROVE  Follows(b, w, i + 1, Ran(fs, b.code[i]))
<1> DEFINE t == b.code[i]
           d == DepthAt(b, i)
           base == BaseOf(b)
           es == w[i]
           N == Shown(b, i)
           M == Shown(b, i + 1)
<1>0. /\ IsBody(b) /\ Tame(b) /\ Framed(b, w, i, fs) /\ Scoped(b, i, fs)
      /\ (OpenAt(b, i) => Covers(fs, es, base, N))
      /\ i \in 1 .. Len(b.code) + 1 /\ t.op \in Statements
  BY DEF WalkOf, Framed, Follows, Scoped
<1>1. d \in Nat /\ fs \in Stacks /\ Len(fs) = 2 + d /\ Len(fs) > 0
      /\ \A y \in Names : Run!Lookup(fs, y) = Holds(fs, 2 + d, y)
  BY <1>0, ScopedFacts
<1>2. N \in SUBSET Names /\ M \in SUBSET N
  BY <1>0, TameFacts
<1>3. /\ t.op \in {"fresh", "copy"} => t.to \in Names
      /\ t.op \notin {"fresh", "copy"} => \A y \in Names : t.to # y
      /\ t.op \in {"copy", "give", "store", "capture"} => t.of \in Names
      /\ t.op \in {"copy", "give", "store", "capture"} => t.op \in MovesOut
      /\ t.op # "module_give"
      /\ t.op # "capture" => M = N
      /\ t.op = "capture" => t.of \notin M
  <2>1. t.op \notin {"match", "arm"}
    BY <1>0 DEF Statements
  <2> QED BY <1>0, <2>1, FormedFacts, TameFacts DEF MovesOut
<1>4. \A gs : /\ i + 1 \in 1 .. Len(b.code) + 1
              /\ DepthAt(b, i + 1) = d
              /\ OpenAt(b, i + 1) <=> OpenAt(b, i)
              /\ OpenAt(b, i) => w[i + 1] = Stepped(es, t) /\ Passes(es, t)
              /\ Stored(b, w, i, gs) => Stored(b, w, i + 1, gs)
              /\ Isolated(b, i, gs) => Isolated(b, i + 1, gs)
              /\ \A x \in Names, m \in 0 .. d :
                   BoundTo(b, x, i + 1, m) <=> BoundTo(b, x, i, m) \/ (t.to = x /\ m = d)
  BY <1>0, NextFramed
<1>5. OpenAt(b, i) => es \in Chains /\ Len(es) = base + d /\ Len(es) > 0 /\ base \in {1, 2}
  BY <1>0, WalkFacts
\* what does not bind
<1>6. ASSUME NEW gs, Framed(b, w, i, gs), t.op \notin {"fresh", "copy"}
      PROVE  Framed(b, w, i + 1, gs)
  <2>1. Scoped(b, i, gs) /\ Lent(b, gs) /\ Stored(b, w, i + 1, gs) /\ Isolated(b, i + 1, gs)
    BY <1>4, <1>6 DEF Framed
  <2>2. Scoped(b, i + 1, gs)
    BY <1>3, <1>4, <1>6, <2>1 DEF Scoped
  <2> QED BY <2>1, <2>2 DEF Framed
<1>7. ASSUME NEW gs, Framed(b, w, i, gs), t.op \in {"fresh", "copy"},
             NEW as \in Chains, Len(as) = base + d, OpenAt(b, i) => Covers(gs, as, base, N),
             OpenAt(b, i) => w[i + 1] = Regions!Define(as, t.to, Regions!Binding("owned"))
      PROVE  Follows(b, w, i + 1, Run!Assign(gs, t.to, "owned"))
  <2> DEFINE hs == Run!Assign(gs, t.to, "owned")
  <2>1. Scoped(b, i, gs)
    BY <1>7 DEF Framed
  <2>2. gs \in Stacks /\ Len(gs) = 2 + d
    BY <1>0, <2>1, ScopedFacts
  <2>3. /\ hs \in Stacks /\ Len(hs) = Len(gs)
        /\ \A m \in 0 .. d, y \in Names :
             Holds(hs, 2 + m, y) # "unbound" <=> Holds(gs, 2 + m, y) # "unbound" \/ (y = t.to /\ m = d)
        /\ Lent(b, hs) /\ Stored(b, w, i, hs) /\ Isolated(b, i, hs)
        /\ \A n \in 1 .. Len(gs) : Holds(gs, n, t.to) # "borrowed"
    BY <1>7, BoundFramed
  <2>4. OpenAt(b, i) => Covers(hs, w[i + 1], base, N)
    <3> SUFFICES ASSUME OpenAt(b, i) PROVE Covers(hs, w[i + 1], base, N)
      OBVIOUS
    <3>1. Covers(hs, Regions!Define(as, t.to, Regions!Binding("owned")), base, N)
      <4> HIDE DEF t, d, base, N, es, hs
      <4>1. t.to \in Names /\ Len(gs) = 2 + d /\ d \in Nat /\ base \in {1, 2} /\ N \in SUBSET Names
        BY <1>1, <1>2, <1>3, <1>5, <1>7, <2>2
      <4> QED BY <1>7, <2>2, <2>3, <4>1, CoversBound DEF hs
    <3> QED BY <1>7, <3>1
  <2> HIDE DEF hs, d
  <2>5. \A m \in 0 .. d, y \in Names : Holds(gs, 2 + m, y) # "unbound" <=> BoundTo(b, y, i, m)
    BY <2>1 DEF Scoped, d
  <2>6. Scoped(b, i + 1, hs)
    BY <1>4, <2>2, <2>3, <2>5 DEF Scoped
  <2>7. Framed(b, w, i + 1, hs)
    BY <1>4, <2>3, <2>6 DEF Framed
  <2>8. M = N
    BY <1>3, <1>7
  <2> QED BY <1>4, <2>4, <2>7, <2>8 DEF Follows, hs
<1>8. ASSUME t.op \in {"copy", "give", "store"}
      PROVE  /\ Framed(b, w, i, Run!MovedOut(fs, t.of))
             /\ OpenAt(b, i) =>
                  LET marked == Regions!MarkMoved(es, {t.of})
                  IN  /\ marked \in Chains /\ Len(marked) = base + d
                      /\ Covers(Run!MovedOut(fs, t.of), marked, base, N)
  <2>1. Framed(b, w, i, Run!MovedOut(fs, t.of))
    BY <1>0, <1>3, <1>8, MovedFramed
  <2>2. {t.of} \in SUBSET Names /\ t.of \in {t.of} /\ t.of \in Names /\ t.op \in MovesOut
    BY <1>3, <1>8
  <2>3. OpenAt(b, i) =>
          /\ Covers(Run!MovedOut(fs, t.of), Regions!MarkMoved(es, {t.of}), base, N)
          /\ Regions!MarkMoved(es, {t.of}) \in Chains /\ Len(Regions!MarkMoved(es, {t.of})) = Len(es)
    <3> SUFFICES ASSUME OpenAt(b, i)
                 PROVE  /\ Covers(Run!MovedOut(fs, t.of), Regions!MarkMoved(es, {t.of}), base, N)
                        /\ Regions!MarkMoved(es, {t.of}) \in Chains
                        /\ Len(Regions!MarkMoved(es, {t.of})) = Len(es)
      OBVIOUS
    <3> DEFINE S == {t.of}
    <3>1. S \in SUBSET Names /\ t.of \in S /\ t.of \in Names /\ t.op \in MovesOut /\ N \in SUBSET Names
          /\ Covers(fs, es, base, N)
      BY <1>0, <1>2, <2>2
    <3> HIDE DEF S, N
    <3>2. /\ WalkOf(b, w) /\ i \in 1 .. Len(b.code) /\ OpenAt(b, i) /\ Scoped(b, i, fs)
          /\ b.code[i].op \in MovesOut /\ b.code[i].of \in Names
          /\ Covers(fs, w[i], BaseOf(b), N) /\ b.code[i].of \in S
      BY <1>0, <3>1
    <3>3. /\ Covers(Run!MovedOut(fs, t.of), Regions!MarkMoved(es, S), base, N)
          /\ Regions!MarkMoved(es, S) \in Chains /\ Len(Regions!MarkMoved(es, S)) = Len(es)
      BY ONLY <3>1, <3>2, CoversMove
    <3> QED BY <3>3 DEF S
  <2> QED BY <1>5, <2>1, <2>3
<1>9. CASE t.op \in {"read", "give_field", "yield"}
  <2>1. Ran(fs, t) = fs
    BY <1>9 DEF Ran
  <2>2. Stepped(es, t) = es
    BY <1>9, SteppedCases
  <2>3. Framed(b, w, i + 1, fs) /\ M = N
    BY <1>0, <1>3, <1>6, <1>9
  <2> QED BY <1>0, <1>4, <2>1, <2>2, <2>3 DEF Follows
<1>10. CASE t.op \in {"give", "store"}
  <2>1. Ran(fs, t) = Run!MovedOut(fs, t.of)
    BY <1>10 DEF Ran
  <2>2. Stepped(es, t) = Regions!MarkMoved(es, {t.of})
    BY <1>10, SteppedCases
  <2>3. Framed(b, w, i + 1, Run!MovedOut(fs, t.of)) /\ M = N
    BY <1>3, <1>6, <1>8, <1>10
  <2> QED BY <1>4, <1>8, <1>10, <2>1, <2>2, <2>3 DEF Follows
<1>11. CASE t.op = "capture"
  <2>1. Ran(fs, t) = Run!MovedOut(fs, t.of)
    BY <1>11 DEF Ran
  <2>2. Stepped(es, t) = es
    BY <1>11, SteppedCases
  <2>3. Framed(b, w, i + 1, Run!MovedOut(fs, t.of))
    BY <1>0, <1>3, <1>6, <1>11, MovedFramed
  <2>4. OpenAt(b, i) => Covers(Run!MovedOut(fs, t.of), es, base, M)
    <3> SUFFICES ASSUME OpenAt(b, i) PROVE Covers(Run!MovedOut(fs, t.of), es, base, M)
      OBVIOUS
    <3>1. Covers(fs, es, base, M)
      BY <1>0, <1>2, CoversFewer
    <3>2. Grown(es, es, base + d)
      <4>1. base + d \in 0 .. Len(es) /\ base + d <= Len(es)
        BY <1>1, <1>5
      <4> QED BY <1>5, <4>1, GrownSame
    <3>3. t.of \in Names /\ t.of \notin M /\ M \in SUBSET Names /\ base \in {1, 2}
      BY <1>2, <1>3, <1>5, <1>11
    <3> HIDE DEF t, d, base, N, M, es
    <3> QED BY <1>1, <3>1, <3>2, <3>3, CoversMoved
  <2> QED BY <1>4, <2>1, <2>2, <2>3, <2>4 DEF Follows
<1>12. CASE t.op = "fresh"
  <2>1. Ran(fs, t) = Run!Assign(fs, t.to, "owned")
    BY <1>12 DEF Ran
  <2>2. Stepped(es, t) = Regions!Define(es, t.to, Regions!Binding("owned"))
    BY <1>12, SteppedCases
  <2>3. CASE OpenAt(b, i)
    BY <1>0, <1>4, <1>5, <1>7, <1>12, <2>1, <2>2, <2>3
  <2>4. CASE ~ OpenAt(b, i)
    <3>1. \E as \in Chains : Len(as) = base + d
      <4>1. base \in {1, 2}
        BY <1>0, FormedFacts
      <4>2. base + d \in Nat
        BY <1>1, <4>1
      <4> HIDE DEF base, d
      <4> QED BY <4>2, SomeChain
    <3> QED BY <1>0, <1>7, <1>12, <2>1, <2>4, <3>1
  <2> QED BY <2>3, <2>4
<1>13. CASE t.op = "copy"
  <2> DEFINE marked == Regions!MarkMoved(es, {t.of})
             moved == Run!MovedOut(fs, t.of)
  <2>1. Ran(fs, t) = Run!Assign(moved, t.to, "owned")
    BY <1>13 DEF Ran
  <2>2. Stepped(es, t) = Regions!Define(marked, t.to, Regions!Binding("owned"))
    BY <1>13, SteppedCases
  <2>3. /\ Framed(b, w, i, moved)
        /\ OpenAt(b, i) => marked \in Chains /\ Len(marked) = base + d /\ Covers(moved, marked, base, N)
    BY <1>8, <1>13
  <2> HIDE DEF marked, moved
  <2>4. CASE OpenAt(b, i)
    BY <1>4, <1>7, <1>13, <2>1, <2>2, <2>3, <2>4
  <2>5. CASE ~ OpenAt(b, i)
    <3>1. \E as \in Chains : Len(as) = base + d
      <4>1. base \in {1, 2}
        BY <1>0, FormedFacts
      <4>2. base + d \in Nat
        BY <1>1, <4>1
      <4> HIDE DEF base, d
      <4> QED BY <4>2, SomeChain
    <3> QED BY <1>7, <1>13, <2>1, <2>3, <2>5, <3>1
  <2> QED BY <2>4, <2>5
<1> QED BY <1>0, <1>3, <1>9, <1>10, <1>11, <1>12, <1>13 DEF Statements
-----------------------------------------------------------------------------
(***************************************************************************)
(* Into a branch: the walk opens an environment, the execution a frame.    *)
(***************************************************************************)
\* The region of what a match or an arm binds, and what a match moves.
BoundRegion(es, token) ==
  IF token.op = "match" THEN Regions!Get(es, token.of).region ELSE Regions!Top(es).scrutinee
TakenApart(es, token) ==
  IF Regions!Get(es, token.of).region = "owned" THEN {token.of} ELSE {}
\* What the innermost environment of a branch knows, that the one around does not.
IntoKnown(new, token, r) ==
  \A x \in Names :
    Known(new, Len(new), x) = IF token.op \in {"match", "arm"} /\ token.to = x /\ r # "none"
                              THEN Regions!Binding(r) ELSE Known(new, Len(new) - 1, x)

\* What an opening, an else and an arm add to the chain.
LEMMA SteppedInto ==
  ASSUME NEW b, IsBody(b), NEW k \in 1 .. Len(b.code),
         b.code[k].op \in (Openings \ {"unsafe"}) \cup Middles,
         NEW es \in Chains, Len(es) > (IF b.code[k].op \in Middles THEN 1 ELSE 0)
  PROVE  LET new == Stepped(es, b.code[k])
         IN  /\ IntoKnown(new, b.code[k], BoundRegion(es, b.code[k]))
             /\ b.code[k].op \notin Middles => Len(new) - 1 = Len(es)
             /\ b.code[k].op = "match" =>
                  /\ TakenApart(es, b.code[k]) \in SUBSET Names
                  /\ Grown(Regions!MarkMoved(es, TakenApart(es, b.code[k])), new, Len(es))
<1> DEFINE token == b.code[k]
           new == Stepped(es, token)
           r == IF token.op = "match" THEN Regions!Get(es, token.of).region ELSE Regions!Top(es).scrutinee
           S == IF Regions!Get(es, token.of).region = "owned" THEN {token.of} ELSE {}
           n == Len(new) - 1
<1>1. Len(es) \in Nat /\ Len(es) > 0
  OBVIOUS
<1> SUFFICES /\ \A x \in Names :
                  Known(new, n + 1, x) = IF token.op \in {"match", "arm"} /\ token.to = x /\ r # "none"
                                         THEN Regions!Binding(r) ELSE Known(new, n, x)
             /\ token.op \notin Middles => n = Len(es)
             /\ token.op = "match" => S \in SUBSET Names /\ Grown(Regions!MarkMoved(es, S), new, Len(es))
  <2>1. Len(new) \in Nat
    <3>1. token.op \in Openings \ {"unsafe"} => Len(new) = Len(es) + 1
      BY <1>1, SteppedOpening
    <3>2. token.op \in Middles => Len(new) = Len(es)
      BY <1>1, SteppedMiddle
    <3> QED BY <1>1, <3>1, <3>2
  <2>2. r = BoundRegion(es, token) /\ S = TakenApart(es, token)
    BY DEF BoundRegion, TakenApart
  <2> HIDE DEF new, S, r, token
  <2>3. n + 1 = Len(new) /\ n = Len(new) - 1
    BY <2>1
  <2> QED BY <2>2, <2>3 DEF IntoKnown, new, token
<1>a. ASSUME NEW base \in Chains, NEW env \in Regions!Env, new = Append(base, env)
      PROVE  /\ n = Len(base)
             /\ Grown(base, new, Len(base))
             /\ \A x \in Names : Known(new, n + 1, x) =
                  IF env.binds[x].region # "none" THEN env.binds[x] ELSE Known(new, n, x)
  <2> HIDE DEF new
  <2>1. Len(base) \in Nat /\ n = Len(base) /\ n \in 0 .. Len(base) /\ n + 1 = Len(base) + 1
    <3>1. Len(new) = Len(base) + 1
      BY <1>a, KnownAppended
    <3>2. Len(base) \in Nat
      OBVIOUS
    <3> QED BY <3>1, <3>2
  <2>2. /\ Grown(base, new, Len(base))
        /\ \A i \in 0 .. Len(base), y \in Names : Known(new, i, y) = Known(base, i, y)
        /\ \A y \in Names : Known(new, Len(base) + 1, y) =
             IF env.binds[y].region # "none" THEN env.binds[y] ELSE Known(base, Len(base), y)
    BY <1>a, KnownAppended
  <2> HIDE DEF n
  <2>3. \A x \in Names : Known(new, n, x) = Known(base, n, x)
    BY <2>1, <2>2
  <2> QED BY <2>1, <2>2, <2>3
<1>2. CASE token.op \in {"if", "loop", "block"}
  <2>1. new = Append(es, Regions!EnvOf(token.op, "none"))
    BY <1>2, SteppedCases
  <2>2. /\ Regions!EnvOf(token.op, "none") \in Regions!Env
        /\ \A x \in Names : Regions!EnvOf(token.op, "none").binds[x].region = "none"
    BY <1>2, NewEnvs DEF Region, Regions!Unbound
  <2>3. token.op \notin {"match", "arm"} /\ token.op \notin Middles
    BY <1>2 DEF Middles
  <2> HIDE DEF new, r, S, token
  <2> QED BY <1>a, <2>1, <2>2, <2>3 DEF new, r, S, token, n
<1>3. CASE token.op = "match"
  <2>0. S \in SUBSET Names
    BY <1>3, FormedFacts
  <2>1. new = Append(Regions!MarkMoved(es, S), Regions!ArmEnv(r, token.to))
    BY <1>3, SteppedCases
  <2>2. token.of \in Names
    BY <1>3, FormedFacts
  <2>3. r \in Region
    <3>1. Regions!Get(es, token.of) \in Regions!Info
      BY <1>1, <2>2, InfoType
    <3> QED BY <1>3, <3>1 DEF Regions!Info, Region, Regions!Region
  <2>4. /\ Regions!ArmEnv(r, token.to) \in Regions!Env
        /\ \A x \in Names : Regions!ArmEnv(r, token.to).binds[x] =
                              IF x = token.to THEN Regions!Binding(r) ELSE Regions!Unbound
    BY <2>3, NewEnvs
  <2>5. Regions!Binding(r).region = r /\ Regions!Unbound.region = "none"
    BY DEF Regions!Binding, Regions!Unbound
  <2>6. Regions!MarkMoved(es, S) \in Chains /\ Len(Regions!MarkMoved(es, S)) = Len(es)
    BY <1>1, <2>0, KnownMarked
  <2>7. token.op \notin Middles
    BY <1>3 DEF Middles
  <2> HIDE DEF new, r, S
  <2>8. /\ n = Len(es) /\ Grown(Regions!MarkMoved(es, S), new, Len(es))
        /\ \A x \in Names : Known(new, n + 1, x) =
             IF Regions!ArmEnv(r, token.to).binds[x].region # "none"
             THEN Regions!ArmEnv(r, token.to).binds[x] ELSE Known(new, n, x)
    BY <1>a, <2>1, <2>4, <2>6 DEF new
  <2>9. \A x \in Names :
          Known(new, n + 1, x) = IF token.op \in {"match", "arm"} /\ token.to = x /\ r # "none"
                                 THEN Regions!Binding(r) ELSE Known(new, n, x)
    <3> HIDE DEF n
    <3> QED BY <1>3, <2>4, <2>5, <2>8
  <2> QED BY <2>0, <2>7, <2>8, <2>9 DEF new, r, S
<1>4. CASE token.op = "else"
  <2> DEFINE env == [Regions!EnvOf("if", "none") EXCEPT !.earlier = Regions!Top(es).moved]
  <2>1. new = Append(Regions!Outer(es), env)
    BY <1>4, SteppedCases
  <2>2. Regions!Outer(es) \in Chains /\ Regions!Top(es).moved \in SUBSET Names
    BY <1>1, WithoutTop
  <2>a. env \in Regions!Env /\ \A x \in Names : env.binds[x] = Regions!Unbound
    BY <2>2, NewEnvs, Zenon
  <2> HIDE DEF env
  <2>3. env \in Regions!Env /\ \A x \in Names : env.binds[x].region = "none"
    BY <2>a DEF Regions!Unbound
  <2>4. token.op \notin {"match", "arm"} /\ token.op \in Middles
    BY <1>4 DEF Middles
  <2> HIDE DEF new, r, S, token, env
  <2> QED BY <1>a, <2>1, <2>2, <2>3, <2>4 DEF new, r, S, token, n
<1>5. CASE token.op = "arm"
  <2>1. new = Append(Regions!Merge(Regions!Outer(es), Regions!Top(es).moved), Regions!ArmEnv(r, token.to))
    BY <1>5, SteppedCases
  <2>2. /\ Regions!Outer(es) \in Chains /\ Regions!Top(es).moved \in SUBSET Names
        /\ Len(Regions!Outer(es)) = Len(es) - 1 /\ Regions!Top(es).scrutinee \in Region
    BY <1>1, WithoutTop DEF Region, Regions!Region
  <2>3. r \in Region
    BY <1>5, <2>2
  <2>4. Len(Regions!Outer(es)) > 0
    BY <1>1, <1>5, <2>2 DEF Middles
  <2>5. Regions!Merge(Regions!Outer(es), Regions!Top(es).moved) \in Chains
    BY <2>2, <2>4, KnownMerged
  <2>6. /\ Regions!ArmEnv(r, token.to) \in Regions!Env
        /\ \A x \in Names : Regions!ArmEnv(r, token.to).binds[x] =
                              IF x = token.to THEN Regions!Binding(r) ELSE Regions!Unbound
    BY <2>3, NewEnvs
  <2>7. Regions!Binding(r).region = r /\ Regions!Unbound.region = "none"
    BY DEF Regions!Binding, Regions!Unbound
  <2>8. token.op \in Middles /\ token.op # "match"
    BY <1>5 DEF Middles
  <2> HIDE DEF new, r, S
  <2>9. \A x \in Names : Known(new, n + 1, x) =
          IF Regions!ArmEnv(r, token.to).binds[x].region # "none"
          THEN Regions!ArmEnv(r, token.to).binds[x] ELSE Known(new, n, x)
    BY <1>a, <2>1, <2>5, <2>6 DEF new
  <2>10. \A x \in Names :
          Known(new, n + 1, x) = IF token.op \in {"match", "arm"} /\ token.to = x /\ r # "none"
                                 THEN Regions!Binding(r) ELSE Known(new, n, x)
    <3> HIDE DEF n
    <3> QED BY <1>5, <2>6, <2>7, <2>9
  <2> QED BY <2>8, <2>10 DEF new, r, S
<1> QED BY <1>2, <1>3, <1>4, <1>5 DEF Openings, Middles

\* A frame is pushed, and an environment that knows what it binds.
LEMMA CoversEntered ==
  ASSUME NEW gs \in Stacks, NEW d \in Nat, Len(gs) = 2 + d, NEW base \in {1, 2},
         NEW es, NEW new, Grown(es, new, base + d), NEW N \in SUBSET Names, Covers(gs, es, base, N),
         NEW frame \in Run!Frame,
         \A x \in N : IF frame[x] = "unbound"
                      THEN Known(new, base + d + 1, x) = Known(new, base + d, x)
                      ELSE /\ frame[x] # "moved"
                           /\ Known(new, base + d + 1, x).region = RegionOf(frame[x])
  PROVE  Covers(Append(gs, frame), new, base, N)
<1> DEFINE hs == Append(gs, frame)
<1>1. Covers(gs, new, base, N)
  BY CoversGrown
<1>2. /\ hs \in Stacks /\ Len(hs) = 3 + d
      /\ \A n \in 0 .. Len(gs), y \in Names : Holds(hs, n, y) = Holds(gs, n, y)
      /\ \A y \in Names : Holds(hs, Len(gs) + 1, y) =
                            IF frame[y] # "unbound" THEN frame[y] ELSE Run!Lookup(gs, y)
  BY Pushed
<1>3. \A y \in Names : Run!Lookup(gs, y) = Holds(gs, 2 + d, y)
  BY HoldsStep
<1> HIDE DEF hs
<1>4. Len(gs) - 2 = d /\ Len(hs) - 2 = d + 1 /\ d \in 0 .. d
  BY <1>2
<1> SUFFICES ASSUME NEW m \in 0 .. d + 1, NEW x \in N
             PROVE  /\ Holds(hs, 2 + m, x) # "unbound" =>
                         Known(new, base + m, x).region = RegionOf(Holds(hs, 2 + m, x))
                    /\ Holds(hs, 2 + m, x) = "moved" =>
                         Known(new, base + m, x).moved \/ Pending(new, base, m, d + 1, x)
  BY <1>4 DEF Covers, hs
<1>5. x \in Names
  OBVIOUS
<1>6. ASSUME NEW k \in 0 .. d
      PROVE  /\ Holds(gs, 2 + k, x) # "unbound" =>
                  Known(new, base + k, x).region = RegionOf(Holds(gs, 2 + k, x))
             /\ Holds(gs, 2 + k, x) = "moved" => Known(new, base + k, x).moved \/ Pending(new, base, k, d, x)
  BY <1>1, <1>4 DEF Covers
<1>7. CASE m \in 0 .. d
  <2>1. Holds(hs, 2 + m, x) = Holds(gs, 2 + m, x)
    <3>1. 2 + m \in 0 .. Len(gs)
      BY <1>7
    <3> QED BY <1>2, <1>5, <3>1
  <2>2. Pending(new, base, m, d, x) => Pending(new, base, m, d + 1, x)
    <3>1. \A l \in m + 1 .. d : l \in m + 1 .. d + 1
      BY <1>7
    <3> QED BY <3>1 DEF Pending
  <2> QED BY <1>6, <1>7, <2>1, <2>2
<1>8. CASE m = d + 1
  <2>1. Holds(hs, 2 + m, x) = IF frame[x] # "unbound" THEN frame[x] ELSE Holds(gs, 2 + d, x)
    <3>1. 2 + m = Len(gs) + 1
      BY <1>8
    <3> QED BY <1>2, <1>3, <1>5, <3>1
  <2>2. ~ Pending(new, base, d, d, x)
    <3>1. d + 1 .. d = {}
      OBVIOUS
    <3> QED BY <3>1 DEF Pending
  <2>3. base + m = base + d + 1
    BY <1>8
  <2>4. /\ Holds(gs, 2 + d, x) # "unbound" =>
                  Known(new, base + d, x).region = RegionOf(Holds(gs, 2 + d, x))
        /\ Holds(gs, 2 + d, x) = "moved" => Known(new, base + d, x).moved
    BY <1>4, <1>6, <2>2
  <2>5. CASE frame[x] = "unbound"
    <3>1. Known(new, base + d + 1, x) = Known(new, base + d, x)
      BY <2>5
    <3> QED BY <2>1, <2>3, <2>4, <2>5, <3>1
  <2>6. CASE frame[x] # "unbound"
    <3>1. frame[x] # "moved" /\ Known(new, base + d + 1, x).region = RegionOf(frame[x])
      BY <2>6
    <3> QED BY <2>1, <2>3, <2>6, <3>1
  <2> QED BY <2>5, <2>6
<1>9. m \in 0 .. d \/ m = d + 1
  OBVIOUS
<1> QED BY <1>7, <1>8, <1>9

\* The chain at the start of a branch: what is around the construct has only
\* grown, and an arm knows what it binds.
LEMMA BranchChain ==
  ASSUME NEW b, NEW w, WalkOf(b, w), NEW o \in 1 .. Len(b.code),
         b.code[o].op \in Openings \ {"unsafe"}, OpenAt(b, o), NEW j \in BranchesOf(b.code, o)
  PROVE  LET r == Regions!Get(w[o], b.code[o].of).region
             S == IF r = "owned" THEN {b.code[o].of} ELSE {}
             n == BaseOf(b) + DepthAt(b, o)
         IN  /\ OpenAt(b, j)
             /\ b.code[o].op = "match" => S \in SUBSET Names
             /\ Grown(IF b.code[o].op = "match" THEN Regions!MarkMoved(w[o], S) ELSE w[o], w[j], n)
             /\ \A x \in Names :
                  Known(w[j], n + 1, x) = IF b.code[o].op = "match" /\ b.code[j - 1].to = x /\ r # "none"
                                          THEN Regions!Binding(r) ELSE Known(w[j], n, x)
<1> DEFINE r == Regions!Get(w[o], b.code[o].of).region
           S == IF r = "owned" THEN {b.code[o].of} ELSE {}
           n == BaseOf(b) + DepthAt(b, o)
           e == EndOf(b.code, o + 1)
           es == IF b.code[o].op = "match" THEN Regions!MarkMoved(w[o], S) ELSE w[o]
<1>0. /\ IsBody(b) /\ Walked(b, w, Len(b.code) + 1) /\ b.code \in Seq(Token) /\ Balanced(b.code)
      /\ Len(b.code) \in Nat /\ b.code[o].op \in Openings /\ o \in 1 .. Len(b.code) + 1
  BY FormedFacts DEF WalkOf, IsBody
<1>1. /\ w[o] \in Chains /\ Len(w[o]) = n /\ Len(w[o]) > 0 /\ n \in Nat
      /\ DepthAt(b, o) \in Nat /\ BaseOf(b) \in {1, 2} /\ o + 1 \in Nat
      /\ w[o + 1] = Stepped(w[o], b.code[o])
  BY <1>0, WalkFacts DEF NextOf
<1>2. /\ e \in o + 1 .. Len(b.code) /\ DepthAt(b, o + 1) = DepthAt(b, o) + 1
      /\ Deeper(b.code, o + 1, e, DepthAt(b, o))
  BY <1>0, ScopeOf DEF DepthAt
<1>3. /\ j \in o + 1 .. e /\ DepthAt(b, j) = DepthAt(b, o) + 1
      /\ \/ j = o + 1
         \/ /\ j - 1 \in o + 1 .. e /\ b.code[j - 1].op \in Middles
            /\ DepthAt(b, j - 1) = DepthAt(b, o) + 1
  BY <1>0, BranchStarts DEF DepthAt
<1>4. \A i \in o + 1 .. e : DepthAt(b, i) = DepthAt(b, o) + 1 => OpenAt(b, i)
  BY <1>0, OpenOf
<1>5. OpenAt(b, j) /\ OpenAt(b, o + 1)
  <2>1. o + 1 \in o + 1 .. e
    BY <1>2
  <2> QED BY <1>2, <1>3, <1>4, <2>1
<1>6. /\ Len(w[o + 1]) - 1 = n
      /\ b.code[o].op = "match" => S \in SUBSET Names /\ Grown(es, w[o + 1], n)
      /\ \A x \in Names :
           Known(w[o + 1], n + 1, x) = IF b.code[o].op = "match" /\ b.code[o].to = x /\ r # "none"
                                       THEN Regions!Binding(r) ELSE Known(w[o + 1], n, x)
  <2>1. b.code[o].op \notin Middles /\ b.code[o].op # "arm"
    BY <1>0 DEF Openings, Middles
  <2>2. b.code[o].op \in (Openings \ {"unsafe"}) \cup Middles
    OBVIOUS
  <2>3. Len(w[o]) > (IF b.code[o].op \in Middles THEN 1 ELSE 0)
    BY <1>1, <2>1
  <2>4. /\ IntoKnown(w[o + 1], b.code[o], BoundRegion(w[o], b.code[o]))
        /\ b.code[o].op \notin Middles => Len(w[o + 1]) - 1 = Len(w[o])
        /\ b.code[o].op = "match" =>
             /\ TakenApart(w[o], b.code[o]) \in SUBSET Names
             /\ Grown(Regions!MarkMoved(w[o], TakenApart(w[o], b.code[o])), w[o + 1], Len(w[o]))
    BY <1>0, <1>1, <2>2, <2>3, SteppedInto
  <2>a. S = TakenApart(w[o], b.code[o]) /\ (b.code[o].op = "match" => r = BoundRegion(w[o], b.code[o]))
    BY DEF TakenApart, BoundRegion
  <2> HIDE DEF r, S, n
  <2>5. Len(w[o + 1]) - 1 = n /\ Len(w[o + 1]) = n + 1
    <3>1. Len(w[o + 1]) = Len(w[o]) + 1
      BY <1>0, <1>1, SteppedOpening
    <3> QED BY <1>1, <3>1
  <2>6. b.code[o].op = "match" => es = Regions!MarkMoved(w[o], S)
    OBVIOUS
  <2> HIDE DEF es
  <2>7. \A x \in Names :
           Known(w[o + 1], n + 1, x) = IF b.code[o].op = "match" /\ b.code[o].to = x /\ r # "none"
                                       THEN Regions!Binding(r) ELSE Known(w[o + 1], n, x)
    BY <2>1, <2>4, <2>5, <2>a DEF IntoKnown
  <2> QED BY <1>1, <2>4, <2>5, <2>6, <2>7, <2>a
<1>7. Grown(es, w[o + 1], n)
  <2>1. CASE b.code[o].op = "match"
    BY <1>6, <2>1
  <2>2. CASE b.code[o].op # "match"
    <3>1. Grown(w[o], w[o + 1], Len(w[o]))
      BY <1>0, <1>1, SteppedOpening
    <3> QED BY <1>1, <2>2, <3>1
  <2> QED BY <2>1, <2>2
<1>8. CASE j = o + 1
  <2>1. j - 1 = o
    BY <1>8
  <2> HIDE DEF n, es, r, S
  <2> QED BY <1>5, <1>6, <1>7, <1>8, <2>1 DEF n, es, r, S
<1>9. CASE j # o + 1
  <2> DEFINE k == j - 1
  <2>1. /\ k \in o + 1 .. e /\ b.code[k].op \in Middles /\ DepthAt(b, k) = DepthAt(b, o) + 1
        /\ k \in 1 .. Len(b.code) /\ k \in 1 .. Len(b.code) + 1 /\ k + 1 = j /\ o \in 1 .. k - 1
        /\ o + 1 \in 1 .. k
    <3>1. k \in o + 1 .. e /\ b.code[k].op \in Middles /\ DepthAt(b, k) = DepthAt(b, o) + 1
      BY <1>3, <1>9
    <3>2. j \in Nat /\ e <= Len(b.code) /\ o >= 1
      BY <1>2, <1>3
    <3>3. k \in Nat /\ k >= o + 1 /\ k <= e
      BY <3>1, <3>2
    <3> HIDE DEF k
    <3>4. k + 1 = j
      BY <3>2 DEF k
    <3>5. Len(b.code) \in Nat /\ o \in Nat /\ e \in Int /\ o >= 1
      BY <1>0, <1>2
    <3>6. k \in 1 .. Len(b.code) /\ k \in 1 .. Len(b.code) + 1 /\ o \in 1 .. k - 1 /\ o + 1 \in 1 .. k
      BY ONLY <3>2, <3>3, <3>5
    <3> QED BY <3>1, <3>4, <3>6
  <2> HIDE DEF k
  <2>2. OpenAt(b, k)
    BY <1>4, <2>1
  <2>3. b.code[k].op # "unsafe" /\ b.code[k].op # "match"
    BY <2>1 DEF Middles
  <2>4. /\ w[k] \in Chains /\ Len(w[k]) = n + 1 /\ Len(w[k]) > 1
        /\ w[j] = Stepped(w[k], b.code[k])
    <3>1. /\ w[k] \in Chains /\ Len(w[k]) = BaseOf(b) + DepthAt(b, k)
          /\ w[NextOf(b, k)] = Stepped(w[k], b.code[k])
      BY <2>1, <2>2, WalkFacts
    <3>2. NextOf(b, k) = j
      BY <2>1, <2>3 DEF NextOf
    <3>3. Len(w[k]) = n + 1 /\ n + 1 > 1
      <4>1. n > 0
        BY ONLY <1>1
      <4>2. Len(w[k]) = BaseOf(b) + (DepthAt(b, o) + 1)
        BY ONLY <2>1, <3>1
      <4> QED BY ONLY <1>1, <4>1, <4>2
    <3> HIDE DEF n
    <3> QED BY ONLY <3>1, <3>2, <3>3
  <2>5. \A t \in o + 1 .. k : t \in o + 1 .. e
    <3>1. k \in Int /\ e \in Int /\ k <= e /\ o \in Int
      BY <1>0, <1>2, <2>1
    <3> QED BY ONLY <3>1
  <2>6. Deeper(b.code, o + 1, k, DepthAt(b, o))
    BY <1>2, <2>5 DEF Deeper
  <2>7. \A t \in o + 1 .. k : DepthAt(b, t) >= DepthAt(b, o) + 1
    <3> SUFFICES ASSUME NEW t \in o + 1 .. k PROVE DepthAt(b, t) >= DepthAt(b, o) + 1
      OBVIOUS
    <3>1. DepthAt(b, t) > DepthAt(b, o)
      BY <2>6 DEF Deeper, DepthAt
    <3>2. t \in 1 .. Len(b.code) + 1
      BY <2>1
    <3>3. DepthAt(b, t) \in Nat
      BY <1>0, <3>2, FormedFacts
    <3> QED BY <1>1, <3>1, <3>3
  <2>8. Grown(w[o + 1], w[k], n)
    <3>1. WalkGrows(b, w, Len(b.code) + 1)
      BY <1>0 DEF Walked
    <3>2. Grown(w[o + 1], w[k], BaseOf(b) + (DepthAt(b, o) + 1) - 1)
      <4>1. DepthAt(b, o) + 1 \in Nat
        BY <1>1
      <4> QED BY <1>5, <2>1, <2>2, <2>7, <3>1, <4>1 DEF WalkGrows
    <3>3. BaseOf(b) + (DepthAt(b, o) + 1) - 1 = n
      BY <1>1
    <3> QED BY <3>2, <3>3
  <2>9. Grown(w[k], w[j], n)
    <3>1. Grown(w[k], w[j], Len(w[k]) - 1)
      BY <1>0, <2>1, <2>4, SteppedMiddle
    <3>2. Len(w[k]) - 1 = n
      BY <1>1, <2>4
    <3> QED BY <3>1, <3>2
  <2>10. Grown(es, w[j], n)
    <3> HIDE DEF es, n
    <3>1. Grown(es, w[k], n)
      BY <1>7, <2>8, GrownTrans
    <3> QED BY <2>9, <3>1, GrownTrans
  <2>11. b.code[o].op = IF b.code[k].op = "else" THEN "if" ELSE "match"
    BY <1>0, <2>1, <2>6, ConstructAround
  <2>12. b.code[o].op = "match" => Regions!Top(w[k]).scrutinee = r
    <3>1. WalkShapes(b, w, Len(b.code) + 1)
      BY <1>0 DEF Walked
    <3>2. b.code[o].op = "match" => w[k][BaseOf(b) + DepthAt(b, o) + 1].scrutinee = r
      BY <1>0, <2>1, <2>2, <2>6, <3>1 DEF WalkShapes
    <3>3. Regions!Top(w[k]) = w[k][BaseOf(b) + DepthAt(b, o) + 1]
      BY <2>4, WithoutTop
    <3> QED BY <3>2, <3>3
  <2>13. Len(w[j]) = Len(w[k])
    BY <1>0, <2>1, <2>4, SteppedMiddle
  <2>14. Len(w[j]) - 1 = n /\ Len(w[j]) = n + 1
    BY <1>1, <2>4, <2>13
  <2>15. IntoKnown(w[j], b.code[k], BoundRegion(w[k], b.code[k]))
    <3>1. b.code[k].op \in (Openings \ {"unsafe"}) \cup Middles
      BY <2>1
    <3>2. Len(w[k]) > (IF b.code[k].op \in Middles THEN 1 ELSE 0)
      BY <2>1, <2>4
    <3> QED BY <1>0, <2>1, <2>4, <3>1, <3>2, SteppedInto
  <2>16. b.code[k].op \in {"else", "arm"}
    BY <2>1 DEF Middles
  <2> HIDE DEF n, r, es, S
  <2>17. \A x \in Names :
          Known(w[j], n + 1, x) = IF b.code[o].op = "match" /\ b.code[k].to = x /\ r # "none"
                                  THEN Regions!Binding(r) ELSE Known(w[j], n, x)
    <3>1. b.code[o].op = "match" => r = BoundRegion(w[k], b.code[k])
      BY <2>3, <2>12 DEF BoundRegion
    <3> QED BY <2>3, <2>11, <2>14, <2>15, <2>16, <3>1 DEF IntoKnown
  <2> QED BY <1>5, <1>6, <2>10, <2>17 DEF n, r, es, S, k
<1> QED BY <1>8, <1>9

\* A branch is entered with a frame of its own.
LEMMA EnterFramed ==
  ASSUME NEW b, NEW w, WalkOf(b, w), NEW o \in 1 .. Len(b.code), b.code[o].op \in Openings,
         NEW j \in BranchesOf(b.code, o), NEW gs, Framed(b, w, o, gs), NEW frame \in Run!Frame,
         \A x \in Names : frame[x] # "unbound" <=> b.code[j - 1].to = x,
         \A x \in Names : frame[x] = "borrowed" => ~ NoneBorrowed(b),
         Inside(b.code, j, {"unsafe"}) # {} => \A x \in Names : frame[x] = "unbound",
         b.code[o].op \in {"loop", "unsafe"} /\ OpenAt(b, o) => Covers(gs, w[o], BaseOf(b), Shown(b, o))
  PROVE  Framed(b, w, j, Append(gs, frame))
<1> DEFINE hs == Append(gs, frame)
           d == DepthAt(b, o)
           e == EndOf(b.code, o + 1)
<1>0. /\ IsBody(b) /\ b \in BodyType /\ b.code \in Seq(Token) /\ Balanced(b.code) /\ Formed(b.code)
      /\ Len(b.code) \in Nat /\ o \in 1 .. Len(b.code) + 1
      /\ Scoped(b, o, gs) /\ Lent(b, gs) /\ Stored(b, w, o, gs) /\ Isolated(b, o, gs)
  BY FormedFacts DEF WalkOf, IsBody, Framed
<1>1. d \in Nat /\ gs \in Stacks /\ Len(gs) = 2 + d /\ Len(gs) > 0
  BY <1>0, ScopedFacts
<1>2. e \in o + 1 .. Len(b.code)
  BY <1>0, ScopeOf
<1>3. /\ j \in o + 1 .. e /\ DepthAt(b, j) = d + 1
      /\ \/ j = o + 1
         \/ /\ j - 1 \in o + 1 .. e /\ b.code[j - 1].op \in Middles
  BY <1>0, BranchStarts DEF DepthAt
<1>4. j \in 1 .. Len(b.code) + 1 /\ j - 1 \in 1 .. Len(b.code)
  <2>1. o \in Nat /\ o >= 1 /\ e <= Len(b.code) /\ e \in Int /\ j >= o + 1 /\ j <= e /\ j \in Int
    BY <1>0, <1>2, <1>3
  <2> QED BY ONLY <1>0, <2>1
<1>5. /\ hs \in Stacks /\ Len(hs) = Len(gs) + 1
      /\ \A n \in 0 .. Len(gs), y \in Names : Holds(hs, n, y) = Holds(gs, n, y)
      /\ \A y \in Names : Holds(hs, Len(gs) + 1, y) = IF frame[y] # "unbound" THEN frame[y] ELSE Run!Lookup(gs, y)
  BY <1>1, Pushed
<1>6. /\ \A n \in 1 .. Len(gs) : hs[n] = gs[n]
      /\ hs[Len(gs) + 1] = frame
  <2>1. gs \in Seq(Run!Frame)
    BY <1>1 DEF Stacks
  <2> QED BY <2>1
<1>7. \A X \in SUBSET Openings :
        Inside(b.code, j, X) = Inside(b.code, o, X) \cup (IF b.code[o].op \in X THEN {o} ELSE {})
  <2> SUFFICES ASSUME NEW X \in SUBSET Openings
               PROVE  Inside(b.code, j, X) = Inside(b.code, o, X) \cup (IF b.code[o].op \in X THEN {o} ELSE {})
    OBVIOUS
  <2>1. Depth(b.code, j) = Depth(b.code, o) + 1
    BY <1>3 DEF DepthAt
  <2> QED BY <1>0, <1>3, <2>1, InsideOf
<1>8. {"loop", "unsafe"} \in SUBSET Openings /\ {"unsafe"} \in SUBSET Openings
  BY DEF Openings
<1> HIDE DEF hs
<1>9. \A y \in Names : Run!Lookup(gs, y) = Holds(gs, 2 + d, y)
  BY <1>1, HoldsStep
<1>10. Scoped(b, j, hs)
  <2>1. ASSUME NEW m \in 0 .. d + 1, NEW x \in Names
        PROVE  Holds(hs, 2 + m, x) # "unbound" <=> BoundTo(b, x, j, m)
    <3>1. CASE m \in 0 .. d
      <4>1. 2 + m \in 0 .. Len(gs) /\ m <= Depth(b.code, o) /\ m \in Nat
        BY <1>1, <3>1 DEF DepthAt
      <4>2. Holds(gs, 2 + m, x) # "unbound" <=> BoundTo(b, x, o, m)
        BY <1>0, <3>1 DEF Scoped
      <4>3. BoundTo(b, x, j, m) <=> BoundTo(b, x, o, m)
        BY <1>0, <4>1, BoundInBranch
      <4> QED BY <1>5, <4>1, <4>2, <4>3
    <3>2. CASE m = d + 1
      <4>1. 2 + m = Len(gs) + 1 /\ d \in 0 .. d /\ d + 1 \in Nat
        BY <1>1, <3>2
      <4>2. Holds(gs, 2 + d, x) # "unbound" <=> BoundTo(b, x, o, d)
        BY <1>0, <4>1 DEF Scoped
      <4>3. BoundTo(b, x, j, d + 1) <=> BoundTo(b, x, o, d) \/ b.code[j - 1].to = x
        BY <1>0, <4>1, BoundInBranch DEF DepthAt
      <4>4. Holds(hs, 2 + m, x) = IF frame[x] # "unbound" THEN frame[x] ELSE Holds(gs, 2 + d, x)
        BY <1>5, <1>9, <4>1
      <4> QED BY <3>2, <4>2, <4>3, <4>4
    <3>3. m \in 0 .. d \/ m = d + 1
      BY <1>1
    <3> QED BY <3>1, <3>2, <3>3
  <2> QED BY <1>1, <1>3, <1>4, <1>5, <2>1 DEF Scoped
<1>11. Lent(b, hs)
  <2> SUFFICES ASSUME NEW n \in 1 .. Len(hs), NEW x \in Names, Holds(hs, n, x) = "borrowed"
               PROVE  MayLend(b, x)
    BY DEF Lent
  <2>1. CASE n \in 1 .. Len(gs)
    <3>1. Holds(gs, n, x) = "borrowed"
      BY <1>5, <2>1
    <3> QED BY <1>0, <2>1, <3>1 DEF Lent
  <2>2. CASE n = Len(gs) + 1
    <3>1. CASE frame[x] = "unbound"
      <4>1. Holds(gs, 2 + d, x) = "borrowed" /\ 2 + d \in 1 .. Len(gs)
        BY <1>1, <1>5, <1>9, <2>2, <3>1
      <4> QED BY <1>0, <4>1 DEF Lent
    <3>2. CASE frame[x] # "unbound"
      <4>1. frame[x] = "borrowed" /\ b.code[j - 1].to = x
        BY <1>5, <2>2, <3>2
      <4>2. b.code[j - 1].op \in {"fresh", "copy", "match", "arm"}
        BY <1>0, <1>4, <4>1, FormedFacts
      <4>3. b.code[j - 1].op \in Openings \cup Middles
        <5>1. CASE j = o + 1
          <6>1. j - 1 = o
            BY <5>1
          <6> QED BY <6>1
        <5> QED BY <1>3, <5>1
      <4>4. b.code[j - 1].op \in {"match", "arm"}
        BY <4>2, <4>3 DEF Openings, Middles
      <4> QED BY <1>4, <4>1, <4>4 DEF MayLend
    <3> QED BY <3>1, <3>2
  <2>3. n \in 1 .. Len(gs) \/ n = Len(gs) + 1
    BY <1>1, <1>5
  <2> QED BY <2>1, <2>2, <2>3
<1>12. Stored(b, w, j, hs)
  <2> SUFFICES ASSUME NEW q \in Inside(b.code, j, {"loop", "unsafe"}), OpenAt(b, q)
               PROVE  Covers(SubSeq(hs, 1, 2 + DepthAt(b, q)), w[q], BaseOf(b), Shown(b, q))
    BY DEF Stored
  <2> DEFINE fq == SubSeq(gs, 1, 2 + DepthAt(b, q))
             hq == SubSeq(hs, 1, 2 + DepthAt(b, q))
             N == Shown(b, q)
  <2>1. DepthAt(b, q) \in Nat /\ DepthAt(b, q) <= d /\ Covers(fq, w[q], BaseOf(b), N)
    <3>1. CASE q \in Inside(b.code, o, {"loop", "unsafe"})
      <4>1. q \in 1 .. o - 1 /\ DepthAt(b, q) < DepthAt(b, o)
        BY <1>0, <1>8, <3>1, InsideOf DEF DepthAt
      <4>2. q \in 1 .. Len(b.code) + 1
        BY <1>0, <4>1
      <4>3. DepthAt(b, q) \in Nat
        BY <1>0, <4>2, FormedFacts
      <4>4. Covers(fq, w[q], BaseOf(b), N)
        BY <1>0, <3>1 DEF Stored
      <4> QED BY <1>1, <4>1, <4>3, <4>4
    <3>2. CASE q = o /\ b.code[o].op \in {"loop", "unsafe"}
      <4>1. Covers(gs, w[o], BaseOf(b), Shown(b, o))
        BY <3>2
      <4>2. SubSeq(gs, 1, 2 + DepthAt(b, o)) = gs
        <5>1. gs \in Seq(Run!Frame)
          BY <1>1 DEF Stacks
        <5>2. Len(gs) \in 0 .. Len(gs) /\ 2 + DepthAt(b, o) = Len(gs)
          BY <1>1
        <5> QED BY <5>1, <5>2, Prefix
      <4>3. fq = gs /\ N = Shown(b, o) /\ w[q] = w[o] /\ DepthAt(b, q) = d
        BY <3>2, <4>2, Zenon
      <4> HIDE DEF fq, N, d
      <4>4. d \in Nat /\ d <= d
        BY <1>1
      <4> QED BY <4>1, <4>3, <4>4
    <3> QED BY <1>7, <1>8, <3>1, <3>2
  <2>2. 2 + DepthAt(b, q) \in 0 .. Len(gs) /\ 2 + DepthAt(b, q) \in 0 .. Len(hs)
    BY <1>1, <1>5, <2>1
  <2>3. /\ Len(fq) = 2 + DepthAt(b, q) /\ Len(hq) = 2 + DepthAt(b, q)
        /\ \A k \in 0 .. 2 + DepthAt(b, q) : \A y : Holds(fq, k, y) = Holds(gs, k, y) /\ Holds(hq, k, y) = Holds(hs, k, y)
    BY <1>1, <1>5, <2>2, HoldsOuter
  <2>4. N \in SUBSET Names
    BY DEF Shown
  <2> HIDE DEF fq, hq, N
  <2>5. ASSUME NEW m \in 0 .. Len(fq) - 2, NEW y \in N
        PROVE  Holds(hq, 2 + m, y) = Holds(fq, 2 + m, y)
    <3>1. 2 + m \in 0 .. 2 + DepthAt(b, q) /\ 2 + m \in 0 .. Len(gs)
      BY <2>1, <2>2, <2>3
    <3> QED BY <1>5, <2>3, <2>4, <3>1
  <2>6. Covers(hq, w[q], BaseOf(b), N)
    BY <2>1, <2>3, <2>5, CoversKept
  <2> QED BY <2>6 DEF hq, N
<1>13. Isolated(b, j, hs)
  <2> SUFFICES ASSUME NEW u \in Inside(b.code, j, {"unsafe"}), NEW n \in 1 .. Len(hs), NEW x \in Names,
                      n >= 3 + DepthAt(b, u)
               PROVE  hs[n][x] \in {"unbound", "owned"}
    BY DEF Isolated
  <2>1. CASE n = Len(gs) + 1
    <3>1. frame[x] = "unbound"
      OBVIOUS
    <3> QED BY <1>6, <2>1, <3>1
  <2>2. CASE n \in 1 .. Len(gs)
    <3>1. u # o
      <4>1. n <= 2 + d
        BY <1>1, <2>2
      <4> QED BY <1>1, <4>1
    <3>2. u \in Inside(b.code, o, {"unsafe"})
      BY <1>7, <1>8, <3>1
    <3>3. gs[n][x] \in {"unbound", "owned"}
      BY <1>0, <2>2, <3>2 DEF Isolated
    <3> QED BY <1>6, <2>2, <3>3
  <2>3. n \in 1 .. Len(gs) \/ n = Len(gs) + 1
    BY <1>1, <1>5
  <2> QED BY <2>1, <2>2, <2>3
<1> QED BY <1>10, <1>11, <1>12, <1>13 DEF Framed, hs

\* The frame a branch is entered with.
BranchFrame(b, fs, o, j) ==
  [x \in Names |-> IF x = b.code[j - 1].to THEN Run!Lookup(fs, b.code[o].of) ELSE "unbound"]

\* Where a construct is, what a branch of it is.
LEMMA BranchFacts ==
  ASSUME NEW b, IsBody(b), Tame(b), NEW o \in 1 .. Len(b.code), b.code[o].op \in Openings,
         NEW j \in BranchesOf(b.code, o)
  PROVE  /\ o \in 1 .. Len(b.code) + 1 /\ j \in 1 .. Len(b.code) + 1
         /\ OpenAt(b, j) => OpenAt(b, o) /\ b.code[o].op # "unsafe"
         /\ Shown(b, o) = Names /\ Shown(b, j) = Names
         /\ b.code[o].op # "match" => b.code[j - 1].to \notin Names
<1> DEFINE e == EndOf(b.code, o + 1)
<1>0. /\ b \in BodyType /\ b.code \in Seq(Token) /\ Balanced(b.code) /\ Len(b.code) \in Nat
      /\ o \in 1 .. Len(b.code) + 1
  BY FormedFacts DEF IsBody
<1>1. e \in o + 1 .. Len(b.code) /\ Deeper(b.code, o + 1, e, Depth(b.code, o))
  BY <1>0, ScopeOf
<1>2. /\ j \in o + 1 .. e
      /\ \/ j = o + 1
         \/ /\ j - 1 \in o + 1 .. e /\ b.code[j - 1].op \in Middles
            /\ DepthAt(b, j - 1) = DepthAt(b, o) + 1
  BY <1>0, BranchStarts DEF DepthAt
<1>3. o \in Nat /\ o >= 1 /\ e <= Len(b.code) /\ e \in Int /\ j >= o + 1 /\ j <= e /\ j \in Int
  BY <1>0, <1>1, <1>2
<1>4. j \in 1 .. Len(b.code) + 1 /\ j - 1 \in 1 .. Len(b.code)
  BY ONLY <1>0, <1>3
<1>5. OpenAt(b, j) => OpenAt(b, o) /\ b.code[o].op # "unsafe"
  BY <1>2, OpenOf
<1>6. ~ Straight(b)
  BY DEF Straight
<1>7. Shown(b, o) = Names /\ Shown(b, j) = Names
  BY <1>0, <1>4, <1>6, TameFacts
<1>8. ASSUME b.code[o].op # "match" PROVE b.code[j - 1].to \notin Names
  <2>1. CASE j = o + 1
    <3>1. j - 1 = o
      BY <1>3, <2>1
    <3>2. b.code[o].op \notin {"fresh", "copy", "match", "arm"}
      BY <1>8 DEF Openings
    <3> QED BY <3>1, <3>2, FormedFacts
  <2>2. CASE j # o + 1
    <3> DEFINE k == j - 1
    <3>1. /\ k \in 1 .. Len(b.code) /\ b.code[k].op \in Middles /\ DepthAt(b, k) = DepthAt(b, o) + 1
          /\ k <= e /\ k \in Int
      BY <1>2, <1>3, <1>4, <2>2
    <3>2. o \in 1 .. k - 1
      BY ONLY <1>3, <2>2
    <3> HIDE DEF k
    <3>3. \A t \in o + 1 .. k : t \in o + 1 .. e
      BY ONLY <1>3, <3>1
    <3>4. Deeper(b.code, o + 1, k, DepthAt(b, o))
      BY <1>1, <3>3 DEF Deeper, DepthAt
    <3>5. b.code[o].op = IF b.code[k].op = "else" THEN "if" ELSE "match"
      BY <3>1, <3>2, <3>4, ConstructAround
    <3>6. b.code[k].op \notin {"fresh", "copy", "match", "arm"}
      BY <1>8, <3>1, <3>5 DEF Middles
    <3>7. b.code[k].to \notin Names
      BY <3>1, <3>6, FormedFacts
    <3> QED BY <3>7 DEF k
  <2> QED BY <2>1, <2>2
<1> QED BY <1>0, <1>4, <1>5, <1>7, <1>8

\* A branch, a lap, a block or an unsafe block is entered.
LEMMA EnterFollows ==
  ASSUME NEW b, NEW w, WalkOf(b, w), NEW o \in 1 .. Len(b.code), b.code[o].op \in Openings \ {"match"},
         NEW j \in BranchesOf(b.code, o), NEW fs, Follows(b, w, o, fs)
  PROVE  Follows(b, w, j, Append(fs, BranchFrame(b, fs, o, j)))
<1> DEFINE frame == BranchFrame(b, fs, o, j)
           d == DepthAt(b, o)
           base == BaseOf(b)
<1>0. IsBody(b) /\ Tame(b) /\ Framed(b, w, o, fs) /\ Scoped(b, o, fs) /\ b.code[o].op \in Openings
  BY DEF WalkOf, Follows, Framed
<1>1. d \in Nat /\ fs \in Stacks /\ Len(fs) = 2 + d
  BY <1>0, ScopedFacts
<1>2. /\ OpenAt(b, j) => OpenAt(b, o) /\ b.code[o].op # "unsafe"
      /\ Shown(b, o) = Names /\ Shown(b, j) = Names
      /\ b.code[j - 1].to \notin Names
  BY <1>0, BranchFacts
<1>3. frame \in Run!Frame /\ \A x \in Names : frame[x] = "unbound"
  <2>1. frame = [x \in Names |-> "unbound"]
    BY <1>2 DEF BranchFrame
  <2>2. "unbound" \in Run!Slot
    BY DEF Run!Slot
  <2> HIDE DEF frame
  <2> QED BY <2>1, <2>2 DEF Run!Frame
<1> HIDE DEF frame
<1>4. OpenAt(b, o) => Covers(fs, w[o], base, Names)
  BY <1>2 DEF Follows
<1>5. Framed(b, w, j, Append(fs, frame))
  <2>1. \A x \in Names : frame[x] # "unbound" <=> b.code[j - 1].to = x
    BY <1>2, <1>3
  <2>2. \A x \in Names : frame[x] # "borrowed"
    BY <1>3
  <2> QED BY <1>0, <1>2, <1>3, <1>4, <2>1, <2>2, EnterFramed
<1>6. ASSUME OpenAt(b, j) PROVE Covers(Append(fs, frame), w[j], base, Names)
  <2>1. OpenAt(b, o) /\ b.code[o].op \in Openings \ {"unsafe"} /\ b.code[o].op # "match"
    BY <1>2, <1>6
  <2>2. /\ Grown(w[o], w[j], base + d)
        /\ \A x \in Names : Known(w[j], base + d + 1, x) = Known(w[j], base + d, x)
    <3>1. /\ WalkOf(b, w) /\ o \in 1 .. Len(b.code) /\ j \in BranchesOf(b.code, o)
          /\ b.code[o].op \in Openings \ {"unsafe"} /\ b.code[o].op # "match" /\ OpenAt(b, o)
      BY <2>1
    <3> QED BY ONLY <3>1, BranchChain
  <2>3. base \in {1, 2}
    BY <1>0, FormedFacts
  <2> HIDE DEF base, d
  <2> QED BY <1>1, <1>3, <1>4, <2>1, <2>2, <2>3, CoversEntered
<1> QED BY <1>2, <1>5, <1>6 DEF Follows, frame

LEMMA MatchFollows ==
  ASSUME NEW b, NEW w, WalkOf(b, w), NEW o \in 1 .. Len(b.code), b.code[o].op = "match",
         NEW j \in BranchesOf(b.code, o), NEW fs, Follows(b, w, o, fs)
  PROVE  Follows(b, w, j, Append(Run!MovedOut(fs, b.code[o].of), BranchFrame(b, fs, o, j)))
<1> DEFINE y == b.code[o].of
           gs == Run!MovedOut(fs, y)
           frame == BranchFrame(b, fs, o, j)
           d == DepthAt(b, o)
           base == BaseOf(b)
<1>0. /\ IsBody(b) /\ Tame(b) /\ Framed(b, w, o, fs) /\ Scoped(b, o, fs) /\ Lent(b, fs)
      /\ b.code[o].op \in Openings \ {"unsafe"} /\ b.code[o].op \in Openings /\ b.code[o].op \in MovesOut
  BY DEF WalkOf, Follows, Framed, Openings, MovesOut
<1>1. /\ d \in Nat /\ fs \in Stacks /\ Len(fs) = 2 + d /\ Len(fs) > 0
      /\ \A x \in Names : Run!Lookup(fs, x) = Holds(fs, 2 + d, x)
      /\ \A x \in Names : Run!Lookup(fs, x) # "unbound" <=> Bound(b, x, o)
  BY <1>0, ScopedFacts
<1>2. /\ OpenAt(b, j) => OpenAt(b, o)
      /\ Shown(b, o) = Names /\ Shown(b, j) = Names
  BY <1>0, BranchFacts
<1>3. y \in Names /\ y # NoName
  BY <1>0, FormedFacts, NamesAssumption
<1>4. Run!Lookup(fs, y) # "unbound"
  <2>1. Resolved(b)
    BY <1>0 DEF IsBody, WellFormedBody
  <2>2. Bound(b, y, o)
    BY <1>3, <2>1 DEF Resolved
  <2> QED BY <1>1, <1>3, <2>2
<1>5. Run!Lookup(fs, y) \in Run!Slot
  BY <1>1, <1>3, Holder
<1>6. /\ frame \in Run!Frame
      /\ \A x \in Names : frame[x] = IF x = b.code[j - 1].to THEN Run!Lookup(fs, y) ELSE "unbound"
  <2>1. "unbound" \in Run!Slot
    BY DEF Run!Slot
  <2> HIDE DEF y
  <2> QED BY <1>5, <2>1 DEF BranchFrame, Run!Frame, y
<1> HIDE DEF frame
<1>7. Framed(b, w, o, gs) /\ gs \in Stacks /\ Len(gs) = 2 + d
  <2>1. Framed(b, w, o, gs)
    BY <1>0, <1>3, MovedFramed
  <2>2. Scoped(b, o, gs)
    BY <2>1 DEF Framed
  <2> HIDE DEF gs
  <2> QED BY <1>0, <2>1, <2>2, ScopedFacts
<1>8. OpenAt(b, o) => Covers(fs, w[o], base, Names)
  BY <1>2 DEF Follows
<1>9. Framed(b, w, j, Append(gs, frame))
  <2>1. \A x \in Names : frame[x] # "unbound" <=> b.code[j - 1].to = x
    BY <1>4, <1>6
  <2>2. ASSUME NEW x \in Names, frame[x] = "borrowed" PROVE ~ NoneBorrowed(b)
    <3>1. Holds(fs, 2 + d, y) = "borrowed"
      BY <1>1, <1>3, <1>6, <2>2
    <3>2. 2 + d \in 1 .. Len(fs)
      BY <1>1
    <3>3. MayLend(b, y)
      BY <1>0, <1>3, <3>1, <3>2 DEF Lent
    <3> HIDE DEF y
    <3> QED BY <1>3, <3>3 DEF MayLend, NoneBorrowed
  <2>3. Inside(b.code, j, {"unsafe"}) = {}
    <3>1. Inside(b.code, o, {"unsafe"}) = {}
      BY <1>0, <1>3, TameFacts
    <3>2. OpenAt(b, j)
      <4>1. OpenAt(b, o)
        BY <3>1 DEF OpenAt
      <4> QED BY <1>0, <4>1, BranchChain
    <3> QED BY <3>2 DEF OpenAt
  <2>4. b.code[o].op \notin {"loop", "unsafe"}
    OBVIOUS
  <2> HIDE DEF gs
  <2> QED BY <1>0, <1>6, <1>7, <2>1, <2>2, <2>3, <2>4, EnterFramed
<1>10. ASSUME OpenAt(b, j) PROVE Covers(Append(gs, frame), w[j], base, Names)
  <2> DEFINE r == Regions!Get(w[o], y).region
             S == IF r = "owned" THEN {y} ELSE {}
             es == Regions!MarkMoved(w[o], S)
  <2>1. OpenAt(b, o)
    BY <1>2, <1>10
  <2>2. /\ S \in SUBSET Names
        /\ Grown(es, w[j], base + d)
        /\ \A x \in Names :
             Known(w[j], base + d + 1, x) = IF b.code[j - 1].to = x /\ r # "none"
                                            THEN Regions!Binding(r) ELSE Known(w[j], base + d, x)
    <3>1. /\ WalkOf(b, w) /\ o \in 1 .. Len(b.code) /\ j \in BranchesOf(b.code, o)
          /\ b.code[o].op \in Openings \ {"unsafe"} /\ b.code[o].op = "match" /\ OpenAt(b, o)
      BY <1>0, <2>1
    <3>2. S \in SUBSET Names
      BY ONLY <3>1, BranchChain
    <3>3. Grown(es, w[j], base + d)
      BY ONLY <3>1, BranchChain
    <3>4. \A x \in Names :
            Known(w[j], base + d + 1, x) = IF b.code[j - 1].to = x /\ r # "none"
                                           THEN Regions!Binding(r) ELSE Known(w[j], base + d, x)
      <4>1. \A x \in Names :
              Known(w[j], base + d + 1, x) =
                IF b.code[o].op = "match" /\ b.code[j - 1].to = x /\ r # "none"
                THEN Regions!Binding(r) ELSE Known(w[j], base + d, x)
        BY ONLY <3>1, BranchChain
      <4> HIDE DEF base, d, r
      <4> QED BY ONLY <3>1, <4>1
    <3> QED BY ONLY <3>2, <3>3, <3>4
  <2>3. /\ base \in {1, 2} /\ w[o] \in Chains /\ Len(w[o]) = base + d /\ Len(w[o]) > 0
        /\ Passes(w[o], b.code[o])
    <3>1. o \in 1 .. Len(b.code) + 1 /\ o <= Len(b.code)
      BY <1>0, FormedFacts
    <3> QED BY <2>1, <3>1, WalkFacts
  <2>4. Regions!Get(w[o], y) = Known(w[o], base + d, y)
    BY <1>3, <2>3, KnownStep
  <2>5. /\ Known(w[o], base + d, y).region = RegionOf(Run!Lookup(fs, y))
        /\ Run!Lookup(fs, y) = "moved" => Known(w[o], base + d, y).moved
    <3>1. Covers(fs, w[o], base, Names)
      BY <1>8, <2>1
    <3>2. d \in 0 .. Len(fs) - 2 /\ Len(fs) - 2 = d
      BY <1>1
    <3>3. /\ Holds(fs, 2 + d, y) # "unbound" => Known(w[o], base + d, y).region = RegionOf(Holds(fs, 2 + d, y))
          /\ Holds(fs, 2 + d, y) = "moved" => Known(w[o], base + d, y).moved \/ Pending(w[o], base, d, d, y)
      BY <1>3, <3>1, <3>2 DEF Covers
    <3>4. ~ Pending(w[o], base, d, d, y)
      <4>1. d + 1 .. d = {}
        BY <1>1
      <4> QED BY <4>1 DEF Pending
    <3> QED BY <1>1, <1>3, <1>4, <3>3, <3>4
  <2>6. r = RegionOf(Run!Lookup(fs, y)) /\ Run!Lookup(fs, y) # "moved" /\ r # "none"
    <3>1. ~ Regions!Get(w[o], y).moved
      BY <1>3, <2>3 DEF Passes
    <3> QED BY <2>4, <2>5, <3>1 DEF RegionOf
  <2>7. Run!Lookup(fs, y) = "owned" => y \in S
    BY <2>6 DEF RegionOf
  <2> HIDE DEF r, S
  <2>8. Covers(gs, es, base, Names)
    BY <1>0, <1>3, <1>8, <2>1, <2>2, <2>7, CoversMove
  <2>9. \A x \in Names : IF frame[x] = "unbound"
                         THEN Known(w[j], base + d + 1, x) = Known(w[j], base + d, x)
                         ELSE /\ frame[x] # "moved"
                              /\ Known(w[j], base + d + 1, x).region = RegionOf(frame[x])
    <3>1. Regions!Binding(r).region = r
      BY DEF Regions!Binding
    <3> HIDE DEF base, d, y
    <3> QED BY <1>4, <1>6, <2>2, <2>6, <3>1
  <2> HIDE DEF es, base, d, gs
  <2> QED BY <1>6, <1>7, <1>1, <2>2, <2>3, <2>8, <2>9, CoversEntered
<1> QED BY <1>2, <1>9, <1>10 DEF Follows, frame
-----------------------------------------------------------------------------
(***************************************************************************)
(* Out of a scope: by its end, by another branch, by break and continue,   *)
(* back to a loop. The walk has merged the branches by then.               *)
(***************************************************************************)
\* All that a scope binds is bound within it.
LEMMA ScopeBound ==
  ASSUME NEW b, IsBody(b), NEW o \in 1 .. Len(b.code), b.code[o].op \in Openings,
         NEW i \in o .. EndOf(b.code, o + 1) + 1, NEW m \in Nat, m <= DepthAt(b, o), NEW x \in Names
  PROVE  BoundTo(b, x, o, m) <=> BoundTo(b, x, i, m)
<1> DEFINE e == EndOf(b.code, o + 1)
<1>0. /\ b \in BodyType /\ b.code \in Seq(Token) /\ Balanced(b.code) /\ Len(b.code) \in Nat
      /\ o \in 1 .. Len(b.code) + 1 /\ DepthAt(b, o) \in Nat
  <2>1. /\ b \in BodyType /\ b.code \in Seq(Token) /\ Balanced(b.code) /\ Len(b.code) \in Nat
    BY FormedFacts DEF IsBody
  <2>2. o \in 1 .. Len(b.code) + 1
    BY <2>1
  <2> QED BY <2>1, <2>2, FormedFacts
<1>1. /\ e \in o + 1 .. Len(b.code) /\ b.code[e].op = "end" /\ Deeper(b.code, o + 1, e, DepthAt(b, o))
      /\ DepthAt(b, o + 1) = DepthAt(b, o) + 1
  BY <1>0, ScopeOf DEF DepthAt
<1>2. o \in Nat /\ o >= 1 /\ e \in Int /\ e >= o + 1 /\ e <= Len(b.code) /\ i \in Int /\ i >= o /\ i <= e + 1
  BY <1>0, <1>1
<1> HIDE DEF e
<1>3. i \in o .. Len(b.code) + 1
  BY ONLY <1>0, <1>2
<1>4. ASSUME NEW t \in o .. i - 1
      PROVE  /\ Closes(b.code[t]) => Depth(b.code, t) > m
             /\ b.code[t].to # NoName => Depth(b.code, t + 1) > m
  <2>0. t \in Int /\ t >= o /\ t <= e /\ t \in 1 .. Len(b.code)
    BY ONLY <1>0, <1>2, <1>4
  <2>d. ASSUME NEW k \in o + 1 .. e PROVE Depth(b.code, k) > m
    <3>1. Depth(b.code, k) > DepthAt(b, o)
      BY <1>1 DEF Deeper
    <3>2. k \in 1 .. Len(b.code) + 1
      BY ONLY <1>0, <1>2
    <3>3. DepthAt(b, k) \in Nat
      BY <3>2, FormedFacts
    <3> QED BY <1>0, <3>1, <3>3 DEF DepthAt
  <2>1. Closes(b.code[t]) => Depth(b.code, t) > m
    <3>1. CASE t = o
      BY <3>1 DEF Closes, Openings, Middles
    <3>2. CASE t # o
      <4>1. t \in o + 1 .. e
        BY ONLY <1>2, <2>0, <3>2
      <4> QED BY <2>d, <4>1
    <3> QED BY <3>1, <3>2
  <2>2. b.code[t].to # NoName => Depth(b.code, t + 1) > m
    <3>1. CASE t = e
      <4>1. b.code[t].to \notin Names
        BY <1>1, <2>0, <3>1, FormedFacts
      <4>2. b.code[t].to # NoName => b.code[t].to \in Names
        BY <2>0, FormedFacts
      <4> QED BY <4>1, <4>2
    <3>2. CASE t # e
      <4>1. t + 1 \in o + 1 .. e
        BY ONLY <1>2, <2>0, <3>2
      <4> QED BY <2>d, <4>1
    <3> QED BY <3>1, <3>2
  <2> QED BY <2>1, <2>2
<1> QED BY <1>0, <1>3, <1>4, BoundToSkip

\* A scope is left, from any place in it, for its opening or for what is behind.
LEMMA LeaveFramed ==
  ASSUME NEW b, NEW w, WalkOf(b, w), NEW o \in 1 .. Len(b.code), b.code[o].op \in Openings,
         NEW i \in o .. EndOf(b.code, o + 1), NEW fs, Framed(b, w, i, fs),
         NEW p \in {o, EndOf(b.code, o + 1) + 1}
  PROVE  /\ Framed(b, w, p, SubSeq(fs, 1, 2 + DepthAt(b, o)))
         /\ DepthAt(b, o) \in Nat /\ fs \in Stacks /\ Len(fs) = 2 + DepthAt(b, i)
         /\ DepthAt(b, o) <= DepthAt(b, i) /\ i \in 1 .. Len(b.code) + 1
<1> DEFINE e == EndOf(b.code, o + 1)
           d == DepthAt(b, o)
           gs == SubSeq(fs, 1, 2 + d)
<1>0. /\ IsBody(b) /\ b \in BodyType /\ b.code \in Seq(Token) /\ Balanced(b.code) /\ Len(b.code) \in Nat
      /\ o \in 1 .. Len(b.code) + 1
      /\ Scoped(b, i, fs) /\ Lent(b, fs) /\ Stored(b, w, i, fs) /\ Isolated(b, i, fs)
  BY FormedFacts DEF WalkOf, IsBody, Framed
<1>1. /\ e \in o + 1 .. Len(b.code) /\ Deeper(b.code, o + 1, e, d) /\ DepthAt(b, e + 1) = d
  BY <1>0, ScopeOf DEF DepthAt
<1>2. o \in Nat /\ o >= 1 /\ e \in Int /\ e >= o + 1 /\ e <= Len(b.code) /\ i \in Int /\ i >= o /\ i <= e
  BY <1>0, <1>1
<1>3. /\ p \in 1 .. Len(b.code) + 1 /\ DepthAt(b, p) = d /\ p \in o .. e + 1 /\ i \in o .. e + 1
      /\ i \in 1 .. Len(b.code) + 1
  <2>1. p = o \/ p = e + 1
    OBVIOUS
  <2>2. DepthAt(b, p) = d
    BY <1>1, <2>1
  <2>3. p \in 1 .. Len(b.code) + 1 /\ p \in o .. e + 1 /\ i \in o .. e + 1 /\ i \in 1 .. Len(b.code) + 1
    BY ONLY <1>0, <1>2, <2>1
  <2> QED BY <2>2, <2>3
<1>4. d \in Nat /\ fs \in Stacks /\ Len(fs) = 2 + DepthAt(b, i) /\ DepthAt(b, i) \in Nat
  BY <1>0, ScopedFacts, FormedFacts
<1>5. d <= DepthAt(b, i)
  <2>1. CASE i = o
    BY <1>4, <2>1
  <2>2. CASE i # o
    <3>1. i \in o + 1 .. e
      BY ONLY <1>2, <2>2
    <3>2. DepthAt(b, i) > d
      BY <1>1, <3>1 DEF Deeper, DepthAt
    <3> QED BY <1>4, <3>2
  <2> QED BY <2>1, <2>2
<1>6. ASSUME NEW X \in SUBSET Openings
      PROVE  /\ Inside(b.code, p, X) \subseteq Inside(b.code, i, X)
             /\ \A q \in Inside(b.code, p, X) : q \in 1 .. Len(b.code) + 1 /\ DepthAt(b, q) < d
  <2>1. Inside(b.code, p, X) = Inside(b.code, o, X)
    BY <1>0, InsideOf
  <2>2. Inside(b.code, o, X) \subseteq Inside(b.code, i, X)
    <3>1. CASE i = o
      BY <3>1
    <3>2. CASE i # o
      <4>1. i \in o + 1 .. e
        BY ONLY <1>2, <3>2
      <4> QED BY <1>0, <4>1, InsideOf
    <3> QED BY <3>1, <3>2
  <2>3. \A q \in Inside(b.code, o, X) : q \in 1 .. o - 1 /\ DepthAt(b, q) < d
    BY <1>0, InsideOf DEF DepthAt
  <2>4. \A q \in 1 .. o - 1 : q \in 1 .. Len(b.code) + 1
    BY ONLY <1>0, <1>2
  <2> QED BY <2>1, <2>2, <2>3, <2>4
<1>7. {"loop", "unsafe"} \in SUBSET Openings /\ {"unsafe"} \in SUBSET Openings
  BY DEF Openings
<1>8. 2 + d \in 0 .. Len(fs)
  BY <1>4, <1>5
<1>9. /\ gs \in Stacks /\ Len(gs) = 2 + d
      /\ \A k \in 0 .. 2 + d : \A x : Holds(gs, k, x) = Holds(fs, k, x)
      /\ \A k \in 1 .. 2 + d : gs[k] = fs[k]
      /\ \A k \in 0 .. 2 + d : SubSeq(gs, 1, k) = SubSeq(fs, 1, k)
  <2>1. /\ gs \in Stacks /\ Len(gs) = 2 + d
        /\ \A k \in 0 .. 2 + d : \A x : Holds(gs, k, x) = Holds(fs, k, x)
    <3> DEFINE n == 2 + d
    <3>1. fs \in Stacks /\ n \in 0 .. Len(fs) /\ 0 \in 0 .. n
      BY <1>4, <1>8
    <3> HIDE DEF n
    <3>2. /\ SubSeq(fs, 1, n) \in Stacks /\ Len(SubSeq(fs, 1, n)) = n
          /\ \A k \in 0 .. n : \A x : Holds(SubSeq(fs, 1, n), k, x) = Holds(fs, k, x)
      BY ONLY <3>1, HoldsOuter
    <3> QED BY <3>2 DEF n
  <2>2. fs \in Seq(Run!Frame)
    BY <1>4 DEF Stacks
  <2>3. /\ \A k \in 1 .. 2 + d : gs[k] = fs[k]
        /\ \A k \in 0 .. 2 + d : SubSeq(gs, 1, k) = SubSeq(fs, 1, k)
    BY <1>8, <2>2, Prefix
  <2> QED BY <2>1, <2>3
<1> HIDE DEF gs
<1>10. Scoped(b, p, gs)
  <2>1. ASSUME NEW m \in 0 .. d, NEW x \in Names
        PROVE  Holds(gs, 2 + m, x) # "unbound" <=> BoundTo(b, x, p, m)
    <3>1. 2 + m \in 0 .. 2 + d /\ m \in 0 .. DepthAt(b, i) /\ m \in Nat /\ m <= d
      BY <1>4, <1>5
    <3>2. Holds(gs, 2 + m, x) = Holds(fs, 2 + m, x)
      BY <1>9, <3>1
    <3>3. Holds(fs, 2 + m, x) # "unbound" <=> BoundTo(b, x, i, m)
      BY <1>0, <3>1 DEF Scoped
    <3>4. BoundTo(b, x, o, m) <=> BoundTo(b, x, i, m)
      BY <1>0, <1>3, <3>1, ScopeBound
    <3>5. BoundTo(b, x, o, m) <=> BoundTo(b, x, p, m)
      BY <1>0, <1>3, <3>1, ScopeBound
    <3> QED BY <3>2, <3>3, <3>4, <3>5
  <2> QED BY <1>3, <1>9, <2>1 DEF Scoped
<1>11. Lent(b, gs)
  <2>1. \A n \in 1 .. 2 + d : n \in 0 .. 2 + d /\ n \in 1 .. Len(fs)
    BY <1>4, <1>8
  <2> QED BY <1>0, <1>9, <2>1 DEF Lent
<1>12. Stored(b, w, p, gs)
  <2> SUFFICES ASSUME NEW q \in Inside(b.code, p, {"loop", "unsafe"}), OpenAt(b, q)
               PROVE  Covers(SubSeq(gs, 1, 2 + DepthAt(b, q)), w[q], BaseOf(b), Shown(b, q))
    BY DEF Stored
  <2>1. q \in Inside(b.code, i, {"loop", "unsafe"}) /\ q \in 1 .. Len(b.code) + 1 /\ DepthAt(b, q) < d
    BY <1>6, <1>7
  <2>2. DepthAt(b, q) \in Nat
    BY <1>0, <2>1, FormedFacts
  <2>3. 2 + DepthAt(b, q) \in 0 .. 2 + d
    BY <1>4, <2>1, <2>2
  <2>4. SubSeq(gs, 1, 2 + DepthAt(b, q)) = SubSeq(fs, 1, 2 + DepthAt(b, q))
    BY <1>9, <2>3
  <2>5. Covers(SubSeq(fs, 1, 2 + DepthAt(b, q)), w[q], BaseOf(b), Shown(b, q))
    BY <1>0, <2>1 DEF Stored
  <2> QED BY <2>4, <2>5
<1>13. Isolated(b, p, gs)
  <2>1. Inside(b.code, p, {"unsafe"}) \subseteq Inside(b.code, i, {"unsafe"})
    BY <1>6, <1>7
  <2>2. \A n \in 1 .. 2 + d : n \in 1 .. Len(fs)
    BY <1>4, <1>8
  <2> QED BY <1>0, <1>9, <2>1, <2>2 DEF Isolated
<1> QED BY <1>3, <1>4, <1>5, <1>10, <1>11, <1>12, <1>13 DEF Framed, gs

\* The innermost scope ends; what its chain knew of outer moves by way of a
\* branch is known without it.
LEMMA CoversLeft ==
  ASSUME NEW fs \in Stacks, NEW d \in Nat, Len(fs) = 3 + d, NEW base \in {1, 2},
         NEW es, NEW new, Grown(es, new, base + d), NEW N \in SUBSET Names, Covers(fs, es, base, N),
         \A m \in 0 .. d, x \in N : Holds(fs, 2 + m, x) # "unbound" => Holds(fs, 2 + d, x) # "unbound",
         Branch(es[base + d + 1]) =>
           \A y \in es[base + d + 1].moved : Known(new, base + d, y).region # "none" =>
             Known(new, base + d, y).moved /\ (Branch(new[base + d]) => y \in new[base + d].moved)
  PROVE  Covers(SubSeq(fs, 1, 2 + d), new, base, N)
<1> DEFINE gs == SubSeq(fs, 1, 2 + d)
<1>1. /\ gs \in Stacks /\ Len(gs) = 2 + d
      /\ \A k \in 0 .. 2 + d : \A x : Holds(gs, k, x) = Holds(fs, k, x)
  <2>1. 2 + d \in 0 .. Len(fs)
    OBVIOUS
  <2> QED BY <2>1, HoldsOuter
<1> HIDE DEF gs
<1>2. Len(gs) - 2 = d /\ Len(fs) - 2 = d + 1 /\ d \in 0 .. d + 1 /\ d \in 0 .. d
  BY <1>1
<1> SUFFICES ASSUME NEW m \in 0 .. d, NEW x \in N
             PROVE  /\ Holds(gs, 2 + m, x) # "unbound" =>
                         Known(new, base + m, x).region = RegionOf(Holds(gs, 2 + m, x))
                    /\ Holds(gs, 2 + m, x) = "moved" => Known(new, base + m, x).moved \/ Pending(new, base, m, d, x)
  BY <1>2 DEF Covers, gs
<1>3. /\ m \in 0 .. d + 1 /\ 2 + m \in 0 .. 2 + d /\ x \in Names
      /\ base + m \in 0 .. base + d /\ base + d \in 0 .. base + d
  OBVIOUS
<1>4. Holds(gs, 2 + m, x) = Holds(fs, 2 + m, x)
  BY <1>1, <1>3
<1>5. ASSUME NEW k \in 0 .. d + 1
      PROVE  /\ Holds(fs, 2 + k, x) # "unbound" =>
                  Known(es, base + k, x).region = RegionOf(Holds(fs, 2 + k, x))
             /\ Holds(fs, 2 + k, x) = "moved" => Known(es, base + k, x).moved \/ Pending(es, base, k, d + 1, x)
  BY <1>2 DEF Covers
<1>6. \A k \in 0 .. base + d : /\ Known(new, k, x).region = Known(es, k, x).region
                               /\ Known(es, k, x).moved => Known(new, k, x).moved
  BY <1>3 DEF Grown
<1>7. \A k \in 1 .. base + d : new[k].opening = es[k].opening /\ es[k].moved \subseteq new[k].moved
  BY DEF Grown
<1>8. ASSUME Holds(fs, 2 + m, x) = "moved", ~ Known(es, base + m, x).moved
      PROVE  Known(new, base + m, x).moved \/ Pending(new, base, m, d, x)
  <2>1. PICK l \in m + 1 .. d + 1 : /\ \A j \in m + 1 .. l : Branch(es[base + j])
                                    /\ x \in es[base + l].moved
    BY <1>3, <1>5, <1>8 DEF Pending
  <2>2. CASE l \in m + 1 .. d
    <3>1. \A j \in m + 1 .. l : base + j \in 1 .. base + d
      BY <2>2
    <3>2. \A j \in m + 1 .. l : Branch(new[base + j])
      BY <1>7, <2>1, <3>1 DEF Branch
    <3>3. base + l \in 1 .. base + d
      BY <2>2
    <3>4. x \in new[base + l].moved
      BY <1>7, <2>1, <3>3
    <3> QED BY <2>2, <3>2, <3>4 DEF Pending
  <2>3. CASE l = d + 1
    <3>1. base + l = base + d + 1 /\ l \in m + 1 .. l
      BY <2>3
    <3>2. Branch(es[base + d + 1]) /\ x \in es[base + d + 1].moved
      <4>1. Branch(es[base + l])
        BY <2>1, <3>1
      <4> QED BY <2>1, <3>1, <4>1
    <3>3. Known(new, base + d, x).region # "none"
      <4>1. Holds(fs, 2 + d, x) # "unbound"
        BY <1>8
      <4>2. Known(es, base + d, x).region = RegionOf(Holds(fs, 2 + d, x))
        BY <1>2, <1>5, <4>1
      <4> QED BY <1>3, <1>6, <4>2 DEF RegionOf
    <3>4. Known(new, base + d, x).moved /\ (Branch(new[base + d]) => x \in new[base + d].moved)
      BY <3>2, <3>3
    <3>5. CASE m = d
      BY <3>4, <3>5
    <3>6. CASE m # d
      <4>1. d \in m + 1 .. d /\ \A j \in m + 1 .. d : j \in m + 1 .. l /\ base + j \in 1 .. base + d
        BY <2>3, <3>6
      <4>2. \A j \in m + 1 .. d : Branch(new[base + j])
        BY <1>7, <2>1, <4>1 DEF Branch
      <4>3. x \in new[base + d].moved
        BY <3>4, <4>1, <4>2
      <4> QED BY <4>1, <4>2, <4>3 DEF Pending
    <3> QED BY <3>5, <3>6
  <2>4. l \in m + 1 .. d \/ l = d + 1
    OBVIOUS
  <2> QED BY <2>2, <2>3, <2>4
<1> QED BY <1>3, <1>4, <1>5, <1>6, <1>8

\* While the walk is directly in a scope, the chain around it grows.
LEMMA TailGrows ==
  ASSUME NEW b, NEW w, WalkOf(b, w), NEW o \in 1 .. Len(b.code),
         b.code[o].op \in Openings \ {"unsafe"}, OpenAt(b, o),
         NEW i \in o + 1 .. EndOf(b.code, o + 1), DepthAt(b, i) = DepthAt(b, o) + 1
  PROVE  LET e == EndOf(b.code, o + 1)
             n == BaseOf(b) + DepthAt(b, o)
         IN  /\ OpenAt(b, i) /\ OpenAt(b, e) /\ OpenAt(b, e + 1)
             /\ i \in 1 .. Len(b.code) /\ e \in 1 .. Len(b.code) /\ e + 1 \in 1 .. Len(b.code) + 1
             /\ e \in i .. Len(b.code) /\ b.code[e].op = "end"
             /\ \A t \in i .. e : DepthAt(b, t) >= DepthAt(b, o) + 1
             /\ w[i] \in Chains /\ Len(w[i]) = n + 1
             /\ w[e] \in Chains /\ Len(w[e]) = n + 1
             /\ n \in Nat /\ n > 0
             /\ Grown(w[i], w[e], n) /\ Grown(w[e], w[e + 1], n) /\ Grown(w[i], w[e + 1], n)
             /\ w[e + 1] = Stepped(w[e], b.code[e])
<1> DEFINE e == EndOf(b.code, o + 1)
           d == DepthAt(b, o)
           n == BaseOf(b) + d
<1>0. /\ IsBody(b) /\ Walked(b, w, Len(b.code) + 1) /\ b.code \in Seq(Token) /\ Balanced(b.code)
      /\ Len(b.code) \in Nat /\ b.code[o].op \in Openings /\ o \in 1 .. Len(b.code) + 1
      /\ BaseOf(b) \in {1, 2}
  BY FormedFacts DEF WalkOf, IsBody
<1>1. /\ e \in o + 1 .. Len(b.code) /\ b.code[e].op = "end" /\ Deeper(b.code, o + 1, e, d)
      /\ DepthAt(b, e) = d + 1
  BY <1>0, ScopeOf DEF DepthAt
<1>2. d \in Nat
  BY <1>0, FormedFacts
<1>3. o \in Nat /\ o >= 1 /\ e \in Int /\ e >= o + 1 /\ e <= Len(b.code) /\ i \in Int /\ i >= o + 1 /\ i <= e
  BY <1>0, <1>1
<1>4. /\ i \in 1 .. Len(b.code) /\ e \in 1 .. Len(b.code) /\ e + 1 \in 1 .. Len(b.code) + 1
      /\ e \in i .. Len(b.code) /\ i \in 1 .. e /\ e \in 1 .. Len(b.code) + 1 /\ i \in 1 .. Len(b.code) + 1
      /\ e \in o + 1 .. e
  BY ONLY <1>0, <1>3
<1>5. OpenAt(b, i) /\ OpenAt(b, e) /\ OpenAt(b, e + 1)
  BY <1>0, <1>1, <1>4, OpenOf
<1>6. \A t \in i .. e : DepthAt(b, t) >= d + 1
  <2> SUFFICES ASSUME NEW t \in i .. e PROVE DepthAt(b, t) >= d + 1
    OBVIOUS
  <2>1. t \in o + 1 .. e /\ t \in 1 .. Len(b.code) + 1
    BY ONLY <1>0, <1>3
  <2>2. DepthAt(b, t) > d
    BY <1>1, <2>1 DEF Deeper, DepthAt
  <2>3. DepthAt(b, t) \in Nat
    BY <1>0, <2>1, FormedFacts
  <2> QED BY <1>2, <2>2, <2>3
<1>7. /\ w[i] \in Chains /\ Len(w[i]) = n + 1
      /\ w[e] \in Chains /\ Len(w[e]) = n + 1
      /\ w[e + 1] = Stepped(w[e], b.code[e])
  <2>1. w[i] \in Chains /\ Len(w[i]) = n + 1
    <3>1. w[i] \in Chains /\ Len(w[i]) = BaseOf(b) + DepthAt(b, i) /\ BaseOf(b) \in {1, 2}
      BY <1>4, <1>5, WalkFacts
    <3>2. DepthAt(b, i) = d + 1
      BY <1>0
    <3> QED BY <1>2, <3>1, <3>2
  <2>2. /\ w[e] \in Chains /\ Len(w[e]) = BaseOf(b) + DepthAt(b, e)
        /\ w[NextOf(b, e)] = Stepped(w[e], b.code[e])
    BY <1>4, <1>5, WalkFacts
  <2>3. NextOf(b, e) = e + 1
    BY <1>1 DEF NextOf
  <2> QED BY <1>0, <1>1, <1>2, <2>1, <2>2, <2>3
<1>8. Grown(w[i], w[e], n)
  <2>1. WalkGrows(b, w, Len(b.code) + 1)
    BY <1>0 DEF Walked
  <2>2. Grown(w[i], w[e], BaseOf(b) + (d + 1) - 1)
    <3>1. d + 1 \in Nat
      BY <1>2
    <3> HIDE DEF e, d
    <3> QED BY <1>4, <1>5, <1>6, <2>1, <3>1 DEF WalkGrows
  <2>3. BaseOf(b) + (d + 1) - 1 = n
    BY <1>0, <1>2
  <2> QED BY <2>2, <2>3
<1>9. Grown(w[e], w[e + 1], n)
  <2>1. Len(w[e]) > 1 /\ Len(w[e]) - 1 = n
    BY <1>0, <1>2, <1>7
  <2>2. Grown(w[e], Stepped(w[e], b.code[e]), Len(w[e]) - 1)
    <3> HIDE DEF e
    <3> QED BY <1>0, <1>1, <1>4, <1>7, <2>1, SteppedEnd
  <2> QED BY <1>7, <2>1, <2>2
<1>10. Grown(w[i], w[e + 1], n)
  <2> HIDE DEF n, e
  <2> QED BY <1>8, <1>9, GrownTrans
<1>11. n \in Nat /\ n > 0
  BY <1>0, <1>2
<1> QED BY <1>1, <1>4, <1>5, <1>6, <1>7, <1>8, <1>9, <1>10, <1>11

\* So it does from the opening to what is behind the scope.
LEMMA ScopeGrows ==
  ASSUME NEW b, NEW w, WalkOf(b, w), NEW o \in 1 .. Len(b.code), b.code[o].op \in Openings, OpenAt(b, o)
  PROVE  /\ OpenAt(b, EndOf(b.code, o + 1) + 1)
         /\ Grown(w[o], w[EndOf(b.code, o + 1) + 1], BaseOf(b) + DepthAt(b, o))
<1> DEFINE e == EndOf(b.code, o + 1)
           n == BaseOf(b) + DepthAt(b, o)
<1>0. IsBody(b) /\ o \in 1 .. Len(b.code) + 1 /\ b.code \in Seq(Token) /\ Balanced(b.code)
  BY FormedFacts DEF WalkOf
<1>1. OpenAt(b, e + 1)
  BY <1>0, OpenOf
<1>2. /\ w[o] \in Chains /\ Len(w[o]) = n /\ Len(w[o]) > 0 /\ n \in Nat
      /\ w[NextOf(b, o)] = Stepped(w[o], b.code[o])
  BY <1>0, WalkFacts
<1>3. CASE b.code[o].op = "unsafe"
  <2>1. w[e + 1] = w[o]
    <3>1. NextOf(b, o) = e + 1
      BY <1>3 DEF NextOf
    <3>2. Stepped(w[o], b.code[o]) = w[o]
      BY <1>3, SteppedCases
    <3> QED BY <1>2, <3>1, <3>2
  <2> HIDE DEF n, e
  <2>2. n \in 0 .. Len(w[o]) /\ n <= Len(w[o])
    BY <1>2
  <2>3. Grown(w[o], w[o], n)
    BY <1>2, <2>2, GrownSame
  <2> QED BY <1>1, <2>1, <2>3 DEF n, e
<1>4. CASE b.code[o].op # "unsafe"
  <2>1. b.code[o].op \in Openings \ {"unsafe"} /\ NextOf(b, o) = o + 1
    BY <1>4 DEF NextOf
  <2>2. Grown(w[o], w[o + 1], n)
    BY <1>0, <1>2, <2>1, SteppedOpening
  <2>3. o + 1 \in o + 1 .. e /\ DepthAt(b, o + 1) = DepthAt(b, o) + 1
    <3>1. e \in o + 1 .. Len(b.code) /\ Depth(b.code, o + 1) = Depth(b.code, o) + 1
      BY <1>0, ScopeOf
    <3> QED BY <3>1 DEF DepthAt
  <2>4. Grown(w[o + 1], w[e + 1], n)
    BY <2>1, <2>3, TailGrows
  <2> HIDE DEF n, e
  <2>5. Grown(w[o], w[e + 1], n)
    BY <2>2, <2>4, GrownTrans
  <2> QED BY <1>1, <2>5 DEF n, e
<1> QED BY <1>3, <1>4

\* What a chain knows of a name that has been merged.
Merged(es, n, y) == Known(es, n, y).region # "none" => Known(es, n, y).moved /\ (Branch(es[n]) => y \in es[n].moved)

LEMMA MergedGrown ==
  ASSUME NEW es, NEW new, NEW n \in Nat, n > 0, Grown(es, new, n), NEW y \in Names, Merged(es, n, y)
  PROVE  Merged(new, n, y)
<1>1. n \in 0 .. n /\ n \in 1 .. n
  OBVIOUS
<1> QED BY <1>1 DEF Grown, Merged, Branch

\* What a branch moved is known behind the construct.
LEMMA BranchEnds ==
  ASSUME NEW b, NEW w, WalkOf(b, w), NEW o \in 1 .. Len(b.code),
         b.code[o].op \in Openings \ {"unsafe"}, OpenAt(b, o),
         NEW i \in o + 1 .. EndOf(b.code, o + 1), DepthAt(b, i) = DepthAt(b, o) + 1,
         i = EndOf(b.code, o + 1) \/ b.code[i].op \in Middles,
         Branch(w[i][BaseOf(b) + DepthAt(b, o) + 1]),
         NEW y \in w[i][BaseOf(b) + DepthAt(b, o) + 1].moved
  PROVE  Merged(w[EndOf(b.code, o + 1) + 1], BaseOf(b) + DepthAt(b, o), y)
<1> DEFINE e == EndOf(b.code, o + 1)
           d == DepthAt(b, o)
           n == BaseOf(b) + d
<1>0. /\ IsBody(b) /\ Walked(b, w, Len(b.code) + 1) /\ b.code \in Seq(Token) /\ Balanced(b.code)
      /\ b.code[o].op \in Openings /\ o \in 1 .. Len(b.code) + 1 /\ d \in Nat /\ BaseOf(b) \in {1, 2}
  <2>1. o \in 1 .. Len(b.code) + 1 /\ IsBody(b)
    BY FormedFacts DEF WalkOf
  <2> QED BY <2>1, FormedFacts DEF WalkOf, IsBody
<1>1. /\ OpenAt(b, i) /\ OpenAt(b, e) /\ OpenAt(b, e + 1)
      /\ i \in 1 .. Len(b.code) /\ e \in 1 .. Len(b.code) /\ e + 1 \in 1 .. Len(b.code) + 1
      /\ e \in i .. Len(b.code) /\ b.code[e].op = "end"
      /\ \A t \in i .. e : DepthAt(b, t) >= d + 1
      /\ w[i] \in Chains /\ Len(w[i]) = n + 1
      /\ w[e] \in Chains /\ Len(w[e]) = n + 1
      /\ n \in Nat /\ n > 0
      /\ Grown(w[i], w[e], n) /\ Grown(w[e], w[e + 1], n) /\ Grown(w[i], w[e + 1], n)
      /\ w[e + 1] = Stepped(w[e], b.code[e])
  BY TailGrows
<1>2. n + 1 \in 1 .. Len(w[i]) /\ Len(w[e]) > 1 /\ Len(w[i]) > 1 /\ Len(w[e]) - 1 = n /\ Len(w[i]) - 1 = n
      /\ n \in 1 .. Len(w[i]) /\ n \in 0 .. n /\ n \in 1 .. n
  <2>1. Len(w[i]) = n + 1 /\ Len(w[e]) = n + 1 /\ n \in Nat /\ n > 0
    BY <1>1
  <2> HIDE DEF n, e
  <2> QED BY ONLY <2>1
<1> HIDE DEF n, e
<1>a. w[i][n + 1].moved \in SUBSET Names
  <2>1. w[i][n + 1] \in Regions!Env
    BY <1>1, <1>2 DEF Chains
  <2> QED BY <2>1 DEF Regions!Env
<1>y. y \in w[i][n + 1].moved /\ y \in Names
  BY <1>a DEF n
<1>3. ASSUME y \in w[e][n + 1].moved \cup w[e][n + 1].earlier, Branch(w[e][n + 1])
      PROVE  Merged(w[e + 1], n, y)
  <2>1. LET new == Stepped(w[e], b.code[e])
        IN  Known(w[e], Len(w[e]) - 1, y).region # "none" =>
              /\ Known(new, Len(w[e]) - 1, y).moved
              /\ Branch(w[e][Len(w[e]) - 1]) => y \in new[Len(w[e]) - 1].moved
    <3>1. Len(w[e]) = n + 1
      BY <1>1
    <3> QED BY <1>0, <1>1, <1>2, <1>3, <3>1, SteppedEnd
  <2>2. Known(w[e], n, y).region # "none" =>
          Known(w[e + 1], n, y).moved /\ (Branch(w[e][n]) => y \in w[e + 1][n].moved)
    BY <1>1, <1>2, <2>1
  <2>3. Known(w[e + 1], n, y).region = Known(w[e], n, y).region /\ w[e + 1][n].opening = w[e][n].opening
    BY <1>1, <1>2, <1>y DEF Grown
  <2> QED BY <2>2, <2>3 DEF Merged, Branch
<1>4. CASE i = e
  <2>1. w[i] = w[e]
    BY <1>4
  <2> QED BY <1>3, <1>y, <2>1 DEF n, e
<1>5. CASE i # e
  <2>1. b.code[i].op \in Middles
    BY <1>5 DEF e
  <2>2. CASE b.code[i].op = "else"
    <3>1. i \in 1 .. e - 1 /\ e \in 1 .. Len(b.code) + 1
      <4>1. i \in Int /\ e \in Int /\ e >= i /\ i >= 1
        BY <1>1
      <4>2. i \in 1 .. e - 1
        BY ONLY <4>1, <1>5
      <4> QED BY <1>1, <4>2
    <3>2. \A t \in i .. e : DepthAt(b, t) >= DepthAt(b, i)
      BY <1>1
    <3>3. w[i][BaseOf(b) + DepthAt(b, i)].moved \subseteq w[e][BaseOf(b) + DepthAt(b, i)].earlier
      <4>1. WalkElses(b, w, Len(b.code) + 1)
        BY <1>0 DEF Walked
      <4> HIDE DEF d
      <4> QED BY <1>1, <2>2, <3>1, <3>2, <4>1 DEF WalkElses
    <3>4. BaseOf(b) + DepthAt(b, i) = n + 1
      BY <1>0 DEF n
    <3>5. y \in w[e][n + 1].earlier
      BY <1>y, <3>3, <3>4
    <3>6. Branch(w[e][n + 1])
      <4>1. e \in 1 .. Len(b.code) + 1 /\ o \in 1 .. e - 1 /\ Deeper(b.code, o + 1, e, d)
        <5>1. e \in o + 1 .. Len(b.code) /\ Deeper(b.code, o + 1, e, d)
          BY <1>0, ScopeOf DEF e, DepthAt
        <5>2. o \in Int /\ e \in Int /\ o >= 1 /\ o + 1 <= e
          BY <1>0, <5>1
        <5>3. o \in 1 .. e - 1
          BY ONLY <5>2
        <5> QED BY <3>1, <5>1, <5>3
      <4>2. w[e][BaseOf(b) + d + 1].opening = b.code[o].op
        <5>1. WalkShapes(b, w, Len(b.code) + 1)
          BY <1>0 DEF Walked
        <5> QED BY <1>0, <1>1, <4>1, <5>1 DEF WalkShapes
      <4>3. b.code[o].op = "if"
        <5>1. i \in o + 1 .. e /\ o \in 1 .. i - 1
          <6>1. i \in o + 1 .. e
            BY DEF e
          <6>2. o \in Int /\ o >= 1 /\ i \in Int /\ i >= o + 1
            BY <1>0, <1>1, <6>1
          <6>3. o \in 1 .. i - 1
            BY ONLY <6>2
          <6> QED BY <6>1, <6>3
        <5>2. \A t \in o + 1 .. i : t \in o + 1 .. e
          <6>1. o \in Int /\ i \in Int /\ e \in Int /\ i <= e
            BY <1>0, <1>1
          <6> QED BY ONLY <6>1
        <5>3. Deeper(b.code, o + 1, i, DepthAt(b, o))
          BY <4>1, <5>2 DEF Deeper
        <5> QED BY <1>0, <1>1, <2>1, <2>2, <5>1, <5>3, ConstructAround
      <4> QED BY <4>2, <4>3 DEF Branch, n
    <3>7. Merged(w[e + 1], n, y)
      BY <1>3, <3>5, <3>6
    <3> QED BY <3>7 DEF n, e
  <2>3. CASE b.code[i].op = "arm"
    <3> DEFINE es == w[i]
               merged == Regions!Merge(Regions!Outer(es), Regions!Top(es).moved)
               env == Regions!ArmEnv(Regions!Top(es).scrutinee, b.code[i].to)
    <3>1. w[i + 1] = Append(merged, env)
      <4>1. w[NextOf(b, i)] = Stepped(w[i], b.code[i])
        <5>1. i \in 1 .. Len(b.code) + 1 /\ i <= Len(b.code)
          BY <1>1
        <5> QED BY <1>1, <5>1, WalkFacts
      <4>2. NextOf(b, i) = i + 1
        BY <2>3 DEF NextOf
      <4>3. Stepped(w[i], b.code[i]) = Append(merged, env)
        BY <2>3, SteppedCases
      <4> QED BY <4>1, <4>2, <4>3
    <3>2. /\ Regions!Outer(es) \in Chains /\ Len(Regions!Outer(es)) = n
          /\ Regions!Top(es) = es[n + 1] /\ Regions!Top(es).moved \in SUBSET Names
          /\ Regions!Top(es).scrutinee \in Region
      BY <1>1, <1>2, WithoutTop DEF Regions!Region, Region
    <3>3. /\ merged \in Chains /\ Len(merged) = n
          /\ Known(Regions!Outer(es), n, y).region # "none" =>
               Known(merged, n, y).moved /\ (Branch(Regions!Outer(es)[n]) => y \in merged[n].moved)
          /\ Grown(Regions!Outer(es), merged, n)
      <4>1. Len(Regions!Outer(es)) > 0
        BY <1>1, <3>2
      <4>2. y \in Regions!Top(es).moved
        BY <1>y, <3>2
      <4> HIDE DEF es
      <4> QED BY <3>2, <4>1, <4>2, KnownMerged
    <3>4. Merged(merged, n, y)
      <4>1. /\ Known(merged, n, y).region = Known(Regions!Outer(es), n, y).region
            /\ merged[n].opening = Regions!Outer(es)[n].opening
        BY <1>2, <1>y, <3>3 DEF Grown
      <4> HIDE DEF merged
      <4> QED BY <3>3, <4>1 DEF Merged, Branch
    <3>5. env \in Regions!Env
      BY <3>2, NewEnvs
    <3> HIDE DEF merged, env, es
    <3>6. Grown(merged, w[i + 1], n)
      BY <3>1, <3>3, <3>5, KnownAppended
    <3>7. Merged(w[i + 1], n, y)
      BY <1>1, <1>y, <3>4, <3>6, MergedGrown
    <3>8. Grown(w[i + 1], w[e + 1], n)
      <4>1. i + 1 \in o + 1 .. EndOf(b.code, o + 1)
        <5>1. i \in Int /\ e \in Int /\ i <= e /\ i >= o + 1 /\ o \in Int
          BY <1>0, <1>1
        <5>2. i + 1 \in o + 1 .. e
          BY ONLY <1>5, <5>1
        <5> QED BY <5>2 DEF e
      <4>2. DepthAt(b, i + 1) = DepthAt(b, o) + 1
        BY <1>0, <1>1, <2>1, FormedFacts
      <4> QED BY <4>1, <4>2, TailGrows DEF n, e
    <3>9. Merged(w[e + 1], n, y)
      BY <1>1, <1>y, <3>7, <3>8, MergedGrown
    <3> QED BY <3>9 DEF n, e
  <2> QED BY <2>1, <2>2, <2>3 DEF Middles
<1> QED BY <1>4, <1>5

\* A lap or an unsafe block is left, by its end or from within.
LEMMA LeaveLoop ==
  ASSUME NEW b, NEW w, WalkOf(b, w), NEW o \in 1 .. Len(b.code), b.code[o].op \in {"loop", "unsafe"},
         NEW i \in o .. EndOf(b.code, o + 1), NEW fs, Follows(b, w, i, fs),
         NEW p \in {o, EndOf(b.code, o + 1) + 1}
  PROVE  Follows(b, w, p, SubSeq(fs, 1, 2 + DepthAt(b, o)))
<1> DEFINE e == EndOf(b.code, o + 1)
           d == DepthAt(b, o)
           gs == SubSeq(fs, 1, 2 + d)
           base == BaseOf(b)
<1>0. /\ IsBody(b) /\ Tame(b) /\ b.code \in Seq(Token) /\ Balanced(b.code) /\ Len(b.code) \in Nat
      /\ Framed(b, w, i, fs) /\ Stored(b, w, i, fs) /\ b.code[o].op \in Openings
      /\ o \in 1 .. Len(b.code) + 1 /\ base \in {1, 2}
  BY FormedFacts DEF WalkOf, Follows, Framed, Openings
<1>1. /\ Framed(b, w, p, gs) /\ d \in Nat /\ fs \in Stacks /\ Len(fs) = 2 + DepthAt(b, i)
      /\ d <= DepthAt(b, i) /\ i \in 1 .. Len(b.code) + 1
  BY <1>0, LeaveFramed
<1>2. e \in o + 1 .. Len(b.code)
  BY <1>0, ScopeOf
<1>3. Shown(b, o) = Names /\ Shown(b, i) = Names /\ Shown(b, p) = Names
  <2>1. ~ Straight(b)
    BY <1>0 DEF Straight
  <2>2. p \in 1 .. Len(b.code) + 1
    <3>1. e \in Int /\ e >= 1 /\ e <= Len(b.code)
      BY <1>2
    <3>2. p = o \/ p = e + 1
      OBVIOUS
    <3> QED BY ONLY <1>0, <3>1, <3>2
  <2> QED BY <1>0, <1>1, <2>1, <2>2, TameFacts
<1>4. OpenAt(b, o) => Covers(gs, w[o], base, Names)
  <2>1. CASE i = o
    <3>1. fs \in Seq(Run!Frame) /\ 2 + d = Len(fs) /\ Len(fs) \in 0 .. Len(fs)
      BY <1>1, <2>1 DEF Stacks
    <3>2. gs = fs
      BY <3>1, Prefix
    <3>3. OpenAt(b, o) => Covers(fs, w[o], base, Names)
      BY <1>3, <2>1 DEF Follows
    <3> HIDE DEF gs
    <3> QED BY <3>2, <3>3
  <2>2. CASE i # o
    <3>1. i \in o + 1 .. e
      <4>1. o \in Int /\ e \in Int /\ i \in Int /\ i >= o /\ i <= e
        BY <1>0, <1>1, <1>2
      <4> QED BY ONLY <2>2, <4>1
    <3>2. {"loop", "unsafe"} \in SUBSET Openings
      BY DEF Openings
    <3>3. o \in Inside(b.code, i, {"loop", "unsafe"})
      BY <1>0, <3>1, <3>2, InsideOf
    <3> QED BY <1>0, <1>3, <3>3 DEF Stored
  <2> QED BY <2>1, <2>2
<1>5. CASE p = o
  BY <1>1, <1>3, <1>4, <1>5 DEF Follows
<1>6. CASE p = e + 1
  <2>1. OpenAt(b, e + 1) <=> OpenAt(b, o)
    BY <1>0, OpenOf
  <2>2. ASSUME OpenAt(b, o) PROVE Covers(gs, w[e + 1], base, Names)
    <3>1. Grown(w[o], w[e + 1], base + d)
      BY <1>0, <2>2, ScopeGrows
    <3>2. gs \in Stacks /\ Len(gs) = 2 + d
      <4>1. d \in Nat /\ DepthAt(b, i) \in Nat
        BY <1>0, <1>1, FormedFacts
      <4> HIDE DEF d
      <4>2. 2 + d \in 0 .. Len(fs)
        BY <1>1, <4>1
      <4> QED BY <1>1, <4>2, HoldsOuter
    <3>3. Names \in SUBSET Names
      OBVIOUS
    <3> HIDE DEF gs, base, d, e
    <3> QED BY <1>0, <1>1, <1>4, <2>2, <3>1, <3>2, <3>3, CoversGrown
  <2> QED BY <1>1, <1>3, <1>6, <2>1, <2>2 DEF Follows
<1> QED BY <1>5, <1>6

\* A branch or a block is left at its end.
LEMMA LeaveEnd ==
  ASSUME NEW b, NEW w, WalkOf(b, w), NEW o \in 1 .. Len(b.code), b.code[o].op \in {"if", "match", "block"},
         NEW i \in o + 1 .. EndOf(b.code, o + 1), DepthAt(b, i) = DepthAt(b, o) + 1,
         i = EndOf(b.code, o + 1) \/ b.code[i].op \in Middles,
         NEW fs, Follows(b, w, i, fs)
  PROVE  Follows(b, w, EndOf(b.code, o + 1) + 1, SubSeq(fs, 1, 2 + DepthAt(b, o)))
<1> DEFINE e == EndOf(b.code, o + 1)
           d == DepthAt(b, o)
           gs == SubSeq(fs, 1, 2 + d)
           base == BaseOf(b)
<1>0. /\ IsBody(b) /\ Tame(b) /\ b.code \in Seq(Token) /\ Balanced(b.code) /\ Len(b.code) \in Nat
      /\ Framed(b, w, i, fs) /\ Scoped(b, i, fs) /\ b.code[o].op \in Openings
      /\ b.code[o].op \in Openings \ {"unsafe"}
      /\ o \in 1 .. Len(b.code) + 1 /\ base \in {1, 2}
  BY FormedFacts DEF WalkOf, Follows, Framed, Openings
<1>1. e \in o + 1 .. Len(b.code)
  BY <1>0, ScopeOf
<1>2. i \in o .. e /\ e + 1 \in 1 .. Len(b.code) + 1
  <2>1. o \in Int /\ e \in Int /\ i \in Int /\ i >= o /\ i <= e /\ e <= Len(b.code) /\ o >= 1
    BY <1>0, <1>1
  <2> QED BY ONLY <1>0, <2>1
<1>3. /\ Framed(b, w, e + 1, gs) /\ d \in Nat /\ fs \in Stacks /\ Len(fs) = 3 + d
      /\ i \in 1 .. Len(b.code) + 1
  <2>1. /\ Framed(b, w, e + 1, gs) /\ d \in Nat /\ fs \in Stacks /\ Len(fs) = 2 + DepthAt(b, i)
        /\ i \in 1 .. Len(b.code) + 1
    BY <1>0, <1>2, LeaveFramed
  <2>2. 2 + (d + 1) = 3 + d
    BY <2>1
  <2> QED BY <2>1, <2>2
<1>4. Shown(b, i) = Names /\ Shown(b, e + 1) = Names
  <2>1. ~ Straight(b)
    BY <1>0 DEF Straight
  <2> QED BY <1>0, <1>2, <1>3, <2>1, TameFacts
<1>5. ASSUME OpenAt(b, e + 1) PROVE Covers(gs, w[e + 1], base, Names)
  <2>1. OpenAt(b, o)
    BY <1>0, <1>5, OpenOf
  <2>2. OpenAt(b, i) /\ Grown(w[i], w[e + 1], base + d) /\ base + d \in Nat /\ base + d > 0
        /\ w[i] \in Chains /\ Len(w[i]) = base + d + 1
    BY <1>0, <2>1, TailGrows
  <2>3. Covers(fs, w[i], base, Names)
    BY <1>4, <2>2 DEF Follows
  <2>4. ASSUME Branch(w[i][base + d + 1]), NEW y \in w[i][base + d + 1].moved
        PROVE  Known(w[e + 1], base + d, y).region # "none" =>
                 Known(w[e + 1], base + d, y).moved /\ (Branch(w[e + 1][base + d]) => y \in w[e + 1][base + d].moved)
    <3>1. Merged(w[e + 1], base + d, y)
      BY <1>0, <2>1, <2>4, BranchEnds
    <3> QED BY <3>1 DEF Merged
  <2>5. ASSUME NEW m \in 0 .. d, NEW x \in Names, Holds(fs, 2 + m, x) # "unbound"
        PROVE  Holds(fs, 2 + d, x) # "unbound"
    <3>1. m \in 0 .. DepthAt(b, i) /\ d \in 0 .. DepthAt(b, i) /\ m <= d
      BY <1>3
    <3> QED BY <1>0, <2>5, <3>1, ScopedFacts
  <2>6. Names \in SUBSET Names
    OBVIOUS
  <2> HIDE DEF gs, base, d, e
  <2>7. Covers(SubSeq(fs, 1, 2 + d), w[e + 1], base, Names)
    BY <1>0, <1>3, <2>2, <2>3, <2>4, <2>5, <2>6, CoversLeft
  <2> QED BY <2>7 DEF gs
<1> QED BY <1>3, <1>4, <1>5 DEF Follows
-----------------------------------------------------------------------------
(***************************************************************************)
(* Every execution follows the walk.                                       *)
(***************************************************************************)
\* Before its first token, the execution has what the walk starts from.
LEMMA FirstFollows ==
  ASSUME IsBody(body), Run!Init, NEW w, WalkOf(body, w)
  PROVE  Follows(body, w, pc, frames)
<1>1. /\ pc = 1 /\ frames \in Stacks /\ Len(frames) = 2
      /\ \A n \in 1 .. 2, x \in Names :
           Holds(frames, n, x) = IF body.params[x] = "none" THEN "unbound" ELSE body.params[x]
  BY FirstFrames
<1>2. /\ Len(body.code) \in Nat /\ 1 \in 1 .. Len(body.code) + 1 /\ DepthAt(body, 1) = 0
      /\ BaseOf(body) \in {1, 2} /\ BaseOf(body) + 0 = BaseOf(body)
      /\ body.params \in [Names -> Region]
  BY FormedFacts
<1>3. \A X : Inside(body.code, 1, X) = {}
  <2>1. 1 .. 1 - 1 = {}
    OBVIOUS
  <2> QED BY <2>1 DEF Inside
<1>4. OpenAt(body, 1)
  BY <1>3 DEF OpenAt
<1>5. Scoped(body, 1, frames)
  <2>1. ASSUME NEW m \in 0 .. 0, NEW x \in Names
        PROVE  Holds(frames, 2 + m, x) # "unbound" <=> BoundTo(body, x, 1, m)
    <3>1. 2 + m = 2 /\ 2 \in 1 .. 2 /\ 1 .. 1 - 1 = {}
      BY <2>1
    <3>2. BoundTo(body, x, 1, m) <=> body.params[x] # "none"
      BY <3>1 DEF BoundTo
    <3>3. body.params[x] # "unbound"
      BY <1>2 DEF Region
    <3> QED BY <1>1, <3>1, <3>2, <3>3
  <2> QED BY <1>1, <1>2, <2>1 DEF Scoped
<1>6. Lent(body, frames)
  <2>1. \A n \in 1 .. 2, x \in Names : Holds(frames, n, x) = "borrowed" => body.params[x] = "borrowed"
    BY <1>1
  <2> QED BY <1>1, <2>1 DEF Lent, MayLend
<1>7. Stored(body, w, 1, frames) /\ Isolated(body, 1, frames)
  BY <1>3 DEF Stored, Isolated
<1>8. Covers(frames, w[1], BaseOf(body), Shown(body, 1))
  <2>1. w[1] = FirstChain(body)
    BY DEF WalkOf, Walked, WalkSteps
  <2>2. w[1] \in Chains /\ Len(w[1]) = BaseOf(body)
    <3>1. w[1] \in Chains /\ Len(w[1]) = BaseOf(body) + DepthAt(body, 1)
      BY <1>2, <1>4, WalkFacts
    <3> QED BY <1>2, <3>1
  <2>3. ASSUME NEW m \in 0 .. Len(frames) - 2, NEW x \in Shown(body, 1)
        PROVE  /\ Holds(frames, 2 + m, x) # "unbound" =>
                    Known(w[1], BaseOf(body) + m, x).region = RegionOf(Holds(frames, 2 + m, x))
               /\ Holds(frames, 2 + m, x) # "moved"
    <3>1. m = 0 /\ x \in Names /\ 2 + m = 2 /\ BaseOf(body) + m = Len(w[1]) /\ 2 \in 1 .. 2
      BY <1>1, <1>2, <2>2 DEF Shown
    <3>2. Known(w[1], BaseOf(body) + m, x) = Regions!Binding(body.params[x])
      <4>1. Known(w[1], Len(w[1]), x) = Regions!Get(w[1], x)
        BY <2>2, <3>1, KnownStep
      <4>2. Regions!Get(w[1], x) = Regions!Binding(body.params[x])
        BY <2>1, <2>2, <3>1, FirstKnown
      <4> QED BY <3>1, <4>1, <4>2
    <3>3. Regions!Binding(body.params[x]).region = body.params[x]
      BY DEF Regions!Binding
    <3>4. Holds(frames, 2 + m, x) = IF body.params[x] = "none" THEN "unbound" ELSE body.params[x]
      BY <1>1, <3>1
    <3>5. body.params[x] \in Region
      BY <1>2, <3>1
    <3> QED BY <3>2, <3>3, <3>4, <3>5 DEF Region, RegionOf
  <2> QED BY <2>3 DEF Covers
<1> QED BY <1>1, <1>5, <1>6, <1>7, <1>8 DEF Follows, Framed

LEMMA EmptyBranch ==
  ASSUME NEW b, NEW fs, NEW o, NEW j \in Int, b.code[j - 1].to \notin Names
  PROVE  BranchFrame(b, fs, o, j) = Run!EmptyFrame
<1> DEFINE y == b.code[j - 1].to
           slot == Run!Lookup(fs, b.code[o].of)
<1>1. BranchFrame(b, fs, o, j) = [x \in Names |-> IF x = y THEN slot ELSE "unbound"]
  BY DEF BranchFrame
<1>2. y \notin Names
  OBVIOUS
<1> HIDE DEF y, slot
<1> QED BY <1>1, <1>2 DEF Run!EmptyFrame

\* Every step of the execution follows the walk, back to a loop as well.
LEMMA RunFollows ==
  ASSUME IsBody(body), NEW w, WalkOf(body, w), Follows(body, w, pc, frames), Run!Next
  PROVE  body' = body /\ Follows(body, w, pc', frames')
<1> DEFINE code == body.code
<1>0. /\ Tame(body) /\ code \in Seq(Token) /\ Balanced(code) /\ Len(code) \in Nat
      /\ Scoped(body, pc, frames) /\ Run!Now = code[pc] /\ InPlace(code)
  BY FormedFacts DEF WalkOf, Follows, Framed, Run!Now, IsBody, WellFormedBody
<1>1. body' = body
  BY DEF Run!Next, Run!RunStatement, Run!RunReturn, Run!EnterBranch, Run!LeaveBranch, Run!StartLap,
     Run!SkipLoop, Run!EnterBlock, Run!LeaveScope, Run!Unwind, Run!Execute
<1>2. pc \in 1 .. Len(code) /\ pc \in 1 .. Len(code) + 1
  <2>1. pc <= Len(code)
    BY DEF Run!Next, Run!RunStatement, Run!RunReturn, Run!EnterBranch, Run!LeaveBranch, Run!StartLap,
       Run!SkipLoop, Run!EnterBlock, Run!LeaveScope, Run!Unwind, Run!Execute, Run!Running
  <2> QED BY <1>0, <2>1 DEF Scoped
<1>3. /\ DepthAt(body, pc) \in Nat /\ frames \in Stacks /\ Len(frames) = 2 + DepthAt(body, pc)
      /\ SubSeq(frames, 1, Len(frames)) = frames
  <2>1. DepthAt(body, pc) \in Nat /\ frames \in Stacks /\ Len(frames) = 2 + DepthAt(body, pc)
    BY <1>0, ScopedFacts
  <2>2. frames \in Seq(Run!Frame) /\ Len(frames) \in 0 .. Len(frames)
    BY <2>1 DEF Stacks
  <2> QED BY <2>1, <2>2, Prefix
<1>4. ASSUME NEW o \in 1 .. Len(code), DepthAt(body, pc) = DepthAt(body, o) + 1
      PROVE  Run!Pop(frames) = SubSeq(frames, 1, 2 + DepthAt(body, o))
  <2>1. o \in 1 .. Len(code) + 1
    BY <1>0
  <2>2. DepthAt(body, o) \in Nat
    BY <2>1, FormedFacts
  <2>3. Len(frames) - 1 = 2 + DepthAt(body, o)
    BY <1>3, <1>4, <2>2
  <2> QED BY <2>3 DEF Run!Pop
<1>5. CASE Run!RunStatement
  <2>1. pc' = pc + 1 /\ frames' = Ran(frames, code[pc])
    BY <1>5 DEF Run!RunStatement, Run!Now, Ran
  <2>2. code[pc].op \in Statements \ {"return", "break", "continue"}
    BY <1>0, <1>5 DEF Run!RunStatement, Run!Execute, Statements
  <2>3. Follows(body, w, pc + 1, Ran(frames, body.code[pc]))
    BY <1>2, <2>2, StatementFollows
  <2> QED BY <1>1, <2>1, <2>3
<1>6. CASE Run!RunReturn
  BY <1>1, <1>6 DEF Run!RunReturn
<1>7. CASE Run!EnterBranch
  <2>1. code[pc].op \in {"if", "match"}
    BY <1>0, <1>7 DEF Run!EnterBranch, Run!Execute
  <2>2. PICK j \in Run!BranchesOf(code, pc) :
          /\ pc' = j
          /\ frames' = Append(IF code[pc].op = "match" THEN Run!MovedOut(frames, code[pc].of) ELSE frames,
                              BranchFrame(body, frames, pc, j))
    BY <1>0, <1>7 DEF Run!EnterBranch, BranchFrame
  <2>3. j \in BranchesOf(body.code, pc)
    BY <2>2, SameStructure
  <2>4. CASE code[pc].op = "match"
    BY <1>1, <1>2, <2>2, <2>3, <2>4, MatchFollows
  <2>5. CASE code[pc].op = "if"
    <3>1. body.code[pc].op \in Openings \ {"match"}
      BY <2>5 DEF Openings
    <3>2. Follows(body, w, j, Append(frames, BranchFrame(body, frames, pc, j)))
      BY <1>2, <2>3, <3>1, EnterFollows
    <3> QED BY <1>1, <2>2, <2>5, <3>2
  <2> QED BY <2>1, <2>4, <2>5
<1>8. CASE Run!LeaveBranch
  <2> DEFINE e == EndOf(code, pc)
             o == OpeningOf(code, e)
  <2>1. code[pc].op \in Middles
    BY <1>0, <1>8, SameStructure DEF Run!LeaveBranch, Run!Execute
  <2>2. pc' = e + 1 /\ frames' = Run!Pop(frames)
    BY <1>8, SameStructure DEF Run!LeaveBranch
  <2>3. /\ e \in pc + 1 .. Len(code) /\ o \in 1 .. pc - 1
        /\ code[o].op \in {"if", "match", "block"}
        /\ EndOf(code, o + 1) = e
        /\ DepthAt(body, pc) = DepthAt(body, o) + 1
    <3>1. /\ e \in pc + 1 .. Len(code) /\ o \in 1 .. pc - 1
          /\ code[o].op = (IF code[pc].op = "else" THEN "if" ELSE "match")
          /\ EndOf(code, o + 1) = e
          /\ Depth(code, pc) = Depth(code, o) + 1
      BY <1>0, <1>2, <2>1, TheConstruct
    <3> HIDE DEF code, e, o
    <3>2. code[o].op \in {"if", "match", "block"}
      BY <3>1
    <3>3. DepthAt(body, pc) = DepthAt(body, o) + 1
      BY <3>1 DEF DepthAt, code
    <3> QED BY <3>1, <3>2, <3>3
  <2> HIDE DEF o, e
  <2>4. o \in 1 .. Len(code) /\ pc \in o + 1 .. EndOf(body.code, o + 1)
    <3>1. Len(code) \in Nat /\ pc \in 1 .. Len(code) /\ e \in pc + 1 .. Len(code) /\ o \in 1 .. pc - 1
      BY <1>0, <1>2, <2>3
    <3>2. EndOf(body.code, o + 1) = e
      BY <2>3
    <3> HIDE DEF code
    <3>3. o \in 1 .. Len(code) /\ pc \in o + 1 .. e
      BY ONLY <3>1
    <3> QED BY <3>2, <3>3
  <2>5. Follows(body, w, EndOf(body.code, o + 1) + 1, SubSeq(frames, 1, 2 + DepthAt(body, o)))
    <3>1. /\ WalkOf(body, w) /\ Follows(body, w, pc, frames)
          /\ o \in 1 .. Len(body.code) /\ body.code[o].op \in {"if", "match", "block"}
          /\ pc \in o + 1 .. EndOf(body.code, o + 1) /\ DepthAt(body, pc) = DepthAt(body, o) + 1
          /\ body.code[pc].op \in Middles
      BY <2>1, <2>3, <2>4
    <3> QED BY ONLY <3>1, LeaveEnd
  <2>6. Run!Pop(frames) = SubSeq(frames, 1, 2 + DepthAt(body, o))
    BY <1>4, <2>3, <2>4
  <2>7. pc' = EndOf(body.code, o + 1) + 1
    BY <2>2, <2>3
  <2> QED BY ONLY <1>1, <2>2, <2>5, <2>6, <2>7
<1>9. CASE Run!StartLap \/ Run!EnterBlock
  <2>1. code[pc].op \in {"loop", "block", "unsafe"} /\ pc' = pc + 1 /\ frames' = Append(frames, Run!EmptyFrame)
    BY <1>0, <1>9 DEF Run!StartLap, Run!EnterBlock, Run!Execute
  <2>2. pc + 1 \in BranchesOf(body.code, pc)
    BY DEF BranchesOf
  <2>3. body.code[pc].op \in Openings \ {"match"} /\ body.code[pc].op \in Openings /\ body.code[pc].op # "match"
    BY <2>1 DEF Openings
  <2>4. BranchFrame(body, frames, pc, pc + 1) = Run!EmptyFrame
    <3> DEFINE j == pc + 1
    <3>1. j \in BranchesOf(body.code, pc) /\ j \in Int
      BY <1>2, <2>2
    <3> HIDE DEF j
    <3>2. body.code[j - 1].to \notin Names
      BY <1>0, <1>2, <2>3, <3>1, BranchFacts
    <3>3. BranchFrame(body, frames, pc, j) = Run!EmptyFrame
      BY <3>1, <3>2, EmptyBranch
    <3> QED BY <3>3 DEF j
  <2>5. Follows(body, w, pc + 1, Append(frames, BranchFrame(body, frames, pc, pc + 1)))
    BY <1>2, <2>2, <2>3, EnterFollows
  <2> QED BY <1>1, <2>1, <2>4, <2>5
<1>10. CASE Run!SkipLoop
  <2>1. /\ body.code[pc].op \in {"loop", "unsafe"} /\ body.code[pc].op \in Openings
        /\ pc' = EndOf(body.code, pc + 1) + 1 /\ frames' = frames
    BY <1>0, <1>10, SameStructure DEF Run!SkipLoop, Run!Execute, Openings
  <2>2. pc \in pc .. EndOf(body.code, pc + 1)
    <3>1. EndOf(code, pc + 1) \in pc + 1 .. Len(code)
      BY <1>0, <1>2, <2>1, ScopeOf
    <3> QED BY <1>2, <3>1
  <2>3. Follows(body, w, EndOf(body.code, pc + 1) + 1, SubSeq(frames, 1, 2 + DepthAt(body, pc)))
    BY <1>2, <2>1, <2>2, LeaveLoop
  <2> QED BY <1>1, <1>3, <2>1, <2>3
<1>11. CASE Run!LeaveScope
  <2> DEFINE o == OpeningOf(code, pc)
  <2>1. /\ code[pc].op = "end" /\ frames' = Run!Pop(frames)
        /\ pc' = IF code[o].op = "loop" THEN o ELSE pc + 1
    BY <1>0, <1>11, SameStructure DEF Run!LeaveScope, Run!Execute
  <2>2. o \in 1 .. pc - 1 /\ code[o].op \in Openings /\ EndOf(code, o + 1) = pc
    BY <1>0, <1>2, <2>1, TheOpening
  <2> HIDE DEF o
  <2>3. o \in 1 .. Len(code) /\ pc \in o + 1 .. pc /\ pc \in o .. pc
    <3>1. pc \in Int /\ o \in Int /\ o >= 1 /\ o <= pc - 1 /\ pc <= Len(code)
      BY <1>0, <1>2, <2>2
    <3> QED BY ONLY <1>0, <3>1
  <2>4. DepthAt(body, pc) = DepthAt(body, o) + 1
    BY <1>0, <2>2, <2>3, ScopeOf DEF DepthAt
  <2>5. frames' = SubSeq(frames, 1, 2 + DepthAt(body, o))
    BY <1>4, <2>1, <2>3, <2>4
  <2>6. CASE code[o].op \in {"loop", "unsafe"}
    <3>1. pc' \in {o, EndOf(body.code, o + 1) + 1}
      BY <2>1, <2>2
    <3>2. Follows(body, w, pc', SubSeq(frames, 1, 2 + DepthAt(body, o)))
      BY <2>2, <2>3, <2>6, <3>1, LeaveLoop
    <3> QED BY <1>1, <2>5, <3>2
  <2>7. CASE code[o].op \in {"if", "match", "block"}
    <3>1. pc' = EndOf(body.code, o + 1) + 1
      BY <2>1, <2>2, <2>7
    <3>2. Follows(body, w, EndOf(body.code, o + 1) + 1, SubSeq(frames, 1, 2 + DepthAt(body, o)))
      BY <2>2, <2>3, <2>4, <2>7, LeaveEnd
    <3> QED BY <1>1, <2>5, <3>1, <3>2
  <2> QED BY <2>2, <2>6, <2>7 DEF Openings
<1>12. CASE Run!Unwind
  <2> DEFINE o == LoopOf(code, pc)
  <2>1. /\ code[pc].op \in {"break", "continue"}
        /\ pc' \in {o, EndOf(code, o + 1) + 1}
        /\ frames' = SubSeq(frames, 1, Len(frames) - (DepthAt(body, pc) - DepthAt(body, o)))
    BY <1>0, <1>12, SameStructure DEF Run!Unwind, Run!Execute, DepthAt
  <2>2. LoopsAround(code, pc) # {}
    BY <1>0, <1>2, <2>1 DEF InPlace
  <2>3. o \in 1 .. pc - 1 /\ code[o].op = "loop" /\ EndOf(code, o + 1) >= pc
    BY <1>0, <1>2, <2>2, TheLoop
  <2> HIDE DEF o
  <2>4. o \in 1 .. Len(code) /\ o \in 1 .. Len(code) + 1
    <3>1. pc \in Int /\ o \in Int /\ o >= 1 /\ o <= pc - 1 /\ pc <= Len(code)
      BY <1>0, <1>2, <2>3
    <3> QED BY ONLY <1>0, <3>1
  <2>5. pc \in o .. EndOf(body.code, o + 1)
    <3>1. EndOf(code, o + 1) \in o + 1 .. Len(code)
      BY <1>0, <2>3, <2>4, ScopeOf DEF Openings
    <3>2. pc \in Int /\ o \in Int /\ o <= pc - 1 /\ EndOf(code, o + 1) \in Int /\ EndOf(code, o + 1) >= pc
      BY <1>0, <1>2, <2>3, <3>1
    <3> HIDE DEF code
    <3>3. pc \in o .. EndOf(code, o + 1)
      BY ONLY <3>2
    <3> QED BY <3>3 DEF code
  <2>6. Len(frames) - (DepthAt(body, pc) - DepthAt(body, o)) = 2 + DepthAt(body, o)
    <3>1. DepthAt(body, o) \in Nat
      BY <2>4, FormedFacts
    <3> QED BY <1>3, <3>1
  <2>7. Follows(body, w, pc', SubSeq(frames, 1, 2 + DepthAt(body, o)))
    BY <2>1, <2>3, <2>4, <2>5, LeaveLoop
  <2> QED BY <1>1, <2>1, <2>6, <2>7
<1> QED BY <1>5, <1>6, <1>7, <1>8, <1>9, <1>10, <1>11, <1>12 DEF Run!Next
-----------------------------------------------------------------------------
(***************************************************************************)
(* What RegionChecker does not look at is left to MoveCheck: in a body with *)
(* captures, which is a straight one, no name is used after its capture.   *)
(***************************************************************************)
MoveInv ==
  /\ verdict # "none" => moveVerdict = "accepted"
  /\ Straight(body) /\ ~ body.toplevel =>
       /\ moveAt \in 1 .. Len(Code) + 1
       /\ movedSets \in Seq(SUBSET Names) /\ Len(movedSets) = 1
       /\ Names \ Shown(body, moveAt) \subseteq movedSets[1]
       /\ \A k \in 1 .. moveAt - 1 : Code[k].of # NoName => Code[k].of \in Shown(body, k)
       /\ moveVerdict = "accepted" => moveAt = Len(Code) + 1

LEMMA ShownNext ==
  ASSUME NEW b, NEW i \in Nat \ {0}
  PROVE  Shown(b, i + 1) = Shown(b, i) \ (IF b.code[i].op = "capture" THEN {b.code[i].of} ELSE {})
<1>1. \A k : k \in 1 .. (i + 1) - 1 <=> k \in 1 .. i - 1 \/ k = i
  OBVIOUS
<1> QED BY <1>1 DEF Shown

LEMMA MovesStart ==
  ASSUME BodyIsFormed, Moves!Init, verdict = "none"
  PROVE  MoveInv
<1>1. moveAt = 1 /\ movedSets = << {} >> /\ moveVerdict = "none"
  BY DEF Moves!Init
<1>2. 1 \in 1 .. Len(Code) + 1
  BY BodyFacts
<1>3. << {} >> \in Seq(SUBSET Names) /\ Len(<< {} >>) = 1
  OBVIOUS
<1>4. Names \ Shown(body, 1) = {} /\ \A k \in 1 .. 1 - 1 : FALSE
  <2>1. 1 .. 1 - 1 = {}
    OBVIOUS
  <2> QED BY <2>1 DEF Shown
<1> QED BY <1>1, <1>2, <1>3, <1>4 DEF MoveInv

LEMMA MovesStep ==
  ASSUME BodyIsFormed, MoveInv, Moves!Next, verdict' = verdict
  PROVE  MoveInv' /\ body' = body
<1>1. body' = body /\ moveVerdict = "none"
  BY DEF Moves!Next, Moves!Pass, Moves!Give, Moves!Capture, Moves!OpenFresh, Moves!OpenBlock,
     Moves!NextBranch, Moves!Close, Moves!SkipUnsafe, Moves!Reject, Moves!Accept, Moves!Walk
<1>2. Code' = Code /\ Len(Code) \in Nat /\ IsBody(body) /\ Straight(body)' = Straight(body)
      /\ body.toplevel' = body.toplevel /\ \A i : Shown(body, i)' = Shown(body, i)
  BY <1>1, BodyFacts DEF Code, IsBody, BodyIsFormed
<1>3. verdict' = "none"
  BY <1>1 DEF MoveInv
<1>4. ASSUME Straight(body), ~ body.toplevel
      PROVE  /\ moveAt' \in 1 .. Len(Code) + 1
             /\ movedSets' \in Seq(SUBSET Names) /\ Len(movedSets') = 1
             /\ Names \ Shown(body, moveAt') \subseteq movedSets'[1]
             /\ \A k \in 1 .. moveAt' - 1 : Code[k].of # NoName => Code[k].of \in Shown(body, k)
             /\ moveVerdict' = "accepted" => moveAt' = Len(Code) + 1
  <2>0. /\ moveAt \in 1 .. Len(Code) + 1
        /\ movedSets \in Seq(SUBSET Names) /\ Len(movedSets) = 1
        /\ Names \ Shown(body, moveAt) \subseteq movedSets[1]
        /\ \A k \in 1 .. moveAt - 1 : Code[k].of # NoName => Code[k].of \in Shown(body, k)
    BY <1>4 DEF MoveInv
  <2>1. CASE Moves!Reject \/ Moves!Accept
    <3>1. moveAt' = moveAt /\ movedSets' = movedSets
      BY <2>1 DEF Moves!Reject, Moves!Accept
    <3>2. moveVerdict' = "accepted" => moveAt = Len(Code) + 1
      BY <1>2, <1>4, <2>0, <2>1 DEF Moves!Reject, Moves!Accept, Code
    <3> QED BY <2>0, <3>1, <3>2
  <2>2. CASE ~ (Moves!Reject \/ Moves!Accept)
    <3> DEFINE t == Code[moveAt]
    <3>1. moveAt <= Len(Code)
      BY <2>2 DEF Moves!Next, Moves!Pass, Moves!Give, Moves!Capture, Moves!OpenFresh, Moves!OpenBlock,
         Moves!NextBranch, Moves!Close, Moves!SkipUnsafe, Moves!Walk, Code
    <3>2. moveAt \in 1 .. Len(Code) /\ moveAt \in Nat \ {0} /\ t.op \in Simple
      BY <1>2, <1>4, <2>0, <3>1, StraightFacts DEF Code
    <3>3. Moves!Here = t
      BY DEF Moves!Here, Code
    <3>4. Moves!Pass \/ Moves!Give \/ Moves!Capture
      BY <2>2, <3>2, <3>3 DEF Moves!Next, Moves!OpenFresh, Moves!OpenBlock, Moves!NextBranch, Moves!Close,
         Moves!SkipUnsafe, Moves!Walk, Moves!Middles, Simple, Statements
    <3>5. /\ moveAt' = moveAt + 1 /\ moveVerdict' = "none"
          /\ t.of # NoName => t.of \notin movedSets[1]
      BY <1>1, <2>0, <3>3, <3>4 DEF Moves!Pass, Moves!Give, Moves!Capture, Moves!Walk, Moves!UsesMoved, Moves!Innermost
    <3>6. t.of # NoName => t.of \in Names
      BY <1>2, <3>2, FormedFacts DEF Code
    <3>7. t.op \in {"give", "capture"} => t.of \in Names
      BY <1>2, <3>2, FormedFacts DEF Code
    <3> HIDE DEF t
    <3>8. /\ movedSets' \in Seq(SUBSET Names) /\ Len(movedSets') = 1
          /\ movedSets[1] \subseteq movedSets'[1]
          /\ t.op = "capture" => t.of \in movedSets'[1]
      <4>1. ASSUME NEW x \in Names
            PROVE  LET new == [movedSets EXCEPT ![Len(movedSets)] = @ \cup {x}]
                   IN  new \in Seq(SUBSET Names) /\ Len(new) = 1 /\ new[1] = movedSets[1] \cup {x}
        BY <2>0
      <4>2. CASE Moves!Pass
        BY <2>0, <3>3, <4>2 DEF Moves!Pass, Moves!Walk
      <4>3. CASE Moves!Give
        <5>1. t.op = "give" /\ t.of \in Names
          BY <3>3, <3>7, <4>3 DEF Moves!Give, Moves!Walk
        <5>2. movedSets' = movedSets \/ movedSets' = [movedSets EXCEPT ![Len(movedSets)] = @ \cup {t.of}]
          BY <3>3, <4>3 DEF Moves!Give
        <5> QED BY <2>0, <4>1, <5>1, <5>2
      <4>4. CASE Moves!Capture
        <5>1. t.op = "capture" /\ t.of \in Names
          BY <3>3, <3>7, <4>4 DEF Moves!Capture, Moves!Walk
        <5>2. movedSets' = [movedSets EXCEPT ![Len(movedSets)] = @ \cup {t.of}]
          BY <3>3, <4>4 DEF Moves!Capture
        <5> QED BY <4>1, <5>1, <5>2
      <4> QED BY <3>4, <4>2, <4>3, <4>4
    <3>9. Names \ Shown(body, moveAt + 1) \subseteq movedSets'[1]
      <4>1. Shown(body, moveAt + 1) = Shown(body, moveAt) \ (IF t.op = "capture" THEN {t.of} ELSE {})
        BY <3>2, ShownNext DEF t, Code
      <4> QED BY <2>0, <3>8, <4>1
    <3>10. ASSUME NEW k \in 1 .. (moveAt + 1) - 1, Code[k].of # NoName PROVE Code[k].of \in Shown(body, k)
      <4>1. CASE k = moveAt
        BY <2>0, <3>5, <3>6, <3>10, <4>1 DEF t
      <4>2. CASE k # moveAt
        <5>1. k \in 1 .. moveAt - 1
          BY <3>2, <4>2
        <5> QED BY <2>0, <3>10, <5>1
      <4> QED BY <4>1, <4>2
    <3>11. moveAt + 1 \in 1 .. Len(Code) + 1
      BY <1>2, <3>2
    <3> QED BY <3>5, <3>8, <3>9, <3>10, <3>11
  <2> QED BY <2>1, <2>2
<1> QED BY <1>1, <1>2, <1>3, <1>4 DEF MoveInv
-----------------------------------------------------------------------------
(***************************************************************************)
(* The invariant: the two passes one after the other, then the execution.  *)
(***************************************************************************)
\* What holds of all bodies, and what of the tame ones when they are executed.
TameInv ==
  /\ MoveInv
  /\ verdict = "accepted" /\ Tame(body) => Follows(body, Snapshots, pc, frames)

LEMMA AcceptedWalk ==
  WalkInv /\ verdict = "accepted" /\ Tame(body) => WalkOf(body, Snapshots)
<1> SUFFICES ASSUME WalkInv, verdict = "accepted", Tame(body) PROVE WalkOf(body, Snapshots)
  OBVIOUS
<1>1. IsBody(body) /\ at = Len(body.code) + 1
  BY DEF WalkInv, CheckerType, BodyIsFormed, IsBody, Code
<1>2. Quiet(body)
  BY <1>1, TameFacts
<1> QED BY <1>1, <1>2 DEF WalkInv, WalkOf

LEMMA ExecutionStarts ==
  WalkInv /\ verdict = "accepted" /\ Tame(body) /\ Run!Init => Follows(body, Snapshots, pc, frames)
<1> SUFFICES ASSUME WalkInv, verdict = "accepted", Tame(body), Run!Init
             PROVE  Follows(body, Snapshots, pc, frames)
  OBVIOUS
<1>1. WalkOf(body, Snapshots) /\ IsBody(body)
  BY AcceptedWalk DEF WalkOf
<1> QED BY <1>1, FirstFollows

LEMMA TameExecution == Spec => []TameInv
<1>1. Init => TameInv
  <2> SUFFICES ASSUME Init PROVE TameInv
    OBVIOUS
  <2>1. BodyIsFormed /\ Moves!Init /\ verdict = "none"
    BY BodiesAssumption DEF Init, Regions!Init, BodyIsFormed
  <2> QED BY <2>1, MovesStart DEF TameInv
<1>2. TameInv /\ StraightInv /\ StraightInv' /\ [Next]_vars => TameInv'
  <2> SUFFICES ASSUME TameInv, StraightInv, StraightInv', [Next]_vars PROVE TameInv'
    OBVIOUS
  <2>0. BodyIsFormed /\ IsBody(body) /\ WalkInv /\ WalkInv'
    BY DEF StraightInv, WalkInv, CheckerType, BodyIsFormed, IsBody
  <2>1. CASE CheckRegions
    <3>1. /\ Regions!Next /\ verdict = "none" /\ UNCHANGED <<moveAt, movedSets, moveVerdict, pc, frames, laps, returned>>
          /\ moveVerdict = "accepted"
      BY <2>1 DEF CheckRegions, runOnly, movesOnly, Regions!Next, Regions!Bind, Regions!Copy, Regions!Read,
         Regions!Consume, Regions!OpenIf, Regions!Else, Regions!OpenMatch, Regions!Arm, Regions!Yield,
         Regions!OpenScope, Regions!SkipUnsafe, Regions!Close, Regions!Reject, Regions!Accept, Regions!Walk
    <3>2. body' = body
      BY <3>1 DEF Regions!Next, Regions!Bind, Regions!Copy, Regions!Read,
         Regions!Consume, Regions!OpenIf, Regions!Else, Regions!OpenMatch, Regions!Arm, Regions!Yield,
         Regions!OpenScope, Regions!SkipUnsafe, Regions!Close, Regions!Reject, Regions!Accept, Regions!Walk
    <3>3. MoveInv'
      BY <3>1, <3>2 DEF TameInv, MoveInv, Code
    <3>4. Run!Init'
      BY <3>1, <3>2 DEF StraightInv, Run!Init
    <3>5. (WalkInv /\ verdict = "accepted" /\ Tame(body) /\ Run!Init => Follows(body, Snapshots, pc, frames))'
      BY ExecutionStarts, PTL
    <3> QED BY <2>0, <3>3, <3>4, <3>5 DEF TameInv
  <2>2. CASE Execute
    <3>1. Run!Next /\ verdict # "none" /\ UNCHANGED <<at, envs, verdict, trace, moveAt, movedSets, moveVerdict>>
      BY <2>2 DEF Execute, regionsOnly, movesOnly
    <3>2. body' = body
      BY <3>1 DEF Run!Next, Run!RunStatement, Run!RunReturn, Run!EnterBranch, Run!LeaveBranch,
         Run!StartLap, Run!SkipLoop, Run!EnterBlock, Run!LeaveScope, Run!Unwind, Run!Execute
    <3>3. MoveInv'
      BY <3>1, <3>2 DEF TameInv, MoveInv, Code
    <3>4. ASSUME verdict = "accepted", Tame(body) PROVE Follows(body, Snapshots, pc', frames')
      <4>1. WalkOf(body, Snapshots) /\ Follows(body, Snapshots, pc, frames)
        BY <2>0, <3>4, AcceptedWalk DEF TameInv
      <4> QED BY <2>0, <3>1, <4>1, RunFollows
    <3>5. Snapshots' = Snapshots
      BY <3>1 DEF Snapshots
    <3> QED BY <3>1, <3>2, <3>3, <3>4, <3>5 DEF TameInv
  <2>3. CASE CheckMoves
    <3>1. Moves!Next /\ UNCHANGED <<at, envs, verdict, trace, pc, frames>>
      BY <2>3 DEF CheckMoves, regionsOnly, runOnly
    <3>2. MoveInv' /\ body' = body
      BY <2>0, <3>1, MovesStep DEF TameInv
    <3>3. Snapshots' = Snapshots
      BY <3>1 DEF Snapshots
    <3> QED BY <3>1, <3>2, <3>3 DEF TameInv
  <2>4. CASE UNCHANGED vars
    <3>1. UNCHANGED <<body, at, envs, verdict, trace, pc, frames, moveAt, movedSets, moveVerdict>>
      BY <2>4 DEF vars, regionsOnly, runOnly, movesOnly
    <3>2. Snapshots' = Snapshots
      BY <3>1 DEF Snapshots
    <3> QED BY <3>1, <3>2 DEF TameInv, MoveInv, Code
  <2> QED BY <2>1, <2>2, <2>3, <2>4 DEF Next
<1> QED BY <1>1, <1>2, WalkAndExecution, PTL DEF Spec
-----------------------------------------------------------------------------
(***************************************************************************)
(* What a token that is executed finds in the frames.                      *)
(***************************************************************************)
\* A token that is executed uses no name that was captured before.
LEMMA UsesShown ==
  ASSUME IsBody(body), Tame(body), MoveInv, verdict = "accepted",
         NEW i \in 1 .. Len(body.code), body.code[i].of \in Names
  PROVE  body.code[i].of \in Shown(body, i)
<1>0. Len(body.code) \in Nat /\ i \in 1 .. Len(body.code) + 1 /\ body.code[i].of # NoName
  BY FormedFacts, NamesAssumption
<1>1. CASE ~ Straight(body)
  BY <1>0, <1>1, TameFacts
<1>2. CASE Straight(body) /\ ~ body.toplevel
  <2>1. moveAt = Len(body.code) + 1
    BY <1>2 DEF MoveInv, Code
  <2>2. i \in 1 .. moveAt - 1
    BY <1>0, <2>1
  <2> QED BY <1>0, <1>2, <2>2 DEF MoveInv, Code
<1>3. CASE body.toplevel
  <2>1. \A j \in 1 .. i - 1 : j \in 1 .. Len(body.code)
    BY <1>0
  <2>2. \A j \in 1 .. i - 1 : body.code[j].op # "capture"
    BY <1>3, <2>1 DEF Tame
  <2> QED BY <2>2 DEF Shown
<1> QED BY <1>1, <1>2, <1>3

\* At the level of the token itself, nothing is pending.
LEMMA KnownHere ==
  ASSUME NEW b, NEW w, WalkOf(b, w), NEW i, NEW fs, Follows(b, w, i, fs), OpenAt(b, i),
         NEW x \in Shown(b, i)
  PROVE  LET slot == Run!Lookup(fs, x)
             info == Regions!Get(w[i], x)
         IN  /\ slot = "moved" => info.moved
             /\ slot = "borrowed" => info.region = "borrowed"
<1> DEFINE d == DepthAt(b, i)
           base == BaseOf(b)
<1>1. IsBody(b) /\ Tame(b) /\ Scoped(b, i, fs) /\ i \in 1 .. Len(b.code) + 1 /\ x \in Names
      /\ Covers(fs, w[i], base, Shown(b, i))
  BY DEF WalkOf, Follows, Framed, Scoped, Shown
<1>2. d \in Nat /\ Len(fs) = 2 + d /\ Run!Lookup(fs, x) = Holds(fs, 2 + d, x)
  BY <1>1, ScopedFacts
<1>3. w[i] \in Chains /\ Len(w[i]) = base + d
  BY <1>1, WalkFacts
<1>4. Known(w[i], base + d, x) = Regions!Get(w[i], x)
  BY <1>1, <1>3, KnownStep
<1> HIDE DEF base, d
<1>5. d \in 0 .. Len(fs) - 2 /\ Len(fs) - 2 = d
  BY <1>2
<1>6. ~ Pending(w[i], base, d, d, x)
  <2>1. d + 1 .. d = {}
    BY <1>2
  <2> QED BY <2>1 DEF Pending
<1>7. /\ Holds(fs, 2 + d, x) # "unbound" =>
           Known(w[i], base + d, x).region = RegionOf(Holds(fs, 2 + d, x))
      /\ Holds(fs, 2 + d, x) = "moved" =>
           Known(w[i], base + d, x).moved \/ Pending(w[i], base, d, d, x)
  BY <1>1, <1>5 DEF Covers
<1> QED BY <1>2, <1>4, <1>6, <1>7 DEF RegionOf

\* What an unsafe block uses it has bound itself.
LEMMA OwnInside ==
  ASSUME NEW b, NEW w, WalkOf(b, w), NEW i \in 1 .. Len(b.code), NEW fs, Follows(b, w, i, fs),
         ~ OpenAt(b, i), b.code[i].of \in Names
  PROVE  Run!Lookup(fs, b.code[i].of) \in {"unbound", "owned"} /\ b.code[i].op \notin MovesOut
<1> DEFINE x == b.code[i].of
           U == {"unsafe"}
<1>0. IsBody(b) /\ Tame(b) /\ Scoped(b, i, fs) /\ Isolated(b, i, fs)
      /\ Len(b.code) \in Nat /\ b \in BodyType /\ b.code \in Seq(Token) /\ Balanced(b.code)
  BY FormedFacts DEF WalkOf, Follows, Framed, IsBody
<1>1. PICK u \in Inside(b.code, i, U) : TRUE
  BY DEF OpenAt
<1>2. b.code[i].op \notin MovesOut /\ ~ Bound(b, x, u)
  <2>1. x # NoName
    BY NamesAssumption
  <2> QED BY <1>0, <1>1, <2>1, TameFacts
<1>3. u \in 1 .. i - 1 /\ b.code[u].op = "unsafe" /\ EndOf(b.code, u + 1) >= i
  BY <1>1 DEF Inside
<1>4. u \in 1 .. Len(b.code) /\ u \in 1 .. Len(b.code) + 1 /\ i \in u + 1 .. Len(b.code) + 1
  BY <1>0, <1>3
<1>5. Deeper(b.code, u + 1, i, Depth(b.code, u)) /\ DepthAt(b, u) \in Nat /\ DepthAt(b, i) > DepthAt(b, u)
  <2>1. /\ EndOf(b.code, u + 1) \in u + 1 .. Len(b.code)
        /\ Deeper(b.code, u + 1, EndOf(b.code, u + 1), Depth(b.code, u))
    BY <1>0, <1>3, <1>4, ScopeOf DEF Openings
  <2>2. \A t \in u + 1 .. i : t \in u + 1 .. EndOf(b.code, u + 1)
    BY <1>3, <1>4, <2>1
  <2>3. i \in u + 1 .. i
    BY <1>4
  <2>4. DepthAt(b, u) \in Nat
    BY <1>0, <1>4, FormedFacts
  <2> QED BY <2>1, <2>2, <2>3, <2>4 DEF Deeper, DepthAt
<1> DEFINE d == DepthAt(b, i)
           l == DepthAt(b, u)
<1>6. fs \in Stacks /\ Len(fs) = 2 + d /\ d \in Nat /\ Run!Lookup(fs, x) = Holds(fs, 2 + d, x)
  BY <1>0, ScopedFacts
<1>7. Holds(fs, 2 + l, x) = "unbound"
  <2>1. l \in 0 .. DepthAt(b, i)
    BY <1>5, <1>6
  <2>2. ASSUME Holds(fs, 2 + l, x) # "unbound" PROVE FALSE
    <3>1. BoundTo(b, x, i, l)
      BY <1>0, <2>1, <2>2 DEF Scoped
    <3>2. l \in Nat /\ l <= Depth(b.code, u)
      BY <1>5 DEF DepthAt
    <3>3. Bound(b, x, u)
      BY <1>0, <1>4, <1>5, <3>1, <3>2, BoundOutside
    <3> QED BY <1>2, <3>3
  <2> QED BY <2>2
<1>8. CASE Run!FramesWith(fs, x) = {}
  BY <1>2, <1>6, <1>8, Holder
<1>9. CASE Run!FramesWith(fs, x) # {}
  <2> DEFINE h == Run!Innermost(Run!FramesWith(fs, x))
  <2>1. HeldAt(fs, x, h) /\ \A n \in h .. Len(fs) : Holds(fs, n, x) = fs[h][x]
    BY <1>6, <1>9, Holder
  <2> HIDE DEF h
  <2>2. h \in 1 .. Len(fs) /\ fs[h][x] # "unbound"
    BY <2>1 DEF HeldAt
  <2> HIDE DEF x, d, l
  <2>3. h >= 3 + l
    <3>1. ASSUME h <= 2 + l PROVE FALSE
      <4>1. 2 + l \in h .. Len(fs)
        BY <1>5, <1>6, <2>2, <3>1 DEF d, l
      <4> QED BY <1>7, <2>1, <2>2, <4>1
    <3> QED BY <1>5, <2>2, <3>1 DEF l
  <2>4. fs[h][x] \in {"unbound", "owned"}
    BY <1>0, <1>1, <2>2, <2>3 DEF Isolated, l, x, U
  <2>5. Holds(fs, 2 + d, x) = fs[h][x]
    BY <1>6, <2>1, <2>2
  <2> QED BY <1>2, <1>6, <2>4, <2>5 DEF x
<1> QED BY <1>8, <1>9

\* Wherever an accepted body is executed, the walk has passed.
LEMMA RunsAlong ==
  ASSUME StraightInv, TameInv, Tame(body), Accepted, Run!Running
  PROVE  /\ IsBody(body) /\ MoveInv /\ WalkOf(body, Snapshots) /\ Follows(body, Snapshots, pc, frames)
         /\ pc \in 1 .. Len(body.code) /\ Run!Now = body.code[pc]
         /\ at = Len(body.code) + 1 /\ Snapshots[pc] = trace[pc]
<1>1. WalkOf(body, Snapshots) /\ IsBody(body) /\ Follows(body, Snapshots, pc, frames) /\ MoveInv
  BY AcceptedWalk DEF StraightInv, TameInv, Accepted, WalkOf
<1>2. at = Len(body.code) + 1 /\ Len(body.code) \in Nat
  BY <1>1, FormedFacts DEF StraightInv, WalkInv, Accepted, Code
<1>3. pc \in 1 .. Len(body.code)
  BY <1>1, <1>2 DEF Follows, Framed, Scoped, Run!Running
<1>4. pc \in 1 .. at /\ pc # at
  BY <1>2, <1>3
<1>5. Snapshots[pc] = trace[pc]
  BY <1>4 DEF Snapshots
<1> QED BY <1>1, <1>2, <1>3, <1>5 DEF Run!Now
-----------------------------------------------------------------------------
(***************************************************************************)
(* What the two passes are for: no execution of an accepted tame body uses *)
(* a name after its value has been moved away, whatever the body, its      *)
(* names and the number of its laps, by whatever branches, breaks and      *)
(* unsafe blocks the execution came there.                                 *)
(***************************************************************************)
THEOREM TameUsesNothingMoved == Spec => [](Tame(body) => NeverUsesMoved)
<1>1. StraightInv /\ TameInv => (Tame(body) => NeverUsesMoved)
  <2> SUFFICES ASSUME StraightInv, TameInv, Tame(body), Accepted, Run!Running, Run!Now.of # NoName
               PROVE  Slot(Run!Now.of) # "moved"
    BY DEF NeverUsesMoved
  <2> DEFINE x == body.code[pc].of
  <2>1. /\ IsBody(body) /\ MoveInv /\ WalkOf(body, Snapshots) /\ Follows(body, Snapshots, pc, frames)
        /\ pc \in 1 .. Len(body.code) /\ Run!Now = body.code[pc]
    BY RunsAlong
  <2>2. x \in Names /\ pc \in 1 .. Len(body.code) + 1 /\ Len(body.code) \in Nat
    BY <2>1, FormedFacts
  <2>3. CASE OpenAt(body, pc)
    <3>1. x \in Shown(body, pc)
      BY <2>1, <2>2, UsesShown DEF Accepted
    <3>2. Slot(x) = "moved" => Regions!Get(Snapshots[pc], x).moved
      BY <2>1, <2>3, <3>1, KnownHere DEF Slot
    <3>3. Passes(Snapshots[pc], body.code[pc])
      BY <2>1, <2>2, <2>3, WalkFacts
    <3> QED BY <2>1, <3>2, <3>3 DEF Passes
  <2>4. CASE ~ OpenAt(body, pc)
    BY <2>1, <2>2, <2>4, OwnInside DEF Slot
  <2> QED BY <2>3, <2>4
<1> QED BY <1>1, WalkAndExecution, TameExecution, PTL

(***************************************************************************)
(* No execution of an accepted tame body gives away, stores or returns     *)
(* what its caller has only lent, under whatever name a match bound it.    *)
(***************************************************************************)
THEOREM TameMovesNothingBorrowed == Spec => [](Tame(body) => NeverMovesBorrowed)
<1>1. StraightInv /\ TameInv => (Tame(body) => NeverMovesBorrowed)
  <2> SUFFICES ASSUME StraightInv, TameInv, Tame(body), Accepted, Run!Running,
                      Run!Now.op \in Regions!Consuming
               PROVE  Slot(Run!Now.of) # "borrowed"
    BY DEF NeverMovesBorrowed
  <2> DEFINE x == body.code[pc].of
  <2>1. /\ IsBody(body) /\ MoveInv /\ WalkOf(body, Snapshots) /\ Follows(body, Snapshots, pc, frames)
        /\ pc \in 1 .. Len(body.code) /\ Run!Now = body.code[pc]
    BY RunsAlong
  <2>2. x \in Names /\ pc \in 1 .. Len(body.code) + 1 /\ Len(body.code) \in Nat
    BY <2>1, FormedFacts DEF Regions!Consuming
  <2>3. CASE OpenAt(body, pc)
    <3>1. x \in Shown(body, pc)
      BY <2>1, <2>2, UsesShown DEF Accepted
    <3>2. Slot(x) = "borrowed" => Regions!Get(Snapshots[pc], x).region = "borrowed"
      BY <2>1, <2>3, <3>1, KnownHere DEF Slot
    <3>3. Passes(Snapshots[pc], body.code[pc])
      BY <2>1, <2>2, <2>3, WalkFacts
    <3> QED BY <2>1, <3>2, <3>3 DEF Passes
  <2>4. CASE ~ OpenAt(body, pc)
    BY <2>1, <2>2, <2>4, OwnInside DEF Slot
  <2> QED BY <2>3, <2>4
<1> QED BY <1>1, WalkAndExecution, TameExecution, PTL

(***************************************************************************)
(* RegionChecker has been wherever an accepted tame body is executed, and  *)
(* what it knew there covers every execution that comes to this token.     *)
(***************************************************************************)
THEOREM TameWalkCovers == Spec => [](Tame(body) => WalkCoversExecution)
<1>1. StraightInv /\ TameInv => (Tame(body) => WalkCoversExecution)
  <2> SUFFICES ASSUME StraightInv, TameInv, Tame(body), Accepted, Run!Running,
                      Inside(body.code, pc, {"unsafe"}) = {}
               PROVE  /\ trace[pc] # << >>
                      /\ \A x \in Names \ Captured(body) :
                           /\ Slot(x) = "moved" => Regions!Get(trace[pc], x).moved
                           /\ Slot(x) = "borrowed" => Regions!Get(trace[pc], x).region = "borrowed"
    BY DEF WalkCoversExecution
  <2>1. /\ IsBody(body) /\ WalkOf(body, Snapshots) /\ Follows(body, Snapshots, pc, frames)
        /\ pc \in 1 .. Len(body.code) /\ Snapshots[pc] = trace[pc] /\ OpenAt(body, pc)
    BY RunsAlong DEF OpenAt
  <2>2. pc \in 1 .. Len(body.code) + 1 /\ Len(body.code) \in Nat
    BY <2>1, FormedFacts
  <2>3. trace[pc] # << >>
    <3>1. Len(Snapshots[pc]) > 0
      BY <2>1, <2>2, WalkFacts
    <3>2. Len(<< >>) = 0
      OBVIOUS
    <3> QED BY <2>1, <3>1, <3>2
  <2>4. ASSUME NEW x \in Names \ Captured(body) PROVE x \in Shown(body, pc)
    <3>1. \A j \in 1 .. pc - 1 : j \in 1 .. Len(body.code)
      BY <2>2
    <3> QED BY <3>1, <2>4 DEF Shown, Captured
  <2>5. ASSUME NEW x \in Names \ Captured(body)
        PROVE  /\ Slot(x) = "moved" => Regions!Get(trace[pc], x).moved
               /\ Slot(x) = "borrowed" => Regions!Get(trace[pc], x).region = "borrowed"
    BY <2>1, <2>4, KnownHere DEF Slot
  <2> QED BY <2>3, <2>5
<1> QED BY <1>1, WalkAndExecution, TameExecution, PTL
=============================================================================
