------------------------------ MODULE FoldRule ------------------------------
(***************************************************************************)
(* What FoldLeft computes, for an operator given as a constant. A proof    *)
(* about a fold instantiates this module with the fold's own operator and  *)
(* gets its results step by step: partial[k] is the fold of the first k    *)
(* elements.                                                               *)
(***************************************************************************)
EXTENDS Naturals, SequencesExt, TLAPS, NaturalsInduction, WellFoundedInduction

CONSTANT Op(_, _)

Fold(base, seq) == FoldLeft(Op, base, seq)

\* The fold of the elements of seq at the positions in s, given those of
\* smaller sets of positions.
FoldStep(base, seq, iter, s) ==
    IF s = {} THEN base ELSE Op(iter[s \ {Max(s)}], seq[Max(s)])

\* A set of natural numbers that is not empty has a least element.
LEMMA LeastNumber ==
    ASSUME NEW T \in SUBSET Nat, T # {}
    PROVE  \E x \in T : \A y \in T : x <= y
<1> DEFINE R == {p \in Nat \X Nat : p[1] < p[2]}
<1>1. IsWellFoundedOn(R, Nat)
  BY NatLessThanWellFounded DEF OpToRel
<1>2. PICK x \in T : \A y \in T : <<y, x>> \notin R
  BY <1>1, WFMin
<1>3. ASSUME NEW y \in T  PROVE x <= y
  <2>1. x \in Nat /\ y \in Nat
    OBVIOUS
  <2>2. ~(y < x)
    BY <1>2, <2>1
  <2> QED  BY <2>1, <2>2
<1> QED  BY <1>3

\* The greatest of the positions up to k is one of them.
LEMMA GreatestPosition ==
    ASSUME NEW k \in Nat, NEW s \in SUBSET (1 .. k), s # {}
    PROVE  Max(s) \in s /\ \A y \in s : Max(s) >= y
<1> DEFINE T == {k - x : x \in s}
<1>1. T \in SUBSET Nat /\ T # {}
  <2>1. \A x \in s : x \in 1 .. k
    OBVIOUS
  <2>2. \A x \in 1 .. k : k - x \in Nat
    OBVIOUS
  <2> QED  BY <2>1, <2>2
<1>2. PICK d \in T : \A y \in T : d <= y
  <2> HIDE DEF T
  <2> QED  BY <1>1, LeastNumber
<1>3. PICK x \in s : d = k - x
  OBVIOUS
<1>4. ASSUME NEW y \in s  PROVE x >= y
  <2>1. k - y \in T
    OBVIOUS
  <2>2. k - x <= k - y
    BY <1>2, <1>3, <2>1
  <2>3. x \in Nat /\ y \in Nat
    OBVIOUS
  <2> QED  BY <2>2, <2>3
<1>5. \E z \in s : \A y \in s : z >= y
  BY <1>4
<1> QED  BY <1>5 DEF Max

\* The recursion of the fold has a solution: that for the positions up to k - 1
\* gives that for the positions up to k.
LEMMA FoldsExist ==
    ASSUME NEW n \in Nat, NEW base, NEW seq
    PROVE  \E iter : iter = [s \in SUBSET (1 .. n) |-> FoldStep(base, seq, iter, s)]
<1> DEFINE Solved(k) == \E iter : iter = [s \in SUBSET (1 .. k) |-> FoldStep(base, seq, iter, s)]
           Open == {k \in Nat : ~ Solved(k)}
<1>1. Solved(0)
  <2> DEFINE g == [s \in SUBSET (1 .. 0) |-> base]
  <2>1. \A s \in SUBSET (1 .. 0) : FoldStep(base, seq, g, s) = base
    BY DEF FoldStep
  <2>2. g = [s \in SUBSET (1 .. 0) |-> FoldStep(base, seq, g, s)]
    BY <2>1
  <2> QED  BY <2>2
<1>2. ASSUME NEW k \in Nat, k # 0, Solved(k - 1)  PROVE Solved(k)
  <2>1. PICK h : h = [s \in SUBSET (1 .. k - 1) |-> FoldStep(base, seq, h, s)]
    BY <1>2
  <2> DEFINE g == [s \in SUBSET (1 .. k) |-> FoldStep(base, seq, h, s)]
  <2>2. ASSUME NEW t \in SUBSET (1 .. k - 1)  PROVE t \in SUBSET (1 .. k) /\ g[t] = h[t]
    <3>1. t \in SUBSET (1 .. k)
      BY <1>2
    <3>2. h[t] = FoldStep(base, seq, h, t)
      BY <2>1
    <3> QED  BY <3>1, <3>2
  <2>3. ASSUME NEW s \in SUBSET (1 .. k)
        PROVE  FoldStep(base, seq, g, s) = FoldStep(base, seq, h, s)
    <3>1. CASE s = {}
      BY <3>1 DEF FoldStep
    <3>2. CASE s # {}
      <4>1. Max(s) \in s /\ \A y \in s : Max(s) >= y
        BY <3>2, GreatestPosition
      <4>2. ASSUME NEW y \in s \ {Max(s)}  PROVE y \in 1 .. k - 1
        <5>1. y \in 1 .. k /\ Max(s) \in 1 .. k /\ Max(s) >= y /\ y # Max(s)
          BY <4>1
        <5> QED  BY <5>1
      <4>3. g[s \ {Max(s)}] = h[s \ {Max(s)}]
        BY <2>2, <4>2
      <4> HIDE DEF g
      <4> QED  BY <3>2, <4>3 DEF FoldStep
    <3> QED  BY <3>1, <3>2
  <2>4. g = [s \in SUBSET (1 .. k) |-> FoldStep(base, seq, g, s)]
    BY <2>3
  <2> QED  BY <2>4
<1>3. Open = {}
  <2> SUFFICES ASSUME Open # {}  PROVE FALSE
    OBVIOUS
  <2>1. PICK k \in Open : \A j \in Open : k <= j
    BY LeastNumber
  <2>2. k \in Nat /\ k # 0
    BY <1>1
  <2>3. k - 1 \in Nat /\ ~(k <= k - 1)
    BY <2>2
  <2>4. Solved(k - 1)
    BY <2>1, <2>3
  <2> QED  BY <1>2, <2>2, <2>4
<1> QED  BY <1>3

\* A fold from left to right goes through one partial result for each element.
LEMMA FoldSteps ==
    ASSUME NEW n \in Nat, NEW base, NEW seq, DOMAIN seq = 1 .. n
    PROVE  \E partial :
               /\ partial[0] = base
               /\ \A k \in 1 .. n : partial[k] = Op(partial[k - 1], seq[k])
               /\ Fold(base, seq) = partial[n]
<1> DEFINE g == CHOOSE iter : iter = [s \in SUBSET (1 .. n) |-> FoldStep(base, seq, iter, s)]
           p == [k \in 0 .. n |-> g[1 .. k]]
<1>1. g = [s \in SUBSET (1 .. n) |-> FoldStep(base, seq, g, s)]
  BY FoldsExist
<1>2. Fold(base, seq) = g[1 .. n]
  BY DEF Fold, FoldLeft, MapThenFoldSet, FoldStep
<1> HIDE DEF g
<1>3. p[0] = base
  <2>1. 1 .. 0 = {} /\ 1 .. 0 \in SUBSET (1 .. n)
    OBVIOUS
  <2>2. g[1 .. 0] = base
    BY <1>1, <2>1 DEF FoldStep
  <2> QED  BY <2>2
<1>4. ASSUME NEW k \in 1 .. n  PROVE p[k] = Op(p[k - 1], seq[k])
  <2>1. 1 .. k \in SUBSET (1 .. n) /\ k \in 1 .. k /\ k \in Nat
    OBVIOUS
  <2>2. Max(1 .. k) \in 1 .. k /\ \A y \in 1 .. k : Max(1 .. k) >= y
    BY <2>1, GreatestPosition
  <2>3. Max(1 .. k) = k
    <3>1. Max(1 .. k) >= k
      BY <2>1, <2>2
    <3> QED  BY <2>2, <3>1
  <2>4. (1 .. k) \ {k} = 1 .. k - 1
    OBVIOUS
  <2>5. 1 .. k # {}
    BY <2>1
  <2>6. g[1 .. k] = Op(g[1 .. k - 1], seq[k])
    BY <1>1, <2>1, <2>3, <2>4, <2>5 DEF FoldStep
  <2>7. p[k] = g[1 .. k] /\ p[k - 1] = g[1 .. k - 1]
    OBVIOUS
  <2> HIDE DEF p
  <2> QED  BY <2>6, <2>7
<1>5. p[n] = g[1 .. n]
  OBVIOUS
<1> HIDE DEF p
<1> QED  BY <1>2, <1>3, <1>4, <1>5
=============================================================================
