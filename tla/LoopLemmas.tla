------------------------------ MODULE LoopLemmas ------------------------------
(***************************************************************************)
(* What the loops of a model add up: left folds over lists and sums over   *)
(* sets, for lists and sets of any length.                                 *)
(*                                                                         *)
(* No induction theorem of the library can be used here (they take an      *)
(* operator as a parameter), so induction is done on sets: the numbers, or *)
(* the subsets of a finite set, that are not in T have a least member, and *)
(* what is said of members smaller than it contradicts that.  A recursive  *)
(* function is the same: its equation is shown to have a solution, put     *)
(* together from the solutions on smaller sets, and the function, chosen   *)
(* among the solutions, is one of them.                                    *)
(***************************************************************************)
EXTENDS SequencesExt, SequenceTheorems, FiniteSetTheorems, TLAPS

\* A set of numbers that is not empty has a least one.
LEMMA LeastNumber ==
  ASSUME NEW T \in SUBSET Nat, T # {}
  PROVE  \E x \in T : \A y \in T : x <= y
<1> DEFINE Less == OpToRel(<, Nat)
<1>1. Less = {ss \in Nat \X Nat : ss[1] < ss[2]}
  BY Zenon DEF OpToRel
<1>2. IsWellFoundedOn(Less, Nat)
  BY NatLessThanWellFounded
<1> HIDE DEF Less
<1>3. PICK x \in T : \A y \in T : ~(<<y, x>> \in Less)
  BY <1>2, WFMin, Zenon
<1>4. ASSUME NEW y \in T, y < x PROVE FALSE
  <2> DEFINE ss == <<y, x>>
  <2>1. ss \in Nat \X Nat /\ ss[1] = y /\ ss[2] = x
    OBVIOUS
  <2>2. ss \in Less
    BY <1>1, <1>4, <2>1
  <2> QED BY <2>2, <1>3
<1> QED BY <1>4

\* What holds of 0, and of i + 1 if it holds of i, holds up to n.
LEMMA RangeInduction ==
  ASSUME NEW n \in Nat, NEW T, 0 \in T, \A i \in 0..(n - 1) : i \in T => i + 1 \in T
  PROVE  0..n \subseteq T
<1>1. SUFFICES ASSUME (0..n) \ T # {} PROVE FALSE
  OBVIOUS
<1>2. PICK x \in (0..n) \ T : \A y \in (0..n) \ T : x <= y
  <2> DEFINE left == (0..n) \ T
  <2>1. left \in SUBSET Nat /\ left # {}
    BY <1>1
  <2> HIDE DEF left
  <2>2. \E x \in left : \A y \in left : x <= y
    BY <2>1, LeastNumber
  <2> QED BY <2>2 DEF left
<1>3. x - 1 \in 0..(n-1) /\ x - 1 \in T
  BY <1>2
<1> QED BY <1>2, <1>3

\* A member no other one exceeds is the greatest.
LEMMA MaxIsLast ==
  ASSUME NEW n \in Int, NEW s, n \in s, \A i \in s : i \in Int /\ i <= n
  PROVE  Max(s) = n
<1>1. \E x \in s : \A y \in s : x >= y
  OBVIOUS
<1>2. Max(s) \in s /\ \A y \in s : Max(s) >= y
  BY <1>1, Zenon DEF Max
<1>3. Max(s) \in Int
  BY <1>2
<1> QED BY <1>2, <1>3

\* A set of positions that is not empty has a greatest one.
LEMMA MaxIsIn ==
  ASSUME NEW n \in Nat, NEW s \in SUBSET (1..n), s # {}
  PROVE  Max(s) \in s /\ \A i \in s : i <= Max(s)
<1> DEFINE over == {n - i : i \in s}
<1>0. PICK i \in s : TRUE
  OBVIOUS
<1>1. over \in SUBSET Nat /\ over # {}
  <2>1. \A j \in s : n - j \in Nat
    OBVIOUS
  <2>2. n - i \in over
    OBVIOUS
  <2> QED BY <2>1, <2>2
<1> HIDE DEF over
<1>2. PICK d \in over : \A e \in over : d <= e
  BY <1>1, LeastNumber
<1>3. PICK j \in s : d = n - j
  BY <1>2 DEF over
<1>4. \A k \in s : n - k \in over
  BY DEF over
<1>5. \A k \in s : k <= j
  BY <1>2, <1>3, <1>4
<1>6. j \in Int /\ \A k \in s : k \in Int /\ k <= j
  BY <1>5
<1>7. Max(s) = j
  BY <1>6, MaxIsLast
<1> QED BY <1>5, <1>7

\* f takes every set of positions to what a loop over them leaves, from base
\* on, when G takes what there was before a turn to what there is after it.
\* FoldLeft is such an f on the set of all positions.
Loops(f, n, S, base, G) ==
    /\ f \in [SUBSET (1..n) -> S]
    /\ \A s \in SUBSET (1..n) :
         f[s] = IF s = {} THEN base ELSE G[Max(s)][f[s \ {Max(s)}]]

\* There is such a loop for any turn G: the sets of positions up to i have one,
\* and it goes on to those up to i + 1.
LEMMA LoopExists ==
  ASSUME NEW n \in Nat, NEW S, NEW base \in S, NEW G \in [1..n -> [S -> S]]
  PROVE  \E f : Loops(f, n, S, base, G)
<1> DEFINE Iterates(g, k) == \A s \in SUBSET (1..k) :
             g[s] = IF s = {} THEN base ELSE G[Max(s)][g[s \ {Max(s)}]]
           T == {k \in 0..n : \E g \in [SUBSET (1..k) -> S] : Iterates(g, k)}
<1>1. 0 \in T
  <2> DEFINE g == [s \in SUBSET (1..0) |-> base]
  <2>1. g \in [SUBSET (1..0) -> S]
    OBVIOUS
  <2>2. Iterates(g, 0)
    OBVIOUS
  <2>3. \E f \in [SUBSET (1..0) -> S] : Iterates(f, 0)
    BY <2>1, <2>2
  <2>4. 0 \in 0..n
    OBVIOUS
  <2> HIDE DEF g, Iterates
  <2> QED BY <2>3, <2>4, Zenon
<1>2. ASSUME NEW k \in 0..(n - 1), k \in T
      PROVE  k + 1 \in T
  <2>1. PICK g \in [SUBSET (1..k) -> S] : Iterates(g, k)
    BY <1>2
  <2> DEFINE h == [s \in SUBSET (1..(k + 1)) |->
                     IF k + 1 \in s THEN G[k + 1][g[s \ {k + 1}]] ELSE g[s]]
  <2>2. h \in [SUBSET (1..(k + 1)) -> S]
    <3> SUFFICES ASSUME NEW s \in SUBSET (1..(k + 1)) PROVE h[s] \in S
      OBVIOUS
    <3>1. CASE k + 1 \in s
      <4>1. s \ {k + 1} \in SUBSET (1..k)
        BY <3>1
      <4>2. g[s \ {k + 1}] \in S /\ G[k + 1] \in [S -> S]
        BY <4>1
      <4> QED BY <4>2, <3>1
    <3>2. CASE k + 1 \notin s
      <4>1. s \in SUBSET (1..k)
        BY <3>2
      <4> QED BY <4>1, <3>2
    <3> QED BY <3>1, <3>2
  <2>3. Iterates(h, k + 1)
    <3> SUFFICES ASSUME NEW s \in SUBSET (1..(k + 1))
                 PROVE  h[s] = IF s = {} THEN base ELSE G[Max(s)][h[s \ {Max(s)}]]
      OBVIOUS
    <3>1. CASE k + 1 \in s
      <4>0. k + 1 \in Int /\ \A i \in s : i \in Int /\ i <= k + 1
        OBVIOUS
      <4>1. s # {} /\ Max(s) = k + 1
        BY ONLY <3>1, <4>0, MaxIsLast
      <4>2. /\ s \ {k + 1} \in SUBSET (1..k)
            /\ s \ {k + 1} \in SUBSET (1..(k + 1))
        BY <3>1
      <4>3. h[s \ {k + 1}] = g[s \ {k + 1}]
        BY <4>2
      <4>4. h[s] = G[k + 1][g[s \ {k + 1}]]
        BY <3>1
      <4> QED BY <4>1, <4>3, <4>4
    <3>2. CASE k + 1 \notin s
      <4>1. s \in SUBSET (1..k)
        BY <3>2
      <4>2. h[s] = g[s]
        BY <3>2
      <4>3. CASE s # {}
        <5> DEFINE last == Max(s)
        <5>0. k \in Nat
          OBVIOUS
        <5>1. last \in s
          BY ONLY <4>1, <4>3, <5>0, MaxIsIn
        <5> HIDE DEF last
        <5>2. /\ s \ {last} \in SUBSET (1..k)
              /\ s \ {last} \in SUBSET (1..(k + 1))
              /\ k + 1 \notin s \ {last}
          BY <4>1, <3>2
        <5>3. h[s \ {last}] = g[s \ {last}]
          BY <5>2
        <5>4. g[s] = G[last][g[s \ {last}]]
          BY <2>1, <4>1, <4>3 DEF last
        <5> QED BY <4>2, <4>3, <5>3, <5>4 DEF last
      <4>4. CASE s = {}
        <5>1. g[s] = base
          BY <2>1, <4>1, <4>4
        <5> QED BY <4>2, <4>4, <5>1
      <4> QED BY <4>3, <4>4
    <3> QED BY <3>1, <3>2
  <2>4. k + 1 \in 0..n
    OBVIOUS
  <2> HIDE DEF h, Iterates
  <2> QED BY <2>2, <2>3, <2>4
<1> HIDE DEF T
<1>3. \A k \in 0..(n - 1) : k \in T => k + 1 \in T
  BY <1>2
<1>4. 0..n \subseteq T
  BY <1>1, <1>3, RangeInduction
<1>5. n \in T
  BY <1>4
<1> QED BY <1>5 DEF T, Loops

-----------------------------------------------------------------------------
\* What holds of a subset of a finite set if it holds of that subset without
\* any one of its members holds of all subsets.
LEMMA SubsetInduction ==
  ASSUME NEW S, IsFiniteSet(S), NEW T,
         \A s \in SUBSET S : (\A x \in s : s \ {x} \in T) => s \in T
  PROVE  SUBSET S \subseteq T
<1> DEFINE n == Cardinality(S)
           U == {k \in 0..n : \A s \in SUBSET S : Cardinality(s) = k => s \in T}
<1>1. n \in Nat
  BY FS_CardinalityType
<1>2. \A s \in SUBSET S : IsFiniteSet(s) /\ Cardinality(s) \in 0..n
  <2> SUFFICES ASSUME NEW s \in SUBSET S
               PROVE  IsFiniteSet(s) /\ Cardinality(s) \in 0..n
    OBVIOUS
  <2>1. IsFiniteSet(s) /\ Cardinality(s) <= n
    BY FS_Subset
  <2>2. Cardinality(s) \in Nat
    BY <2>1, FS_CardinalityType
  <2> QED BY <2>1, <2>2, <1>1
<1>3. 0 \in U
  <2>1. \A s \in SUBSET S : Cardinality(s) = 0 => s = {}
    BY <1>2, FS_EmptySet
  <2>2. 0 \in 0..n
    BY <1>1
  <2>3. {} \in T
    OBVIOUS
  <2> QED BY <2>1, <2>2, <2>3
<1>4. ASSUME NEW k \in 0..(n - 1), k \in U
      PROVE  k + 1 \in U
  <2>1. k + 1 \in 0..n
    BY <1>1
  <2>2. ASSUME NEW s \in SUBSET S, Cardinality(s) = k + 1
        PROVE  s \in T
    <3>1. ASSUME NEW x \in s PROVE Cardinality(s \ {x}) = k
      <4>1. Cardinality(s \ {x}) = Cardinality(s) - 1
        BY <1>2, FS_RemoveElement
      <4> QED BY <1>1, <2>2, <4>1
    <3>2. \A x \in s : s \ {x} \in T
      BY <1>4, <3>1
    <3> QED BY <3>2
  <2> QED BY <2>1, <2>2
<1> HIDE DEF U, n
<1>5. 0..n \subseteq U
  <2>1. \A k \in 0..(n - 1) : k \in U => k + 1 \in U
    BY <1>4
  <2> QED BY <1>1, <1>3, <2>1, RangeInduction
<1> QED BY <1>2, <1>5 DEF U

-----------------------------------------------------------------------------
\* The member that a sum takes next.
Pick(s) == CHOOSE x \in s : TRUE

\* The function SumFunctionOnSet is defined by.
PartialSums(g, f, S) ==
    g = [s \in SUBSET S |-> IF s = {} THEN 0 ELSE f[Pick(s)] + g[s \ {Pick(s)}]]

\* f has an integer for every member of a finite set.
Counting(f, S) == IsFiniteSet(S) /\ \A x \in S : f[x] \in Int

\* The member that is taken is one.
LEMMA PickIsIn == ASSUME NEW s, s # {} PROVE Pick(s) \in s
BY DEF Pick

\* A sum is the value of that function for the whole set.
LEMMA SumUnfolds ==
  ASSUME NEW f, NEW S
  PROVE  SumFunctionOnSet(f, S) = (CHOOSE g : PartialSums(g, f, S))[S]
BY DEF SumFunctionOnSet, FoldFunctionOnSet, MapThenFoldSet, PartialSums, Pick

\* There are partial sums: of every subset, if there are of the subset without
\* the member that is taken.
LEMMA PartialSumsExist ==
  ASSUME NEW f, NEW S, Counting(f, S)
  PROVE  \E g : PartialSums(g, f, S)
<1> DEFINE n == Cardinality(S)
           Next(g, s) == IF s = {} THEN 0 ELSE f[Pick(s)] + g[s \ {Pick(s)}]
           U == {k \in 0..n : \E g : /\ g = [s \in SUBSET S |-> g[s]]
                                     /\ \A s \in SUBSET S : Cardinality(s) <= k => g[s] = Next(g, s)}
<1>1. n \in Nat
  BY FS_CardinalityType DEF Counting
<1>2. \A s \in SUBSET S : IsFiniteSet(s) /\ Cardinality(s) \in 0..n
  <2> SUFFICES ASSUME NEW s \in SUBSET S
               PROVE  IsFiniteSet(s) /\ Cardinality(s) \in 0..n
    OBVIOUS
  <2>1. IsFiniteSet(s) /\ Cardinality(s) <= n
    BY FS_Subset DEF Counting
  <2>2. Cardinality(s) \in Nat
    BY <2>1, FS_CardinalityType
  <2> QED BY <2>1, <2>2, <1>1
<1>3. 0 \in U
  <2> DEFINE g == [s \in SUBSET S |-> 0]
  <2>1. \A s \in SUBSET S : Cardinality(s) <= 0 => s = {}
    BY <1>2, FS_EmptySet
  <2>2. \A s \in SUBSET S : Cardinality(s) <= 0 => g[s] = Next(g, s)
    BY <2>1
  <2>3. 0 \in 0..n
    BY <1>1
  <2>4. g = [s \in SUBSET S |-> g[s]]
    OBVIOUS
  <2> HIDE DEF g, Next
  <2> QED BY <2>2, <2>3, <2>4
<1>4. ASSUME NEW k \in 0..(n - 1), k \in U
      PROVE  k + 1 \in U
  <2>1. PICK g : /\ g = [s \in SUBSET S |-> g[s]]
                 /\ \A s \in SUBSET S : Cardinality(s) <= k => g[s] = Next(g, s)
    BY <1>4
  <2> DEFINE h == [s \in SUBSET S |-> IF Cardinality(s) <= k THEN g[s] ELSE Next(g, s)]
  <2>2. ASSUME NEW s \in SUBSET S, Cardinality(s) <= k + 1
        PROVE  h[s] = Next(h, s)
    <3>1. h[s] = Next(g, s)
      BY <2>1
    <3>2. CASE s = {}
      BY <3>1, <3>2
    <3>3. CASE s # {}
      <4> DEFINE x == Pick(s)
      <4>1. x \in s
        BY <3>3, PickIsIn
      <4> HIDE DEF x
      <4>2. s \ {x} \in SUBSET S /\ Cardinality(s \ {x}) = Cardinality(s) - 1
        BY <1>2, <4>1, FS_RemoveElement
      <4>3. Cardinality(s \ {x}) <= k
        BY <1>1, <1>2, <2>2, <4>2
      <4>4. h[s \ {x}] = g[s \ {x}]
        BY <4>2, <4>3
      <4> QED BY <3>1, <3>3, <4>4 DEF x
    <3> QED BY <3>2, <3>3
  <2>3. k + 1 \in 0..n
    BY <1>1
  <2>4. h = [s \in SUBSET S |-> h[s]]
    OBVIOUS
  <2> HIDE DEF h, Next
  <2> QED BY <2>2, <2>3, <2>4
<1>5. n \in U
  <2> HIDE DEF U, n
  <2>1. \A k \in 0..(n - 1) : k \in U => k + 1 \in U
    BY <1>4
  <2>2. 0..n \subseteq U
    BY <1>1, <1>3, <2>1, RangeInduction
  <2> QED BY <1>1, <2>2
<1>6. PICK g : /\ g = [s \in SUBSET S |-> g[s]]
               /\ \A s \in SUBSET S : Cardinality(s) <= n => g[s] = Next(g, s)
  BY <1>5
<1>7. \A s \in SUBSET S : g[s] = Next(g, s)
  <2> HIDE DEF n, Next
  <2>1. \A s \in SUBSET S : Cardinality(s) <= n
    BY <1>1, <1>2
  <2> QED BY <1>6, <2>1
<1>8. g = [s \in SUBSET S |-> Next(g, s)]
  BY <1>6, <1>7
<1> QED BY <1>8 DEF PartialSums

\* g adds a set up by taking some member of it each time.
Stepwise(g, f, S) ==
    \A s \in SUBSET S : IF s = {} THEN g[s] = 0 ELSE \E x \in s : g[s] = f[x] + g[s \ {x}]

\* Partial sums take a member at a time.
LEMMA PartialSumsStep ==
  ASSUME NEW f, NEW S, NEW g, PartialSums(g, f, S)
  PROVE  Stepwise(g, f, S)
<1> SUFFICES ASSUME NEW s \in SUBSET S
             PROVE  IF s = {} THEN g[s] = 0 ELSE \E x \in s : g[s] = f[x] + g[s \ {x}]
  BY DEF Stepwise
<1>1. g[s] = IF s = {} THEN 0 ELSE f[Pick(s)] + g[s \ {Pick(s)}]
  BY DEF PartialSums
<1> QED BY <1>1, PickIsIn

\* Partial sums are integers.
LEMMA PartialSumsInt ==
  ASSUME NEW f, NEW S, NEW g, Counting(f, S), PartialSums(g, f, S)
  PROVE  \A s \in SUBSET S : g[s] \in Int
<1> DEFINE T == {s \in SUBSET S : g[s] \in Int}
<1>0. Stepwise(g, f, S)
  BY PartialSumsStep
<1>1. ASSUME NEW s \in SUBSET S, \A x \in s : s \ {x} \in T
      PROVE  s \in T
  <2>1. CASE s = {}
    BY <1>0, <2>1 DEF Stepwise
  <2>2. CASE s # {}
    <3>1. PICK x \in s : g[s] = f[x] + g[s \ {x}]
      BY <1>0, <2>2 DEF Stepwise
    <3>2. g[s \ {x}] \in Int /\ f[x] \in Int
      BY <1>1 DEF Counting
    <3> QED BY <3>1, <3>2
  <2> QED BY <2>1, <2>2
<1> HIDE DEF T
<1>2. SUBSET S \subseteq T
  BY <1>1, SubsetInduction DEF Counting
<1> QED BY <1>2 DEF T

\* g adds a set up whichever member is taken.
Takes(g, f, S) == \A s \in SUBSET S : \A x \in s : g[s] = f[x] + g[s \ {x}]

\* It does not matter which member a sum takes: two may change places.
LEMMA PartialSumsTake ==
  ASSUME NEW f, NEW S, NEW g, Counting(f, S), PartialSums(g, f, S)
  PROVE  Takes(g, f, S)
<1> DEFINE T == {s \in SUBSET S : \A x \in s : g[s] = f[x] + g[s \ {x}]}
<1>0. \A s \in SUBSET S : g[s] \in Int
  BY PartialSumsInt
<1>s. Stepwise(g, f, S)
  BY PartialSumsStep
<1>1. ASSUME NEW s \in SUBSET S, \A x \in s : s \ {x} \in T
      PROVE  s \in T
  <2> SUFFICES ASSUME NEW x \in s PROVE g[s] = f[x] + g[s \ {x}]
    OBVIOUS
  <2>1. PICK c \in s : g[s] = f[c] + g[s \ {c}]
    BY <1>s DEF Stepwise
  <2>2. CASE c # x
    <3>1. x \in s \ {c} /\ c \in s \ {x} /\ (s \ {c}) \ {x} = (s \ {x}) \ {c}
      BY <2>2
    <3>2. g[s \ {c}] = f[x] + g[(s \ {c}) \ {x}]
      BY <1>1, <3>1
    <3>3. g[s \ {x}] = f[c] + g[(s \ {x}) \ {c}]
      BY <1>1, <3>1
    <3> DEFINE rest == g[(s \ {x}) \ {c}]
    <3>4. f[x] \in Int /\ f[c] \in Int /\ rest \in Int
      BY <1>0 DEF Counting
    <3>5. g[s] = f[c] + (f[x] + rest) /\ g[s \ {x}] = f[c] + rest
      BY <2>1, <3>1, <3>2, <3>3
    <3> HIDE DEF rest
    <3> QED BY <3>4, <3>5
  <2> QED BY <2>1, <2>2
<1> HIDE DEF T
<1>2. SUBSET S \subseteq T
  BY <1>1, SubsetInduction DEF Counting
<1> QED BY <1>2 DEF T, Takes

\* The partial sums of a set are those of any larger one.
LEMMA PartialSumsAgree ==
  ASSUME NEW f, NEW S, NEW g, Counting(f, S), PartialSums(g, f, S),
         NEW e, NEW R, NEW h, Counting(e, R), PartialSums(h, e, R),
         S \subseteq R, \A x \in S : f[x] = e[x]
  PROVE  \A s \in SUBSET S : g[s] = h[s]
<1> DEFINE T == {s \in SUBSET S : g[s] = h[s]}
<1>g. Stepwise(g, f, S)
  BY PartialSumsStep
<1>h. Stepwise(h, e, R)
  BY PartialSumsStep
<1>t. Takes(h, e, R)
  BY PartialSumsTake
<1>1. ASSUME NEW s \in SUBSET S, \A x \in s : s \ {x} \in T
      PROVE  s \in T
  <2>0. s \in SUBSET R
    OBVIOUS
  <2>1. CASE s = {}
    BY <1>g, <1>h, <2>0, <2>1 DEF Stepwise
  <2>2. CASE s # {}
    <3>1. PICK x \in s : g[s] = f[x] + g[s \ {x}]
      BY <1>g, <2>2 DEF Stepwise
    <3>2. h[s] = e[x] + h[s \ {x}]
      BY <1>t, <2>0 DEF Takes
    <3>3. g[s \ {x}] = h[s \ {x}] /\ f[x] = e[x]
      BY <1>1
    <3> QED BY <3>1, <3>2, <3>3
  <2> QED BY <2>1, <2>2
<1> HIDE DEF T
<1>2. SUBSET S \subseteq T
  BY <1>1, SubsetInduction DEF Counting
<1> QED BY <1>2 DEF T

-----------------------------------------------------------------------------
\* A sum is one of the partial sums.
LEMMA SumOfAll ==
  ASSUME NEW f, NEW S, Counting(f, S)
  PROVE  \E g : PartialSums(g, f, S) /\ SumFunctionOnSet(f, S) = g[S]
<1> DEFINE g == CHOOSE h : PartialSums(h, f, S)
<1>1. PartialSums(g, f, S)
  BY PartialSumsExist, Zenon
<1>2. SumFunctionOnSet(f, S) = g[S]
  BY SumUnfolds
<1> HIDE DEF g
<1> QED BY <1>1, <1>2

\* The sum over no position is 0.
LEMMA SumOfNone == ASSUME NEW f PROVE SumFunctionOnSet(f, {}) = 0
<1>1. Counting(f, {})
  BY FS_EmptySet DEF Counting
<1>2. PICK g : PartialSums(g, f, {}) /\ SumFunctionOnSet(f, {}) = g[{}]
  BY <1>1, SumOfAll
<1>3. {} \in SUBSET {}
  OBVIOUS
<1>4. Stepwise(g, f, {})
  BY <1>2, PartialSumsStep
<1> QED BY <1>2, <1>3, <1>4 DEF Stepwise

\* A sum of integers is one.
LEMMA SumIsInt ==
  ASSUME NEW f, NEW S, Counting(f, S)
  PROVE  SumFunctionOnSet(f, S) \in Int
BY SumOfAll, PartialSumsInt

\* A sum depends on the terms over its set only.
LEMMA SumOfSame ==
  ASSUME NEW f, NEW e, NEW S, Counting(f, S), \A x \in S : f[x] = e[x]
  PROVE  SumFunctionOnSet(f, S) = SumFunctionOnSet(e, S)
<1>1. Counting(e, S)
  BY DEF Counting
<1>2. PICK g : PartialSums(g, f, S) /\ SumFunctionOnSet(f, S) = g[S]
  BY SumOfAll
<1>3. PICK h : PartialSums(h, e, S) /\ SumFunctionOnSet(e, S) = h[S]
  BY <1>1, SumOfAll
<1> QED BY <1>1, <1>2, <1>3, PartialSumsAgree

\* A sum is any one of its terms and the sum of the others.
LEMMA SumWithout ==
  ASSUME NEW f, NEW S, NEW x \in S, Counting(f, S)
  PROVE  SumFunctionOnSet(f, S) = f[x] + SumFunctionOnSet(f, S \ {x})
<1> DEFINE R == S \ {x}
<1>1. Counting(f, R)
  BY FS_RemoveElement DEF Counting
<1>2. PICK g : PartialSums(g, f, S) /\ SumFunctionOnSet(f, S) = g[S]
  BY SumOfAll
<1>3. PICK h : PartialSums(h, f, R) /\ SumFunctionOnSet(f, R) = h[R]
  BY <1>1, SumOfAll
<1>4. g[S] = f[x] + g[R]
  <2>1. Takes(g, f, S)
    BY <1>2, PartialSumsTake
  <2> QED BY <2>1 DEF Takes
<1>5. R \in SUBSET R /\ R \subseteq S
  OBVIOUS
<1> HIDE DEF R
<1>6. h[R] = g[R]
  BY <1>1, <1>2, <1>3, <1>5, PartialSumsAgree
<1> QED BY <1>2, <1>3, <1>4, <1>6 DEF R

\* One more term is added to a sum.
LEMMA SumWith ==
  ASSUME NEW f, NEW S, NEW x, x \notin S, f[x] \in Int, Counting(f, S)
  PROVE  /\ Counting(f, S \cup {x})
         /\ SumFunctionOnSet(f, S \cup {x}) = f[x] + SumFunctionOnSet(f, S)
<1> DEFINE R == S \cup {x}
<1>1. Counting(f, R)
  BY FS_AddElement DEF Counting
<1>2. x \in R /\ R \ {x} = S
  OBVIOUS
<1> HIDE DEF R
<1>3. SumFunctionOnSet(f, R) = f[x] + SumFunctionOnSet(f, R \ {x})
  BY <1>1, <1>2, SumWithout
<1> QED BY <1>1, <1>2, <1>3 DEF R

\* A sum of natural numbers is one.
LEMMA SumIsNat ==
  ASSUME NEW f, NEW S, IsFiniteSet(S), \A x \in S : f[x] \in Nat
  PROVE  SumFunctionOnSet(f, S) \in Nat
<1> DEFINE T == {s \in SUBSET S : SumFunctionOnSet(f, s) \in Nat}
<1>1. ASSUME NEW s \in SUBSET S, \A x \in s : s \ {x} \in T
      PROVE  s \in T
  <2>1. CASE s = {}
    BY <2>1, SumOfNone
  <2>2. CASE s # {}
    <3>1. PICK x \in s : TRUE
      BY <2>2
    <3>2. Counting(f, s)
      <4>1. IsFiniteSet(s)
        BY FS_Subset
      <4> QED BY <4>1 DEF Counting
    <3>3. SumFunctionOnSet(f, s) = f[x] + SumFunctionOnSet(f, s \ {x})
      BY ONLY <3>2, SumWithout
    <3>4. SumFunctionOnSet(f, s \ {x}) \in Nat /\ f[x] \in Nat
      BY <1>1
    <3> QED BY <3>3, <3>4
  <2> QED BY <2>1, <2>2
<1> HIDE DEF T
<1>2. SUBSET S \subseteq T
  BY <1>1, SubsetInduction
<1> QED BY <1>2 DEF T

\* A sum does not change when its terms move to other positions.
LEMMA SumMoved ==
  ASSUME NEW f, NEW S, NEW e, NEW at, Counting(f, S),
         \A x \in S : e[at[x]] = f[x],
         \A x, y \in S : at[x] = at[y] => x = y
  PROVE  SumFunctionOnSet(e, {at[x] : x \in S}) = SumFunctionOnSet(f, S)
<1> DEFINE To(s) == {at[x] : x \in s}
           T == {s \in SUBSET S : /\ Counting(e, To(s))
                                  /\ SumFunctionOnSet(e, To(s)) = SumFunctionOnSet(f, s)}
<1>1. ASSUME NEW s \in SUBSET S, \A x \in s : s \ {x} \in T
      PROVE  s \in T
  <2>1. CASE s = {}
    <3>1. To(s) = {}
      BY <2>1
    <3>2. Counting(e, {})
      BY FS_EmptySet DEF Counting
    <3> QED BY <2>1, <3>1, <3>2, SumOfNone
  <2>2. CASE s # {}
    <3>1. PICK x \in s : TRUE
      BY <2>2
    <3> DEFINE r == To(s \ {x})
    <3>2. To(s) = r \cup {at[x]} /\ at[x] \notin r
      <4>1. \A y \in s \ {x} : at[y] # at[x]
        OBVIOUS
      <4>2. To(s) = r \cup {at[x]}
        OBVIOUS
      <4> QED BY <4>1, <4>2
    <3>3. Counting(e, r) /\ SumFunctionOnSet(e, r) = SumFunctionOnSet(f, s \ {x})
      BY <1>1
    <3>4. Counting(f, s)
      BY FS_Subset DEF Counting
    <3>5. SumFunctionOnSet(f, s) = f[x] + SumFunctionOnSet(f, s \ {x})
      BY <3>4, SumWithout
    <3>6. e[at[x]] = f[x] /\ f[x] \in Int
      BY DEF Counting
    <3> HIDE DEF r
    <3>7. /\ Counting(e, r \cup {at[x]})
          /\ SumFunctionOnSet(e, r \cup {at[x]}) = e[at[x]] + SumFunctionOnSet(e, r)
      BY <3>2, <3>3, <3>6, SumWith
    <3> HIDE DEF To
    <3> QED BY <3>2, <3>3, <3>5, <3>6, <3>7
  <2> QED BY <2>1, <2>2
<1> HIDE DEF T
<1>2. SUBSET S \subseteq T
  BY <1>1, SubsetInduction DEF Counting
<1> QED BY <1>2 DEF T

-----------------------------------------------------------------------------
\* The last of the positions up to i, and the positions before it.
LEMMA LastOfRange ==
  ASSUME NEW n \in Nat, NEW i \in 1..n
  PROVE  /\ (1..i) \in SUBSET (1..n) /\ (1..i) # {}
         /\ Max(1..i) = i
         /\ (1..i) \ {Max(1..i)} = 1..(i - 1)
<1>1. \A j \in Int : j \in (1..i) \ {i} <=> j \in 1..(i - 1)
  OBVIOUS
<1>2. (1..i) \in SUBSET (1..n) /\ i \in 1..i
  OBVIOUS
<1>3. Max(1..i) = i
  <2>1. i \in Int /\ i \in 1..i /\ \A j \in 1..i : j \in Int /\ j <= i
    OBVIOUS
  <2> QED BY ONLY <2>1, MaxIsLast
<1> QED BY <1>1, <1>2, <1>3

\* A list with one more element at its end.
LEMMA AppendIs ==
  ASSUME NEW k \in Nat, NEW S, NEW p \in [1..k -> S], NEW x \in S
  PROVE  /\ Append(p, x) \in [1..(k + 1) -> S]
         /\ Append(p, x)[k + 1] = x
         /\ \A i \in 1..k : Append(p, x)[i] = p[i]
<1> DEFINE q == Append(p, x)
<1>1. p \in Seq(S) /\ Len(p) = k
  <2>1. p \in Seq(S)
    OBVIOUS
  <2>2. Len(p) = k
    OBVIOUS
  <2> QED BY <2>1, <2>2
<1>2. q \in Seq(S) /\ Len(q) = k + 1
  BY <1>1, AppendProperties
<1>3. q[k + 1] = x
  BY <1>1
<1>4. \A i \in 1..k : q[i] = p[i]
  BY <1>1
<1> HIDE DEF q
<1>5. q \in [1..(k + 1) -> S]
  BY <1>2, LenProperties
<1> QED BY <1>3, <1>4, <1>5 DEF q

-----------------------------------------------------------------------------
\* The remainder of what is written as a multiple and a remainder.
LEMMA ModOf == ASSUME NEW m \in Nat \ {0}, NEW q \in Int, NEW r \in 0..(m - 1) PROVE (m * q + r) % m = r
OBVIOUS

\* Every integer can be written so.
LEMMA DivMod ==
  ASSUME NEW m \in Nat \ {0}, NEW a \in Int
  PROVE  \E q \in Int, r \in 0..(m - 1) : a = m * q + r /\ a % m = r
<1>1. a = (a \div m) * m + (a % m) /\ (a \div m) \in Int /\ a % m \in 0..(m - 1)
  OBVIOUS
<1>2. (a \div m) * m = m * (a \div m)
  BY <1>1
<1> QED BY <1>1, <1>2

\* A multiple does not change the remainder.
LEMMA ModAdd ==
  ASSUME NEW m \in Nat \ {0}, NEW a \in Int, NEW q \in Int
  PROVE  (a + m * q) % m = a % m
<1>1. PICK q0 \in Int, r \in 0..(m - 1) : a = m * q0 + r /\ a % m = r
  BY DivMod
<1>2. m * (q0 + q) = m * q0 + m * q
  OBVIOUS
<1>3. a + m * q = m * (q0 + q) + r /\ q0 + q \in Int
  BY <1>1, <1>2
<1>4. (m * (q0 + q) + r) % m = r
  BY <1>3, ModOf
<1> QED BY <1>1, <1>3, <1>4
=============================================================================
