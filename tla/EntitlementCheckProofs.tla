------------------------ MODULE EntitlementCheckProofs ------------------------
(***************************************************************************)
(* Theorems about EntitlementCheck, for any packages, boosts, counts and   *)
(* quantities, lists of any length, and any width of an int.               *)
(*                                                                         *)
(* Each loop of the code is a fold over a list. What it has gathered after *)
(* some turns is said in sets of positions, as the documents say it        *)
(* (Gathered and BoostsGathered), and each turn is shown to keep that.     *)
(* From there Can and the row of the summary are written without a loop    *)
(* (CanIs, SummaryIs), and the theorems compare the two, the documents'    *)
(* cascade, and both on other lists.                                       *)
(***************************************************************************)
EXTENDS EntitlementCheck, LoopLemmas

-----------------------------------------------------------------------------
(* A turn of the loop over the packages *)

\* What packageLimitForFeature keeps between two turns.
PackageSum == [limit: Int, assigned: BOOLEAN, unlimited: BOOLEAN, highest: Int \cup {Nil}]

\* A wrapped number is one.
LEMMA Int64IsInt == ASSUME NEW n \in Int PROVE Int64(n) \in Int
BY IntAssumption DEF Int64

\* Wrapping in the middle of a sum makes no difference to the wrapped sum.
LEMMA Int64OfInt64 ==
  ASSUME NEW a \in Int, NEW b \in Int
  PROVE  Int64(Int64(a) + b) = Int64(a + b)
<1> DEFINE m == 2 * (MaxInt + 1)
           c == a + MaxInt + 1
<1>1. m \in Nat \ {0} /\ c \in Int
  BY IntAssumption
<1>2. PICK q \in Int, r \in 0..(m - 1) : c = m * q + r /\ c % m = r
  BY <1>1, DivMod
<1>3. Int64(a) = r - (MaxInt + 1)
  BY <1>2 DEF Int64
<1>4. Int64(a) + b + MaxInt + 1 = r + b
  BY <1>2, <1>3, IntAssumption
<1>5. (a + b) + MaxInt + 1 = (r + b) + m * q
  BY <1>2, IntAssumption
<1>6. r + b \in Int
  BY <1>1
<1> HIDE DEF m, c
<1>7. ((r + b) + m * q) % m = (r + b) % m
  BY <1>1, <1>6, ModAdd
<1> QED BY <1>4, <1>5, <1>7 DEF Int64, m

\* A turn leaves the loop in one of its states: entitlement.go:474.
LEMMA AddPackageType ==
  ASSUME NEW sum \in PackageSum, NEW pkg \in Package
  PROVE  AddPackage(sum, pkg) \in PackageSum
<1>1. ASSUME pkg.limit \in Int PROVE Int64(sum.limit + pkg.limit) \in Int
  BY <1>1, Int64IsInt DEF PackageSum
<1>2. pkg.limit \in Int \cup {Unlisted, Nil} /\ pkg.stackable \in BOOLEAN
  BY DEF Package
<1>3. Highest(sum.highest, pkg.limit) \in Int \cup {Nil, pkg.limit}
  BY DEF Highest, PackageSum
<1>4. CASE Skips(sum, pkg)
  BY <1>4 DEF AddPackage
<1>5. CASE ~Skips(sum, pkg)
  <2>1. pkg.limit \in Int \cup {Nil}
    BY <1>2, <1>5 DEF Skips, IncludesFeature
  <2> DEFINE on == [sum EXCEPT !.assigned = TRUE]
  <2>2. on \in PackageSum /\ on.limit = sum.limit /\ on.highest = sum.highest
    BY DEF PackageSum
  <2> HIDE DEF on
  <2>3. \/ AddPackage(sum, pkg) = on
        \/ AddPackage(sum, pkg) = [on EXCEPT !.unlimited = TRUE, !.limit = 0]
        \/ /\ pkg.limit \in Int
           /\ AddPackage(sum, pkg) = [on EXCEPT !.limit = Int64(on.limit + pkg.limit)]
        \/ /\ pkg.limit \in Int
           /\ AddPackage(sum, pkg) = [on EXCEPT !.highest = Highest(on.highest, pkg.limit)]
    BY <1>5, <2>1 DEF AddPackage, on
  <2>4. [on EXCEPT !.unlimited = TRUE, !.limit = 0] \in PackageSum
    <3> DEFINE free == [on EXCEPT !.unlimited = TRUE]
    <3>1. [on EXCEPT !.unlimited = TRUE, !.limit = 0] = [free EXCEPT !.limit = 0]
      BY <2>2 DEF PackageSum
    <3>2. free \in PackageSum
      BY <2>2 DEF PackageSum
    <3> HIDE DEF free
    <3>3. [free EXCEPT !.limit = 0] \in PackageSum
      BY <3>2 DEF PackageSum
    <3> QED BY <3>1, <3>3
  <2>5. pkg.limit \in Int => [on EXCEPT !.limit = Int64(on.limit + pkg.limit)] \in PackageSum
    BY <1>1, <2>2 DEF PackageSum
  <2>6. pkg.limit \in Int => [on EXCEPT !.highest = Highest(on.highest, pkg.limit)] \in PackageSum
    BY <1>3, <2>2 DEF PackageSum
  <2> QED BY <2>2, <2>3, <2>4, <2>5, <2>6
<1> QED BY <1>4, <1>5

\* The states the loop over the packages goes through.
PackageTurns(turns, n, packages) ==
    /\ turns \in [0..n -> PackageSum]
    /\ turns[0] = NoPackage
    /\ \A i \in 1..n : turns[i] = AddPackage(turns[i - 1], packages[i])

\* The fold over the packages is the last of these states.
LEMMA PackageLoop ==
  ASSUME NEW n \in Nat, NEW packages \in [1..n -> Package]
  PROVE  \E turns : /\ PackageTurns(turns, n, packages)
                    /\ FoldLeft(AddPackage, NoPackage, packages) = turns[n]
<1> DEFINE Folds(f) == f = [s \in SUBSET (1..n) |->
              IF s = {} THEN NoPackage ELSE AddPackage(f[s \ {Max(s)}], packages[Max(s)])]
           G == [i \in 1..n |-> [sum \in PackageSum |-> AddPackage(sum, packages[i])]]
<1>1. NoPackage \in PackageSum
  BY DEF NoPackage, PackageSum
<1>2. G \in [1..n -> [PackageSum -> PackageSum]]
  BY AddPackageType
<1>3. \E f : Folds(f)
  <2>1. PICK f : Loops(f, n, PackageSum, NoPackage, G)
    <3> HIDE DEF G
    <3> QED BY <1>1, <1>2, LoopExists
  <2>0. f \in [SUBSET (1..n) -> PackageSum]
    BY <2>1 DEF Loops
  <2>2. ASSUME NEW s \in SUBSET (1..n), s # {}
        PROVE  G[Max(s)][f[s \ {Max(s)}]] = AddPackage(f[s \ {Max(s)}], packages[Max(s)])
    <3>1. Max(s) \in 1..n
      BY <2>2, MaxIsIn
    <3>2. f[s \ {Max(s)}] \in PackageSum
      <4>1. s \ {Max(s)} \in SUBSET (1..n)
        OBVIOUS
      <4> QED BY <4>1, <2>0
    <3> QED BY <3>1, <3>2
  <2>3. \A s \in SUBSET (1..n) :
           f[s] = IF s = {} THEN NoPackage ELSE AddPackage(f[s \ {Max(s)}], packages[Max(s)])
    <3> HIDE DEF G
    <3> QED BY <2>1, <2>2 DEF Loops
  <2>4. Folds(f)
    BY <2>0, <2>3
  <2> QED BY <2>4
<1> DEFINE f == CHOOSE f : Folds(f)
<1>4. Folds(f)
  BY <1>3, Zenon
<1>5. FoldLeft(AddPackage, NoPackage, packages) = f[1..n]
  <2>1. DOMAIN packages = 1..n
    OBVIOUS
  <2> QED BY <2>1 DEF FoldLeft, MapThenFoldSet
<1> DEFINE turns == [i \in 0..n |-> f[1..i]]
<1>6. turns[0] = NoPackage
  <2>1. 1..0 = {} /\ {} \in SUBSET (1..n)
    OBVIOUS
  <2>2. f[{}] = NoPackage
    BY <1>4, <2>1
  <2> QED BY <2>1, <2>2
<1>7. ASSUME NEW i \in 1..n
      PROVE  turns[i] = AddPackage(turns[i - 1], packages[i])
  <2>1. /\ (1..i) \in SUBSET (1..n) /\ (1..i) # {}
        /\ Max(1..i) = i
        /\ (1..i) \ {Max(1..i)} = 1..(i - 1)
    BY LastOfRange
  <2>2. f[1..i] = AddPackage(f[(1..i) \ {Max(1..i)}], packages[Max(1..i)])
    BY <1>4, <2>1
  <2>3. f[1..i] = AddPackage(f[1..(i - 1)], packages[i])
    BY <2>1, <2>2
  <2> QED BY <2>3
<1> HIDE DEF f, Folds
<1>8. \A i \in 0..n : turns[i] \in PackageSum
  <2> DEFINE T == {i \in 0..n : turns[i] \in PackageSum}
  <2>1. 0 \in T
    BY <1>1, <1>6
  <2>2. ASSUME NEW i \in 0..(n - 1), i \in T
        PROVE  i + 1 \in T
    <3>1. i + 1 \in 1..n /\ (i + 1) - 1 = i
      OBVIOUS
    <3>2. turns[i + 1] = AddPackage(turns[i], packages[i + 1])
      BY <1>7, <3>1
    <3>3. turns[i] \in PackageSum /\ packages[i + 1] \in Package
      BY <2>2, <3>1
    <3> HIDE DEF turns
    <3> QED BY <3>1, <3>2, <3>3, AddPackageType
  <2> HIDE DEF T
  <2>3. 0..n \subseteq T
    <3>1. \A i \in 0..(n - 1) : i \in T => i + 1 \in T
      BY <2>2
    <3> QED BY <2>1, <3>1, RangeInduction
  <2> QED BY <2>3 DEF T
<1>9. turns \in [0..n -> PackageSum]
  BY <1>8
<1>10. PackageTurns(turns, n, packages)
  BY <1>6, <1>7, <1>9 DEF PackageTurns
<1>11. turns[n] = f[1..n]
  OBVIOUS
<1> QED BY <1>5, <1>10, <1>11

-----------------------------------------------------------------------------
(* One more package *)

\* The package has an entry for the pool that counts.
Lists(pkg) == pkg.active /\ pkg.limit # Unlisted

\* One more package: the entries,
LEMMA ListingAppend ==
  ASSUME NEW k \in Nat, NEW p \in [1..k -> Package], NEW pkg \in Package
  PROVE  /\ Listing(p) \subseteq 1..k
         /\ Listing(Append(p, pkg)) = Listing(p) \cup (IF Lists(pkg) THEN {k + 1} ELSE {})
<1> DEFINE q == Append(p, pkg)
<1>1. q \in [1..(k + 1) -> Package] /\ q[k + 1] = pkg /\ \A i \in 1..k : q[i] = p[i]
  BY AppendIs
<1> HIDE DEF q
<1>2. DOMAIN p = 1..k /\ DOMAIN q = 1..(k + 1)
  BY <1>1
<1>3. \A i \in 1..(k + 1) : i \in 1..k \/ i = k + 1
  OBVIOUS
<1>4. k + 1 \notin 1..k /\ k + 1 \in 1..(k + 1) /\ 1..k \subseteq 1..(k + 1)
  OBVIOUS
<1>5. Listing(p) \subseteq 1..k
  BY <1>2 DEF Listing
<1>6. ASSUME NEW i \in 1..k PROVE i \in Listing(q) <=> i \in Listing(p)
  BY <1>1, <1>2, <1>4 DEF Listing
<1>7. k + 1 \in Listing(q) <=> Lists(pkg)
  BY <1>1, <1>2, <1>4 DEF Listing, Lists
<1>8. Listing(q) \subseteq 1..(k + 1)
  BY <1>2 DEF Listing
<1>9. Listing(q) = Listing(p) \cup (IF Lists(pkg) THEN {k + 1} ELSE {})
  BY <1>3, <1>5, <1>6, <1>7, <1>8
<1> QED BY <1>5, <1>9 DEF q

\* the limits that stack,
LEMMA StackedAppend ==
  ASSUME NEW k \in Nat, NEW p \in [1..k -> Package], NEW pkg \in Package
  PROVE  /\ Stacked(p) \subseteq 1..k
         /\ Stacked(Append(p, pkg)) =
              Stacked(p) \cup (IF Lists(pkg) /\ pkg.limit # Nil /\ pkg.stackable THEN {k + 1} ELSE {})
<1> DEFINE q == Append(p, pkg)
<1>1. q \in [1..(k + 1) -> Package] /\ q[k + 1] = pkg /\ \A i \in 1..k : q[i] = p[i]
  BY AppendIs
<1>2. Listing(p) \subseteq 1..k /\ Listing(q) = Listing(p) \cup (IF Lists(pkg) THEN {k + 1} ELSE {})
  BY ListingAppend
<1> HIDE DEF q
<1>3. k + 1 \notin 1..k
  OBVIOUS
<1>4. Stacked(p) \subseteq 1..k
  BY <1>2 DEF Stacked, Numbered
<1>5. Stacked(q) = Stacked(p) \cup (IF Lists(pkg) /\ pkg.limit # Nil /\ pkg.stackable THEN {k + 1} ELSE {})
  BY <1>1, <1>2, <1>3 DEF Stacked, Numbered
<1> QED BY <1>4, <1>5 DEF q

\* and the limits that do not.
LEMMA BaseAppend ==
  ASSUME NEW k \in Nat, NEW p \in [1..k -> Package], NEW pkg \in Package
  PROVE  Base(Append(p, pkg)) =
           Base(p) \cup (IF Lists(pkg) /\ pkg.limit # Nil /\ ~pkg.stackable THEN {pkg.limit} ELSE {})
<1> DEFINE q == Append(p, pkg)
<1>1. q \in [1..(k + 1) -> Package] /\ q[k + 1] = pkg /\ \A i \in 1..k : q[i] = p[i]
  BY AppendIs
<1>2. Listing(p) \subseteq 1..k /\ Listing(q) = Listing(p) \cup (IF Lists(pkg) THEN {k + 1} ELSE {})
  BY ListingAppend
<1> HIDE DEF q
<1>3. k + 1 \notin 1..k
  OBVIOUS
<1>4. Numbered(p) \ Stacked(p) \subseteq 1..k
  BY <1>2 DEF Numbered
<1>5. Numbered(q) \ Stacked(q) =
        (Numbered(p) \ Stacked(p)) \cup (IF Lists(pkg) /\ pkg.limit # Nil /\ ~pkg.stackable THEN {k + 1} ELSE {})
  BY <1>1, <1>2, <1>3 DEF Stacked, Numbered
<1> QED BY <1>1, <1>4, <1>5 DEF Base, q

\* An entry says that there is no limit.
IsFree(packages) == \E i \in Listing(packages) : packages[i].limit = -1

\* One more package may say so.
LEMMA FreeAppend ==
  ASSUME NEW k \in Nat, NEW p \in [1..k -> Package], NEW pkg \in Package
  PROVE  IsFree(Append(p, pkg)) <=> IsFree(p) \/ (Lists(pkg) /\ pkg.limit = -1)
<1> DEFINE q == Append(p, pkg)
<1>1. q[k + 1] = pkg /\ \A i \in 1..k : q[i] = p[i]
  BY AppendIs
<1>2. Listing(p) \subseteq 1..k /\ Listing(q) = Listing(p) \cup (IF Lists(pkg) THEN {k + 1} ELSE {})
  BY ListingAppend
<1> HIDE DEF q
<1> QED BY <1>1, <1>2 DEF IsFree, q

\* Base limits are numbers.
LEMMA BaseIsInt ==
  ASSUME NEW k \in Nat, NEW p \in [1..k -> Package]
  PROVE  Base(p) \subseteq Int
<1> SUFFICES ASSUME NEW i \in Numbered(p) PROVE p[i].limit \in Int
  BY DEF Base
<1>1. i \in 1..k /\ p[i].limit # Unlisted /\ p[i].limit # Nil
  BY DEF Numbered, Listing
<1>2. p[i] \in Package
  BY <1>1
<1> QED BY <1>1, <1>2 DEF Package

\* The limit of each entry.
LimitsOf(packages) == [i \in DOMAIN packages |-> packages[i].limit]

\* The sum of those that stack.
StackedTotal(packages) == SumFunctionOnSet(LimitsOf(packages), Stacked(packages))

\* These limits are numbers, and so is their sum.
LEMMA StackedCounts ==
  ASSUME NEW k \in Nat, NEW p \in [1..k -> Package]
  PROVE  Counting(LimitsOf(p), Stacked(p)) /\ StackedTotal(p) \in Int
<1>1. ASSUME NEW i \in Stacked(p) PROVE i \in 1..k /\ LimitsOf(p)[i] \in Int
  <2>1. i \in 1..k /\ p[i].limit # Unlisted /\ p[i].limit # Nil
    BY DEF Stacked, Numbered, Listing
  <2>2. p[i] \in Package
    BY <2>1
  <2> QED BY <2>1, <2>2 DEF Package, LimitsOf
<1>2. IsFiniteSet(Stacked(p))
  <2>1. Stacked(p) \in SUBSET (1..k)
    BY <1>1
  <2> QED BY <2>1, FS_Interval, FS_Subset
<1>3. Counting(LimitsOf(p), Stacked(p))
  BY <1>1, <1>2 DEF Counting
<1> QED BY <1>3, SumIsInt DEF StackedTotal

\* One more package that stacks is added to the sum.
LEMMA StackedTotalAppend ==
  ASSUME NEW k \in Nat, NEW p \in [1..k -> Package], NEW pkg \in Package
  PROVE  StackedTotal(Append(p, pkg)) =
           StackedTotal(p) + (IF Lists(pkg) /\ pkg.limit # Nil /\ pkg.stackable THEN pkg.limit ELSE 0)
<1> DEFINE q == Append(p, pkg)
<1>1. q \in [1..(k + 1) -> Package] /\ q[k + 1] = pkg /\ \A i \in 1..k : q[i] = p[i]
  BY AppendIs
<1>2. /\ Stacked(p) \subseteq 1..k
      /\ Stacked(q) = Stacked(p) \cup (IF Lists(pkg) /\ pkg.limit # Nil /\ pkg.stackable THEN {k + 1} ELSE {})
  BY StackedAppend
<1> HIDE DEF q
<1>3. k + 1 \notin Stacked(p)
  BY <1>2
<1>4. LimitsOf(q)[k + 1] = pkg.limit
  BY <1>1 DEF LimitsOf
<1>5. \A i \in Stacked(p) : LimitsOf(p)[i] = LimitsOf(q)[i]
  BY <1>1, <1>2 DEF LimitsOf
<1>6. Counting(LimitsOf(p), Stacked(p)) /\ StackedTotal(p) \in Int
  BY StackedCounts
<1>7. SumFunctionOnSet(LimitsOf(q), Stacked(p)) = StackedTotal(p)
  BY <1>5, <1>6, SumOfSame DEF StackedTotal
<1>8. Counting(LimitsOf(q), Stacked(p))
  BY <1>5, <1>6 DEF Counting
<1>9. CASE Lists(pkg) /\ pkg.limit # Nil /\ pkg.stackable
  <2>1. pkg.limit \in Int
    BY <1>9 DEF Package, Lists
  <2>2. SumFunctionOnSet(LimitsOf(q), Stacked(p) \cup {k + 1})
          = LimitsOf(q)[k + 1] + SumFunctionOnSet(LimitsOf(q), Stacked(p))
    BY <1>3, <1>4, <1>8, <2>1, SumWith
  <2> QED BY <1>2, <1>4, <1>6, <1>7, <1>9, <2>1, <2>2 DEF StackedTotal, q
<1>10. CASE ~(Lists(pkg) /\ pkg.limit # Nil /\ pkg.stackable)
  <2>1. Stacked(q) = Stacked(p)
    BY <1>2, <1>10
  <2> QED BY <1>6, <1>7, <1>10, <2>1 DEF StackedTotal, q
<1> QED BY <1>9, <1>10

-----------------------------------------------------------------------------
(* The loop over the packages *)

\* b is the highest of the base limits, or there is none.
IsHighest(b, packages) ==
    IF Base(packages) = {} THEN b = Nil
    ELSE b \in Base(packages) /\ \A c \in Base(packages) : c <= b

\* What the loop over the packages has gathered from those it has seen.
Gathered(sum, packages) ==
    /\ sum \in PackageSum
    /\ sum.assigned <=> Listing(packages) # {}
    /\ sum.unlimited <=> IsFree(packages)
    /\ sum.unlimited => sum.limit = 0
    /\ ~sum.unlimited => sum.limit = Int64(StackedTotal(packages))
    /\ ~sum.unlimited => IsHighest(sum.highest, packages)

\* Before the first turn it has gathered nothing,
LEMMA GatheredNothing == Gathered(NoPackage, <<>>)
<1>1. Listing(<<>>) = {}
  BY DEF Listing
<1>2. Stacked(<<>>) = {} /\ Base(<<>>) = {} /\ ~IsFree(<<>>)
  BY <1>1 DEF Stacked, Numbered, Base, IsFree
<1>3. StackedTotal(<<>>) = 0
  BY <1>2, SumOfNone DEF StackedTotal
<1>4. Int64(0) = 0
  BY IntAssumption DEF Int64
<1> QED BY <1>1, <1>2, <1>3, <1>4 DEF Gathered, NoPackage, PackageSum, IsHighest

\* and a turn gathers the next package: entitlement.go:474.
LEMMA GatheredOneMore ==
  ASSUME NEW k \in Nat, NEW p \in [1..k -> Package], NEW pkg \in Package, NEW sum, Gathered(sum, p)
  PROVE  Gathered(AddPackage(sum, pkg), Append(p, pkg))
<1> DEFINE q == Append(p, pkg)
           new == AddPackage(sum, pkg)
           counts == Lists(pkg) /\ pkg.limit # Nil
<1>1. sum \in PackageSum /\ new \in PackageSum
  BY AddPackageType DEF Gathered
<1>2. Listing(q) = Listing(p) \cup (IF Lists(pkg) THEN {k + 1} ELSE {})
  BY ListingAppend
<1>3. Base(q) = Base(p) \cup (IF counts /\ ~pkg.stackable THEN {pkg.limit} ELSE {})
  BY BaseAppend
<1>4. IsFree(q) <=> IsFree(p) \/ (Lists(pkg) /\ pkg.limit = -1)
  BY FreeAppend
<1>5. StackedTotal(q) = StackedTotal(p) + (IF counts /\ pkg.stackable THEN pkg.limit ELSE 0)
  BY StackedTotalAppend
<1>6. StackedTotal(p) \in Int /\ Base(p) \subseteq Int
  BY StackedCounts, BaseIsInt
<1>7. counts => pkg.limit \in Int
  BY DEF Package, Lists
<1> HIDE DEF q
<1>8. CASE sum.unlimited
  <2>1. new = sum
    BY <1>8 DEF AddPackage, Skips
  <2>2. Listing(p) # {} /\ IsFree(p)
    BY <1>8 DEF Gathered, IsFree
  <2> QED BY <1>1, <1>2, <1>4, <1>8, <2>1, <2>2 DEF Gathered, q
<1>9. CASE ~sum.unlimited /\ ~Lists(pkg)
  <2>1. new = sum
    BY <1>9 DEF AddPackage, Skips, Lists, IncludesFeature
  <2>2. /\ Listing(q) = Listing(p) /\ Base(q) = Base(p)
        /\ (IsFree(q) <=> IsFree(p)) /\ StackedTotal(q) = StackedTotal(p)
    BY <1>2, <1>3, <1>4, <1>5, <1>6, <1>9 DEF IsFree
  <2> QED BY <2>1, <2>2 DEF Gathered, IsHighest, q
<1>10. CASE ~sum.unlimited /\ Lists(pkg)
  <2> DEFINE on == [sum EXCEPT !.assigned = TRUE]
  <2>1. /\ on \in PackageSum /\ on.assigned /\ ~on.unlimited
        /\ on.limit = sum.limit /\ on.highest = sum.highest
    BY <1>1, <1>10 DEF PackageSum
  <2>2. new = IF pkg.limit = Nil THEN on
              ELSE IF pkg.limit = -1 THEN [on EXCEPT !.unlimited = TRUE, !.limit = 0]
              ELSE IF pkg.stackable THEN [on EXCEPT !.limit = Int64(on.limit + pkg.limit)]
              ELSE [on EXCEPT !.highest = Highest(on.highest, pkg.limit)]
    BY <1>10, <2>1 DEF AddPackage, Skips, Lists, IncludesFeature, IsUnlimited
  <2> HIDE DEF on, new
  <2>3. Listing(q) # {} /\ (IsFree(q) <=> pkg.limit = -1)
    BY <1>2, <1>4, <1>10 DEF Gathered, IsFree
  <2>4. sum.limit = Int64(StackedTotal(p)) /\ IsHighest(sum.highest, p)
    BY <1>10 DEF Gathered
  <2>5. CASE pkg.limit = Nil
    <3>1. new = on /\ ~IsFree(q)
      BY <2>2, <2>3, <2>5, NilAssumption
    <3>2. Base(q) = Base(p) /\ StackedTotal(q) = StackedTotal(p)
      BY <1>3, <1>5, <1>6, <2>5
    <3> QED BY <2>1, <2>3, <2>4, <3>1, <3>2 DEF Gathered, IsHighest, q, new
  <2>6. CASE pkg.limit = -1
    <3>1. new = [on EXCEPT !.unlimited = TRUE, !.limit = 0]
      BY <2>2, <2>6, NilAssumption
    <3>2. new.assigned /\ new.unlimited /\ new.limit = 0
      BY <2>1, <3>1 DEF PackageSum
    <3> QED BY <1>1, <2>3, <2>6, <3>2 DEF Gathered, q, new
  <2>7. CASE pkg.limit # Nil /\ pkg.limit # -1 /\ pkg.stackable
    <3>1. new = [on EXCEPT !.limit = Int64(on.limit + pkg.limit)]
      BY <2>2, <2>7
    <3>2. /\ new.assigned /\ ~new.unlimited /\ new.highest = sum.highest
          /\ new.limit = Int64(Int64(StackedTotal(p)) + pkg.limit)
      BY <2>1, <2>4, <3>1 DEF PackageSum
    <3>3. Base(q) = Base(p) /\ StackedTotal(q) = StackedTotal(p) + pkg.limit
      BY <1>3, <1>5, <1>6, <1>10, <2>7
    <3>4. new.limit = Int64(StackedTotal(q))
      BY <1>6, <1>7, <1>10, <2>7, <3>2, <3>3, Int64OfInt64
    <3>5. IsHighest(new.highest, q)
      BY <2>4, <3>2, <3>3 DEF IsHighest
    <3> QED BY <1>1, <2>3, <2>7, <3>2, <3>4, <3>5 DEF Gathered, q, new
  <2>8. CASE pkg.limit # Nil /\ pkg.limit # -1 /\ ~pkg.stackable
    <3>1. new = [on EXCEPT !.highest = Highest(on.highest, pkg.limit)]
      BY <2>2, <2>8
    <3>2. /\ new.assigned /\ ~new.unlimited /\ new.limit = sum.limit
          /\ new.highest = Highest(sum.highest, pkg.limit)
      BY <2>1, <3>1 DEF PackageSum
    <3>3. Base(q) = Base(p) \cup {pkg.limit} /\ StackedTotal(q) = StackedTotal(p)
      BY <1>3, <1>5, <1>6, <1>10, <2>8
    <3>4. IsHighest(new.highest, q)
      <4>1. pkg.limit \in Int /\ Base(q) # {}
        BY <1>7, <1>10, <2>8, <3>3
      <4>2. CASE Base(p) = {}
        BY <2>4, <3>2, <3>3, <4>1, <4>2 DEF IsHighest, Highest
      <4>3. CASE Base(p) # {}
        <5>1. sum.highest \in Int /\ sum.highest \in Base(p) /\ \A c \in Base(p) : c \in Int /\ c <= sum.highest
          BY <1>6, <2>4, <4>3 DEF IsHighest
        <5>2. new.highest = IF pkg.limit > sum.highest THEN pkg.limit ELSE sum.highest
          BY <3>2, <5>1, NilAssumption DEF Highest
        <5>3. new.highest \in Base(q)
          BY <3>3, <5>1, <5>2
        <5>4. \A c \in Base(q) : c <= new.highest
          BY <3>3, <4>1, <5>1, <5>2
        <5> QED BY <4>1, <5>3, <5>4 DEF IsHighest
      <4> QED BY <4>2, <4>3
    <3> QED BY <1>1, <2>3, <2>4, <2>8, <3>2, <3>3, <3>4 DEF Gathered, q, new
  <2> QED BY <2>5, <2>6, <2>7, <2>8
<1> QED BY <1>8, <1>9, <1>10

\* The first k of a list.
FirstOf(list, k) == [i \in 1..k |-> list[i]]

\* At 0 that is nothing, at its end all of the list.
LEMMA FirstOfGrows ==
  ASSUME NEW n \in Nat, NEW S, NEW list \in [1..n -> S]
  PROVE  /\ FirstOf(list, 0) = <<>>
         /\ FirstOf(list, n) = list

<1>1. FirstOf(list, 0) = <<>>
  BY DEF FirstOf
<1>2. FirstOf(list, n) = list
  BY DEF FirstOf
<1> QED BY <1>1, <1>2

\* One more of a list is the next one behind the ones before.
LEMMA FirstOfStep ==
  ASSUME NEW n \in Nat, NEW list, NEW k \in 0..(n - 1)
  PROVE  FirstOf(list, k + 1) = Append(FirstOf(list, k), list[k + 1])
<1> DEFINE S == {list[i] : i \in 1..(k + 1)}
           q == Append(FirstOf(list, k), list[k + 1])
<1>1. k \in Nat /\ list[k + 1] \in S
  OBVIOUS
<1>2. FirstOf(list, k) \in [1..k -> S]
  BY DEF FirstOf
<1> HIDE DEF S
<1>3. q \in [1..(k + 1) -> S]
  BY <1>1, <1>2, AppendIs
<1>4. q[k + 1] = list[k + 1]
  BY <1>1, <1>2, AppendIs
<1>5. \A i \in 1..k : q[i] = list[i]
  <2>1. \A i \in 1..k : q[i] = FirstOf(list, k)[i]
    BY <1>1, <1>2, AppendIs
  <2> QED BY <2>1 DEF FirstOf
<1> HIDE DEF q
<1>6. \A i \in 1..(k + 1) : i \in 1..k \/ i = k + 1
  OBVIOUS
<1>7. \A i \in 1..(k + 1) : q[i] = list[i]
  BY <1>4, <1>5, <1>6
<1>8. q = [i \in 1..(k + 1) |-> list[i]]
  BY <1>3, <1>7
<1> QED BY <1>8 DEF FirstOf, q

\* The loop over the packages gathers all of them.
LEMMA PackagesGathered ==
  ASSUME NEW n \in Nat, NEW packages \in [1..n -> Package]
  PROVE  Gathered(FoldLeft(AddPackage, NoPackage, packages), packages)
<1>1. PICK turns : /\ PackageTurns(turns, n, packages)
                   /\ FoldLeft(AddPackage, NoPackage, packages) = turns[n]
  BY PackageLoop
<1> DEFINE T == {k \in 0..n : Gathered(turns[k], FirstOf(packages, k))}
<1>2. 0 \in T
  <2>1. turns[0] = NoPackage /\ FirstOf(packages, 0) = <<>>
    BY <1>1, FirstOfGrows DEF PackageTurns
  <2>2. Gathered(turns[0], FirstOf(packages, 0))
    BY <2>1, GatheredNothing
  <2> QED BY <2>2
<1>3. ASSUME NEW k \in 0..(n - 1), k \in T
      PROVE  k + 1 \in T
  <2>1. /\ FirstOf(packages, k) \in [1..k -> Package]
        /\ packages[k + 1] \in Package
        /\ FirstOf(packages, k + 1) = Append(FirstOf(packages, k), packages[k + 1])
    <3>1. packages[k + 1] \in Package
      OBVIOUS
    <3>2. FirstOf(packages, k) \in [1..k -> Package]
      BY DEF FirstOf
    <3>3. FirstOf(packages, k + 1) = Append(FirstOf(packages, k), packages[k + 1])
      BY FirstOfStep
    <3> QED BY <3>1, <3>2, <3>3
  <2>2. turns[k + 1] = AddPackage(turns[k], packages[k + 1])
    <3>1. k + 1 \in 1..n /\ (k + 1) - 1 = k
      OBVIOUS
    <3> QED BY <1>1, <3>1 DEF PackageTurns
  <2>3. Gathered(turns[k], FirstOf(packages, k)) /\ k \in Nat
    BY <1>3
  <2>4. Gathered(AddPackage(turns[k], packages[k + 1]), Append(FirstOf(packages, k), packages[k + 1]))
    BY <2>1, <2>3, GatheredOneMore
  <2>5. k + 1 \in 0..n
    OBVIOUS
  <2> QED BY <2>1, <2>2, <2>4, <2>5
<1> HIDE DEF T
<1>4. 0..n \subseteq T
  <2>1. \A k \in 0..(n - 1) : k \in T => k + 1 \in T
    BY <1>3
  <2> QED BY <1>2, <2>1, RangeInduction
<1>5. Gathered(turns[n], FirstOf(packages, n))
  BY <1>4 DEF T
<1> QED BY <1>1, <1>5, FirstOfGrows

\* packageLimitForFeature is the documents' pool of the packages, as far as an
\* int can hold it: entitlement.go:474.
LEMMA PackageLimitIs ==
  ASSUME NEW n \in Nat, NEW packages \in [1..n -> Package]
  PROVE  /\ PackageLimit(packages) \in [assigned: BOOLEAN, unlimited: BOOLEAN, limit: Int]
         /\ PackageLimit(packages).assigned <=> Listing(packages) # {}
         /\ PackageLimit(packages).unlimited <=> IsFree(packages)
         /\ IsFree(packages) => PackageLimit(packages).limit = 0
         /\ ~IsFree(packages) => /\ PackageTotal(packages) \in Int
                                 /\ PackageLimit(packages).limit = Int64(PackageTotal(packages))
<1> DEFINE sum == FoldLeft(AddPackage, NoPackage, packages)
           highest == IF Base(packages) = {} THEN 0 ELSE Max(Base(packages))
<1>1. Gathered(sum, packages)
  BY PackagesGathered
<1>2. PackageLimit(packages) =
        [assigned |-> sum.assigned, unlimited |-> sum.unlimited,
         limit |-> IF sum.unlimited \/ sum.highest = Nil
                   THEN sum.limit ELSE Int64(sum.limit + sum.highest)]
  BY DEF PackageLimit
<1>3. PackageTotal(packages) = highest + StackedTotal(packages)
  BY DEF PackageTotal, StackedTotal, LimitsOf
<1> HIDE DEF sum
<1>4. Base(packages) \subseteq Int /\ StackedTotal(packages) \in Int
  BY BaseIsInt, StackedCounts
<1>5. sum \in PackageSum
  BY <1>1 DEF Gathered
<1>6. CASE IsFree(packages)
  <2>1. sum.unlimited /\ sum.limit = 0 /\ (sum.assigned <=> Listing(packages) # {})
    BY <1>1, <1>6 DEF Gathered
  <2> QED BY <1>2, <1>5, <1>6, <2>1 DEF PackageSum
<1>7. CASE ~IsFree(packages)
  <2>1. /\ ~sum.unlimited /\ sum.limit = Int64(StackedTotal(packages))
        /\ IsHighest(sum.highest, packages)
        /\ sum.assigned <=> Listing(packages) # {}
    BY <1>1, <1>7 DEF Gathered
  <2>2. CASE Base(packages) = {}
    <3>1. sum.highest = Nil /\ highest = 0
      BY <2>1, <2>2 DEF IsHighest
    <3>2. PackageTotal(packages) = StackedTotal(packages)
      BY <1>3, <1>4, <3>1
    <3> QED BY <1>2, <1>4, <1>5, <1>7, <2>1, <3>1, <3>2 DEF PackageSum
  <2>3. CASE Base(packages) # {}
    <3>1. /\ sum.highest \in Int /\ sum.highest \in Base(packages)
          /\ \A c \in Base(packages) : c \in Int /\ c <= sum.highest
      BY <1>4, <2>1, <2>3 DEF IsHighest
    <3>2. highest = sum.highest
      BY <2>3, <3>1, MaxIsLast
    <3>3. sum.highest # Nil
      BY <3>1, NilAssumption
    <3>4. Int64(sum.limit + sum.highest) = Int64(StackedTotal(packages) + sum.highest)
      BY <1>4, <2>1, <3>1, Int64OfInt64
    <3>5. /\ PackageTotal(packages) = StackedTotal(packages) + sum.highest
          /\ PackageTotal(packages) \in Int
      BY <1>3, <1>4, <3>1, <3>2
    <3>6. Int64(PackageTotal(packages)) \in Int
      BY <3>5, Int64IsInt
    <3>7. PackageLimit(packages).limit = Int64(PackageTotal(packages))
      BY <1>2, <2>1, <3>3, <3>4, <3>5
    <3>8. /\ PackageLimit(packages) = [assigned |-> sum.assigned, unlimited |-> sum.unlimited,
                                       limit |-> Int64(PackageTotal(packages))]
          /\ sum.assigned \in BOOLEAN /\ sum.unlimited \in BOOLEAN
      BY <1>2, <1>5, <2>1, <3>3, <3>4, <3>5 DEF PackageSum
    <3> QED BY <1>7, <2>1, <3>5, <3>6, <3>7, <3>8
  <2> QED BY <2>2, <2>3
<1> QED BY <1>6, <1>7

-----------------------------------------------------------------------------
(* The loop over the boosts *)

\* What the loops over the boosts keep between two turns.
BoostSum == [limit: Int, assigned: BOOLEAN, unlimited: BOOLEAN, enabled: BOOLEAN]

\* The boost gives something of this type.
Grants(boost, type) ==
    /\ boost.code # "other" /\ boost.current
    /\ boost.type = type
    /\ type = "add_limit" => boost.left > 0

\* Its remainder is added.
Adds(boost, Counted) ==
    /\ boost.code # "other" /\ boost.current
    /\ boost.type \in Counted /\ boost.left > 0

\* The boosts whose remainder is added.
Adding(boosts, Counted) == {i \in DOMAIN boosts : Adds(boosts[i], Counted)}

\* The remainder of each boost.
LeftOf(boosts) == [i \in DOMAIN boosts |-> boosts[i].left]

\* What is added by all of them.
Added(boosts, Counted) == SumFunctionOnSet(LeftOf(boosts), Adding(boosts, Counted))

\* The fields of a boost.
LEMMA BoostFields ==
  ASSUME NEW boost \in Boost
  PROVE  /\ boost.code \in {"pool", "feature", "other"} /\ boost.current \in BOOLEAN
         /\ boost.type \in {"add_limit", "enable", "unlimited", "unknown"} /\ boost.left \in Int
BY DEF Boost

\* What applies gives something, and nothing else does: entitlement.go:182.
LEMMA AppliesIs ==
  ASSUME NEW boost \in Boost
  PROVE  /\ Applies(boost) =>
              /\ boost.code # "other" /\ boost.current
              /\ boost.type = "add_limit" => boost.left > 0
         /\ ~Applies(boost) => \A type : ~Grants(boost, type)
<1>1. boost.type = "add_limit" => Remaining(boost) = IF boost.left < 0 THEN 0 ELSE boost.left
  BY DEF Remaining, AtLeast0
<1> QED BY <1>1, BoostFields DEF Applies, IsUsable, Grants

\* What is left of a boost that adds is never negative: boost.go:66.
LEMMA RemainingIs ==
  ASSUME NEW boost \in Boost, boost.type \in {"add_limit", "unknown"}
  PROVE  Remaining(boost) = (IF boost.left < 0 THEN 0 ELSE boost.left)
BY DEF Remaining, AtLeast0

\* A turn as a choice by what the boost gives: entitlement.go:181 and 421 are two
\* forms of it.
LEMMA AddBoostIs ==
  ASSUME NEW sum \in BoostSum, NEW boost \in Boost, NEW Counted \in SUBSET {"add_limit", "unknown"},
         ~sum.unlimited
  PROVE  AddBoost(sum, boost, Counted) =
           IF Grants(boost, "unlimited") THEN [sum EXCEPT !.unlimited = TRUE]
           ELSE IF Grants(boost, "enable") THEN [sum EXCEPT !.enabled = TRUE]
           ELSE IF sum.assigned /\ Adds(boost, Counted)
                THEN [sum EXCEPT !.limit = Int64(sum.limit + boost.left)]
           ELSE sum
<1>1. CASE ~Applies(boost)
  <2>1. ~Adds(boost, Counted)
    <3>1. Adds(boost, Counted) => Applies(boost)
      BY BoostFields, RemainingIs DEF Adds, Applies, IsUsable
    <3> QED BY <1>1, <3>1
  <2>2. AddBoost(sum, boost, Counted) = sum
    BY <1>1 DEF AddBoost
  <2>3. ~Grants(boost, "unlimited") /\ ~Grants(boost, "enable")
    BY <1>1, AppliesIs
  <2> QED BY <2>1, <2>2, <2>3
<1>2. CASE Applies(boost) /\ boost.type = "unlimited"
  <2>1. Grants(boost, "unlimited")
    BY <1>2, AppliesIs DEF Grants
  <2>2. AddBoost(sum, boost, Counted) = [sum EXCEPT !.unlimited = TRUE]
    BY <1>2 DEF AddBoost
  <2> QED BY <2>1, <2>2
<1>3. CASE Applies(boost) /\ boost.type = "enable"
  <2>1. Grants(boost, "enable") /\ ~Grants(boost, "unlimited")
    BY <1>3, AppliesIs DEF Grants
  <2>2. AddBoost(sum, boost, Counted) = [sum EXCEPT !.enabled = TRUE]
    BY <1>3 DEF AddBoost
  <2> QED BY <2>1, <2>2
<1>4. CASE Applies(boost) /\ boost.type \notin {"unlimited", "enable"}
  <2>1. boost.type \in {"add_limit", "unknown"}
    BY <1>4, BoostFields
  <2>2. Remaining(boost) = IF boost.left < 0 THEN 0 ELSE boost.left
    BY <2>1, RemainingIs
  <2>3. Remaining(boost) > 0 <=> boost.left > 0
    BY <2>2, BoostFields
  <2>4. Remaining(boost) > 0 => Remaining(boost) = boost.left
    BY <2>2, BoostFields
  <2>5. ~Grants(boost, "enable") /\ ~Grants(boost, "unlimited")
    BY <1>4 DEF Grants
  <2>6. boost.code # "other" /\ boost.current
    BY <1>4, AppliesIs
  <2>7. AddBoost(sum, boost, Counted) =
          IF sum.assigned /\ boost.type \in Counted /\ Remaining(boost) > 0
          THEN [sum EXCEPT !.limit = Int64(sum.limit + Remaining(boost))] ELSE sum
    BY <1>4 DEF AddBoost
  <2>8. Adds(boost, Counted) <=> boost.type \in Counted /\ Remaining(boost) > 0
    BY <2>3, <2>6 DEF Adds
  <2> QED BY <2>4, <2>5, <2>7, <2>8
<1> QED BY <1>1, <1>2, <1>3, <1>4

\* A turn leaves the loop in one of its states.
LEMMA AddBoostType ==
  ASSUME NEW sum \in BoostSum, NEW boost \in Boost, NEW Counted \in SUBSET {"add_limit", "unknown"}
  PROVE  AddBoost(sum, boost, Counted) \in BoostSum
<1>1. CASE sum.unlimited
  BY <1>1 DEF AddBoost
<1>2. CASE ~sum.unlimited
  <2>1. [sum EXCEPT !.unlimited = TRUE] \in BoostSum
    BY DEF BoostSum
  <2>2. [sum EXCEPT !.enabled = TRUE] \in BoostSum
    BY DEF BoostSum
  <2>3. [sum EXCEPT !.limit = Int64(sum.limit + boost.left)] \in BoostSum
    <3>1. Int64(sum.limit + boost.left) \in Int
      BY BoostFields, Int64IsInt DEF BoostSum
    <3> QED BY <3>1 DEF BoostSum
  <2> QED BY <1>2, <2>1, <2>2, <2>3, AddBoostIs
<1> QED BY <1>1, <1>2

\* The states the loop over the boosts goes through.
BoostTurns(turns, n, start, boosts, Counted) ==
    /\ turns \in [0..n -> BoostSum]
    /\ turns[0] = start
    /\ \A i \in 1..n : turns[i] = AddBoost(turns[i - 1], boosts[i], Counted)

\* The fold over the boosts is the last of these states.
LEMMA BoostLoop ==
  ASSUME NEW n \in Nat, NEW boosts \in [1..n -> Boost], NEW start \in BoostSum,
         NEW Counted \in SUBSET {"add_limit", "unknown"}
  PROVE  \E turns : /\ BoostTurns(turns, n, start, boosts, Counted)
                    /\ FoldLeft(LAMBDA sum, boost: AddBoost(sum, boost, Counted), start, boosts) = turns[n]
<1> DEFINE Folds(f) == f = [s \in SUBSET (1..n) |->
              IF s = {} THEN start ELSE AddBoost(f[s \ {Max(s)}], boosts[Max(s)], Counted)]
           G == [i \in 1..n |-> [sum \in BoostSum |-> AddBoost(sum, boosts[i], Counted)]]
<1>2. G \in [1..n -> [BoostSum -> BoostSum]]
  BY AddBoostType
<1>3. \E f : Folds(f)
  <2>1. PICK f : Loops(f, n, BoostSum, start, G)
    <3> HIDE DEF G
    <3> QED BY <1>2, LoopExists
  <2>0. f \in [SUBSET (1..n) -> BoostSum]
    BY <2>1 DEF Loops
  <2>2. ASSUME NEW s \in SUBSET (1..n), s # {}
        PROVE  G[Max(s)][f[s \ {Max(s)}]] = AddBoost(f[s \ {Max(s)}], boosts[Max(s)], Counted)
    <3>1. Max(s) \in 1..n
      BY <2>2, MaxIsIn
    <3>2. f[s \ {Max(s)}] \in BoostSum
      <4>1. s \ {Max(s)} \in SUBSET (1..n)
        OBVIOUS
      <4> QED BY <4>1, <2>0
    <3> QED BY <3>1, <3>2
  <2>3. \A s \in SUBSET (1..n) :
           f[s] = IF s = {} THEN start ELSE AddBoost(f[s \ {Max(s)}], boosts[Max(s)], Counted)
    <3> HIDE DEF G
    <3> QED BY <2>1, <2>2 DEF Loops
  <2>4. Folds(f)
    BY <2>0, <2>3
  <2> QED BY <2>4
<1> DEFINE f == CHOOSE f : Folds(f)
<1>4. Folds(f)
  BY <1>3, Zenon
<1>5. FoldLeft(LAMBDA sum, boost: AddBoost(sum, boost, Counted), start, boosts) = f[1..n]
  <2>1. DOMAIN boosts = 1..n
    OBVIOUS
  <2> QED BY <2>1 DEF FoldLeft, MapThenFoldSet
<1> DEFINE turns == [i \in 0..n |-> f[1..i]]
<1>6. turns[0] = start
  <2>1. 1..0 = {} /\ {} \in SUBSET (1..n)
    OBVIOUS
  <2>2. f[{}] = start
    BY <1>4, <2>1
  <2> QED BY <2>1, <2>2
<1>7. ASSUME NEW i \in 1..n
      PROVE  turns[i] = AddBoost(turns[i - 1], boosts[i], Counted)
  <2>1. /\ (1..i) \in SUBSET (1..n) /\ (1..i) # {}
        /\ Max(1..i) = i
        /\ (1..i) \ {Max(1..i)} = 1..(i - 1)
    BY LastOfRange
  <2>2. f[1..i] = AddBoost(f[(1..i) \ {Max(1..i)}], boosts[Max(1..i)], Counted)
    BY <1>4, <2>1
  <2>3. f[1..i] = AddBoost(f[1..(i - 1)], boosts[i], Counted)
    BY <2>1, <2>2
  <2> QED BY <2>3
<1> HIDE DEF f, Folds
<1>8. \A i \in 0..n : turns[i] \in BoostSum
  <2> DEFINE T == {i \in 0..n : turns[i] \in BoostSum}
  <2>1. 0 \in T
    BY <1>6
  <2>2. ASSUME NEW i \in 0..(n - 1), i \in T
        PROVE  i + 1 \in T
    <3>1. i + 1 \in 1..n /\ (i + 1) - 1 = i
      OBVIOUS
    <3>2. turns[i + 1] = AddBoost(turns[i], boosts[i + 1], Counted)
      BY <1>7, <3>1
    <3>3. turns[i] \in BoostSum /\ boosts[i + 1] \in Boost
      BY <2>2, <3>1
    <3> HIDE DEF turns
    <3> QED BY <3>1, <3>2, <3>3, AddBoostType
  <2> HIDE DEF T
  <2>3. 0..n \subseteq T
    <3>1. \A i \in 0..(n - 1) : i \in T => i + 1 \in T
      BY <2>2
    <3> QED BY <2>1, <3>1, RangeInduction
  <2> QED BY <2>3 DEF T
<1>9. turns \in [0..n -> BoostSum]
  BY <1>8
<1>10. BoostTurns(turns, n, start, boosts, Counted)
  BY <1>6, <1>7, <1>9 DEF BoostTurns
<1>11. turns[n] = f[1..n]
  OBVIOUS
<1> QED BY <1>5, <1>10, <1>11

\* One more boost: the ones that give something,
LEMMA UsableAppend ==
  ASSUME NEW k \in Nat, NEW b \in [1..k -> Boost], NEW boost \in Boost, NEW type
  PROVE  Usable(Append(b, boost), type) # {} <=> Usable(b, type) # {} \/ Grants(boost, type)
<1> DEFINE q == Append(b, boost)
<1>1. q \in [1..(k + 1) -> Boost] /\ q[k + 1] = boost /\ \A i \in 1..k : q[i] = b[i]
  BY AppendIs
<1> HIDE DEF q
<1>2. /\ Usable(b, type) = {i \in 1..k : Grants(b[i], type)}
      /\ Usable(q, type) = {i \in 1..(k + 1) : Grants(q[i], type)}
  BY <1>1 DEF Usable, Grants
<1>3. \A i \in 1..(k + 1) : i \in 1..k \/ i = k + 1
  OBVIOUS
<1>4. k + 1 \in 1..(k + 1) /\ 1..k \subseteq 1..(k + 1)
  OBVIOUS
<1>5. ASSUME NEW i \in 1..k PROVE i \in Usable(q, type) <=> i \in Usable(b, type)
  BY <1>1, <1>2, <1>4
<1>6. k + 1 \in Usable(q, type) <=> Grants(boost, type)
  BY <1>1, <1>2, <1>4
<1> QED BY <1>2, <1>3, <1>5, <1>6 DEF q

\* and the ones whose remainder is added.
LEMMA AddingAppend ==
  ASSUME NEW k \in Nat, NEW b \in [1..k -> Boost], NEW boost \in Boost, NEW Counted
  PROVE  /\ Adding(b, Counted) \subseteq 1..k
         /\ Adding(Append(b, boost), Counted) =
              Adding(b, Counted) \cup (IF Adds(boost, Counted) THEN {k + 1} ELSE {})
<1> DEFINE q == Append(b, boost)
<1>1. q \in [1..(k + 1) -> Boost] /\ q[k + 1] = boost /\ \A i \in 1..k : q[i] = b[i]
  BY AppendIs
<1> HIDE DEF q
<1>2. /\ Adding(b, Counted) = {i \in 1..k : Adds(b[i], Counted)}
      /\ Adding(q, Counted) = {i \in 1..(k + 1) : Adds(q[i], Counted)}
  BY <1>1 DEF Adding
<1>3. \A i \in 1..(k + 1) : i \in 1..k \/ i = k + 1
  OBVIOUS
<1>4. k + 1 \in 1..(k + 1) /\ 1..k \subseteq 1..(k + 1)
  OBVIOUS
<1>5. ASSUME NEW i \in 1..k PROVE i \in Adding(q, Counted) <=> i \in Adding(b, Counted)
  BY <1>1, <1>2, <1>4
<1>6. k + 1 \in Adding(q, Counted) <=> Adds(boost, Counted)
  BY <1>1, <1>2, <1>4
<1>7. Adding(q, Counted) = Adding(b, Counted) \cup (IF Adds(boost, Counted) THEN {k + 1} ELSE {})
  BY <1>2, <1>3, <1>5, <1>6
<1> QED BY <1>2, <1>7 DEF q

\* These remainders are numbers, and so is their sum.
LEMMA AddingCounts ==
  ASSUME NEW k \in Nat, NEW b \in [1..k -> Boost], NEW Counted
  PROVE  Counting(LeftOf(b), Adding(b, Counted)) /\ Added(b, Counted) \in Nat
<1>1. ASSUME NEW i \in Adding(b, Counted) PROVE i \in 1..k /\ LeftOf(b)[i] \in Nat
  <2>1. i \in 1..k /\ b[i].left > 0
    BY DEF Adding, Adds
  <2>2. b[i] \in Boost
    BY <2>1
  <2> QED BY <2>1, <2>2 DEF Boost, LeftOf
<1>2. IsFiniteSet(Adding(b, Counted))
  <2>1. Adding(b, Counted) \in SUBSET (1..k)
    BY <1>1
  <2> QED BY <2>1, FS_Interval, FS_Subset
<1>3. Counting(LeftOf(b), Adding(b, Counted))
  BY <1>1, <1>2 DEF Counting
<1> QED BY <1>1, <1>2, <1>3, SumIsNat DEF Added

\* One more remainder is added to the sum.
LEMMA AddedAppend ==
  ASSUME NEW k \in Nat, NEW b \in [1..k -> Boost], NEW boost \in Boost, NEW Counted
  PROVE  Added(Append(b, boost), Counted) =
           Added(b, Counted) + (IF Adds(boost, Counted) THEN boost.left ELSE 0)
<1> DEFINE q == Append(b, boost)
<1>1. q \in [1..(k + 1) -> Boost] /\ q[k + 1] = boost /\ \A i \in 1..k : q[i] = b[i]
  BY AppendIs
<1>2. /\ Adding(b, Counted) \subseteq 1..k
      /\ Adding(q, Counted) = Adding(b, Counted) \cup (IF Adds(boost, Counted) THEN {k + 1} ELSE {})
  BY AddingAppend
<1> HIDE DEF q
<1>3. k + 1 \notin Adding(b, Counted)
  BY <1>2
<1>4. LeftOf(q)[k + 1] = boost.left
  BY <1>1 DEF LeftOf
<1>5. \A i \in Adding(b, Counted) : LeftOf(b)[i] = LeftOf(q)[i]
  BY <1>1, <1>2 DEF LeftOf
<1>6. Counting(LeftOf(b), Adding(b, Counted)) /\ Added(b, Counted) \in Nat
  BY AddingCounts
<1>7. SumFunctionOnSet(LeftOf(q), Adding(b, Counted)) = Added(b, Counted)
  BY <1>5, <1>6, SumOfSame DEF Added
<1>8. Counting(LeftOf(q), Adding(b, Counted))
  BY <1>5, <1>6 DEF Counting
<1>9. boost.left \in Int
  BY DEF Boost
<1>10. CASE Adds(boost, Counted)
  <2>1. SumFunctionOnSet(LeftOf(q), Adding(b, Counted) \cup {k + 1})
          = LeftOf(q)[k + 1] + SumFunctionOnSet(LeftOf(q), Adding(b, Counted))
    BY <1>3, <1>4, <1>8, <1>9, SumWith
  <2> QED BY <1>2, <1>4, <1>6, <1>7, <1>9, <1>10, <2>1 DEF Added, q
<1>11. CASE ~Adds(boost, Counted)
  <2>1. Adding(q, Counted) = Adding(b, Counted)
    BY <1>2, <1>11
  <2> QED BY <1>6, <1>7, <1>11, <2>1 DEF Added, q
<1> QED BY <1>10, <1>11

\* The pool of the packages with what the boosts add to it.
Boosted(start, boosts, Counted) ==
    start.limit + (IF start.assigned THEN Added(boosts, Counted) ELSE 0)

\* What the loop over the boosts has gathered from those it has seen.
BoostsGathered(sum, start, boosts, Counted) ==
    /\ sum \in BoostSum
    /\ sum.assigned = start.assigned
    /\ sum.unlimited <=> start.unlimited \/ Usable(boosts, "unlimited") # {}
    /\ ~sum.unlimited => (sum.enabled <=> start.enabled \/ Usable(boosts, "enable") # {})
    /\ ~sum.unlimited => sum.limit = Int64(Boosted(start, boosts, Counted))

\* Before the first turn that is the pool of the packages,
LEMMA BoostsGatheredNothing ==
  ASSUME NEW start \in BoostSum, start.limit = Int64(start.limit), NEW Counted
  PROVE  BoostsGathered(start, start, <<>>, Counted)
<1>1. \A type : Usable(<<>>, type) = {}
  BY DEF Usable
<1>2. Adding(<<>>, Counted) = {}
  BY DEF Adding
<1>3. Added(<<>>, Counted) = 0
  BY <1>2, SumOfNone DEF Added
<1>4. Boosted(start, <<>>, Counted) = start.limit
  BY <1>3 DEF Boosted, BoostSum
<1> QED BY <1>1, <1>4 DEF BoostsGathered

\* and a turn gathers the next boost.
LEMMA BoostsGatheredOneMore ==
  ASSUME NEW k \in Nat, NEW b \in [1..k -> Boost], NEW boost \in Boost,
         NEW start \in BoostSum, NEW sum, NEW Counted \in SUBSET {"add_limit", "unknown"},
         BoostsGathered(sum, start, b, Counted)
  PROVE  BoostsGathered(AddBoost(sum, boost, Counted), start, Append(b, boost), Counted)
<1> DEFINE q == Append(b, boost)
           new == AddBoost(sum, boost, Counted)
<1>1. sum \in BoostSum /\ new \in BoostSum /\ sum.assigned = start.assigned
  BY AddBoostType DEF BoostsGathered
<1>2. Usable(q, "unlimited") # {} <=> Usable(b, "unlimited") # {} \/ Grants(boost, "unlimited")
  BY UsableAppend
<1>3. Usable(q, "enable") # {} <=> Usable(b, "enable") # {} \/ Grants(boost, "enable")
  BY UsableAppend
<1>4. Added(q, Counted) = Added(b, Counted) + (IF Adds(boost, Counted) THEN boost.left ELSE 0)
  BY AddedAppend
<1>5. Added(b, Counted) \in Nat /\ boost.left \in Int
  BY AddingCounts, BoostFields
<1> HIDE DEF q
<1>6. CASE sum.unlimited
  <2>1. new = sum
    BY <1>6 DEF AddBoost
  <2>2. start.unlimited \/ Usable(q, "unlimited") # {}
    BY <1>2, <1>6 DEF BoostsGathered
  <2> QED BY <1>1, <1>6, <2>1, <2>2 DEF BoostsGathered, q
<1>7. CASE ~sum.unlimited
  <2>1. /\ ~start.unlimited /\ Usable(b, "unlimited") = {}
        /\ sum.enabled <=> start.enabled \/ Usable(b, "enable") # {}
        /\ sum.limit = Int64(Boosted(start, b, Counted))
    BY <1>7 DEF BoostsGathered
  <2>2. new = IF Grants(boost, "unlimited") THEN [sum EXCEPT !.unlimited = TRUE]
              ELSE IF Grants(boost, "enable") THEN [sum EXCEPT !.enabled = TRUE]
              ELSE IF sum.assigned /\ Adds(boost, Counted)
                   THEN [sum EXCEPT !.limit = Int64(sum.limit + boost.left)]
              ELSE sum
    BY <1>1, <1>7, AddBoostIs
  <2>3. Boosted(start, b, Counted) \in Int
    BY <1>5 DEF Boosted, BoostSum
  <2> HIDE DEF new
  <2>4. CASE Grants(boost, "unlimited")
    <3>1. new.assigned = sum.assigned /\ new.unlimited
      BY <1>1, <2>2, <2>4 DEF BoostSum
    <3>2. Usable(q, "unlimited") # {}
      BY <1>2, <2>4
    <3> QED BY <1>1, <3>1, <3>2 DEF BoostsGathered, q, new
  <2>5. CASE ~Grants(boost, "unlimited") /\ Grants(boost, "enable")
    <3>1. /\ new.assigned = sum.assigned /\ ~new.unlimited /\ new.enabled
          /\ new.limit = sum.limit
      BY <1>1, <1>7, <2>2, <2>5 DEF BoostSum
    <3>2. Usable(q, "unlimited") = {} /\ Usable(q, "enable") # {}
      BY <1>2, <1>3, <2>1, <2>5
    <3>3. ~Adds(boost, Counted)
      BY <2>5 DEF Grants, Adds
    <3>4. Boosted(start, q, Counted) = Boosted(start, b, Counted)
      BY <1>4, <1>5, <3>3 DEF Boosted
    <3> QED BY <1>1, <2>1, <3>1, <3>2, <3>4 DEF BoostsGathered, q, new
  <2>6. CASE ~Grants(boost, "unlimited") /\ ~Grants(boost, "enable")
    <3>1. Usable(q, "unlimited") = {} /\ (Usable(q, "enable") # {} <=> Usable(b, "enable") # {})
      BY <1>2, <1>3, <2>1, <2>6
    <3>2. CASE sum.assigned /\ Adds(boost, Counted)
      <4>1. /\ new.assigned = sum.assigned /\ ~new.unlimited /\ new.enabled = sum.enabled
            /\ new.limit = Int64(sum.limit + boost.left)
        BY <1>1, <1>7, <2>2, <2>6, <3>2 DEF BoostSum
      <4>2. Boosted(start, q, Counted) = Boosted(start, b, Counted) + boost.left
        BY <1>1, <1>4, <1>5, <3>2 DEF Boosted, BoostSum
      <4>3. new.limit = Int64(Boosted(start, q, Counted))
        BY <1>5, <2>1, <2>3, <4>1, <4>2, Int64OfInt64
      <4> QED BY <1>1, <2>1, <3>1, <4>1, <4>3 DEF BoostsGathered, q, new
    <3>3. CASE ~(sum.assigned /\ Adds(boost, Counted))
      <4>1. new = sum
        BY <2>2, <2>6, <3>3
      <4>2. Boosted(start, q, Counted) = Boosted(start, b, Counted)
        BY <1>1, <1>4, <1>5, <3>3 DEF Boosted
      <4> QED BY <1>1, <1>7, <2>1, <3>1, <4>1, <4>2 DEF BoostsGathered, q, new
    <3> QED BY <3>2, <3>3
  <2> QED BY <2>4, <2>5, <2>6
<1> QED BY <1>6, <1>7

\* The loop over the boosts gathers all of them.
LEMMA AllBoostsGathered ==
  ASSUME NEW n \in Nat, NEW boosts \in [1..n -> Boost], NEW start \in BoostSum,
         start.limit = Int64(start.limit), NEW Counted \in SUBSET {"add_limit", "unknown"}
  PROVE  BoostsGathered(FoldLeft(LAMBDA sum, boost: AddBoost(sum, boost, Counted), start, boosts),
                        start, boosts, Counted)
<1>1. PICK turns : /\ BoostTurns(turns, n, start, boosts, Counted)
                   /\ FoldLeft(LAMBDA sum, boost: AddBoost(sum, boost, Counted), start, boosts) = turns[n]
  BY BoostLoop
<1> DEFINE T == {k \in 0..n : BoostsGathered(turns[k], start, FirstOf(boosts, k), Counted)}
<1>2. 0 \in T
  <2>0. turns[0] = start
    BY <1>1 DEF BoostTurns
  <2>1. turns[0] = start /\ FirstOf(boosts, 0) = <<>>
    BY <2>0 DEF FirstOf
  <2>2. BoostsGathered(turns[0], start, FirstOf(boosts, 0), Counted)
    BY <2>1, BoostsGatheredNothing
  <2> QED BY <2>2
<1>3. ASSUME NEW k \in 0..(n - 1), k \in T
      PROVE  k + 1 \in T
  <2>1. /\ FirstOf(boosts, k) \in [1..k -> Boost]
        /\ boosts[k + 1] \in Boost
        /\ FirstOf(boosts, k + 1) = Append(FirstOf(boosts, k), boosts[k + 1])
    <3>1. boosts[k + 1] \in Boost
      OBVIOUS
    <3>2. FirstOf(boosts, k) \in [1..k -> Boost]
      BY DEF FirstOf
    <3>3. FirstOf(boosts, k + 1) = Append(FirstOf(boosts, k), boosts[k + 1])
      BY FirstOfStep
    <3> QED BY <3>1, <3>2, <3>3
  <2>2. turns[k + 1] = AddBoost(turns[k], boosts[k + 1], Counted)
    <3>1. k + 1 \in 1..n /\ (k + 1) - 1 = k
      OBVIOUS
    <3> QED BY <1>1, <3>1 DEF BoostTurns
  <2>3. BoostsGathered(turns[k], start, FirstOf(boosts, k), Counted) /\ k \in Nat
    BY <1>3
  <2>4. BoostsGathered(AddBoost(turns[k], boosts[k + 1], Counted), start,
                       Append(FirstOf(boosts, k), boosts[k + 1]), Counted)
    BY <2>1, <2>3, BoostsGatheredOneMore
  <2>5. k + 1 \in 0..n
    OBVIOUS
  <2> QED BY <2>1, <2>2, <2>4, <2>5
<1> HIDE DEF T
<1>4. 0..n \subseteq T
  <2>1. \A k \in 0..(n - 1) : k \in T => k + 1 \in T
    BY <1>3
  <2> QED BY <1>2, <2>1, RangeInduction
<1>5. BoostsGathered(turns[n], start, FirstOf(boosts, n), Counted)
  BY <1>4 DEF T
<1> QED BY <1>1, <1>5, FirstOfGrows

\* The pool, with the boosts of the types that are counted.
Total(packages, boosts, Counted) ==
    PackageTotal(packages) + (IF Listing(packages) # {} THEN Added(boosts, Counted) ELSE 0)

\* What both loops together leave of a workspace.
IsPool(sum, packages, boosts, Counted) ==
    /\ sum \in BoostSum
    /\ sum.assigned <=> Listing(packages) # {}
    /\ sum.unlimited <=> IsFree(packages) \/ Usable(boosts, "unlimited") # {}
    /\ ~sum.unlimited => (sum.enabled <=> Usable(boosts, "enable") # {})
    /\ ~sum.unlimited => /\ Total(packages, boosts, Counted) \in Int
                         /\ sum.limit = Int64(Total(packages, boosts, Counted))

\* The loop over the boosts goes on from the one over the packages.
LEMMA PoolIs ==
  ASSUME NEW n \in Nat, NEW packages \in [1..n -> Package],
         NEW m \in Nat, NEW boosts \in [1..m -> Boost],
         NEW Counted \in SUBSET {"add_limit", "unknown"}
  PROVE  IsPool(WithBoosts(packages, boosts, Counted), packages, boosts, Counted)
<1> DEFINE limit == PackageLimit(packages)
           start == [limit |-> limit.limit, assigned |-> limit.assigned,
                     unlimited |-> limit.unlimited, enabled |-> FALSE]
           sum == FoldLeft(LAMBDA s, boost: AddBoost(s, boost, Counted), start, boosts)
<1>1. /\ limit \in [assigned: BOOLEAN, unlimited: BOOLEAN, limit: Int]
      /\ limit.assigned <=> Listing(packages) # {}
      /\ limit.unlimited <=> IsFree(packages)
      /\ IsFree(packages) => limit.limit = 0
      /\ ~IsFree(packages) => /\ PackageTotal(packages) \in Int
                              /\ limit.limit = Int64(PackageTotal(packages))
  BY PackageLimitIs
<1>2. WithBoosts(packages, boosts, Counted) = sum
  BY DEF WithBoosts
<1> HIDE DEF limit
<1>3. start \in BoostSum
  BY <1>1 DEF BoostSum
<1>4. Int64(0) = 0
  BY IntAssumption DEF Int64
<1>5. \A a \in Int : Int64(Int64(a)) = Int64(a)
  <2> TAKE a \in Int
  <2>1. Int64(a) \in Int /\ a + 0 = a /\ Int64(a) + 0 = Int64(a)
    BY Int64IsInt
  <2>2. Int64(Int64(a) + 0) = Int64(a + 0)
    BY Int64OfInt64
  <2> QED BY <2>1, <2>2
<1>6. start.limit = Int64(start.limit)
  BY <1>1, <1>4, <1>5
<1>7. BoostsGathered(sum, start, boosts, Counted)
  <2> HIDE DEF start
  <2> QED BY <1>3, <1>6, AllBoostsGathered
<1>8. Added(boosts, Counted) \in Nat
  BY AddingCounts
<1> HIDE DEF sum
<1>9. /\ sum \in BoostSum
      /\ sum.assigned <=> Listing(packages) # {}
      /\ sum.unlimited <=> IsFree(packages) \/ Usable(boosts, "unlimited") # {}
      /\ ~sum.unlimited => (sum.enabled <=> Usable(boosts, "enable") # {})
      /\ ~sum.unlimited => sum.limit = Int64(Boosted(start, boosts, Counted))
  BY <1>1, <1>7 DEF BoostsGathered
<1>10. ASSUME ~sum.unlimited
       PROVE  /\ Total(packages, boosts, Counted) \in Int
              /\ sum.limit = Int64(Total(packages, boosts, Counted))
  <2>1. PackageTotal(packages) \in Int /\ limit.limit = Int64(PackageTotal(packages))
    BY <1>1, <1>9, <1>10
  <2> DEFINE more == IF Listing(packages) # {} THEN Added(boosts, Counted) ELSE 0
  <2>2. more \in Int /\ Total(packages, boosts, Counted) = PackageTotal(packages) + more
    BY <1>8 DEF Total
  <2>3. Boosted(start, boosts, Counted) = Int64(PackageTotal(packages)) + more
    BY <1>1, <2>1 DEF Boosted
  <2>4. sum.limit = Int64(Boosted(start, boosts, Counted))
    BY <1>9, <1>10
  <2> HIDE DEF more
  <2>5. sum.limit = Int64(PackageTotal(packages) + more)
    BY <2>1, <2>2, <2>3, <2>4, Int64OfInt64
  <2> QED BY <2>1, <2>2, <2>5
<1> QED BY <1>2, <1>9, <1>10 DEF IsPool

-----------------------------------------------------------------------------
(* Can and the summary without loops *)

\* Nothing is counted.
Free(type, packages, boosts) ==
    \/ IsFree(packages)
    \/ Usable(boosts, "unlimited") # {}
    \/ type = "unlimited" /\ Listing(packages) # {}

\* The lists of a workspace, with their lengths.
Workspace(type, n, packages, m, boosts, used) ==
    /\ type \in FeatureType
    /\ n \in Nat /\ packages \in [1..n -> Package]
    /\ m \in Nat /\ boosts \in [1..m -> Boost]
    /\ used \in Nat

\* Can without its loops: entitlement.go:157.
LEMMA CanIs ==
  ASSUME NEW type, NEW n, NEW packages, NEW m, NEW boosts, NEW used, NEW quantity,
         Workspace(type, n, packages, m, boosts, used)
  PROVE  Can(type, packages, boosts, used, quantity) =
           IF Free(type, packages, boosts) THEN AllowUnlimited
           ELSE IF Listing(packages) = {} /\ ~(type = "boolean" /\ Usable(boosts, "enable") # {})
                THEN Deny(Nil, Nil)
           ELSE IF type = "boolean" THEN Allow(Nil, Nil)
           ELSE IF Int64(used + Asked(quantity)) > Int64(Total(packages, boosts, CountedByCan))
                THEN Deny(Int64(Total(packages, boosts, CountedByCan)), used)
           ELSE Allow(Int64(Total(packages, boosts, CountedByCan)), used)
<1> DEFINE sum == WithBoosts(packages, boosts, CountedByCan)
<1>1. IsPool(sum, packages, boosts, CountedByCan)
  <2>1. CountedByCan \in SUBSET {"add_limit", "unknown"}
    BY DEF CountedByCan
  <2> QED BY <2>1, PoolIs DEF Workspace
<1>2. Can(type, packages, boosts, used, quantity) =
        IF sum.unlimited \/ (type = "unlimited" /\ sum.assigned) THEN AllowUnlimited
        ELSE IF ~(sum.assigned \/ (type = "boolean" /\ sum.enabled)) THEN Deny(Nil, Nil)
        ELSE IF type = "boolean" THEN Allow(Nil, Nil)
        ELSE IF Int64(used + Asked(quantity)) > sum.limit THEN Deny(sum.limit, used)
        ELSE Allow(sum.limit, used)
  BY DEF Can, Asked
<1> HIDE DEF sum
<1>3. sum.unlimited \/ (type = "unlimited" /\ sum.assigned) <=> Free(type, packages, boosts)
  BY <1>1 DEF IsPool, Free
<1>4. CASE Free(type, packages, boosts)
  BY <1>2, <1>3, <1>4
<1>5. CASE ~Free(type, packages, boosts)
  <2>1. /\ ~sum.unlimited
        /\ sum.limit = Int64(Total(packages, boosts, CountedByCan))
        /\ sum.assigned <=> Listing(packages) # {}
        /\ sum.enabled <=> Usable(boosts, "enable") # {}
    BY <1>1, <1>3, <1>5 DEF IsPool
  <2> QED BY <1>2, <1>3, <1>5, <2>1
<1> QED BY <1>4, <1>5

\* The row of the summary without its loops: entitlement.go:410.
LEMMA SummaryIs ==
  ASSUME NEW type, NEW n, NEW packages, NEW m, NEW boosts, NEW used,
         Workspace(type, n, packages, m, boosts, used)
  PROVE  SummaryForFeature(type, packages, boosts, used) =
           [unlimited |-> Free(type, packages, boosts),
            limit |-> IF /\ Listing(packages) # {} /\ ~Free(type, packages, boosts)
                         /\ type \notin {"boolean", "unlimited"}
                      THEN Int64(Total(packages, boosts, CountedBySummary)) ELSE Nil,
            used |-> IF type = "boolean" /\ ~Free(type, packages, boosts) THEN Nil ELSE used]
<1> DEFINE sum == WithBoosts(packages, boosts, CountedBySummary)
           unlimited == sum.unlimited \/ (type = "unlimited" /\ sum.assigned)
<1>1. IsPool(sum, packages, boosts, CountedBySummary)
  <2>1. CountedBySummary \in SUBSET {"add_limit", "unknown"}
    BY DEF CountedBySummary
  <2> QED BY <2>1, PoolIs DEF Workspace
<1>2. SummaryForFeature(type, packages, boosts, used) =
        [unlimited |-> unlimited,
         limit |-> IF sum.assigned /\ ~sum.unlimited /\ type \notin {"boolean", "unlimited"}
                   THEN sum.limit ELSE Nil,
         used |-> IF type = "boolean" /\ ~unlimited THEN Nil ELSE used]
  BY DEF SummaryForFeature, HasLimit
<1>3. unlimited = Free(type, packages, boosts)
  BY <1>1 DEF IsPool, Free
<1>4. sum.assigned <=> Listing(packages) # {}
  BY <1>1 DEF IsPool
<1>5. ~sum.unlimited => sum.limit = Int64(Total(packages, boosts, CountedBySummary))
  BY <1>1 DEF IsPool
<1>6. type # "unlimited" => (sum.unlimited <=> Free(type, packages, boosts))
  BY <1>3
<1> DEFINE shown == IF sum.assigned /\ ~sum.unlimited /\ type \notin {"boolean", "unlimited"}
                    THEN sum.limit ELSE Nil
<1>7. shown = IF /\ Listing(packages) # {} /\ ~Free(type, packages, boosts)
                 /\ type \notin {"boolean", "unlimited"}
              THEN Int64(Total(packages, boosts, CountedBySummary)) ELSE Nil
  <2> HIDE DEF sum
  <2> QED BY <1>4, <1>5, <1>6
<1> HIDE DEF sum, unlimited, shown
<1> QED BY <1>2, <1>3, <1>7 DEF shown

\* r is list in another order: at says where each of its elements has gone, and
\* back where each has come from.
Reordered(r, list, n) ==
    \E at, back :
        /\ at \in [1..n -> 1..n] /\ back \in [1..n -> 1..n]
        /\ \A i \in 1..n : back[at[i]] = i /\ at[back[i]] = i /\ r[at[i]] = list[i]

\* A list from its end is the list in another order.
LEMMA ReverseIs ==
  ASSUME NEW n \in Nat, NEW S, NEW list \in [1..n -> S]
  PROVE  Reverse(list) \in [1..n -> S] /\ Reordered(Reverse(list), list, n)
<1> DEFINE at == [i \in 1..n |-> n - i + 1]
<1>1. Len(list) = n
  <2>1. list \in Seq(S)
    OBVIOUS
  <2> QED BY <2>1
<1>2. Reverse(list) = [i \in 1..n |-> list[n - i + 1]]
  BY <1>1 DEF Reverse
<1>3. at \in [1..n -> 1..n]
  OBVIOUS
<1>4. \A i \in 1..n : at[at[i]] = i /\ Reverse(list)[at[i]] = list[i]
  <2> TAKE i \in 1..n
  <2>1. at[i] \in 1..n /\ at[i] = n - i + 1 /\ n - at[i] + 1 = i
    OBVIOUS
  <2>2. at[at[i]] = n - at[i] + 1
    BY <2>1
  <2> HIDE DEF at
  <2> QED BY <1>2, <2>1, <2>2
<1> HIDE DEF at
<1>5. Reordered(Reverse(list), list, n)
  BY <1>3, <1>4 DEF Reordered
<1> QED BY <1>2, <1>5

\* Packages in another order have the same pool,
LEMMA PackagesReordered ==
  ASSUME NEW n \in Nat, NEW p \in [1..n -> Package], NEW r \in [1..n -> Package], Reordered(r, p, n)
  PROVE  /\ Listing(r) # {} <=> Listing(p) # {}
         /\ IsFree(r) <=> IsFree(p)
         /\ PackageTotal(r) = PackageTotal(p)
<1>1. PICK at, back :
         /\ at \in [1..n -> 1..n] /\ back \in [1..n -> 1..n]
         /\ \A i \in 1..n : back[at[i]] = i /\ at[back[i]] = i /\ r[at[i]] = p[i]
  BY DEF Reordered
<1>2. \A i \in 1..n : at[i] \in 1..n /\ back[i] \in 1..n /\ at[back[i]] = i
  BY <1>1
<1>3. \A i \in 1..n : r[at[i]] = p[i]
  BY <1>1
<1>4. \A i, j \in 1..n : at[i] = at[j] => i = j
  BY <1>1
<1>5. DOMAIN p = 1..n /\ DOMAIN r = 1..n
  OBVIOUS
<1>6. \A i \in 1..n : i \in Listing(p) <=> at[i] \in Listing(r)
  BY <1>2, <1>3, <1>5 DEF Listing
<1>7. Listing(p) \subseteq 1..n /\ Listing(r) \subseteq 1..n
  BY <1>5 DEF Listing
<1>8. \A i \in 1..n : r[i] = p[back[i]]
  BY <1>2, <1>3
<1>9. Listing(r) # {} <=> Listing(p) # {}
  BY <1>2, <1>6, <1>7
<1>10. IsFree(r) <=> IsFree(p)
  <2>1. ASSUME NEW i \in Listing(p) PROVE at[i] \in Listing(r) /\ r[at[i]] = p[i]
    BY <1>3, <1>6, <1>7
  <2>2. ASSUME NEW i \in Listing(r) PROVE back[i] \in Listing(p) /\ p[back[i]] = r[i]
    BY <1>2, <1>6, <1>7, <1>8
  <2> QED BY <2>1, <2>2 DEF IsFree
<1>11. \A i \in 1..n : /\ i \in Numbered(p) <=> at[i] \in Numbered(r)
                       /\ i \in Stacked(p) <=> at[i] \in Stacked(r)
  BY <1>3, <1>6 DEF Numbered, Stacked
<1>12. Numbered(p) \subseteq 1..n /\ Numbered(r) \subseteq 1..n
  BY <1>7 DEF Numbered
<1>13. Base(r) = Base(p)
  <2>1. ASSUME NEW i \in Numbered(p) \ Stacked(p) PROVE p[i].limit \in Base(r)
    <3>1. at[i] \in Numbered(r) \ Stacked(r) /\ r[at[i]] = p[i]
      BY <1>3, <1>11, <1>12
    <3> QED BY <3>1 DEF Base
  <2>2. ASSUME NEW i \in Numbered(r) \ Stacked(r) PROVE r[i].limit \in Base(p)
    <3>1. i \in 1..n /\ back[i] \in 1..n /\ at[back[i]] = i
      BY <1>2, <1>12
    <3>2. back[i] \in Numbered(p) \ Stacked(p) /\ r[i] = p[back[i]]
      BY <1>8, <1>11, <3>1
    <3> QED BY <3>2 DEF Base
  <2> QED BY <2>1, <2>2 DEF Base
<1>14. StackedTotal(r) = StackedTotal(p)
  <2>1. Counting(LimitsOf(p), Stacked(p))
    BY StackedCounts
  <2>2. Stacked(p) \subseteq 1..n /\ Stacked(r) \subseteq 1..n
    BY <1>12 DEF Stacked
  <2>3. {at[i] : i \in Stacked(p)} = Stacked(r)
    <3>1. \A i \in Stacked(p) : at[i] \in Stacked(r)
      BY <1>11, <2>2
    <3>2. ASSUME NEW i \in Stacked(r) PROVE back[i] \in Stacked(p) /\ at[back[i]] = i
      <4>1. i \in 1..n /\ back[i] \in 1..n /\ at[back[i]] = i
        BY <1>2, <2>2
      <4> QED BY <1>11, <4>1
    <3> QED BY <3>1, <3>2
  <2>4. \A i \in Stacked(p) : LimitsOf(r)[at[i]] = LimitsOf(p)[i]
    BY <1>2, <1>3, <1>5, <2>2 DEF LimitsOf
  <2>5. \A i, j \in Stacked(p) : at[i] = at[j] => i = j
    BY <1>4, <2>2
  <2>6. SumFunctionOnSet(LimitsOf(r), {at[i] : i \in Stacked(p)}) = SumFunctionOnSet(LimitsOf(p), Stacked(p))
    BY <2>1, <2>4, <2>5, SumMoved
  <2> QED BY <2>3, <2>6 DEF StackedTotal
<1>15. /\ PackageTotal(r) = (IF Base(r) = {} THEN 0 ELSE Max(Base(r))) + StackedTotal(r)
       /\ PackageTotal(p) = (IF Base(p) = {} THEN 0 ELSE Max(Base(p))) + StackedTotal(p)
  BY DEF PackageTotal, StackedTotal, LimitsOf
<1>16. PackageTotal(r) = PackageTotal(p)
  BY <1>13, <1>14, <1>15
<1> QED BY <1>9, <1>10, <1>16

\* and boosts in another order give the same and add the same.
LEMMA BoostsReordered ==
  ASSUME NEW n \in Nat, NEW b \in [1..n -> Boost], NEW r \in [1..n -> Boost], Reordered(r, b, n),
         NEW Counted
  PROVE  /\ \A type : Usable(r, type) # {} <=> Usable(b, type) # {}
         /\ Added(r, Counted) = Added(b, Counted)
<1>1. PICK at, back :
         /\ at \in [1..n -> 1..n] /\ back \in [1..n -> 1..n]
         /\ \A i \in 1..n : back[at[i]] = i /\ at[back[i]] = i /\ r[at[i]] = b[i]
  BY DEF Reordered
<1>2. \A i \in 1..n : at[i] \in 1..n /\ back[i] \in 1..n /\ at[back[i]] = i
  BY <1>1
<1>3. \A i \in 1..n : r[at[i]] = b[i]
  BY <1>1
<1>4. \A i, j \in 1..n : at[i] = at[j] => i = j
  BY <1>1
<1>5. DOMAIN b = 1..n /\ DOMAIN r = 1..n
  OBVIOUS
<1>6. \A i \in 1..n : r[i] = b[back[i]]
  BY <1>2, <1>3
<1>7. ASSUME NEW type PROVE Usable(r, type) # {} <=> Usable(b, type) # {}
  <2>1. /\ Usable(b, type) = {i \in 1..n : Grants(b[i], type)}
        /\ Usable(r, type) = {i \in 1..n : Grants(r[i], type)}
    BY <1>5 DEF Usable, Grants
  <2> QED BY <1>2, <1>3, <1>6, <2>1
<1>8. Added(r, Counted) = Added(b, Counted)
  <2>0. /\ Adding(b, Counted) = {i \in 1..n : Adds(b[i], Counted)}
        /\ Adding(r, Counted) = {i \in 1..n : Adds(r[i], Counted)}
    BY <1>5 DEF Adding
  <2>1. Counting(LeftOf(b), Adding(b, Counted))
    BY AddingCounts
  <2>2. Adding(b, Counted) \subseteq 1..n /\ Adding(r, Counted) \subseteq 1..n
    BY <2>0
  <2>3. {at[i] : i \in Adding(b, Counted)} = Adding(r, Counted)
    <3>1. \A i \in Adding(b, Counted) : at[i] \in Adding(r, Counted)
      BY <1>2, <1>3, <2>0
    <3>2. ASSUME NEW i \in Adding(r, Counted) PROVE back[i] \in Adding(b, Counted) /\ at[back[i]] = i
      <4>1. i \in 1..n /\ back[i] \in 1..n /\ at[back[i]] = i
        BY <1>2, <2>2
      <4> QED BY <1>6, <2>0, <4>1
    <3> QED BY <3>1, <3>2
  <2>4. \A i \in Adding(b, Counted) : LeftOf(r)[at[i]] = LeftOf(b)[i]
    BY <1>2, <1>3, <1>5, <2>2 DEF LeftOf
  <2>5. \A i, j \in Adding(b, Counted) : at[i] = at[j] => i = j
    BY <1>4, <2>2
  <2>6. SumFunctionOnSet(LeftOf(r), {at[i] : i \in Adding(b, Counted)}) = SumFunctionOnSet(LeftOf(b), Adding(b, Counted))
    BY <2>1, <2>4, <2>5, SumMoved
  <2> QED BY <2>3, <2>6 DEF Added
<1> QED BY <1>7, <1>8

\* Can decides the same, down to the limit and the count it names, in whatever
\* order the API lists the packages and the boosts, early returns and wrap-around
\* included: entitlement.go:157 and 474.
THEOREM AnyOrder ==
  ASSUME NEW type, NEW n, NEW packages, NEW m, NEW boosts, NEW used, NEW quantity,
         Workspace(type, n, packages, m, boosts, used),
         NEW p \in [1..n -> Package], Reordered(p, packages, n),
         NEW b \in [1..m -> Boost], Reordered(b, boosts, m)
  PROVE  Can(type, p, b, used, quantity) = Can(type, packages, boosts, used, quantity)
<1>0. n \in Nat /\ packages \in [1..n -> Package] /\ m \in Nat /\ boosts \in [1..m -> Boost]
  BY DEF Workspace
<1>1. /\ Listing(p) # {} <=> Listing(packages) # {}
      /\ IsFree(p) <=> IsFree(packages)
      /\ PackageTotal(p) = PackageTotal(packages)
  BY <1>0, PackagesReordered
<1>2. /\ \A kind : Usable(b, kind) # {} <=> Usable(boosts, kind) # {}
      /\ Added(b, CountedByCan) = Added(boosts, CountedByCan)
  BY <1>0, BoostsReordered
<1>3. Workspace(type, n, p, m, b, used)
  BY DEF Workspace
<1>4. Free(type, p, b) <=> Free(type, packages, boosts)
  BY <1>1, <1>2 DEF Free
<1>5. Total(p, b, CountedByCan) = Total(packages, boosts, CountedByCan)
  BY <1>1, <1>2 DEF Total
<1>6. Usable(b, "enable") # {} <=> Usable(boosts, "enable") # {}
  BY <1>2
<1> DEFINE limit == Total(packages, boosts, CountedByCan)
<1>7. Can(type, p, b, used, quantity) =
         IF Free(type, packages, boosts) THEN AllowUnlimited
         ELSE IF Listing(packages) = {} /\ ~(type = "boolean" /\ Usable(boosts, "enable") # {})
              THEN Deny(Nil, Nil)
         ELSE IF type = "boolean" THEN Allow(Nil, Nil)
         ELSE IF Int64(used + Asked(quantity)) > Int64(limit)
              THEN Deny(Int64(limit), used)
         ELSE Allow(Int64(limit), used)
  BY <1>1, <1>3, <1>4, <1>5, <1>6, CanIs
<1> QED BY <1>7, CanIs

-----------------------------------------------------------------------------
(* The steps of a check *)

\* What the API may hold.
Held == [type: Types, packages: BoundedSeq(Packages, MaxPackages),
         boosts: BoundedSeq(Boosts, MaxBoosts), used: Counts]

\* What may have been loaded.
Loaded == [type: Types \cup {Nil}, packages: BoundedSeq(Packages, MaxPackages),
           boosts: BoundedSeq(Boosts, MaxBoosts), used: Counts \cup {0}]

\* What has been loaded is what the API holds, or nothing.
LoadsAreTrue ==
    /\ got.packages \in {<<>>, has.packages}
    /\ got.boosts \in {<<>>, has.boosts}
    /\ pc \in {"packages", "boosts", "usage", "decide", "summary"} => got.type = has.type

\* The verdict on what has been loaded.
Verdict == Can(got.type, got.packages, got.boosts, got.used, asked)

\* The row of the summary, made of the same.
Row == SummaryForFeature(got.type, got.packages, got.boosts, got.used)

\* The verdict and the row are those, each from the step on that makes it.
AnswersAreTrue ==
    \/ pc \notin {"summary", "done"} /\ verdict = Nil /\ row = Nil
    \/ pc = "summary" /\ verdict = Verdict /\ row = Nil
    \/ pc = "done" /\ verdict = Deny(Nil, Nil) /\ row = Nil
    \/ pc = "done" /\ got.type = has.type /\ verdict = Verdict /\ row = Row

\* The inductive invariant.
Inv ==
    /\ has \in Held /\ got \in Loaded /\ asked \in Quantities
    /\ pc \in {"feature", "packages", "boosts", "usage", "decide", "summary", "done"}
    /\ LoadsAreTrue
    /\ AnswersAreTrue

\* A list of no more than max elements has a length, and may be empty.
LEMMA BoundedSeqIs ==
  ASSUME NEW S, NEW max \in Nat
  PROVE  /\ <<>> \in BoundedSeq(S, max)
         /\ \A s \in BoundedSeq(S, max) : \E n \in 0..max : s \in [1..n -> S]
<1>1. BoundedSeq(S, max) = UNION {[1..n -> S] : n \in 0..max}
  BY DEF BoundedSeq, SeqOf
<1>2. <<>> \in [1..0 -> S] /\ 0 \in 0..max
  OBVIOUS
<1> QED BY <1>1, <1>2

\* What has been loaded are the lists of a workspace.
LEMMA LoadedIs ==
  ASSUME got \in Loaded, got.type \in Types
  PROVE  \E n, m \in Nat : Workspace(got.type, n, got.packages, m, got.boosts, got.used)
<1>1. PICK n \in 0..MaxPackages : got.packages \in [1..n -> Packages]
  BY DataAssumption, BoundedSeqIs DEF Loaded
<1>2. PICK m \in 0..MaxBoosts : got.boosts \in [1..m -> Boosts]
  BY DataAssumption, BoundedSeqIs DEF Loaded
<1>3. got.packages \in [1..n -> Package] /\ got.boosts \in [1..m -> Boost]
  BY <1>1, <1>2, DataAssumption
<1>4. got.used \in Nat /\ got.type \in FeatureType
  <2>1. Counts \subseteq Nat /\ Types \subseteq FeatureType
    BY DataAssumption
  <2>2. got.used \in Counts \cup {0}
    BY DEF Loaded
  <2>3. got.used \in Nat
    <3>1. \A used \in Counts \cup {0} : used \in Nat
      BY <2>1
    <3> QED BY <2>2, <3>1, Zenon
  <2>4. got.type \in FeatureType
    BY <2>1
  <2> QED BY <2>3, <2>4
<1>5. n \in Nat /\ m \in Nat
  BY DataAssumption
<1> QED BY <1>3, <1>4, <1>5 DEF Workspace

\* The invariant holds at first,
LEMMA InvInit == Init => Inv
<1> SUFFICES ASSUME Init PROVE Inv
  OBVIOUS
<1> USE DEF Init
<1>1. has \in Held
  BY DEF Held
<1>2. Nothing \in Loaded
  BY DataAssumption, BoundedSeqIs DEF Nothing, Loaded
<1>3. LoadsAreTrue
  BY DEF LoadsAreTrue, Nothing
<1>4. AnswersAreTrue
  BY DEF AnswersAreTrue
<1> QED BY <1>1, <1>2, <1>3, <1>4 DEF Inv

\* and every step keeps it.
LEMMA InvStep == Inv /\ [Next]_vars => Inv'
<1> SUFFICES ASSUME Inv, [Next]_vars PROVE Inv'
  OBVIOUS
<1>1. /\ has \in Held /\ got \in Loaded /\ asked \in Quantities
      /\ LoadsAreTrue /\ AnswersAreTrue
  BY DEF Inv
<1>2. CASE LoadFeature
  <2>1. /\ pc = "feature" /\ pc' = "packages" /\ got' = [got EXCEPT !.type = has.type]
        /\ UNCHANGED <<has, asked, verdict, row>>
    BY <1>2 DEF LoadFeature
  <2>2. got' \in Loaded /\ got'.type = has.type /\ got'.packages = got.packages /\ got'.boosts = got.boosts
    BY <1>1, <2>1 DEF Loaded, Held
  <2>3. verdict = Nil /\ row = Nil
    BY <1>1, <2>1 DEF AnswersAreTrue
  <2>4. LoadsAreTrue'
    BY <1>1, <2>1, <2>2 DEF LoadsAreTrue
  <2>5. AnswersAreTrue'
    BY <2>1, <2>3 DEF AnswersAreTrue
  <2> QED BY <1>1, <2>1, <2>2, <2>4, <2>5 DEF Inv
<1>3. CASE NoFeature
  <2>1. /\ pc = "feature" /\ pc' = "done" /\ verdict' = Deny(Nil, Nil)
        /\ UNCHANGED <<has, asked, got, row>>
    BY <1>3 DEF NoFeature
  <2>2. row = Nil
    BY <1>1, <2>1 DEF AnswersAreTrue
  <2>3. LoadsAreTrue'
    BY <1>1, <2>1 DEF LoadsAreTrue
  <2>4. AnswersAreTrue'
    BY <2>1, <2>2 DEF AnswersAreTrue
  <2> QED BY <1>1, <2>1, <2>3, <2>4 DEF Inv
<1>4. CASE LoadPackages
  <2>1. /\ pc = "packages" /\ pc' = "boosts"
        /\ UNCHANGED <<has, asked, verdict, row>>
        /\ \/ got' = [got EXCEPT !.packages = has.packages]
           \/ got' = got
    BY <1>4 DEF LoadPackages, Load
  <2>2. /\ got' \in Loaded /\ got'.type = got.type /\ got'.boosts = got.boosts
        /\ got'.packages \in {got.packages, has.packages}
    BY <1>1, <2>1 DEF Loaded, Held
  <2>3. verdict = Nil /\ row = Nil
    BY <1>1, <2>1 DEF AnswersAreTrue
  <2>4. LoadsAreTrue'
    BY <1>1, <2>1, <2>2 DEF LoadsAreTrue
  <2>5. AnswersAreTrue'
    BY <2>1, <2>3 DEF AnswersAreTrue
  <2> QED BY <1>1, <2>1, <2>2, <2>4, <2>5 DEF Inv
<1>5. CASE LoadBoosts
  <2>1. /\ pc = "boosts" /\ pc' = "usage"
        /\ UNCHANGED <<has, asked, verdict, row>>
        /\ \/ got' = [got EXCEPT !.boosts = has.boosts]
           \/ got' = got
    BY <1>5 DEF LoadBoosts, Load
  <2>2. /\ got' \in Loaded /\ got'.type = got.type /\ got'.packages = got.packages
        /\ got'.boosts \in {got.boosts, has.boosts}
    BY <1>1, <2>1 DEF Loaded, Held
  <2>3. verdict = Nil /\ row = Nil
    BY <1>1, <2>1 DEF AnswersAreTrue
  <2>4. LoadsAreTrue'
    BY <1>1, <2>1, <2>2 DEF LoadsAreTrue
  <2>5. AnswersAreTrue'
    BY <2>1, <2>3 DEF AnswersAreTrue
  <2> QED BY <1>1, <2>1, <2>2, <2>4, <2>5 DEF Inv
<1>6. CASE LoadUsage
  <2>1. /\ pc = "usage" /\ pc' = "decide"
        /\ UNCHANGED <<has, asked, verdict, row>>
        /\ \/ got' = [got EXCEPT !.used = has.used]
           \/ "usage" \in MayFail /\ got' = got
    BY <1>6 DEF LoadUsage, Load
  <2>2. /\ got' \in Loaded /\ got'.type = got.type /\ got'.packages = got.packages
        /\ got'.boosts = got.boosts
    BY <1>1, <2>1 DEF Loaded, Held
  <2>3. verdict = Nil /\ row = Nil
    BY <1>1, <2>1 DEF AnswersAreTrue
  <2>4. LoadsAreTrue'
    BY <1>1, <2>1, <2>2 DEF LoadsAreTrue
  <2>5. AnswersAreTrue'
    BY <2>1, <2>3 DEF AnswersAreTrue
  <2> QED BY <1>1, <2>1, <2>2, <2>4, <2>5 DEF Inv
<1>7. CASE Decide
  <2>1. /\ pc = "decide" /\ pc' = "summary" /\ verdict' = Verdict
        /\ UNCHANGED <<has, asked, got, row>>
    BY <1>7 DEF Decide, Verdict
  <2>2. row = Nil
    BY <1>1, <2>1 DEF AnswersAreTrue
  <2>3. LoadsAreTrue'
    BY <1>1, <2>1 DEF LoadsAreTrue
  <2>4. Verdict' = Verdict
    BY <2>1 DEF Verdict
  <2>5. AnswersAreTrue'
    BY <2>1, <2>2, <2>4 DEF AnswersAreTrue
  <2> QED BY <1>1, <2>1, <2>3, <2>5 DEF Inv
<1>8. CASE Summarise
  <2>1. /\ pc = "summary" /\ pc' = "done" /\ row' = Row
        /\ UNCHANGED <<has, asked, got, verdict>>
    BY <1>8 DEF Summarise, Row
  <2>2. verdict = Verdict /\ got.type = has.type
    BY <1>1, <2>1 DEF AnswersAreTrue, LoadsAreTrue
  <2>3. LoadsAreTrue'
    BY <1>1, <2>1 DEF LoadsAreTrue
  <2>4. Verdict' = Verdict /\ Row' = Row
    BY <2>1 DEF Verdict, Row
  <2>5. AnswersAreTrue'
    BY <2>1, <2>2, <2>4 DEF AnswersAreTrue
  <2> QED BY <1>1, <2>1, <2>3, <2>5 DEF Inv
<1>9. CASE UNCHANGED vars
  <2>1. UNCHANGED <<has, asked, got, pc, verdict, row>>
    BY <1>9 DEF vars
  <2>2. Verdict' = Verdict /\ Row' = Row
    BY <2>1 DEF Verdict, Row
  <2>3. AnswersAreTrue'
    BY <1>1, <2>1, <2>2 DEF AnswersAreTrue
  <2>4. LoadsAreTrue'
    BY <1>1, <2>1 DEF LoadsAreTrue
  <2> QED BY <2>1, <2>3, <2>4 DEF Inv
<1> QED BY <1>2, <1>3, <1>4, <1>5, <1>6, <1>7, <1>8, <1>9 DEF Next

\* Can and the row are made of what was loaded, and that is what the API holds or
\* nothing, at every step of a check: entitlement.go:157.
THEOREM InvHolds == Spec => []Inv
BY InvInit, InvStep, PTL DEF Spec

-----------------------------------------------------------------------------
(* Types *)

\* What Can may return.
VerdictType == [allowed: BOOLEAN, unlimited: BOOLEAN, limit: Int \cup {Nil}, used: Int \cup {Nil}]

\* A limit and a count come together or not at all, and neither with unlimited.
LEMMA CanType ==
  ASSUME NEW type, NEW n, NEW packages, NEW m, NEW boosts, NEW used, NEW quantity,
         Workspace(type, n, packages, m, boosts, used)
  PROVE  LET v == Can(type, packages, boosts, used, quantity) IN
         /\ v \in VerdictType
         /\ (v.limit = Nil) = (v.used = Nil)
         /\ v.unlimited => v.limit = Nil
<1> DEFINE v == Can(type, packages, boosts, used, quantity)
           limit == Int64(Total(packages, boosts, CountedByCan))
<1>1. \/ v = AllowUnlimited
      \/ v = Deny(Nil, Nil)
      \/ v = Allow(Nil, Nil)
      \/ ~Free(type, packages, boosts) /\ v \in {Deny(limit, used), Allow(limit, used)}
  BY CanIs
<1>2. ~Free(type, packages, boosts) => limit \in Int
  <2>1. CountedByCan \in SUBSET {"add_limit", "unknown"}
    BY DEF CountedByCan
  <2> DEFINE sum == WithBoosts(packages, boosts, CountedByCan)
  <2>2. IsPool(sum, packages, boosts, CountedByCan)
    BY <2>1, PoolIs DEF Workspace
  <2> HIDE DEF sum
  <2>3. ~Free(type, packages, boosts) => Total(packages, boosts, CountedByCan) \in Int
    BY <2>2 DEF IsPool, Free
  <2> QED BY <2>3, Int64IsInt
<1>3. used \in Int
  BY DEF Workspace
<1>4. \A l, u \in Int : l # Nil /\ u # Nil
  BY NilAssumption
<1> HIDE DEF v, limit
<1>5. CASE v = AllowUnlimited \/ v = Deny(Nil, Nil) \/ v = Allow(Nil, Nil)
  <2>1. AllowUnlimited \in VerdictType /\ AllowUnlimited.limit = Nil /\ AllowUnlimited.used = Nil
    BY DEF AllowUnlimited, VerdictType
  <2>2. Deny(Nil, Nil) \in VerdictType /\ Deny(Nil, Nil).limit = Nil /\ Deny(Nil, Nil).used = Nil
    BY DEF Deny, VerdictType
  <2>3. Allow(Nil, Nil) \in VerdictType /\ Allow(Nil, Nil).limit = Nil /\ Allow(Nil, Nil).used = Nil
    BY DEF Allow, VerdictType
  <2>4. v \in VerdictType /\ v.limit = Nil /\ v.used = Nil
    BY <1>5, <2>1, <2>2, <2>3
  <2> QED BY <2>4 DEF v
<1>6. CASE limit \in Int /\ v \in {Deny(limit, used), Allow(limit, used)}
  <2>1. limit # Nil /\ used # Nil
    BY <1>3, <1>4, <1>6
  <2>2. /\ Deny(limit, used) \in VerdictType /\ ~Deny(limit, used).unlimited
        /\ Deny(limit, used).limit = limit /\ Deny(limit, used).used = used
    BY <1>3, <1>6 DEF Deny, VerdictType
  <2>3. /\ Allow(limit, used) \in VerdictType /\ ~Allow(limit, used).unlimited
        /\ Allow(limit, used).limit = limit /\ Allow(limit, used).used = used
    BY <1>3, <1>6 DEF Allow, VerdictType
  <2>4. v \in VerdictType /\ ~v.unlimited /\ v.limit = limit /\ v.used = used
    BY <1>6, <2>2, <2>3
  <2> QED BY <2>1, <2>4 DEF v
<1> QED BY <1>1, <1>2, <1>5, <1>6

\* The variables keep their types, and a verdict has a limit and a count or
\* neither, on which UsagePercent and the alerts rely: entitlement.go:157.
THEOREM TypeCorrect == Spec => []TypeOK
<1>1. Inv => TypeOK
  <2> SUFFICES ASSUME Inv PROVE TypeOK
    OBVIOUS
  <2>1. /\ has \in Held /\ got \in Loaded /\ asked \in Quantities
        /\ LoadsAreTrue /\ AnswersAreTrue
        /\ pc \in {"feature", "packages", "boosts", "usage", "decide", "summary", "done"}
    BY DEF Inv
  <2>2. got.type \in Types \cup {Nil}
    BY <2>1 DEF Loaded
  <2>3. ASSUME verdict # Nil
        PROVE  /\ verdict \in VerdictType
               /\ (verdict.limit = Nil) = (verdict.used = Nil)
               /\ verdict.unlimited => verdict.limit = Nil
    <3>1. CASE verdict = Deny(Nil, Nil)
      BY <3>1 DEF Deny, VerdictType
    <3>2. CASE got.type \in Types /\ verdict = Verdict
      <4>1. PICK n, m \in Nat : Workspace(got.type, n, got.packages, m, got.boosts, got.used)
        BY <2>1, <3>2, LoadedIs
      <4> QED BY <3>2, <4>1, CanType DEF Verdict
    <3>3. got.type = has.type \/ pc # "summary"
      BY <2>1 DEF LoadsAreTrue
    <3>4. has.type \in Types
      BY <2>1 DEF Held
    <3> QED BY <2>1, <2>3, <3>1, <3>2, <3>3, <3>4 DEF AnswersAreTrue
  <2> QED BY <2>1, <2>2, <2>3 DEF TypeOK, VerdictType
<1> QED BY <1>1, InvHolds, PTL

-----------------------------------------------------------------------------
(* The order of the lists, and the summary *)

\* In the state that Decided names the verdict has just been made.
LEMMA DecidedIs ==
  ASSUME Inv, Decided
  PROVE  /\ got.type \in Types /\ verdict = Verdict
         /\ got \in Loaded /\ has \in Held /\ asked \in Quantities
         /\ \E n, m \in Nat : Workspace(got.type, n, got.packages, m, got.boosts, got.used)
<1>1. /\ got \in Loaded /\ has \in Held /\ asked \in Quantities
      /\ LoadsAreTrue /\ AnswersAreTrue /\ pc = "summary"
  BY DEF Inv, Decided
<1>2. got.type \in Types /\ verdict = Verdict
  BY <1>1 DEF LoadsAreTrue, AnswersAreTrue, Held
<1> QED BY <1>1, <1>2, LoadedIs

\* Can decides the same if the API lists packages and boosts the other way round,
\* whatever wraps around on the way: entitlement.go:157 and 474.
THEOREM Unordered == Spec => []OrderIsIrrelevant
<1>1. Inv => OrderIsIrrelevant
  <2> SUFFICES ASSUME Inv, Decided
               PROVE  verdict = Can(got.type, Reverse(got.packages), Reverse(got.boosts), got.used, asked)
    BY DEF OrderIsIrrelevant
  <2>1. /\ verdict = Verdict
        /\ \E n, m \in Nat : Workspace(got.type, n, got.packages, m, got.boosts, got.used)
    BY DecidedIs
  <2>2. PICK n, m \in Nat : Workspace(got.type, n, got.packages, m, got.boosts, got.used)
    BY <2>1
  <2>3. /\ Reverse(got.packages) \in [1..n -> Package] /\ Reordered(Reverse(got.packages), got.packages, n)
        /\ Reverse(got.boosts) \in [1..m -> Boost] /\ Reordered(Reverse(got.boosts), got.boosts, m)
    <3>1. n \in Nat /\ got.packages \in [1..n -> Package] /\ m \in Nat /\ got.boosts \in [1..m -> Boost]
      BY <2>2 DEF Workspace
    <3> QED BY <3>1, ReverseIs
  <2> QED BY <2>1, <2>2, <2>3, AnyOrder DEF Verdict
<1> QED BY <1>1, InvHolds, PTL

\* Without boosts of an unknown type both loops add what the documents add.
LEMMA KnownAdded ==
  ASSUME NEW m \in Nat, NEW boosts \in [1..m -> Boost], \A i \in 1..m : boosts[i].type # "unknown"
  PROVE  /\ Added(boosts, CountedByCan) = BoostTotal(boosts)
         /\ Added(boosts, CountedBySummary) = BoostTotal(boosts)
         /\ BoostTotal(boosts) \in Nat
<1>1. DOMAIN boosts = 1..m
  OBVIOUS
<1>2. Adding(boosts, CountedBySummary) = Usable(boosts, "add_limit")
  BY DEF Adding, Adds, Usable, CountedBySummary
<1>3. Adding(boosts, CountedByCan) = Usable(boosts, "add_limit")
  BY <1>1 DEF Adding, Adds, Usable, CountedByCan
<1>4. BoostTotal(boosts) = SumFunctionOnSet(LeftOf(boosts), Usable(boosts, "add_limit"))
  BY DEF BoostTotal, LeftOf
<1>5. Added(boosts, CountedByCan) \in Nat
  BY AddingCounts
<1> QED BY <1>2, <1>3, <1>4, <1>5 DEF Added

\* No boost of a list is of an unknown type.
LEMMA LoadedAreKnown ==
  ASSUME KnownBoosts, NEW boosts \in BoundedSeq(Boosts, MaxBoosts), NEW m, boosts \in [1..m -> Boost]
  PROVE  \A i \in 1..m : boosts[i].type # "unknown"
<1>1. PICK k \in 0..MaxBoosts : boosts \in [1..k -> Boosts]
  BY DataAssumption, BoundedSeqIs
<1>2. 1..k = 1..m
  BY <1>1
<1> QED BY <1>1, <1>2 DEF KnownBoosts

\* The row of the usage summary shows the limit and the count that Can measured,
\* and none where it measured none: entitlement.go:410.  A boost of an unknown
\* type is added by Can alone, so there must be none.
THEOREM SummaryFollowsCan == ASSUME KnownBoosts PROVE Spec => []SummaryAgrees
<1>1. Inv => SummaryAgrees
  <2> SUFFICES ASSUME Inv, row # Nil
               PROVE  /\ row.unlimited = verdict.unlimited
                      /\ row.limit = verdict.limit
                      /\ row.limit # Nil => row.used = verdict.used
    BY DEF SummaryAgrees
  <2>1. got.type \in Types /\ verdict = Verdict /\ row = Row /\ got \in Loaded
    BY DEF Inv, AnswersAreTrue, Held
  <2>2. PICK n, m \in Nat : Workspace(got.type, n, got.packages, m, got.boosts, got.used)
    BY <2>1, LoadedIs
  <2> DEFINE type == got.type
             packages == got.packages
             boosts == got.boosts
             used == got.used
             free == Free(type, packages, boosts)
             limit == Int64(Total(packages, boosts, CountedByCan))
  <2>3. limit = Int64(Total(packages, boosts, CountedBySummary))
    <3>1. boosts \in BoundedSeq(Boosts, MaxBoosts) /\ boosts \in [1..m -> Boost]
      BY <2>1, <2>2 DEF Loaded, Workspace
    <3>2. \A i \in 1..m : boosts[i].type # "unknown"
      BY <3>1, LoadedAreKnown
    <3>3. Added(boosts, CountedByCan) = Added(boosts, CountedBySummary)
      BY <3>1, <3>2, KnownAdded
    <3> QED BY <3>3 DEF Total
  <2>4. verdict = IF free THEN AllowUnlimited
                  ELSE IF Listing(packages) = {} /\ ~(type = "boolean" /\ Usable(boosts, "enable") # {})
                       THEN Deny(Nil, Nil)
                  ELSE IF type = "boolean" THEN Allow(Nil, Nil)
                  ELSE IF Int64(used + Asked(asked)) > limit
                       THEN Deny(limit, used)
                  ELSE Allow(limit, used)
    BY <2>1, <2>2, CanIs DEF Verdict
  <2>5. row = [unlimited |-> free,
               limit |-> IF /\ Listing(packages) # {} /\ ~free
                            /\ type \notin {"boolean", "unlimited"}
                         THEN limit ELSE Nil,
               used |-> IF type = "boolean" /\ ~free THEN Nil ELSE used]
    BY <2>1, <2>2, <2>3, SummaryIs DEF Row
  <2>6. type = "unlimited" /\ Listing(packages) # {} => free
    BY DEF Free
  <2>7. free \in BOOLEAN
    BY DEF Free
  <2> HIDE DEF type, packages, boosts, used, free, limit
  <2>8. CASE free
    <3>1. verdict.unlimited = TRUE /\ verdict.limit = Nil
      BY <2>4, <2>8 DEF AllowUnlimited
    <3>2. row.unlimited = TRUE /\ row.limit = Nil
      BY <2>5, <2>7, <2>8
    <3> QED BY <3>1, <3>2
  <2>9. CASE ~free /\ Listing(packages) # {} /\ type \notin {"boolean", "unlimited"}
    <3>1. verdict \in {Deny(limit, used), Allow(limit, used)}
      BY <2>4, <2>9
    <3>2. verdict.unlimited = FALSE /\ verdict.limit = limit /\ verdict.used = used
      BY <3>1 DEF Deny, Allow
    <3>3. row.unlimited = FALSE /\ row.limit = limit /\ row.used = used
      BY <2>5, <2>7, <2>9
    <3> QED BY <3>2, <3>3
  <2>10. CASE ~free /\ ~(Listing(packages) # {} /\ type \notin {"boolean", "unlimited"})
    <3>1. verdict \in {Deny(Nil, Nil), Allow(Nil, Nil)}
      BY <2>4, <2>6, <2>10
    <3>2. verdict.unlimited = FALSE /\ verdict.limit = Nil
      BY <3>1 DEF Deny, Allow
    <3>3. row.unlimited = FALSE /\ row.limit = Nil
      BY <2>5, <2>7, <2>10
    <3> QED BY <3>2, <3>3
  <2> QED BY <2>8, <2>9, <2>10
<1> QED BY <1>1, InvHolds, PTL

-----------------------------------------------------------------------------
(* The documents' cascade *)

\* What an int can hold does not wrap.
LEMMA Int64InRange ==
  ASSUME NEW a \in Ints
  PROVE  a \in Int /\ Int64(a) = a
<1> DEFINE m == 2 * (MaxInt + 1)
           r == a + MaxInt + 1
<1>1. m \in Nat \ {0} /\ r \in 0..(m - 1) /\ a \in Int
  BY IntAssumption DEF Ints
<1> HIDE DEF m
<1>2. (m * 0 + r) % m = r
  <2> HIDE DEF r
  <2> QED BY <1>1, ModOf
<1>3. m * 0 + r = r
  BY <1>1
<1>4. r % m = r
  BY <1>2, <1>3
<1> QED BY <1>1, <1>4, IntAssumption DEF Int64, m

\* What the documents allow, said of the lists themselves.
Allows(type, packages, boosts, used, quantity) ==
    \/ Free(type, packages, boosts)
    \/ type = "boolean" /\ (Listing(packages) # {} \/ Usable(boosts, "enable") # {})
    \/ /\ type \notin {"boolean", "unlimited"} /\ Listing(packages) # {}
       /\ used + quantity <= PackageTotal(packages) + BoostTotal(boosts)

\* That is Entitled.
LEMMA EntitledIs ==
  ASSUME NEW w, NEW quantity
  PROVE  /\ UnlimitedBy(w) <=> Free(w.type, w.packages, w.boosts)
         /\ Entitled(w, quantity) <=> Allows(w.type, w.packages, w.boosts, w.used, quantity)
<1>1. UnlimitedBy(w) <=> Free(w.type, w.packages, w.boosts)
  BY DEF UnlimitedBy, Free, IsFree
<1>2. TotalLimit(w) = PackageTotal(w.packages) + BoostTotal(w.boosts)
  BY DEF TotalLimit
<1> QED BY <1>1, <1>2 DEF Entitled, Allows

\* The pool of this workspace is within an int, if it has a limit.
Fits(packages, boosts) ==
    \/ IsFree(packages) \/ Usable(boosts, "unlimited") # {}
    \/ PackageTotal(packages) + BoostTotal(boosts) \in Ints

\* That is what SumsFit says of every workspace.
LEMMA FitsIs ==
  ASSUME NEW p, NEW b, SumsFit(p, b),
         NEW packages \in BoundedSeq(Packages, p), NEW boosts \in BoundedSeq(Boosts, b)
  PROVE  Fits(packages, boosts)
<1> DEFINE w == [type |-> "limit", packages |-> packages, boosts |-> boosts]
<1>1. UnlimitedBy(w) \/ TotalLimit(w) \in Ints
  BY DEF SumsFit
<1>2. w.type = "limit" /\ w.packages = packages /\ w.boosts = boosts
  OBVIOUS
<1> HIDE DEF w
<1>3. UnlimitedBy(w) => IsFree(packages) \/ Usable(boosts, "unlimited") # {}
  BY <1>2 DEF UnlimitedBy, IsFree
<1>4. TotalLimit(w) = PackageTotal(packages) + BoostTotal(boosts)
  BY <1>2 DEF TotalLimit
<1> QED BY <1>1, <1>3, <1>4 DEF Fits

\* Can decides as the documents do where the pool and the count fit an int.
LEMMA CanFollows ==
  ASSUME NEW type, NEW n, NEW packages, NEW m, NEW boosts, NEW used, NEW quantity,
         Workspace(type, n, packages, m, boosts, used),
         \A i \in 1..m : boosts[i].type # "unknown",
         Fits(packages, boosts), used + Asked(quantity) \in Ints
  PROVE  LET v == Can(type, packages, boosts, used, quantity) IN
         /\ v.allowed = Allows(type, packages, boosts, used, Asked(quantity))
         /\ v.unlimited = Free(type, packages, boosts)
         /\ v.limit # Nil => v.limit = PackageTotal(packages) + BoostTotal(boosts)
<1> DEFINE v == Can(type, packages, boosts, used, quantity)
           free == Free(type, packages, boosts)
           granted == Listing(packages) # {} \/ (type = "boolean" /\ Usable(boosts, "enable") # {})
           pool == Int64(Total(packages, boosts, CountedByCan))
           total == PackageTotal(packages) + BoostTotal(boosts)
           allows == Allows(type, packages, boosts, used, Asked(quantity))
<1>1. v = IF free THEN AllowUnlimited
          ELSE IF ~granted THEN Deny(Nil, Nil)
          ELSE IF type = "boolean" THEN Allow(Nil, Nil)
          ELSE IF Int64(used + Asked(quantity)) > pool THEN Deny(pool, used)
          ELSE Allow(pool, used)
  BY CanIs
<1>2. Int64(used + Asked(quantity)) = used + Asked(quantity)
  BY Int64InRange
<1>3. ~free /\ Listing(packages) # {} => pool = total /\ total \in Int
  <2> SUFFICES ASSUME ~free, Listing(packages) # {} PROVE pool = total /\ total \in Int
    OBVIOUS
  <2>1. Total(packages, boosts, CountedByCan) = PackageTotal(packages) + Added(boosts, CountedByCan)
    BY DEF Total
  <2>2. Added(boosts, CountedByCan) = BoostTotal(boosts)
    BY KnownAdded DEF Workspace
  <2>3. total \in Ints
    BY DEF Fits, Free
  <2> QED BY <2>1, <2>2, <2>3, Int64InRange
<1>4. type = "unlimited" /\ Listing(packages) # {} => free
  BY DEF Free
<1>5. allows <=> \/ free
                 \/ type = "boolean" /\ (Listing(packages) # {} \/ Usable(boosts, "enable") # {})
                 \/ /\ type \notin {"boolean", "unlimited"} /\ Listing(packages) # {}
                    /\ used + Asked(quantity) <= total
  BY DEF Allows
<1>6. free \in BOOLEAN /\ allows \in BOOLEAN
  BY DEF Free, Allows
<1>7. used + Asked(quantity) \in Int
  BY Int64InRange
<1> DEFINE sought == used + Asked(quantity)
<1> HIDE DEF v, free, pool, total, allows, sought
<1>8. CASE free
  <2>1. v.allowed = TRUE /\ v.unlimited = TRUE /\ v.limit = Nil
    BY <1>1, <1>8 DEF AllowUnlimited
  <2> QED BY <1>5, <1>6, <1>8, <2>1 DEF v, free, allows
<1>9. CASE ~free /\ ~granted
  <2>1. v.allowed = FALSE /\ v.unlimited = FALSE /\ v.limit = Nil
    BY <1>1, <1>9 DEF Deny
  <2>2. ~allows
    BY <1>5, <1>9
  <2> QED BY <1>6, <1>9, <2>1, <2>2 DEF v, free, allows
<1>10. CASE ~free /\ granted /\ type = "boolean"
  <2>1. v.allowed = TRUE /\ v.unlimited = FALSE /\ v.limit = Nil
    BY <1>1, <1>10 DEF Allow
  <2>2. allows
    BY <1>5, <1>10
  <2> QED BY <1>6, <1>10, <2>1, <2>2 DEF v, free, allows
<1>11. CASE ~free /\ granted /\ type # "boolean"
  <2>1. Listing(packages) # {} /\ type \notin {"boolean", "unlimited"} /\ pool = total /\ total \in Int
    BY <1>3, <1>4, <1>11
  <2>2. v = IF sought > total THEN Deny(total, used) ELSE Allow(total, used)
    BY <1>1, <1>2, <1>11, <2>1 DEF sought
  <2>3. allows <=> sought <= total
    BY <1>5, <1>11, <2>1 DEF sought
  <2>4. sought \in Int
    BY <1>7 DEF sought
  <2>5. CASE sought > total
    <3>1. v.allowed = FALSE /\ v.unlimited = FALSE /\ v.limit = total
      BY <2>2, <2>5 DEF Deny
    <3>2. ~allows
      BY <2>1, <2>3, <2>4, <2>5
    <3> QED BY <1>6, <1>11, <3>1, <3>2 DEF v, free, allows, total
  <2>6. CASE ~(sought > total)
    <3>1. v.allowed = TRUE /\ v.unlimited = FALSE /\ v.limit = total
      BY <2>2, <2>6 DEF Allow
    <3>2. allows
      BY <2>1, <2>3, <2>4, <2>6
    <3> QED BY <1>6, <1>11, <3>1, <3>2 DEF v, free, allows, total
  <2> QED BY <2>5, <2>6
<1> QED BY <1>8, <1>9, <1>10, <1>11

\* The count with the quantity that is asked for fits an int.
LEMMA AskedFits ==
  ASSUME CountsFit, NEW used \in Counts \cup {0}, NEW quantity \in Quantities
  PROVE  used + Asked(quantity) \in Ints
<1>1. Asked(quantity) \in Quantities \cup {1}
  BY DEF Asked
<1> QED BY <1>1 DEF CountsFit

\* Can's verdict on what has been loaded is the documents'.
LEMMA VerdictFollows ==
  ASSUME KnownBoosts, CountsFit, SumsFit(MaxPackages, MaxBoosts),
         got \in Loaded, got.type \in Types, asked \in Quantities
  PROVE  /\ Verdict.allowed = Allows(got.type, got.packages, got.boosts, got.used, Asked(asked))
         /\ Verdict.unlimited = Free(got.type, got.packages, got.boosts)
         /\ Verdict.limit # Nil =>
              Verdict.limit = PackageTotal(got.packages) + BoostTotal(got.boosts)
<1>1. /\ got \in Loaded /\ asked \in Quantities
      /\ \E n, m \in Nat : Workspace(got.type, n, got.packages, m, got.boosts, got.used)
  BY LoadedIs
<1>2. PICK n, m \in Nat : Workspace(got.type, n, got.packages, m, got.boosts, got.used)
  BY <1>1
<1>3. /\ got.packages \in BoundedSeq(Packages, MaxPackages)
      /\ got.boosts \in BoundedSeq(Boosts, MaxBoosts) /\ got.used \in Counts \cup {0}
  BY <1>1 DEF Loaded
<1>4. Fits(got.packages, got.boosts)
  BY <1>3, FitsIs
<1>5. got.used + Asked(asked) \in Ints
  BY <1>1, <1>3, AskedFits
<1>6. \A i \in 1..m : got.boosts[i].type # "unknown"
  <2>1. got.boosts \in [1..m -> Boost]
    BY <1>2 DEF Workspace
  <2> QED BY <1>3, <2>1, LoadedAreKnown
<1> QED BY <1>1, <1>2, <1>4, <1>5, <1>6, CanFollows DEF Verdict

\* So is the verdict in every state that Decided names.
LEMMA DecidedFollows ==
  ASSUME KnownBoosts, CountsFit, SumsFit(MaxPackages, MaxBoosts), Inv, Decided
  PROVE  /\ verdict.allowed = Allows(got.type, got.packages, got.boosts, got.used, Asked(asked))
         /\ verdict.unlimited = Free(got.type, got.packages, got.boosts)
         /\ verdict.limit # Nil =>
              verdict.limit = PackageTotal(got.packages) + BoostTotal(got.boosts)
BY DecidedIs, VerdictFollows

\* Can's two loops with their early returns decide as the documented cascade does,
\* for any workspace whose pool and count an int can hold, wherever the documents
\* say one thing (LimitsGiven): entitlement.go:157.
THEOREM CanIsTheCascade ==
  ASSUME KnownBoosts, CountsFit, SumsFit(MaxPackages, MaxBoosts)
  PROVE  Spec => []CanFollowsCascade
<1>1. Inv => CanFollowsCascade
  <2> SUFFICES ASSUME Inv, Decided
               PROVE  /\ verdict.allowed = Entitled(got, Asked(asked))
                      /\ verdict.unlimited = UnlimitedBy(got)
                      /\ verdict.limit # Nil => verdict.limit = TotalLimit(got)
    BY DEF CanFollowsCascade, Asked
  <2>1. /\ verdict.allowed = Allows(got.type, got.packages, got.boosts, got.used, Asked(asked))
        /\ verdict.unlimited = Free(got.type, got.packages, got.boosts)
        /\ verdict.limit # Nil =>
             verdict.limit = PackageTotal(got.packages) + BoostTotal(got.boosts)
    BY DecidedFollows
  <2>2. verdict.allowed = Entitled(got, Asked(asked))
    BY <2>1, EntitledIs DEF Entitled, Allows
  <2>3. verdict.unlimited = UnlimitedBy(got)
    BY <2>1, EntitledIs DEF UnlimitedBy, Free
  <2>4. verdict.limit # Nil => verdict.limit = TotalLimit(got)
    BY <2>1 DEF TotalLimit
  <2> QED BY <2>2, <2>3, <2>4
<1> QED BY <1>1, InvHolds, PTL

-----------------------------------------------------------------------------
(* What cannot be loaded *)

\* What could not be loaded gives nothing.
LEMMA NothingIs ==
  /\ Listing(<<>>) = {} /\ ~IsFree(<<>>)
  /\ \A type : Usable(<<>>, type) = {}
  /\ BoostTotal(<<>>) = 0
<1>1. Listing(<<>>) = {}
  BY DEF Listing
<1>2. \A type : Usable(<<>>, type) = {}
  BY DEF Usable
<1>3. BoostTotal(<<>>) = 0
  BY <1>2, SumOfNone DEF BoostTotal
<1> QED BY <1>1, <1>2, <1>3 DEF IsFree

\* Boosts take nothing away.
LEMMA BoostTotalIsNat ==
  ASSUME NEW m \in Nat, NEW boosts \in [1..m -> Boost]
  PROVE  BoostTotal(boosts) \in Nat
<1>1. Adding(boosts, CountedBySummary) = Usable(boosts, "add_limit")
  BY DEF Adding, Adds, Usable, CountedBySummary
<1>2. BoostTotal(boosts) = SumFunctionOnSet(LeftOf(boosts), Usable(boosts, "add_limit"))
  BY DEF BoostTotal, LeftOf
<1>3. Added(boosts, CountedBySummary) \in Nat
  BY AddingCounts
<1> QED BY <1>1, <1>2, <1>3 DEF Added

\* What is allowed without some loads is allowed with them.
LEMMA MoreLoaded ==
  ASSUME NEW type, NEW n \in Nat, NEW packages \in [1..n -> Package],
         NEW m \in Nat, NEW boosts \in [1..m -> Boost],
         NEW p \in {<<>>, packages}, NEW b \in {<<>>, boosts},
         NEW used \in Nat, NEW quantity \in Int, Allows(type, p, b, used, quantity)
  PROVE  Allows(type, packages, boosts, used, quantity)
<1>1. Listing(p) # {} => p = packages
  BY NothingIs
<1>2. IsFree(p) => IsFree(packages)
  BY NothingIs
<1>3. \A kind : Usable(b, kind) # {} => Usable(boosts, kind) # {}
  BY NothingIs
<1>4. CASE Free(type, p, b)
  <2>1. Free(type, packages, boosts)
    BY <1>1, <1>2, <1>3, <1>4 DEF Free
  <2> QED BY <2>1 DEF Allows
<1>5. CASE Free(type, packages, boosts)
  BY <1>5 DEF Allows
<1>6. CASE type = "boolean" /\ (Listing(p) # {} \/ Usable(b, "enable") # {})
  BY <1>1, <1>3, <1>6 DEF Allows
<1>7. CASE /\ ~Free(type, packages, boosts)
           /\ type \notin {"boolean", "unlimited"} /\ Listing(p) # {}
           /\ used + quantity <= PackageTotal(p) + BoostTotal(b)
  <2>1. p = packages /\ Listing(packages) # {}
    BY <1>1, <1>7
  <2>2. PackageTotal(packages) \in Int
    BY <1>7, PackageLimitIs DEF Free
  <2>3. BoostTotal(boosts) \in Nat
    BY BoostTotalIsNat
  <2>4. BoostTotal(b) \in Nat /\ BoostTotal(b) <= BoostTotal(boosts)
    BY <2>3, NothingIs
  <2>5. used + quantity <= PackageTotal(packages) + BoostTotal(boosts)
    <3> DEFINE x == PackageTotal(packages)
               y == BoostTotal(b)
               z == BoostTotal(boosts)
    <3>1. x \in Int /\ y \in Nat /\ z \in Nat /\ y <= z /\ used + quantity <= x + y
      BY <1>7, <2>1, <2>2, <2>3, <2>4
    <3> HIDE DEF x, y, z
    <3>2. used + quantity <= x + z
      BY <3>1
    <3> QED BY <3>2 DEF x, z
  <2> QED BY <1>7, <2>1, <2>5 DEF Allows
<1> QED BY <1>4, <1>5, <1>6, <1>7 DEF Allows

\* The lists the API holds, with their lengths.
LEMMA HeldIs ==
  ASSUME has \in Held
  PROVE  /\ \E n, m \in Nat : has.packages \in [1..n -> Package] /\ has.boosts \in [1..m -> Boost]
         /\ has.used \in Nat
<1>1. PICK n \in 0..MaxPackages : has.packages \in [1..n -> Packages]
  BY DataAssumption, BoundedSeqIs DEF Held
<1>2. PICK m \in 0..MaxBoosts : has.boosts \in [1..m -> Boosts]
  BY DataAssumption, BoundedSeqIs DEF Held
<1>3. has.packages \in [1..n -> Package] /\ has.boosts \in [1..m -> Boost]
  BY <1>1, <1>2, DataAssumption
<1>4. has.used \in Nat
  <2>1. has.used \in Counts
    BY DEF Held
  <2> QED BY <2>1, DataAssumption
<1>5. n \in Nat /\ m \in Nat
  BY DataAssumption
<1> QED BY <1>3, <1>4, <1>5

\* Can allows nothing that the packages and boosts of the workspace do not cover,
\* whichever of feature, packages, boosts and count could not be loaded, at the
\* count it went by: entitlement.go:157.
THEOREM DeniesWhatItCannotLoad ==
  ASSUME KnownBoosts, CountsFit, SumsFit(MaxPackages, MaxBoosts)
  PROVE  Spec => []FailsClosed
<1>1. Inv => FailsClosed
  <2> DEFINE w == [has EXCEPT !.used = got.used]
  <2> SUFFICES ASSUME Inv, verdict # Nil, verdict.allowed
               PROVE  Entitled(w, Asked(asked))
    BY DEF FailsClosed
  <2>0. got.type = has.type /\ verdict = Verdict
    <3>1. ~Deny(Nil, Nil).allowed BY DEF Deny
    <3> QED BY <3>1 DEF Inv, LoadsAreTrue, AnswersAreTrue
  <2>1. /\ got.packages \in {<<>>, has.packages} /\ got.boosts \in {<<>>, has.boosts}
        /\ got \in Loaded /\ has \in Held /\ asked \in Quantities
    BY DEF Inv, LoadsAreTrue
  <2>w. /\ w.type = has.type /\ w.packages = has.packages /\ w.boosts = has.boosts
        /\ w.used = got.used
    BY <2>1 DEF Held
  <2> HIDE DEF w
  <2>2. Allows(has.type, got.packages, got.boosts, got.used, Asked(asked))
    <3>1. got.type \in Types BY <2>0, <2>1 DEF Held
    <3> QED BY <2>0, <2>1, <3>1, VerdictFollows
  <2>3. PICK n, m \in Nat : has.packages \in [1..n -> Package] /\ has.boosts \in [1..m -> Boost]
    BY <2>1, HeldIs
  <2>4. got.used \in Nat /\ Asked(asked) \in Int
    <3>1. got.used \in Counts \cup {0} BY <2>1 DEF Loaded
    <3>2. \A k \in Counts \cup {0} : k \in Nat BY DataAssumption
    <3>3. got.used \in Nat BY <3>1, <3>2, Zenon
    <3>4. asked \in Int BY <2>1, DataAssumption
    <3> QED BY <3>3, <3>4 DEF Asked
  <2>5. Allows(has.type, has.packages, has.boosts, got.used, Asked(asked))
    BY <2>1, <2>2, <2>3, <2>4, MoreLoaded
  <2> QED BY <2>5, <2>w, EntitledIs
<1> QED BY <1>1, InvHolds, PTL

-----------------------------------------------------------------------------
(* One more package, one more boost, a smaller quantity *)

\* The highest of the base limits is one of them.
LEMMA HighestBase ==
  ASSUME NEW n \in Nat, NEW packages \in [1..n -> Package], ~IsFree(packages), Base(packages) # {}
  PROVE  /\ Max(Base(packages)) \in Int /\ Max(Base(packages)) \in Base(packages)
         /\ \A c \in Base(packages) : c \in Int /\ c <= Max(Base(packages))
<1> DEFINE sum == FoldLeft(AddPackage, NoPackage, packages)
<1>1. Gathered(sum, packages)
  BY PackagesGathered
<1> HIDE DEF sum
<1>2. Base(packages) \subseteq Int
  BY BaseIsInt
<1>3. /\ sum.highest \in Int /\ sum.highest \in Base(packages)
      /\ \A c \in Base(packages) : c \in Int /\ c <= sum.highest
  BY <1>1, <1>2 DEF Gathered, IsHighest
<1>4. Max(Base(packages)) = sum.highest
  BY <1>3, MaxIsLast
<1> QED BY <1>3, <1>4

\* One more package takes nothing away if limits are not negative.
LEMMA PackageTotalGrows ==
  ASSUME NEW k \in Nat, NEW p \in [1..k -> Package], NEW pkg \in Package,
         pkg.limit \in Nat \cup {Unlisted, Nil, -1}, ~IsFree(Append(p, pkg))
  PROVE  /\ PackageTotal(p) \in Int /\ PackageTotal(Append(p, pkg)) \in Int
         /\ PackageTotal(p) <= PackageTotal(Append(p, pkg))
<1> DEFINE q == Append(p, pkg)
           counts == Lists(pkg) /\ pkg.limit # Nil
           highest(list) == IF Base(list) = {} THEN 0 ELSE Max(Base(list))
<1>1. q \in [1..(k + 1) -> Package]
  BY AppendIs
<1>2. Base(q) = Base(p) \cup (IF counts /\ ~pkg.stackable THEN {pkg.limit} ELSE {})
  BY BaseAppend
<1>3. ~IsFree(p) /\ ~IsFree(q) /\ ~(Lists(pkg) /\ pkg.limit = -1)
  BY FreeAppend
<1>4. StackedTotal(q) = StackedTotal(p) + (IF counts /\ pkg.stackable THEN pkg.limit ELSE 0)
  BY StackedTotalAppend
<1>5. counts => pkg.limit \in Nat
  BY <1>3 DEF Lists
<1>6. StackedTotal(p) \in Int
  BY StackedCounts
<1>7. /\ PackageTotal(p) = highest(p) + StackedTotal(p)
      /\ PackageTotal(q) = highest(q) + StackedTotal(q)
  BY DEF PackageTotal, StackedTotal, LimitsOf
<1> HIDE DEF q
<1>8. highest(p) \in Int /\ \A c \in Base(p) : c \in Int /\ c <= highest(p)
  BY <1>3, HighestBase
<1>9. highest(q) \in Int /\ \A c \in Base(q) : c \in Int /\ c <= highest(q)
  <2>1. CASE Base(q) = {}
    BY <2>1
  <2>2. CASE Base(q) # {}
    <3>1. k + 1 \in Nat
      OBVIOUS
    <3> QED BY <1>1, <1>3, <2>2, <3>1, HighestBase
  <2> QED BY <2>1, <2>2
<1>10. highest(p) <= highest(q)
  <2>1. CASE Base(p) # {}
    <3>1. highest(p) \in Base(p)
      BY <1>3, <2>1, HighestBase
    <3> QED BY <1>2, <1>9, <3>1
  <2>2. CASE Base(p) = {} /\ Base(q) = {}
    BY <2>2
  <2>3. CASE Base(p) = {} /\ Base(q) # {}
    <3>1. pkg.limit \in Nat /\ pkg.limit \in Base(q)
      BY <1>2, <1>5, <2>3
    <3>2. highest(p) = 0
      BY <2>3
    <3> QED BY <1>9, <3>1, <3>2
  <2> QED BY <2>1, <2>2, <2>3
<1>11. StackedTotal(q) \in Int /\ StackedTotal(p) <= StackedTotal(q)
  BY <1>4, <1>5, <1>6
<1> HIDE DEF highest
<1> QED BY <1>6, <1>7, <1>8, <1>9, <1>10, <1>11 DEF q

\* What is allowed is allowed with one more package.
LEMMA OneMorePackage ==
  ASSUME NEW type, NEW n \in Nat, NEW packages \in [1..n -> Package], NEW pkg \in Package,
         pkg.limit \in Nat \cup {Unlisted, Nil, -1},
         NEW m \in Nat, NEW boosts \in [1..m -> Boost],
         NEW used \in Nat, NEW quantity \in Int, Allows(type, packages, boosts, used, quantity)
  PROVE  Allows(type, Append(packages, pkg), boosts, used, quantity)
<1> DEFINE q == Append(packages, pkg)
<1>1. Listing(packages) # {} => Listing(q) # {}
  BY ListingAppend
<1>2. IsFree(packages) => IsFree(q)
  BY FreeAppend
<1>3. ~IsFree(q) => /\ PackageTotal(packages) \in Int /\ PackageTotal(q) \in Int
                    /\ PackageTotal(packages) <= PackageTotal(q)
  BY PackageTotalGrows
<1>4. BoostTotal(boosts) \in Nat
  BY BoostTotalIsNat
<1> HIDE DEF q
<1>5. CASE Free(type, packages, boosts) \/ IsFree(q)
  <2>1. Free(type, q, boosts)
    BY <1>1, <1>2, <1>5 DEF Free
  <2> QED BY <2>1 DEF Allows, q
<1>6. CASE type = "boolean" /\ (Listing(packages) # {} \/ Usable(boosts, "enable") # {})
  BY <1>1, <1>6 DEF Allows, q
<1>7. CASE /\ ~IsFree(q)
           /\ type \notin {"boolean", "unlimited"} /\ Listing(packages) # {}
           /\ used + quantity <= PackageTotal(packages) + BoostTotal(boosts)
  <2> DEFINE x == PackageTotal(packages)
             y == PackageTotal(q)
             z == BoostTotal(boosts)
  <2>1. x \in Int /\ y \in Int /\ z \in Nat /\ x <= y /\ used + quantity <= x + z
    BY <1>3, <1>4, <1>7
  <2> HIDE DEF x, y, z
  <2>2. used + quantity <= y + z
    BY <2>1
  <2>3. used + quantity <= PackageTotal(q) + BoostTotal(boosts)
    BY <2>2 DEF y, z
  <2> QED BY <1>1, <1>7, <2>3 DEF Allows, q
<1> QED BY <1>5, <1>6, <1>7 DEF Allows

\* One more boost takes nothing away.
LEMMA BoostTotalGrows ==
  ASSUME NEW m \in Nat, NEW b \in [1..m -> Boost], NEW boost \in Boost
  PROVE  BoostTotal(b) \in Nat /\ BoostTotal(Append(b, boost)) \in Nat
         /\ BoostTotal(b) <= BoostTotal(Append(b, boost))
<1> DEFINE q == Append(b, boost)
<1>1. q \in [1..(m + 1) -> Boost] /\ m + 1 \in Nat
  BY AppendIs
<1>2. Added(q, CountedBySummary)
        = Added(b, CountedBySummary) + (IF Adds(boost, CountedBySummary) THEN boost.left ELSE 0)
  BY AddedAppend
<1> HIDE DEF q
<1>3. /\ Adding(b, CountedBySummary) = Usable(b, "add_limit")
      /\ Adding(q, CountedBySummary) = Usable(q, "add_limit")
  BY DEF Adding, Adds, Usable, CountedBySummary
<1>4. /\ BoostTotal(b) = Added(b, CountedBySummary)
      /\ BoostTotal(q) = Added(q, CountedBySummary)
  BY <1>3 DEF BoostTotal, LeftOf, Added
<1>5. BoostTotal(b) \in Nat /\ BoostTotal(q) \in Nat
  BY <1>1, BoostTotalIsNat
<1>6. Adds(boost, CountedBySummary) => boost.left \in Nat
  BY BoostFields DEF Adds
<1> QED BY <1>2, <1>4, <1>5, <1>6 DEF q

\* What is allowed is allowed with one more boost.
LEMMA OneMoreBoost ==
  ASSUME NEW type, NEW n \in Nat, NEW packages \in [1..n -> Package],
         NEW m \in Nat, NEW boosts \in [1..m -> Boost], NEW boost \in Boost,
         NEW used \in Nat, NEW quantity \in Int, Allows(type, packages, boosts, used, quantity)
  PROVE  Allows(type, packages, Append(boosts, boost), used, quantity)
<1> DEFINE q == Append(boosts, boost)
<1>1. \A kind : Usable(boosts, kind) # {} => Usable(q, kind) # {}
  BY UsableAppend
<1>2. BoostTotal(boosts) \in Nat /\ BoostTotal(q) \in Nat /\ BoostTotal(boosts) <= BoostTotal(q)
  BY BoostTotalGrows
<1>3. ~IsFree(packages) => PackageTotal(packages) \in Int
  BY PackageLimitIs
<1> HIDE DEF q
<1>4. CASE Free(type, packages, boosts) \/ IsFree(packages)
  <2>1. Free(type, packages, q)
    BY <1>1, <1>4 DEF Free
  <2> QED BY <2>1 DEF Allows, q
<1>5. CASE type = "boolean" /\ (Listing(packages) # {} \/ Usable(boosts, "enable") # {})
  BY <1>1, <1>5 DEF Allows, q
<1>6. CASE /\ ~IsFree(packages)
           /\ type \notin {"boolean", "unlimited"} /\ Listing(packages) # {}
           /\ used + quantity <= PackageTotal(packages) + BoostTotal(boosts)
  <2> DEFINE x == PackageTotal(packages)
             y == BoostTotal(boosts)
             z == BoostTotal(q)
  <2>1. x \in Int /\ y \in Nat /\ z \in Nat /\ y <= z /\ used + quantity <= x + y
    BY <1>2, <1>3, <1>6
  <2> HIDE DEF x, y, z
  <2>2. used + quantity <= x + z
    BY <2>1
  <2>3. used + quantity <= PackageTotal(packages) + BoostTotal(q)
    BY <2>2 DEF x, z
  <2> QED BY <1>6, <2>3 DEF Allows, q
<1> QED BY <1>4, <1>5, <1>6 DEF Allows

\* A list with one more element is within the next bound.
LEMMA BoundedAppend ==
  ASSUME NEW S, NEW max \in Nat, NEW s \in BoundedSeq(S, max), NEW x \in S
  PROVE  /\ s \in BoundedSeq(S, max + 1)
         /\ Append(s, x) \in BoundedSeq(S, max + 1)
<1>1. PICK n \in 0..max : s \in [1..n -> S]
  BY BoundedSeqIs
<1>2. n \in 0..(max + 1) /\ n + 1 \in 0..(max + 1) /\ n \in Nat
  OBVIOUS
<1>3. Append(s, x) \in [1..(n + 1) -> S]
  BY <1>1, <1>2, AppendIs
<1>4. BoundedSeq(S, max + 1) = UNION {[1..k -> S] : k \in 0..(max + 1)}
  BY DEF BoundedSeq, SeqOf
<1> QED BY <1>1, <1>2, <1>3, <1>4

\* What Can allows it still allows with one more package or boost, or for a smaller
\* quantity, if the larger pool fits an int and no limit is negative:
\* entitlement.go:157 and 474.
THEOREM MoreIsNeverDenied ==
  ASSUME KnownBoosts, LimitsAreCounts, CountsFit,
         SumsFit(MaxPackages + 1, MaxBoosts), SumsFit(MaxPackages, MaxBoosts + 1)
  PROVE  Spec => []MoreNeverDenies
<1>0. SumsFit(MaxPackages, MaxBoosts)
  <2>1. BoundedSeq(Packages, MaxPackages) \subseteq BoundedSeq(Packages, MaxPackages + 1)
    <3>1. /\ BoundedSeq(Packages, MaxPackages) = UNION {[1..k -> Packages] : k \in 0..MaxPackages}
          /\ BoundedSeq(Packages, MaxPackages + 1) = UNION {[1..k -> Packages] : k \in 0..(MaxPackages + 1)}
      BY DEF BoundedSeq, SeqOf
    <3>2. 0..MaxPackages \subseteq 0..(MaxPackages + 1)
      BY DataAssumption
    <3> QED BY <3>1, <3>2
  <2> QED BY <2>1 DEF SumsFit
<1>1. Inv => MoreNeverDenies
  <2> SUFFICES ASSUME Inv, Decided, verdict.allowed
               PROVE  /\ \A pkg \in Packages :
                           Can(got.type, Append(got.packages, pkg), got.boosts, got.used, asked).allowed
                      /\ \A boost \in Boosts :
                           Can(got.type, got.packages, Append(got.boosts, boost), got.used, asked).allowed
                      /\ asked > 0 => Can(got.type, got.packages, got.boosts, got.used, asked - 1).allowed
    BY DEF MoreNeverDenies
  <2> DEFINE type == got.type
             packages == got.packages
             boosts == got.boosts
             used == got.used
  <2>1. /\ got \in Loaded /\ asked \in Quantities
        /\ \E n, m \in Nat : Workspace(type, n, packages, m, boosts, used)
    BY DecidedIs
  <2>2. PICK n, m \in Nat : Workspace(type, n, packages, m, boosts, used)
    BY <2>1
  <2>3. /\ type \in FeatureType /\ used \in Nat
        /\ packages \in [1..n -> Package] /\ boosts \in [1..m -> Boost]
    BY <2>2 DEF Workspace
  <2>4. /\ packages \in BoundedSeq(Packages, MaxPackages)
        /\ boosts \in BoundedSeq(Boosts, MaxBoosts) /\ used \in Counts \cup {0}
    BY <2>1 DEF Loaded
  <2>5. Allows(type, packages, boosts, used, Asked(asked))
    BY <1>0, DecidedFollows
  <2>6. used + Asked(asked) \in Ints
    BY <2>1, <2>4, AskedFits
  <2>7. \A i \in 1..m : boosts[i].type # "unknown"
    BY <2>3, <2>4, LoadedAreKnown
  <2>8. asked \in Int /\ Asked(asked) \in Int
    BY <2>1, DataAssumption DEF Asked
  <2>9. MaxPackages \in Nat /\ MaxBoosts \in Nat /\ Packages \subseteq Package /\ Boosts \subseteq Boost
    BY DataAssumption
  <2> HIDE DEF type, packages, boosts, used
  <2>10. ASSUME NEW pkg \in Packages
         PROVE  Can(type, Append(packages, pkg), boosts, used, asked).allowed
    <3> DEFINE q == Append(packages, pkg)
    <3>1. pkg \in Package /\ pkg.limit \in Nat \cup {Unlisted, Nil, -1}
      BY <2>9 DEF LimitsAreCounts
    <3>2. Allows(type, q, boosts, used, Asked(asked))
      BY <2>3, <2>5, <2>8, <3>1, OneMorePackage
    <3>3. q \in BoundedSeq(Packages, MaxPackages + 1)
      BY <2>4, <2>9, BoundedAppend
    <3>4. q \in [1..(n + 1) -> Package] /\ n + 1 \in Nat
      <4>1. q \in [1..(n + 1) -> Package]
        BY <2>3, <3>1, AppendIs
      <4> QED BY <4>1
    <3> HIDE DEF q
    <3>5. Workspace(type, n + 1, q, m, boosts, used)
      BY <2>3, <3>4 DEF Workspace
    <3>6. Fits(q, boosts)
      BY <2>4, <3>3, FitsIs
    <3>7. Can(type, q, boosts, used, asked).allowed
      BY <2>6, <2>7, <3>2, <3>5, <3>6, CanFollows
    <3> QED BY <3>7 DEF q
  <2>11. ASSUME NEW boost \in Boosts
         PROVE  Can(type, packages, Append(boosts, boost), used, asked).allowed
    <3> DEFINE q == Append(boosts, boost)
    <3>1. boost \in Boost /\ boost.type # "unknown"
      BY <2>9 DEF KnownBoosts
    <3>2. Allows(type, packages, q, used, Asked(asked))
      BY <2>3, <2>5, <2>8, <3>1, OneMoreBoost
    <3>3. q \in BoundedSeq(Boosts, MaxBoosts + 1)
      BY <2>4, <2>9, BoundedAppend
    <3>4. q \in [1..(m + 1) -> Boost] /\ m + 1 \in Nat /\ q[m + 1] = boost /\ \A i \in 1..m : q[i] = boosts[i]
      <4>1. q \in [1..(m + 1) -> Boost]
        BY <2>3, <3>1, AppendIs
      <4>2. q[m + 1] = boost
        BY <2>3, <3>1, AppendIs
      <4>3. \A i \in 1..m : q[i] = boosts[i]
        BY <2>3, <3>1, AppendIs
      <4> QED BY <4>1, <4>2, <4>3
    <3>5. \A i \in 1..(m + 1) : q[i].type # "unknown"
      <4>1. \A i \in 1..(m + 1) : i \in 1..m \/ i = m + 1
        OBVIOUS
      <4> HIDE DEF q
      <4> QED BY <2>7, <3>1, <3>4, <4>1
    <3> HIDE DEF q
    <3>6. Workspace(type, n, packages, m + 1, q, used)
      BY <2>3, <3>4 DEF Workspace
    <3>7. Fits(packages, q)
      BY <2>4, <3>3, FitsIs
    <3>8. Can(type, packages, q, used, asked).allowed
      BY <2>6, <3>2, <3>5, <3>6, <3>7, CanFollows
    <3> QED BY <3>8 DEF q
  <2>12. ASSUME asked > 0
         PROVE  Can(type, packages, boosts, used, asked - 1).allowed
    <3>1. Asked(asked) = asked /\ Asked(asked - 1) = asked - 1
      BY <2>8, <2>12 DEF Asked
    <3>2. used + Asked(asked - 1) \in Ints
      BY <2>3, <2>6, <2>8, <2>12, <3>1, IntAssumption DEF Ints
    <3>3. Fits(packages, boosts)
      BY <1>0, <2>4, FitsIs
    <3>4. Allows(type, packages, boosts, used, Asked(asked - 1))
      <4>1. CASE Free(type, packages, boosts)
        BY <4>1 DEF Allows
      <4>2. CASE type = "boolean" /\ (Listing(packages) # {} \/ Usable(boosts, "enable") # {})
        BY <4>2 DEF Allows
      <4>3. CASE /\ ~Free(type, packages, boosts)
                 /\ type \notin {"boolean", "unlimited"} /\ Listing(packages) # {}
                 /\ used + Asked(asked) <= PackageTotal(packages) + BoostTotal(boosts)
        <5> DEFINE total == PackageTotal(packages) + BoostTotal(boosts)
        <5>1. total \in Int
          <6>1. PackageTotal(packages) \in Int
            BY <2>3, <4>3, PackageLimitIs DEF Free
          <6>2. BoostTotal(boosts) \in Nat
            BY <2>3, BoostTotalIsNat
          <6> QED BY <6>1, <6>2
        <5>2. used + asked <= total
          BY <3>1, <4>3
        <5> HIDE DEF total
        <5>3. used + (asked - 1) <= total
          BY <2>3, <2>8, <5>1, <5>2
        <5>4. used + Asked(asked - 1) <= PackageTotal(packages) + BoostTotal(boosts)
          BY <3>1, <5>3 DEF total
        <5> QED BY <4>3, <5>4 DEF Allows
      <4> QED BY <2>5, <4>1, <4>2, <4>3 DEF Allows
    <3> QED BY <2>2, <2>7, <3>2, <3>3, <3>4, CanFollows
  <2> QED BY <2>10, <2>11, <2>12 DEF type, packages, boosts, used
<1> QED BY <1>1, InvHolds, PTL
=============================================================================
