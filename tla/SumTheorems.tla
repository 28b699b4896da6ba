---------------------------- MODULE SumTheorems -----------------------------
(***************************************************************************)
(* What SumFunctionOnSet and SumFunction of the community module Functions *)
(* compute over a finite set.  They are folds, defined by recursion over   *)
(* the subsets of the set, an element that CHOOSE picks taken away each    *)
(* time.  Every fact is by induction over the size of the subset.  The     *)
(* induction is stated for a set of numbers, since a theorem about an      *)
(* operator, such as NatInduction, cannot be applied by the provers; it    *)
(* rests on WFMin, that a set which is not empty has a least element.      *)
(* With it come facts about finite sets, and the existence of functions    *)
(* that are defined by recursion over 1 .. n.                              *)
(***************************************************************************)
EXTENDS Integers, Functions, FiniteSetTheorems, WellFoundedInduction, TLAPS

-----------------------------------------------------------------------------
(* The recursion.                                                          *)

\* Induction over the natural numbers, for a property given as a set.
LEMMA Induction ==
    ASSUME NEW P, 0 \in P, \A n \in Nat : n \in P => n + 1 \in P
    PROVE  Nat \subseteq P
  <1> DEFINE T == Nat \ P
  <1> SUFFICES ASSUME T # {} PROVE FALSE
    OBVIOUS
  <1>1. PICK n \in T : \A k \in T : <<k, n>> \notin OpToRel(<, Nat)
    BY WFMin, NatLessThanWellFounded, Zenon
  <1>2. \A k \in T : k < n => <<k, n>> \in OpToRel(<, Nat)
    BY DEF OpToRel
  <1>3. n \in Nat /\ n # 0 /\ n - 1 \in Nat /\ n - 1 < n /\ n - 1 + 1 = n
    OBVIOUS
  <1>4. n - 1 \notin T
    BY <1>1, <1>2, <1>3
  <1> QED BY <1>3, <1>4

\* The element the fold takes first.
Pick(s) == CHOOSE x \in s : TRUE

\* g maps each set of D to the sum of f over it.
Totals(f, D, g) ==
    g = [s \in D |-> IF s = {} THEN 0 ELSE f[Pick(s)] + g[s \ {Pick(s)}]]

\* The fold is one of these functions, if there is one.
LEMMA SumDef ==
    ASSUME NEW f, NEW S
    PROVE  SumFunctionOnSet(f, S) = (CHOOSE g : Totals(f, SUBSET S, g))[S]
  BY DEF SumFunctionOnSet, FoldFunctionOnSet, MapThenFoldSet, Totals, Pick

\* Taking the picked element away leaves a smaller set.
LEMMA PickIn ==
    ASSUME NEW s, IsFiniteSet(s), s # {}
    PROVE  /\ Pick(s) \in s /\ Cardinality(s) \in Nat
           /\ IsFiniteSet(s \ {Pick(s)}) /\ Cardinality(s \ {Pick(s)}) \in Nat
           /\ Cardinality(s \ {Pick(s)}) = Cardinality(s) - 1
  <1>1. Pick(s) \in s
    BY DEF Pick
  <1>2. IsFiniteSet(s \ {Pick(s)}) /\ Cardinality(s \ {Pick(s)}) = Cardinality(s) - 1
    BY <1>1, FS_RemoveElement
  <1> QED BY <1>1, <1>2, FS_CardinalityType

\* The sets of at most n elements of S.
UpTo(S, n) == {s \in SUBSET S : Cardinality(s) <= n}

\* They grow with n, from the empty set to all subsets.
LEMMA UpToFinite ==
    ASSUME NEW S, IsFiniteSet(S), NEW n \in Nat
    PROVE  /\ UpTo(S, 0) = {{}}
           /\ UpTo(S, n) \subseteq UpTo(S, n + 1)
           /\ \A s \in UpTo(S, n + 1) : s # {} => s \ {Pick(s)} \in UpTo(S, n)
           /\ UpTo(S, Cardinality(S)) = SUBSET S /\ Cardinality(S) \in Nat
  <1>1. \A s \in SUBSET S : IsFiniteSet(s) /\ Cardinality(s) \in Nat
    BY FS_Subset, FS_CardinalityType
  <1>2. UpTo(S, 0) = {{}}
    <2>1. {} \in UpTo(S, 0)
      BY FS_EmptySet DEF UpTo
    <2>2. \A s \in UpTo(S, 0) : s = {}
      BY <1>1, FS_EmptySet DEF UpTo
    <2> QED BY <2>1, <2>2
  <1>3. UpTo(S, n) \subseteq UpTo(S, n + 1)
    BY <1>1 DEF UpTo
  <1>4. ASSUME NEW s \in UpTo(S, n + 1), s # {} PROVE s \ {Pick(s)} \in UpTo(S, n)
    <2>1. s \in SUBSET S /\ IsFiniteSet(s) /\ Cardinality(s) <= n + 1
      BY <1>1 DEF UpTo
    <2>2. /\ Cardinality(s \ {Pick(s)}) = Cardinality(s) - 1
          /\ Cardinality(s) \in Nat
      BY <1>4, <2>1, PickIn
    <2> QED BY <2>1, <2>2 DEF UpTo
  <1>5. UpTo(S, Cardinality(S)) = SUBSET S /\ Cardinality(S) \in Nat
    BY FS_CardinalityType, FS_Subset DEF UpTo
  <1> QED BY <1>2, <1>3, <1>4, <1>5

\* The recursion defines a function: one for the sets of at most n elements
\* gives one for those of at most n + 1.
LEMMA TotalsExist ==
    ASSUME NEW f, NEW S, IsFiniteSet(S)
    PROVE  \E g : Totals(f, SUBSET S, g)
  <1> DEFINE P == {n \in Nat : \E g : Totals(f, UpTo(S, n), g)}
  <1>1. 0 \in P
    <2> DEFINE g == [s \in UpTo(S, 0) |-> 0]
    <2>1. g = [s \in UpTo(S, 0) |-> IF s = {} THEN 0 ELSE f[Pick(s)] + g[s \ {Pick(s)}]]
      BY UpToFinite
    <2> QED BY <2>1 DEF Totals
  <1>2. ASSUME NEW n \in Nat, n \in P PROVE n + 1 \in P
    <2>1. PICK g : Totals(f, UpTo(S, n), g)
      BY <1>2
    <2> DEFINE sum(s, x) == IF s = {} THEN 0 ELSE f[Pick(s)] + x[s \ {Pick(s)}]
               h == [s \in UpTo(S, n + 1) |-> sum(s, g)]
    <2>2. \A s \in UpTo(S, n) : g[s] = h[s]
      BY <2>1, UpToFinite DEF Totals
    <2>3. \A s \in UpTo(S, n + 1) : sum(s, g) = sum(s, h)
      BY <2>2, UpToFinite
    <2>4. h = [s \in UpTo(S, n + 1) |-> sum(s, h)]
      BY <2>3
    <2>5. Totals(f, UpTo(S, n + 1), h)
      BY <2>4 DEF Totals
    <2> QED BY <2>5
  <1>3. Nat \subseteq P
    BY <1>1, <1>2, Induction
  <1>4. Cardinality(S) \in Nat /\ UpTo(S, Cardinality(S)) = SUBSET S
    BY UpToFinite
  <1>5. Cardinality(S) \in P
    BY <1>3, <1>4
  <1>6. \E g : Totals(f, UpTo(S, Cardinality(S)), g)
    BY <1>5
  <1> QED BY <1>4, <1>6

\* Two such functions agree, also where their values come from two functions
\* that agree on the set.
LEMMA TotalsAgree ==
    ASSUME NEW S, IsFiniteSet(S), NEW T \in SUBSET S,
           NEW f, NEW g, Totals(f, SUBSET S, g),
           NEW d, NEW h, Totals(d, SUBSET T, h),
           \A x \in T : f[x] = d[x]
    PROVE  g[T] = h[T]
  <1> DEFINE P == {n \in Nat : \A s \in UpTo(T, n) : g[s] = h[s]}
  <1>0. IsFiniteSet(T)
    BY FS_Subset
  <1>a. \A s \in SUBSET T :
           /\ g[s] = IF s = {} THEN 0 ELSE f[Pick(s)] + g[s \ {Pick(s)}]
           /\ h[s] = IF s = {} THEN 0 ELSE d[Pick(s)] + h[s \ {Pick(s)}]
    <2>1. \A s \in SUBSET T : s \in SUBSET S
      OBVIOUS
    <2> QED BY <2>1 DEF Totals
  <1>1. 0 \in P
    <2>1. {} \in SUBSET T /\ UpTo(T, 0) = {{}}
      BY <1>0, UpToFinite
    <2> QED BY <1>a, <2>1
  <1>2. ASSUME NEW n \in Nat, n \in P PROVE n + 1 \in P
    <2> SUFFICES ASSUME NEW s \in UpTo(T, n + 1) PROVE g[s] = h[s]
      OBVIOUS
    <2>0. CASE s = {}
      BY <1>a, <2>0
    <2> SUFFICES ASSUME s # {} PROVE g[s] = h[s]
      BY <2>0
    <2>1. s \in SUBSET T /\ Pick(s) \in T
      BY DEF UpTo, Pick
    <2>2. g[s \ {Pick(s)}] = h[s \ {Pick(s)}]
      BY <1>0, <1>2, UpToFinite
    <2> QED BY <1>a, <2>1, <2>2
  <1>3. Nat \subseteq P
    BY <1>1, <1>2, Induction
  <1>4. Cardinality(T) \in Nat /\ T \in UpTo(T, Cardinality(T))
    BY <1>0, UpToFinite
  <1> QED BY <1>3, <1>4

-----------------------------------------------------------------------------
(* The sums.                                                               *)

\* The sum over a set that is not empty is that of one element and the rest.
LEMMA SumUnfold ==
    ASSUME NEW f, NEW S, IsFiniteSet(S)
    PROVE  /\ S = {} => SumFunctionOnSet(f, S) = 0
           /\ S # {} => SumFunctionOnSet(f, S)
                            = f[Pick(S)] + SumFunctionOnSet(f, S \ {Pick(S)})
  <1> DEFINE R == S \ {Pick(S)}
             g == CHOOSE g : Totals(f, SUBSET S, g)
             h == CHOOSE h : Totals(f, SUBSET R, h)
  <1>1. IsFiniteSet(R) /\ R \in SUBSET S
    BY FS_Subset
  <1>2. Totals(f, SUBSET S, g)
    BY TotalsExist
  <1>3. Totals(f, SUBSET R, h)
    BY <1>1, TotalsExist
  <1> HIDE DEF R, g, h
  <1>4. g[R] = h[R]
    BY <1>1, <1>2, <1>3, TotalsAgree
  <1>5. SumFunctionOnSet(f, S) = g[S] /\ SumFunctionOnSet(f, R) = h[R]
    BY SumDef DEF g, h
  <1>6. g[S] = IF S = {} THEN 0 ELSE f[Pick(S)] + g[R]
    BY <1>2 DEF Totals, R
  <1> QED BY <1>4, <1>5, <1>6 DEF R

\* The sum depends on the values in the set only.
LEMMA SumAgrees ==
    ASSUME NEW S, IsFiniteSet(S), NEW f, NEW d, \A x \in S : f[x] = d[x]
    PROVE  SumFunctionOnSet(f, S) = SumFunctionOnSet(d, S)
  <1> DEFINE g == CHOOSE g : Totals(f, SUBSET S, g)
             h == CHOOSE h : Totals(d, SUBSET S, h)
  <1>1. Totals(f, SUBSET S, g) /\ Totals(d, SUBSET S, h)
    BY TotalsExist
  <1>2. g[S] = h[S]
    BY <1>1, TotalsAgree
  <1> QED BY <1>2, SumDef

\* Any element may be taken first.
LEMMA SumSplits ==
    ASSUME NEW S, IsFiniteSet(S), NEW f, \A x \in S : f[x] \in Int
    PROVE  /\ SumFunctionOnSet(f, S) \in Int
           /\ \A x \in S : SumFunctionOnSet(f, S) = f[x] + SumFunctionOnSet(f, S \ {x})
  <1> DEFINE Sum(s) == SumFunctionOnSet(f, s)
             Good(s) == /\ Sum(s) \in Int
                        /\ \A x \in s : Sum(s \ {x}) \in Int /\ Sum(s) = f[x] + Sum(s \ {x})
             P == {n \in Nat : \A s \in UpTo(S, n) : Good(s)}
  <1>0. \A s \in SUBSET S : IsFiniteSet(s)
    BY FS_Subset
  <1>e. Good({})
    <2>1. Sum({}) = 0
      BY FS_EmptySet, SumUnfold
    <2> HIDE DEF Sum
    <2> QED BY <2>1
  <1>1. 0 \in P
    <2>1. UpTo(S, 0) = {{}}
      BY UpToFinite
    <2> QED BY <1>e, <2>1
  <1>2. ASSUME NEW n \in Nat, n \in P PROVE n + 1 \in P
    <2> SUFFICES ASSUME NEW s \in UpTo(S, n + 1), s # {} PROVE Good(s)
      <3> HIDE DEF Good
      <3> QED BY <1>e
    <2> DEFINE c == Pick(s)
    <2>0. /\ s \in SUBSET S /\ c \in s /\ IsFiniteSet(s)
          /\ \A x \in s : s \ {x} \in UpTo(S, n)
      <3>1. s \in SUBSET S /\ c \in s /\ IsFiniteSet(s) /\ Cardinality(s) <= n + 1
        BY <1>0 DEF UpTo, Pick
      <3>2. \A x \in s : Cardinality(s \ {x}) = Cardinality(s) - 1 /\ Cardinality(s) \in Nat
        BY <3>1, FS_RemoveElement, FS_CardinalityType
      <3> QED BY <3>1, <3>2 DEF UpTo
    <2>1. \A x \in s : Good(s \ {x})
      BY <1>2, <2>0
    <2> HIDE DEF Good, P
    <2>2. Sum(s) = f[c] + Sum(s \ {c})
      BY <2>0, SumUnfold
    <2>3. ASSUME NEW x \in s PROVE Sum(s \ {x}) \in Int /\ Sum(s) = f[x] + Sum(s \ {x})
      <3>1. Sum(s \ {x}) \in Int /\ Sum(s \ {c}) \in Int /\ f[x] \in Int /\ f[c] \in Int
        BY <2>0, <2>1 DEF Good
      <3>2. CASE x = c
        BY <2>2, <3>1, <3>2
      <3>3. CASE x # c
        <4> DEFINE r == s \ {x, c}
        <4>1. (s \ {x}) \ {c} = r /\ (s \ {c}) \ {x} = r /\ c \in s \ {x} /\ x \in s \ {c}
          BY <2>0, <3>3
        <4> HIDE DEF r
        <4>2. Sum(s \ {x}) = f[c] + Sum(r) /\ Sum(r) \in Int
          BY <2>0, <2>1, <4>1 DEF Good
        <4>3. Sum(s \ {c}) = f[x] + Sum(r)
          BY <2>0, <2>1, <4>1 DEF Good
        <4> HIDE DEF Sum, c
        <4> QED BY <2>2, <3>1, <4>2, <4>3
      <3> QED BY <3>2, <3>3
    <2>4. Sum(s) \in Int
      BY <2>0, <2>2, <2>3
    <2> QED BY <2>3, <2>4 DEF Good
  <1>3. Nat \subseteq P
    BY <1>1, <1>2, Induction
  <1>4. Cardinality(S) \in Nat /\ S \in UpTo(S, Cardinality(S))
    BY UpToFinite
  <1> QED BY <1>3, <1>4

\* Zeros add up to zero.
LEMMA SumOfZeros ==
    ASSUME NEW S, IsFiniteSet(S), NEW f, \A x \in S : f[x] = 0
    PROVE  SumFunctionOnSet(f, S) = 0
  <1> DEFINE Sum(s) == SumFunctionOnSet(f, s)
             P == {n \in Nat : \A s \in UpTo(S, n) : Sum(s) = 0}
  <1>e. Sum({}) = 0
    BY FS_EmptySet, SumUnfold
  <1>1. 0 \in P
    <2>1. UpTo(S, 0) = {{}}
      BY UpToFinite
    <2> HIDE DEF Sum
    <2> QED BY <1>e, <2>1
  <1>2. ASSUME NEW n \in Nat, n \in P PROVE n + 1 \in P
    <2> SUFFICES ASSUME NEW s \in UpTo(S, n + 1), s # {} PROVE Sum(s) = 0
      <3> HIDE DEF Sum
      <3> QED BY <1>e
    <2>1. s \in SUBSET S /\ Pick(s) \in S /\ IsFiniteSet(s)
      BY FS_Subset DEF UpTo, Pick
    <2>2. Sum(s) = f[Pick(s)] + Sum(s \ {Pick(s)})
      BY <2>1, SumUnfold
    <2>3. Sum(s \ {Pick(s)}) = 0
      BY <1>2, UpToFinite
    <2> QED BY <2>1, <2>2, <2>3
  <1>3. Nat \subseteq P
    BY <1>1, <1>2, Induction
  <1>4. Cardinality(S) \in Nat /\ S \in UpTo(S, Cardinality(S))
    BY UpToFinite
  <1> QED BY <1>3, <1>4

\* One element more adds its value.
LEMMA SumAdds ==
    ASSUME NEW S, IsFiniteSet(S), NEW x, x \notin S, NEW f, \A y \in S \cup {x} : f[y] \in Int
    PROVE  /\ IsFiniteSet(S \cup {x}) /\ SumFunctionOnSet(f, S) \in Int
           /\ SumFunctionOnSet(f, S \cup {x}) = SumFunctionOnSet(f, S) + f[x]
  <1>1. IsFiniteSet(S \cup {x}) /\ (S \cup {x}) \ {x} = S
    BY FS_AddElement
  <1>2. SumFunctionOnSet(f, S) \in Int
    BY SumSplits
  <1>3. SumFunctionOnSet(f, S \cup {x}) = f[x] + SumFunctionOnSet(f, S)
    BY <1>1, SumSplits
  <1> QED BY <1>1, <1>2, <1>3

\* Larger values over a larger set have a larger sum.
LEMMA SumGrows ==
    ASSUME NEW S, IsFiniteSet(S), NEW T \in SUBSET S, NEW f, NEW d,
           \A x \in T : f[x] \in Int /\ d[x] \in Int /\ f[x] <= d[x],
           \A x \in S \ T : d[x] \in Nat
    PROVE  /\ SumFunctionOnSet(f, T) \in Int /\ SumFunctionOnSet(d, S) \in Int
           /\ SumFunctionOnSet(f, T) <= SumFunctionOnSet(d, S)
  <1> DEFINE F(s) == SumFunctionOnSet(f, s)
             D(s) == SumFunctionOnSet(d, s)
             Good(s) == F(s \cap T) \in Int /\ D(s) \in Int /\ F(s \cap T) <= D(s)
             P == {n \in Nat : \A s \in UpTo(S, n) : Good(s)}
  <1>0. \A s \in SUBSET S : IsFiniteSet(s) /\ IsFiniteSet(s \cap T)
    BY FS_Subset
  <1>t. \A s \in SUBSET S : /\ \A x \in s : D(s) = d[x] + D(s \ {x}) /\ D(s) \in Int
                            /\ D(s) \in Int
    <2> TAKE s \in SUBSET S
    <2>1. \A x \in s : d[x] \in Int
      OBVIOUS
    <2> QED BY <1>0, <2>1, SumSplits
  <1>u. \A s \in SUBSET S : /\ \A x \in s \cap T : F(s \cap T) = f[x] + F((s \cap T) \ {x})
                            /\ F(s \cap T) \in Int
    <2> TAKE s \in SUBSET S
    <2> DEFINE r == s \cap T
    <2>1. IsFiniteSet(r) /\ \A x \in r : f[x] \in Int
      BY <1>0
    <2> HIDE DEF r
    <2>2. F(r) \in Int /\ \A x \in r : F(r) = f[x] + F(r \ {x})
      BY <2>1, SumSplits
    <2> QED BY <2>2 DEF r
  <1>e. F({}) = 0 /\ D({}) = 0
    BY FS_EmptySet, SumUnfold
  <1> HIDE DEF F, D
  <1>1. 0 \in P
    <2>1. UpTo(S, 0) = {{}} /\ {} \cap T = {}
      BY UpToFinite
    <2>2. Good({})
      BY <1>e, <2>1
    <2> QED BY <2>1, <2>2
  <1>2. ASSUME NEW n \in Nat, n \in P PROVE n + 1 \in P
    <2> SUFFICES ASSUME NEW s \in UpTo(S, n + 1) PROVE Good(s)
      OBVIOUS
    <2> DEFINE x == Pick(s)
               r == s \ {x}
    <2>0. s \in SUBSET S /\ IsFiniteSet(s)
      BY <1>0 DEF UpTo
    <2>1. CASE s = {}
      <3>1. s \cap T = {}
        BY <2>1
      <3> QED BY <1>e, <2>1, <3>1
    <2>2. CASE s # {}
      <3>0. x \in s
        BY <2>2 DEF Pick
      <3>1. F(r \cap T) \in Int /\ D(r) \in Int /\ F(r \cap T) <= D(r)
        BY <1>2, <2>2, UpToFinite
      <3>2. D(s) = d[x] + D(r) /\ D(s) \in Int /\ F(s \cap T) \in Int
        BY <1>t, <1>u, <2>0, <3>0
      <3>3. CASE x \in T
        <4>1. F(s \cap T) = f[x] + F((s \cap T) \ {x}) /\ (s \cap T) \ {x} = r \cap T
          BY <1>u, <2>0, <3>0, <3>3
        <4>2. f[x] \in Int /\ d[x] \in Int /\ f[x] <= d[x]
          BY <3>3
        <4>3. F(s \cap T) = f[x] + F(r \cap T)
          BY <4>1
        <4> HIDE DEF x, r
        <4> QED BY <3>1, <3>2, <4>2, <4>3
      <3>4. CASE x \notin T
        <4>1. s \cap T = r \cap T /\ d[x] \in Nat
          BY <2>0, <3>0, <3>4
        <4>2. F(s \cap T) = F(r \cap T)
          BY <4>1
        <4> HIDE DEF x, r
        <4> QED BY <3>1, <3>2, <4>1, <4>2
      <3> QED BY <3>3, <3>4
    <2> QED BY <2>1, <2>2
  <1>3. Nat \subseteq P
    BY <1>1, <1>2, Induction
  <1>4. Cardinality(S) \in Nat /\ S \in UpTo(S, Cardinality(S)) /\ S \cap T = T
    BY UpToFinite
  <1>5. Good(S)
    BY <1>3, <1>4
  <1> QED BY <1>4, <1>5 DEF F, D

\* h takes the elements of S to those of T, one to one, with their values.
Renames(h, f, S, d, T) ==
    /\ \A x \in S : h[x] \in T /\ f[x] \in Int /\ d[h[x]] = f[x]
    /\ \A x, y \in S : h[x] = h[y] => x = y
    /\ \A y \in T : \E x \in S : y = h[x]

\* A sum does not depend on what its elements are called.
LEMMA SumOfImage ==
    ASSUME NEW S, IsFiniteSet(S), NEW h, NEW f, NEW d, NEW T, Renames(h, f, S, d, T)
    PROVE  /\ IsFiniteSet(T) /\ Cardinality(T) = Cardinality(S)
           /\ SumFunctionOnSet(d, T) = SumFunctionOnSet(f, S)
  <1> DEFINE Image(s) == {h[x] : x \in s}
             Good(s) == /\ IsFiniteSet(Image(s)) /\ Cardinality(Image(s)) = Cardinality(s)
                        /\ SumFunctionOnSet(d, Image(s)) = SumFunctionOnSet(f, s)
             P == {n \in Nat : \A s \in UpTo(S, n) : Good(s)}
  <1>r. /\ \A x \in S : h[x] \in T /\ f[x] \in Int /\ d[h[x]] = f[x]
        /\ \A x, y \in S : h[x] = h[y] => x = y
        /\ \A y \in T : \E x \in S : y = h[x]
    BY DEF Renames
  <1>0. \A s \in SUBSET S : IsFiniteSet(s)
    BY FS_Subset
  <1>e. Good({})
    <2>1. Image({}) = {}
      OBVIOUS
    <2> HIDE DEF Image
    <2>2. SumFunctionOnSet(d, {}) = 0 /\ SumFunctionOnSet(f, {}) = 0 /\ IsFiniteSet({})
      BY FS_EmptySet, SumUnfold
    <2> QED BY <2>1, <2>2
  <1>1. 0 \in P
    <2>1. UpTo(S, 0) = {{}}
      BY UpToFinite
    <2> HIDE DEF Good
    <2> QED BY <1>e, <2>1
  <1>2. ASSUME NEW n \in Nat, n \in P PROVE n + 1 \in P
    <2> SUFFICES ASSUME NEW s \in UpTo(S, n + 1) PROVE Good(s)
      OBVIOUS
    <2>e. CASE s = {}
      BY <1>e, <2>e
    <2>n. CASE s # {}
      <3> DEFINE x == Pick(s)
                 r == s \ {x}
                 R == Image(r)
                 e == h[x]
      <3>0. s \in SUBSET S /\ IsFiniteSet(s) /\ x \in s
        BY <1>0, <2>n DEF UpTo, Pick
      <3>1. Good(r)
        BY <1>2, <2>n, UpToFinite
      <3>2. e \notin R /\ Image(s) = R \cup {e}
        BY <1>r, <3>0
      <3>3. SumFunctionOnSet(f, s) = f[x] + SumFunctionOnSet(f, r)
        BY <2>n, <3>0, SumUnfold
      <3>4. Cardinality(r) = Cardinality(s) - 1 /\ Cardinality(s) \in Nat
        BY <3>0, FS_RemoveElement, FS_CardinalityType
      <3>5. \A y \in R \cup {e} : d[y] \in Int
        BY <1>r, <3>0
      <3>6. d[e] = f[x] /\ f[x] \in Int
        BY <1>r, <3>0
      <3>7. /\ IsFiniteSet(R) /\ Cardinality(R) = Cardinality(r)
            /\ SumFunctionOnSet(d, R) = SumFunctionOnSet(f, r)
        BY <3>1
      <3> DEFINE I == Image(s)
                 J == R \cup {e}
      <3>i. I = J
        BY <3>2
      <3> HIDE DEF x, r, R, I, e, Image
      <3>j. /\ IsFiniteSet(J) /\ SumFunctionOnSet(d, R) \in Int
            /\ SumFunctionOnSet(d, J) = SumFunctionOnSet(d, R) + d[e]
        BY <3>2, <3>5, <3>7, SumAdds
      <3>k. Cardinality(J) = Cardinality(R) + 1
        BY <3>2, <3>7, FS_AddElement
      <3> HIDE DEF J
      <3>8. /\ IsFiniteSet(I) /\ SumFunctionOnSet(d, R) \in Int
            /\ SumFunctionOnSet(d, I) = SumFunctionOnSet(d, R) + d[e]
        BY <3>i, <3>j
      <3>9. Cardinality(I) = Cardinality(R) + 1
        BY <3>i, <3>k
      <3>10. /\ SumFunctionOnSet(d, I) = SumFunctionOnSet(f, s) /\ Cardinality(I) = Cardinality(s)
        BY <3>3, <3>4, <3>6, <3>7, <3>8, <3>9
      <3> QED BY <3>8, <3>10 DEF I
    <2> QED BY <2>e, <2>n
  <1>3. Nat \subseteq P
    <2> HIDE DEF P
    <2> QED BY <1>1, <1>2, Induction
  <1>4. Cardinality(S) \in Nat /\ S \in UpTo(S, Cardinality(S))
    BY UpToFinite
  <1>5. Good(S)
    BY <1>3, <1>4
  <1>6. T = Image(S)
    BY <1>r
  <1> HIDE DEF Image
  <1> QED BY <1>5, <1>6

\* A change of one value changes the sum by as much.
LEMMA SumChanges ==
    ASSUME NEW S, IsFiniteSet(S), NEW f \in [S -> Int], NEW d \in [S -> Int],
           NEW x \in S, \A y \in S \ {x} : f[y] = d[y]
    PROVE  /\ SumFunction(f) \in Int
           /\ SumFunction(d) = SumFunction(f) + (d[x] - f[x])
  <1> DEFINE R == S \ {x}
  <1>1. SumFunction(f) = SumFunctionOnSet(f, S) /\ SumFunction(d) = SumFunctionOnSet(d, S)
    BY DEF SumFunction
  <1>2. IsFiniteSet(R)
    BY FS_Subset
  <1>3. SumFunctionOnSet(f, R) = SumFunctionOnSet(d, R)
    BY <1>2, SumAgrees
  <1>4. /\ SumFunctionOnSet(f, S) \in Int /\ SumFunctionOnSet(f, R) \in Int
        /\ SumFunctionOnSet(f, S) = f[x] + SumFunctionOnSet(f, R)
    BY <1>2, SumSplits
  <1>5. SumFunctionOnSet(d, S) = d[x] + SumFunctionOnSet(d, R)
    BY SumSplits
  <1>6. f[x] \in Int /\ d[x] \in Int
    OBVIOUS
  <1> QED BY <1>1, <1>3, <1>4, <1>5, <1>6

\* The values of z at C are some of a first one, those of f moved up by one, and a
\* last one.
Between(z, C, n, a, b, f, F) ==
    \A i \in C : /\ z[i] \in Nat
                 /\ \/ i = 1 /\ z[i] = a
                    \/ i = n + 2 /\ z[i] = b
                    \/ i - 1 \in F /\ z[i] = f[i - 1]

\* Two values more make the sum larger by no more than both.
LEMMA SumBetween ==
    ASSUME NEW n \in Nat, NEW F \in SUBSET (1 .. n), NEW f, \A i \in F : f[i] \in Nat,
           NEW a \in Nat, NEW b \in Nat, NEW C \in SUBSET Nat, NEW z,
           Between(z, C, n, a, b, f, F)
    PROVE  /\ IsFiniteSet(C) /\ Cardinality(C) <= Cardinality(F) + 2
           /\ SumFunctionOnSet(z, C) <= SumFunctionOnSet(f, F) + a + b
           /\ Cardinality(C) \in Nat /\ Cardinality(F) \in Nat
           /\ SumFunctionOnSet(z, C) \in Int /\ SumFunctionOnSet(f, F) \in Int
  <1> DEFINE h == [i \in F |-> i + 1]
             d == [i \in Nat |-> IF i = 1 THEN a ELSE IF i = n + 2 THEN b ELSE f[i - 1]]
             G == {h[i] : i \in F}
             e == n + 2
             H == G \cup {1}
             U == H \cup {e}
  <1>1. IsFiniteSet(F)
    <2>1. IsFiniteSet(1 .. n)
      BY FS_Interval
    <2> QED BY <2>1, FS_Subset
  <1>2. \A i \in F : /\ i \in Nat /\ i + 1 \in Nat /\ i + 1 # 1 /\ i + 1 # n + 2 /\ i + 1 - 1 = i
                     /\ h[i] = i + 1
    OBVIOUS
  <1>3. \A i \in F : d[h[i]] = f[i] /\ f[i] \in Int
    BY <1>2
  <1>4. \A i, k \in F : h[i] = h[k] => i = k
    BY <1>2
  <1>5. 1 \notin G /\ e \notin H /\ d[1] = a /\ d[e] = b
    BY <1>2
  <1>6. \A i \in U : d[i] \in Nat
    BY <1>2
  <1>7. \A i \in C : i \in U /\ z[i] = d[i]
    <2> SUFFICES ASSUME NEW i \in C PROVE i \in U /\ z[i] = d[i]
      OBVIOUS
    <2>0. \/ i = 1 /\ z[i] = a
          \/ i = n + 2 /\ z[i] = b
          \/ i - 1 \in F /\ z[i] = f[i - 1]
      BY DEF Between
    <2>1. CASE i = 1
      BY <2>0, <2>1, <1>2, <1>5
    <2>2. CASE i = n + 2
      BY <2>0, <2>2, <1>2, <1>5
    <2>3. CASE i - 1 \in F /\ z[i] = f[i - 1]
      <3>1. h[i - 1] = i /\ d[h[i - 1]] = f[i - 1]
        BY <1>2, <1>3, <2>3
      <3> QED BY <2>3, <3>1
    <2> QED BY <2>0, <2>1, <2>2, <2>3
  <1> HIDE DEF h, d, e
  <1>8. /\ IsFiniteSet(G) /\ Cardinality(G) = Cardinality(F)
        /\ SumFunctionOnSet(d, G) = SumFunctionOnSet(f, F)
    <2>1. Renames(h, f, F, d, G)
      BY <1>3, <1>4 DEF Renames
    <2> HIDE DEF G
    <2> QED BY <1>1, <2>1, SumOfImage
  <1>u. (\A i \in H : d[i] \in Int) /\ (\A i \in U : d[i] \in Int)
    BY <1>6
  <1> HIDE DEF G
  <1>9. /\ Cardinality(H) = Cardinality(G) + 1 /\ IsFiniteSet(H)
    BY <1>5, <1>8, FS_AddElement
  <1>10. /\ SumFunctionOnSet(d, H) = SumFunctionOnSet(d, G) + d[1]
         /\ SumFunctionOnSet(d, G) \in Int
    BY <1>5, <1>8, <1>u, SumAdds
  <1> HIDE DEF H
  <1>11. /\ Cardinality(U) = Cardinality(H) + 1 /\ IsFiniteSet(U)
    BY <1>5, <1>9, FS_AddElement
  <1>12. /\ SumFunctionOnSet(d, U) = SumFunctionOnSet(d, H) + d[e]
    BY <1>5, <1>9, <1>u, SumAdds
  <1> HIDE DEF U
  <1>13. /\ C \in SUBSET U
         /\ \A i \in C : z[i] \in Int /\ d[i] \in Int /\ z[i] <= d[i]
         /\ \A i \in U \ C : d[i] \in Nat
    BY <1>6, <1>7
  <1>14. /\ SumFunctionOnSet(z, C) \in Int
         /\ SumFunctionOnSet(z, C) <= SumFunctionOnSet(d, U)
    BY <1>11, <1>13, SumGrows
  <1>15. IsFiniteSet(C) /\ Cardinality(C) <= Cardinality(U)
    BY <1>11, <1>13, FS_Subset
  <1>16. Cardinality(C) \in Nat /\ Cardinality(F) \in Nat
    BY <1>1, <1>15, FS_CardinalityType
  <1> QED BY <1>5, <1>8, <1>9, <1>10, <1>11, <1>12, <1>14, <1>15, <1>16

-----------------------------------------------------------------------------
(* Finite sets.                                                            *)

\* The image of a finite set is finite.
LEMMA ImageIsFinite ==
    ASSUME NEW S, IsFiniteSet(S), NEW f
    PROVE  IsFiniteSet({f[x] : x \in S})
  <1> DEFINE T == {f[x] : x \in S}
             g == [x \in S |-> f[x]]
  <1>1. g \in Surjection(S, T)
    <2>1. g \in [S -> T] /\ \A y \in T : \E x \in S : g[x] = y
      OBVIOUS
    <2> HIDE DEF g, T
    <2> QED BY <2>1 DEF Surjection
  <1> HIDE DEF g, T
  <1>2. IsFiniteSet(T)
    BY <1>1, FS_Surjection
  <1> QED BY <1>2 DEF T

\* The numbers up to n are n.
LEMMA SegmentSize ==
    ASSUME NEW n \in Nat
    PROVE  IsFiniteSet(1 .. n) /\ Cardinality(1 .. n) = n
  BY FS_Interval

\* A half-open interval has as many numbers as it is long.
LEMMA SpanSize ==
    ASSUME NEW a \in Int, NEW b \in Int, a <= b
    PROVE  IsFiniteSet(a .. b - 1) /\ Cardinality(a .. b - 1) = b - a
  <1> DEFINE c == b - 1
  <1>1. c \in Int /\ (a > c <=> a = b) /\ c - a + 1 = b - a
    OBVIOUS
  <1> HIDE DEF c
  <1>2. IsFiniteSet(a .. c) /\ Cardinality(a .. c) = IF a > c THEN 0 ELSE c - a + 1
    BY <1>1, FS_Interval
  <1>3. IsFiniteSet(a .. c) /\ Cardinality(a .. c) = b - a
    BY <1>1, <1>2
  <1> QED BY <1>3 DEF c

\* The union of sets that do not meet has as many elements as they have together.
LEMMA UnionCounts ==
    ASSUME NEW S, IsFiniteSet(S), NEW F, NEW d,
           \A x \in S : IsFiniteSet(F[x]) /\ d[x] = Cardinality(F[x]),
           \A x, y \in S : x # y => F[x] \cap F[y] = {}
    PROVE  /\ IsFiniteSet(UNION {F[x] : x \in S})
           /\ Cardinality(UNION {F[x] : x \in S}) = SumFunctionOnSet(d, S)
  <1> DEFINE U(s) == UNION {F[x] : x \in s}
             Good(s) == IsFiniteSet(U(s)) /\ Cardinality(U(s)) = SumFunctionOnSet(d, s)
             P == {n \in Nat : \A s \in UpTo(S, n) : Good(s)}
  <1>e. Good({})
    <2>1. U({}) = {}
      OBVIOUS
    <2>2. SumFunctionOnSet(d, {}) = 0 /\ IsFiniteSet({}) /\ Cardinality({}) = 0
      BY FS_EmptySet, SumUnfold
    <2> HIDE DEF U
    <2> QED BY <2>1, <2>2
  <1> HIDE DEF Good
  <1>1. 0 \in P
    <2>1. UpTo(S, 0) = {{}}
      BY UpToFinite
    <2> QED BY <1>e, <2>1
  <1>2. ASSUME NEW n \in Nat, n \in P PROVE n + 1 \in P
    <2> SUFFICES ASSUME NEW s \in UpTo(S, n + 1), s # {} PROVE Good(s)
      BY <1>e
    <2> DEFINE x == Pick(s)
               r == s \ {x}
    <2>1. s \in SUBSET S
      BY DEF UpTo
    <2>2. IsFiniteSet(s)
      BY <2>1, FS_Subset
    <2>3. x \in s /\ x \in S /\ r \in UpTo(S, n)
      BY <2>1, <2>2, PickIn, UpToFinite
    <2>4. SumFunctionOnSet(d, s) = d[x] + SumFunctionOnSet(d, r)
      BY <2>2, SumUnfold
    <2>5. Good(r)
      BY <1>2, <2>3
    <2>6. U(s) = F[x] \cup U(r) /\ F[x] \cap U(r) = {}
      <3> HIDE DEF x
      <3> QED BY <2>1, <2>3
    <2> HIDE DEF x, r, U
    <2>7. IsFiniteSet(F[x]) /\ d[x] = Cardinality(F[x]) /\ IsFiniteSet(U(r))
      BY <2>3, <2>5 DEF Good
    <2>8. /\ IsFiniteSet(F[x] \cup U(r))
          /\ Cardinality(F[x] \cup U(r))
                = Cardinality(F[x]) + Cardinality(U(r)) - Cardinality(F[x] \cap U(r))
      BY <2>7, FS_Union
    <2>9. Cardinality(F[x] \cap U(r)) = 0 /\ Cardinality(F[x]) \in Nat /\ Cardinality(U(r)) \in Nat
      BY <2>6, <2>7, FS_EmptySet, FS_CardinalityType
    <2>10. Cardinality(U(r)) = SumFunctionOnSet(d, r)
      BY <2>5 DEF Good
    <2>11. IsFiniteSet(U(s)) /\ Cardinality(U(s)) = d[x] + SumFunctionOnSet(d, r)
      BY <2>6, <2>7, <2>8, <2>9, <2>10
    <2> QED BY <2>4, <2>11 DEF Good
  <1>3. Nat \subseteq P
    BY <1>1, <1>2, Induction
  <1>4. UpTo(S, Cardinality(S)) = SUBSET S /\ Cardinality(S) \in Nat
    BY UpToFinite
  <1>5. Good(S)
    BY <1>3, <1>4
  <1> QED BY <1>5 DEF Good

-----------------------------------------------------------------------------
(* Functions that are defined from the place before, or the place after.   *)

\* g starts with base, and F makes a value from a place and the value before.
Climbs(g, n, base, F) ==
    g = [k \in 1 .. n |-> IF k = 1 THEN base ELSE F[<<k, g[k - 1]>>]]

\* There is such a function, whatever F is.
LEMMA ClimbExists ==
    ASSUME NEW n \in Nat, NEW V, NEW base \in V, NEW F \in [(1 .. n) \X V -> V]
    PROVE  \E g \in [1 .. n -> V] : Climbs(g, n, base, F)
  <1> DEFINE P == {m \in Nat : m <= n => \E g \in [1 .. m -> V] : Climbs(g, m, base, F)}
  <1>1. 0 \in P
    <2> DEFINE g == [k \in 1 .. 0 |-> base]
    <2>1. g \in [1 .. 0 -> V] /\ g = [k \in 1 .. 0 |-> IF k = 1 THEN base ELSE F[<<k, g[k - 1]>>]]
      OBVIOUS
    <2> QED BY <2>1 DEF Climbs
  <1>2. ASSUME NEW m \in Nat, m \in P PROVE m + 1 \in P
    <2> SUFFICES ASSUME m + 1 <= n
                 PROVE  \E g \in [1 .. m + 1 -> V] : Climbs(g, m + 1, base, F)
      OBVIOUS
    <2>1. PICK g \in [1 .. m -> V] : Climbs(g, m, base, F)
      BY <1>2
    <2> DEFINE next == IF m = 0 THEN base ELSE F[<<m + 1, g[m]>>]
               h == [k \in 1 .. m + 1 |-> IF k = m + 1 THEN next ELSE g[k]]
    <2>2. next \in V
      OBVIOUS
    <2>3. \A k \in 1 .. m : g[k] = IF k = 1 THEN base ELSE F[<<k, g[k - 1]>>]
      BY <2>1 DEF Climbs
    <2>4. /\ h \in [1 .. m + 1 -> V]
          /\ h[m + 1] = next
          /\ \A k \in 1 .. m : h[k] = g[k]
      BY <2>2
    <2>5. ASSUME NEW k \in 1 .. m + 1
          PROVE  h[k] = IF k = 1 THEN base ELSE F[<<k, h[k - 1]>>]
      <3>1. CASE k = m + 1
        <4>1. k # 1 => m \in 1 .. m /\ k - 1 = m
          BY <3>1
        <4>2. k # 1 => h[k - 1] = g[m]
          BY <2>4, <4>1
        <4>3. m = 0 <=> k = 1
          BY <3>1
        <4>4. h[k] = next
          BY <2>4, <3>1
        <4> HIDE DEF h
        <4> QED BY <3>1, <4>2, <4>3, <4>4
      <3>2. CASE k # m + 1
        <4>1. k \in 1 .. m /\ (k # 1 => k - 1 \in 1 .. m)
          BY <3>2
        <4> QED BY <2>3, <2>4, <4>1
      <3> QED BY <3>1, <3>2
    <2> HIDE DEF h
    <2>6. h = [k \in 1 .. m + 1 |-> IF k = 1 THEN base ELSE F[<<k, h[k - 1]>>]]
      BY <2>4, <2>5
    <2> QED BY <2>4, <2>6 DEF Climbs
  <1>3. n \in P
    BY <1>1, <1>2, Induction
  <1> QED BY <1>3

\* In the same way from the back.
Descends(g, n, base, F) ==
    g = [k \in 1 .. n |-> F[<<k, IF k = n THEN base ELSE g[k + 1]>>]]

\* And one that is made from the end.
LEMMA DescentExists ==
    ASSUME NEW n \in Nat, NEW V, NEW base \in V, NEW F \in [(1 .. n) \X V -> V]
    PROVE  \E g \in [1 .. n -> V] : Descends(g, n, base, F)
  <1> DEFINE D == [w \in (1 .. n) \X V |-> F[<<n + 1 - w[1], w[2]>>]]
             first == F[<<n, base>>]
  <1>0. CASE n = 0
    <2> DEFINE g == [k \in 1 .. 0 |-> base]
    <2>1. g \in [1 .. 0 -> V]
          /\ g = [k \in 1 .. 0 |-> F[<<k, IF k = 0 THEN base ELSE g[k + 1]>>]]
      OBVIOUS
    <2> QED BY <1>0, <2>1 DEF Descends
  <1>1. CASE n # 0
    <2>1. \A k \in 1 .. n : n + 1 - k \in 1 .. n
      OBVIOUS
    <2>2. D \in [(1 .. n) \X V -> V]
      BY <2>1
    <2>3. first \in V
      BY <1>1
    <2>4. \A k \in 1 .. n, x \in V : D[<<k, x>>] = F[<<n + 1 - k, x>>]
      OBVIOUS
    <2> HIDE DEF D
    <2>5. PICK g \in [1 .. n -> V] : Climbs(g, n, first, D)
      BY <2>2, <2>3, ClimbExists
    <2> DEFINE h == [k \in 1 .. n |-> g[n + 1 - k]]
    <2>6. h \in [1 .. n -> V] /\ \A k \in 1 .. n : h[k] = g[n + 1 - k]
      BY <2>1
    <2>7. ASSUME NEW k \in 1 .. n
          PROVE  h[k] = F[<<k, IF k = n THEN base ELSE h[k + 1]>>]
      <3>1. n + 1 - k \in 1 .. n /\ n + 1 - (n + 1 - k) = k
        OBVIOUS
      <3>2. g[n + 1 - k] = IF n + 1 - k = 1 THEN first ELSE D[<<n + 1 - k, g[(n + 1 - k) - 1]>>]
        BY <2>5, <3>1 DEF Climbs
      <3>3. CASE k = n
        <4>1. h[k] = first
          BY <2>6, <3>2, <3>3
        <4> QED BY <3>3, <4>1
      <3>4. CASE k # n
        <4>1. /\ n + 1 - k # 1 /\ (n + 1 - k) - 1 = n + 1 - (k + 1)
              /\ k + 1 \in 1 .. n /\ n + 1 - (k + 1) \in 1 .. n
          BY <3>4
        <4>2. h[k + 1] = g[n + 1 - (k + 1)] /\ h[k + 1] \in V
          BY <2>6, <4>1
        <4>3. h[k] = D[<<n + 1 - k, h[k + 1]>>]
          BY <2>6, <3>2, <4>1, <4>2
        <4>4. h[k] = F[<<n + 1 - (n + 1 - k), h[k + 1]>>]
          BY <2>4, <3>1, <4>2, <4>3
        <4> HIDE DEF h
        <4> QED BY <3>1, <3>4, <4>4
      <3> QED BY <3>3, <3>4
    <2> HIDE DEF h, first
    <2>8. h = [k \in 1 .. n |-> F[<<k, IF k = n THEN base ELSE h[k + 1]>>]]
      BY <2>6, <2>7
    <2> QED BY <2>6, <2>8 DEF Descends
  <1> QED BY <1>0, <1>1
=============================================================================
