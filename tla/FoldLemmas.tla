----------------------------- MODULE FoldLemmas -----------------------------
(***************************************************************************)
(* Induction over numbers and over the subsets of a finite set, stated for *)
(* a set T instead of a predicate so that it can be cited, and what it     *)
(* gives for SumFunction: the sums the budget is made of, for any labels   *)
(* and pods.  Nothing here is about one component.                         *)
(***************************************************************************)
EXTENDS Functions, Integers, FiniteSetTheorems, WellFoundedInduction, TLAPS

(* A set of numbers that is not empty has a smallest one.                   *)
LEMMA Smallest ==
  ASSUME NEW T, T \subseteq Nat, T # {} PROVE \E n \in T : \A m \in T : n <= m
<1> DEFINE less == OpToRel(<, Nat)
<1>1. IsWellFoundedOn(less, Nat)
  BY NatLessThanWellFounded
<1>2. \A m, n \in Nat : m < n => <<m, n>> \in less
  BY DEF OpToRel
<1> HIDE DEF less
<1>3. PICK n \in T : \A m \in T : <<m, n>> \notin less
  BY <1>1, WFMin
<1>4. ASSUME NEW m \in T PROVE n <= m
  <2>1. m \in Nat /\ n \in Nat
    OBVIOUS
  <2>2. ~ (m < n)
    BY <1>2, <1>3, <2>1
  <2> QED
    BY <2>1, <2>2
<1> QED
  BY <1>4

(* A set that holds 0 and with each number the next holds every number.     *)
LEMMA NumberInduction ==
  ASSUME NEW T, 0 \in T, \A n \in Nat : n \in T => n + 1 \in T PROVE Nat \subseteq T
<1> SUFFICES ASSUME Nat \ T # {} PROVE FALSE
  OBVIOUS
<1>1. PICK n \in Nat \ T : \A m \in Nat \ T : n <= m
  BY Smallest
<1> QED
  BY <1>1

(* A set that holds a subset of S whenever it holds all smaller ones holds  *)
(* every subset of S.                                                       *)
LEMMA SubsetInduction ==
  ASSUME NEW S, IsFiniteSet(S), NEW T,
         \A s \in SUBSET S : (\A t \in SUBSET s : t # s => t \in T) => s \in T
  PROVE  SUBSET S \subseteq T
<1> DEFINE bad == (SUBSET S) \ T
           below == StrictSubsetOrdering(S)
<1> SUFFICES ASSUME bad # {} PROVE FALSE
  OBVIOUS
<1>1. IsWellFoundedOn(below, SUBSET S)
  <2>1. FiniteSubsetsOf(S) = SUBSET S
    BY FS_FiniteSubsetsOfFinite, Zenon
  <2>2. IsWellFoundedOn(below, FiniteSubsetsOf(S))
    BY FS_StrictSubsetOrderingWellFounded, Zenon
  <2> HIDE DEF below
  <2> QED
    BY <2>1, <2>2, Zenon
<1>2. \A s, t \in SUBSET S : t \subseteq s /\ t # s => <<t, s>> \in below
  BY DEF StrictSubsetOrdering
<1>3. bad \subseteq SUBSET S /\ \A s \in SUBSET S : s \notin bad => s \in T
  OBVIOUS
<1>4. PICK s \in bad : \A t \in bad : ~(<<t, s>> \in below)
  <2> HIDE DEF bad, below
  <2> QED
    BY <1>1, <1>3, WFMin
<1>5. ASSUME NEW t \in SUBSET s, t # s PROVE t \in T
  <2>1. t \in SUBSET S /\ s \in SUBSET S
    OBVIOUS
  <2>2. <<t, s>> \in below
    BY <1>2, <1>5, <2>1
  <2> QED
    BY <1>3, <1>4, <2>1, <2>2
<1> QED
  BY <1>4, <1>5

-----------------------------------------------------------------------------
(* What SumFunction is by definition: a function on the subsets of its      *)
(* domain that takes out a chosen element at a time.                        *)
Chosen(s) == CHOOSE e \in s : TRUE
SumStep(f, g, s) == IF s = {} THEN 0 ELSE f[Chosen(s)] + g[s \ {Chosen(s)}]
PartialSums(f, S) == CHOOSE g : g = [s \in SUBSET S |-> SumStep(f, g, s)]

LEMMA Unfold == ASSUME NEW f, NEW S PROVE SumFunctionOnSet(f, S) = PartialSums(f, S)[S]
  BY DEF SumFunctionOnSet, FoldFunctionOnSet, MapThenFoldSet, PartialSums, SumStep, Chosen

LEMMA Picked == \A s : s # {} => Chosen(s) \in s
  BY DEF Chosen

(* Such a function exists, built up by the size of the subsets.             *)
LEMMA FoldExists ==
  ASSUME NEW S, IsFiniteSet(S), NEW f \in [S -> Int]
  PROVE  \E g \in [SUBSET S -> Int] : g = [s \in SUBSET S |-> SumStep(f, g, s)]
<1> DEFINE D(n) == {s \in SUBSET S : Cardinality(s) <= n}
           T == {n \in Nat : \E g \in [D(n) -> Int] : \A s \in D(n) : g[s] = SumStep(f, g, s)}
<1>1. \A s \in SUBSET S : /\ IsFiniteSet(s) /\ Cardinality(s) \in Nat
                          /\ Cardinality(s) = 0 <=> s = {}
                          /\ Cardinality(s) <= Cardinality(S)
  BY FS_Subset, FS_CardinalityType, FS_EmptySet
<1>2. \A s \in SUBSET S : s # {} => /\ Chosen(s) \in s /\ s \ {Chosen(s)} \in SUBSET S
                                    /\ Cardinality(s \ {Chosen(s)}) = Cardinality(s) - 1
  BY <1>1, Picked, FS_RemoveElement
<1>3. 0 \in T
  <2>1. \A s \in D(0) : s = {}
    BY <1>1
  <2>2. [s \in D(0) |-> 0] \in [D(0) -> Int]
      /\ \A s \in D(0) : [t \in D(0) |-> 0][s] = SumStep(f, [t \in D(0) |-> 0], s)
    BY <2>1 DEF SumStep
  <2> QED
    BY <2>2
<1>4. ASSUME NEW n \in Nat, n \in T PROVE n + 1 \in T
  <2>1. PICK g \in [D(n) -> Int] : \A s \in D(n) : g[s] = SumStep(f, g, s)
    BY <1>4
  <2> DEFINE h == [s \in D(n + 1) |-> SumStep(f, g, s)]
  <2>2. ASSUME NEW s \in D(n + 1), s # {} PROVE s \ {Chosen(s)} \in D(n)
    BY <1>1, <1>2, <2>2
  <2>3. h \in [D(n + 1) -> Int]
    <3>1. ASSUME NEW s \in D(n + 1) PROVE SumStep(f, g, s) \in Int
      <4>1. s # {} => f[Chosen(s)] \in Int /\ g[s \ {Chosen(s)}] \in Int
        BY <1>2, <2>2
      <4> QED
        BY <4>1 DEF SumStep
    <3> QED
      BY <3>1
  <2>4. ASSUME NEW s \in D(n + 1) PROVE h[s] = SumStep(f, h, s)
    <3>1. s # {} => h[s \ {Chosen(s)}] = g[s \ {Chosen(s)}]
      <4> SUFFICES ASSUME s # {} PROVE h[s \ {Chosen(s)}] = g[s \ {Chosen(s)}]
        OBVIOUS
      <4>1. s \ {Chosen(s)} \in D(n) /\ s \ {Chosen(s)} \in D(n + 1)
        BY <1>1, <2>2
      <4> QED
        BY <2>1, <4>1
    <3> QED
      BY <3>1 DEF SumStep
  <2>5. \E k \in [D(n + 1) -> Int] : \A s \in D(n + 1) : k[s] = SumStep(f, k, s)
    <3> HIDE DEF h, D
    <3> QED
      BY <2>3, <2>4
  <2>6. n + 1 \in Nat
    OBVIOUS
  <2> HIDE DEF D
  <2> QED
    BY <2>5, <2>6, Zenon
<1>5. Nat \subseteq T
  <2> HIDE DEF T
  <2> QED
    BY <1>3, <1>4, NumberInduction
<1>6. Cardinality(S) \in T /\ D(Cardinality(S)) = SUBSET S
  BY <1>1, <1>5
<1>7. PICK g \in [SUBSET S -> Int] : \A s \in SUBSET S : g[s] = SumStep(f, g, s)
  BY <1>6
<1>8. g = [s \in SUBSET S |-> SumStep(f, g, s)]
  BY <1>7
<1> QED
  BY <1>8

(* So it is the one SumFunction chooses.                                    *)
LEMMA FoldRecursion ==
  ASSUME NEW S, IsFiniteSet(S), NEW f \in [S -> Int]
  PROVE  \A s \in SUBSET S : PartialSums(f, S)[s] = SumStep(f, PartialSums(f, S), s)
<1> DEFINE F == PartialSums(f, S)
<1>1. F = [s \in SUBSET S |-> SumStep(f, F, s)]
  BY FoldExists DEF PartialSums
<1> HIDE DEF F
<1>2. \A s \in SUBSET S : F[s] = SumStep(f, F, s)
  BY <1>1
<1> QED
  BY <1>2 DEF F

(* Every partial sum is a number.                                           *)
LEMMA FoldType ==
  ASSUME NEW S, IsFiniteSet(S), NEW f \in [S -> Int]
  PROVE  \A s \in SUBSET S : PartialSums(f, S)[s] \in Int
<1> DEFINE F == PartialSums(f, S)
           T == {s \in SUBSET S : F[s] \in Int}
<1>1. \A s \in SUBSET S : F[s] = SumStep(f, F, s)
  BY FoldRecursion
<1> HIDE DEF F
<1>2. ASSUME NEW s \in SUBSET S, \A t \in SUBSET s : t # s => t \in T PROVE s \in T
  <2>1. CASE s = {}
    <3>1. F[s] = 0
      BY <1>1, <2>1 DEF SumStep
    <3> QED
      BY <3>1
  <2>2. CASE s # {}
    <3>1. Chosen(s) \in s /\ Chosen(s) \in S
      BY <2>2, Picked
    <3>2. s \ {Chosen(s)} \in T
      BY <1>2, <3>1
    <3>3. F[s] = f[Chosen(s)] + F[s \ {Chosen(s)}] /\ F[s \ {Chosen(s)}] \in Int
      BY <1>1, <2>2, <3>2 DEF SumStep
    <3>4. F[s] \in Int
      BY <3>1, <3>3
    <3> QED
      BY <3>4
  <2> QED
    BY <2>1, <2>2
<1>3. SUBSET S \subseteq T
  <2> HIDE DEF T
  <2> QED
    BY <1>2, SubsetInduction
<1> QED
  BY <1>3 DEF F

(* Any element may be taken out first: the order chosen does not matter.    *)
LEMMA FoldAnyOrder ==
  ASSUME NEW S, IsFiniteSet(S), NEW f \in [S -> Int]
  PROVE  \A s \in SUBSET S : \A x \in s : PartialSums(f, S)[s] = f[x] + PartialSums(f, S)[s \ {x}]
<1> DEFINE F == PartialSums(f, S)
           T == {s \in SUBSET S : \A x \in s : F[s] = f[x] + F[s \ {x}]}
<1>1. \A s \in SUBSET S : F[s] = SumStep(f, F, s)
  BY FoldRecursion
<1>2. \A s \in SUBSET S : F[s] \in Int
  BY FoldType
<1> HIDE DEF F
<1>3. \A s \in SUBSET S : s # {} => F[s] = f[Chosen(s)] + F[s \ {Chosen(s)}]
  BY <1>1 DEF SumStep
<1>4. ASSUME NEW s \in SUBSET S, \A t \in SUBSET s : t # s => t \in T PROVE s \in T
  <2> SUFFICES ASSUME NEW x \in s PROVE F[s] = f[x] + F[s \ {x}]
    OBVIOUS
  <2> DEFINE c == Chosen(s)
             without == s \ {c, x}
  <2>1. c \in s /\ F[s] = f[c] + F[s \ {c}]
    BY <1>3, Picked
  <2> HIDE DEF c
  <2>2. CASE x = c
    BY <2>1, <2>2
  <2>3. CASE x # c
    <3>1. s \ {c} \in T /\ s \ {x} \in T
      BY <1>4, <2>1
    <3>2. x \in s \ {c} /\ c \in s \ {x}
      BY <2>1, <2>3
    <3>3. (s \ {c}) \ {x} = without /\ (s \ {x}) \ {c} = without
      OBVIOUS
    <3>4. F[s \ {c}] = f[x] + F[without] /\ F[s \ {x}] = f[c] + F[without]
      BY <3>1, <3>2, <3>3
    <3>5. f[x] \in Int /\ f[c] \in Int
      BY <2>1
    <3>6. F[without] \in Int
      BY <1>2
    <3> QED
      BY <2>1, <3>4, <3>5, <3>6
  <2> QED
    BY <2>2, <2>3
<1>5. SUBSET S \subseteq T
  <2> HIDE DEF T
  <2> QED
    BY <1>4, SubsetInduction
<1> QED
  BY <1>5 DEF F
-----------------------------------------------------------------------------
(* What the modules use: the sum of a function over its finite domain.      *)

(* Two functions that agree on a set have the same partial sum over it,     *)
(* whatever they are elsewhere.                                             *)
LEMMA FoldAgrees ==
  ASSUME NEW S, IsFiniteSet(S),
         NEW f \in [S -> Int], NEW g \in [S -> Int],
         NEW Z \in SUBSET S, \A e \in Z : f[e] = g[e]
  PROVE  PartialSums(f, S)[Z] = PartialSums(g, S)[Z]
<1> DEFINE F == PartialSums(f, S)
           G == PartialSums(g, S)
           T == {s \in SUBSET S : s \subseteq Z => F[s] = G[s]}
<1>1. \A s \in SUBSET S : F[s] = SumStep(f, F, s)
  BY FoldRecursion
<1>2. \A s \in SUBSET S : G[s] = SumStep(g, G, s)
  BY FoldRecursion
<1> HIDE DEF F, G
<1>3. ASSUME NEW s \in SUBSET S, \A t \in SUBSET s : t # s => t \in T PROVE s \in T
  <2> SUFFICES ASSUME s \subseteq Z PROVE F[s] = G[s]
    OBVIOUS
  <2>1. CASE s = {}
    BY <1>1, <1>2, <2>1 DEF SumStep
  <2>2. CASE s # {}
    <3>1. Chosen(s) \in s
      BY <2>2, Picked
    <3>2. s \ {Chosen(s)} \in T /\ s \ {Chosen(s)} \subseteq Z
      BY <1>3, <3>1
    <3>3. F[s \ {Chosen(s)}] = G[s \ {Chosen(s)}] /\ f[Chosen(s)] = g[Chosen(s)]
      BY <3>1, <3>2
    <3> QED
      BY <1>1, <1>2, <2>2, <3>3 DEF SumStep
  <2> QED
    BY <2>1, <2>2
<1>4. SUBSET S \subseteq T
  <2> HIDE DEF T
  <2> QED
    BY <1>3, SubsetInduction
<1> QED
  BY <1>4 DEF F, G

(* The sum of a function is its partial sum over its whole domain.          *)
LEMMA SumUnfolds ==
  ASSUME NEW S, NEW f, DOMAIN f = S PROVE SumFunction(f) = PartialSums(f, S)[S]
  BY Unfold DEF SumFunction

(* A sum of integers is one.                                                *)
LEMMA SumType ==
  ASSUME NEW S, IsFiniteSet(S), NEW f \in [S -> Int] PROVE SumFunction(f) \in Int
  BY FoldType, SumUnfolds

(* Changing one value changes the sum by the difference.                    *)
LEMMA SumExcept ==
  ASSUME NEW S, IsFiniteSet(S), NEW f \in [S -> Int], NEW x \in S, NEW d \in Int
  PROVE  SumFunction([f EXCEPT ![x] = d]) = SumFunction(f) - f[x] + d
<1> DEFINE g == [f EXCEPT ![x] = d]
<1>1. g \in [S -> Int] /\ g[x] = d /\ \A e \in S \ {x} : f[e] = g[e]
  OBVIOUS
<1> HIDE DEF g
<1>2. SumFunction(f) = PartialSums(f, S)[S] /\ SumFunction(g) = PartialSums(g, S)[S]
  BY <1>1, SumUnfolds
<1>3. PartialSums(f, S)[S] = f[x] + PartialSums(f, S)[S \ {x}]
    /\ PartialSums(g, S)[S] = g[x] + PartialSums(g, S)[S \ {x}]
  <2>2. \A s \in SUBSET S : \A e \in s : PartialSums(f, S)[s] = f[e] + PartialSums(f, S)[s \ {e}]
    BY FoldAnyOrder
  <2>3. \A s \in SUBSET S : \A e \in s : PartialSums(g, S)[s] = g[e] + PartialSums(g, S)[s \ {e}]
    BY <1>1, FoldAnyOrder
  <2>4. S \in SUBSET S
    OBVIOUS
  <2> QED
    BY <2>2, <2>3, <2>4
<1>4. PartialSums(f, S)[S \ {x}] = PartialSums(g, S)[S \ {x}]
  <2>1. S \ {x} \in SUBSET S
    OBVIOUS
  <2> QED
    BY <1>1, <2>1, FoldAgrees
<1>5. PartialSums(f, S)[S \ {x}] \in Int /\ f[x] \in Int
  BY FoldType
<1> QED
  BY <1>1, <1>2, <1>3, <1>4, <1>5 DEF g

(* A sum of natural numbers is one, and none of them exceeds it.            *)
LEMMA SumNat ==
  ASSUME NEW S, IsFiniteSet(S), NEW f \in [S -> Nat]
  PROVE  SumFunction(f) \in Nat /\ \A x \in S : f[x] <= SumFunction(f)
<1> DEFINE F == PartialSums(f, S)
           T == {s \in SUBSET S : F[s] \in Nat}
<1>1. f \in [S -> Int] /\ \A e \in S : f[e] \in Nat
  OBVIOUS
<1>2. \A s \in SUBSET S : F[s] = SumStep(f, F, s)
  BY <1>1, FoldRecursion
<1>3. \A s \in SUBSET S : \A x \in s : F[s] = f[x] + F[s \ {x}]
  BY <1>1, FoldAnyOrder
<1>4. SumFunction(f) = F[S]
  BY SumUnfolds
<1> HIDE DEF F
<1>5. ASSUME NEW s \in SUBSET S, \A t \in SUBSET s : t # s => t \in T PROVE s \in T
  <2>1. CASE s = {}
    <3>1. F[s] = 0
      BY <1>2, <2>1 DEF SumStep
    <3> QED
      BY <3>1
  <2>2. CASE s # {}
    <3>1. PICK x \in s : TRUE
      BY <2>2
    <3>2. s \ {x} \in T
      BY <1>5
    <3>3. F[s \ {x}] \in Nat /\ f[x] \in Nat /\ F[s] = f[x] + F[s \ {x}]
      BY <1>1, <1>3, <3>2
    <3>4. F[s] \in Nat
      BY <3>3
    <3> QED
      BY <3>4
  <2> QED
    BY <2>1, <2>2
<1>6. SUBSET S \subseteq T
  <2> HIDE DEF T
  <2> QED
    BY <1>5, SubsetInduction
<1>7. ASSUME NEW x \in S PROVE f[x] <= F[S]
  <2>1. F[S] = f[x] + F[S \ {x}] /\ F[S \ {x}] \in Nat /\ f[x] \in Nat
    BY <1>1, <1>3, <1>6
  <2> QED
    BY <2>1
<1> QED
  BY <1>4, <1>6, <1>7

(* A sum of zeros is zero.                                                  *)
LEMMA SumZero ==
  ASSUME NEW S, IsFiniteSet(S), NEW f \in [S -> Int], \A e \in S : f[e] = 0
  PROVE  SumFunction(f) = 0
<1> DEFINE F == PartialSums(f, S)
           T == {s \in SUBSET S : F[s] = 0}
<1>1. \A s \in SUBSET S : F[s] = SumStep(f, F, s)
  BY FoldRecursion
<1>2. SumFunction(f) = F[S]
  BY SumUnfolds
<1> HIDE DEF F
<1>3. ASSUME NEW s \in SUBSET S, \A t \in SUBSET s : t # s => t \in T PROVE s \in T
  <2>1. CASE s = {}
    <3>1. F[s] = 0
      BY <1>1, <2>1 DEF SumStep
    <3> QED
      BY <3>1
  <2>2. CASE s # {}
    <3>1. Chosen(s) \in s /\ f[Chosen(s)] = 0
      BY <2>2, Picked
    <3>2. s \ {Chosen(s)} \in T
      BY <1>3, <3>1
    <3>3. F[s] = 0
      BY <1>1, <2>2, <3>1, <3>2 DEF SumStep
    <3> QED
      BY <3>3
  <2> QED
    BY <2>1, <2>2
<1>4. SUBSET S \subseteq T
  <2> HIDE DEF T
  <2> QED
    BY <1>3, SubsetInduction
<1> QED
  BY <1>2, <1>4

(* The partial sums over a set do not depend on the larger domain.          *)
LEMMA FoldAcross ==
  ASSUME NEW S, IsFiniteSet(S), NEW R \in SUBSET S,
         NEW f \in [S -> Int], NEW g \in [R -> Int], \A e \in R : f[e] = g[e]
  PROVE  PartialSums(f, S)[R] = PartialSums(g, R)[R]
<1> DEFINE F == PartialSums(f, S)
           G == PartialSums(g, R)
           T == {s \in SUBSET R : F[s] = G[s]}
<1>0. IsFiniteSet(R)
  BY FS_Subset
<1>1. \A s \in SUBSET S : F[s] = SumStep(f, F, s)
  BY FoldRecursion
<1>2. \A s \in SUBSET R : G[s] = SumStep(g, G, s)
  BY <1>0, FoldRecursion
<1> HIDE DEF F, G
<1>3. ASSUME NEW s \in SUBSET R, \A t \in SUBSET s : t # s => t \in T PROVE s \in T
  <2>0. s \in SUBSET S
    OBVIOUS
  <2>1. CASE s = {}
    BY <1>1, <1>2, <2>0, <2>1 DEF SumStep
  <2>2. CASE s # {}
    <3>1. Chosen(s) \in s
      BY <2>2, Picked
    <3>2. s \ {Chosen(s)} \in T
      BY <1>3, <3>1
    <3>3. F[s \ {Chosen(s)}] = G[s \ {Chosen(s)}] /\ f[Chosen(s)] = g[Chosen(s)]
      BY <3>1, <3>2
    <3> QED
      BY <1>1, <1>2, <2>0, <2>2, <3>3 DEF SumStep
  <2> QED
    BY <2>1, <2>2
<1>4. SUBSET R \subseteq T
  <2>1. \A s \in SUBSET R : (\A t \in SUBSET s : t # s => t \in T) => s \in T
    BY <1>3
  <2> HIDE DEF T
  <2> QED
    BY <1>0, <2>1, SubsetInduction, Zenon
<1> QED
  BY <1>4 DEF F, G

(* One more element adds its value to the sum.                              *)
LEMMA SumGrows ==
  ASSUME NEW S, IsFiniteSet(S), NEW x, x \notin S,
         NEW f \in [S \cup {x} -> Int], NEW g \in [S -> Int], \A e \in S : f[e] = g[e]
  PROVE  SumFunction(f) = SumFunction(g) + f[x]
<1> DEFINE R == S \cup {x}
<1>1. IsFiniteSet(R)
  BY FS_AddElement
<1>2. x \in R /\ R \in SUBSET R /\ S \in SUBSET R /\ R \ {x} = S /\ f \in [R -> Int]
  OBVIOUS
<1> HIDE DEF R
<1>3. PartialSums(f, R)[R] = f[x] + PartialSums(f, R)[S]
  <2>1. PartialSums(f, R)[R] = f[x] + PartialSums(f, R)[R \ {x}]
    BY <1>1, <1>2, FoldAnyOrder
  <2> QED
    BY <1>2, <2>1
<1>4. PartialSums(f, R)[S] = PartialSums(g, S)[S]
  BY <1>1, <1>2, FoldAcross
<1>5. SumFunction(f) = PartialSums(f, R)[R] /\ SumFunction(g) = PartialSums(g, S)[S]
  <2>1. DOMAIN f = R /\ DOMAIN g = S
    BY <1>2
  <2> QED
    BY <2>1, SumUnfolds
<1>6. SumFunction(g) \in Int /\ f[x] \in Int
  BY <1>2, SumType
<1> QED
  BY <1>3, <1>4, <1>5, <1>6

(* f has the values of g, but for x, which is new, and for k, now 0.        *)
Replaces(f, g, S, x, k) ==
  /\ IsFiniteSet(S) /\ x \notin S /\ k \in S
  /\ f \in [S \cup {x} -> Int] /\ g \in [S -> Int]
  /\ f[k] = 0 /\ \A e \in S \ {k} : f[e] = g[e]

(* One more element that takes the place of another.                        *)
LEMMA SumReplaces ==
  ASSUME NEW S, NEW x, NEW k, NEW f, NEW g, Replaces(f, g, S, x, k)
  PROVE  SumFunction(f) = SumFunction(g) - g[k] + f[x]
<1> DEFINE h == [g EXCEPT ![k] = 0]
<1>1. /\ IsFiniteSet(S) /\ x \notin S /\ k \in S
      /\ f \in [S \cup {x} -> Int] /\ g \in [S -> Int]
      /\ f[k] = 0 /\ \A e \in S \ {k} : f[e] = g[e]
  BY DEF Replaces
<1>2. h \in [S -> Int] /\ \A e \in S : f[e] = h[e]
  BY <1>1
<1>3. SumFunction(h) = SumFunction(g) - g[k] + 0
  <2>1. 0 \in Int /\ k \in S /\ g \in [S -> Int] /\ IsFiniteSet(S)
    BY <1>1
  <2> QED
    BY ONLY <2>1, SumExcept
<1> HIDE DEF h
<1>4. SumFunction(f) = SumFunction(h) + f[x]
  BY <1>1, <1>2, SumGrows
<1>5. g[k] \in Int /\ f[x] \in Int /\ SumFunction(g) \in Int
  BY <1>1, SumType
<1> QED
  BY <1>3, <1>4, <1>5

(* A sum of natural numbers grows with the set it is over.                  *)
LEMMA SumMonotone ==
  ASSUME NEW S, IsFiniteSet(S), NEW R \in SUBSET S,
         NEW f \in [S -> Nat], NEW g \in [R -> Nat], \A e \in R : f[e] = g[e]
  PROVE  SumFunction(g) <= SumFunction(f) /\ SumFunction(g) \in Nat
<1> DEFINE F == PartialSums(f, S)
           T == {s \in SUBSET S : F[s] \in Nat /\ \A r \in SUBSET s : F[r] <= F[s]}
<1>0. IsFiniteSet(R)
  BY FS_Subset
<1>1. f \in [S -> Int] /\ g \in [R -> Int] /\ \A e \in S : f[e] \in Nat
  OBVIOUS
<1>2. \A s \in SUBSET S : F[s] = SumStep(f, F, s)
  BY <1>1, FoldRecursion
<1>3. \A s \in SUBSET S : \A x \in s : F[s] = f[x] + F[s \ {x}]
  BY <1>1, FoldAnyOrder
<1>4. SumFunction(f) = F[S] /\ SumFunction(g) = F[R]
  <2>1. DOMAIN f = S /\ DOMAIN g = R
    OBVIOUS
  <2>2. F[R] = PartialSums(g, R)[R]
    BY <1>1, FoldAcross
  <2> HIDE DEF F
  <2> QED
    BY <2>1, <2>2, SumUnfolds DEF F
<1>5. SumFunction(g) \in Nat
  BY <1>0, SumNat
<1> HIDE DEF F
<1>6. ASSUME NEW s \in SUBSET S, \A t \in SUBSET s : t # s => t \in T PROVE s \in T
  <2>1. CASE s = {}
    <3>1. F[s] = 0
      BY <1>2, <2>1 DEF SumStep
    <3> QED
      BY <2>1, <3>1
  <2>2. ASSUME NEW x \in s
        PROVE  F[s] \in Nat /\ \A r \in SUBSET (s \ {x}) : F[r] <= F[s]
    <3>1. s \ {x} \in T
      BY <1>6
    <3>2. F[s \ {x}] \in Nat /\ f[x] \in Nat /\ F[s] = f[x] + F[s \ {x}]
      BY <1>1, <1>3, <3>1
    <3>3. ASSUME NEW r \in SUBSET (s \ {x}) PROVE F[r] \in Nat /\ F[r] <= F[s \ {x}]
      BY <1>6, <3>1
    <3>4. F[s] \in Nat /\ F[s \ {x}] <= F[s]
      BY <3>2
    <3>5. ASSUME NEW r \in SUBSET (s \ {x}) PROVE F[r] <= F[s]
      <4>1. F[r] \in Nat /\ F[r] <= F[s \ {x}]
        BY <3>3
      <4> QED
        BY <3>2, <3>4, <4>1
    <3> QED
      BY <3>4, <3>5
  <2>3. ASSUME s # {} PROVE F[s] \in Nat /\ \A r \in SUBSET s : F[r] <= F[s]
    <3>1. F[s] \in Nat
      BY <2>2, <2>3
    <3>2. ASSUME NEW r \in SUBSET s, r # s PROVE F[r] <= F[s]
      <4>1. PICK x \in s : x \notin r
        BY <3>2
      <4>2. r \in SUBSET (s \ {x})
        BY <3>2, <4>1
      <4> QED
        BY <2>2, <4>2
    <3> QED
      BY <3>1, <3>2
  <2> QED
    BY <2>1, <2>3
<1>7. SUBSET S \subseteq T
  <2> HIDE DEF T
  <2> QED
    BY <1>6, SubsetInduction
<1> QED
  BY <1>4, <1>5, <1>7

(* A sum of equal terms is a multiple.                                      *)
LEMMA SumConstant ==
  ASSUME NEW S, IsFiniteSet(S), NEW f \in [S -> Int], NEW c \in Int, \A e \in S : f[e] = c
  PROVE  SumFunction(f) = c * Cardinality(S)
<1> DEFINE F == PartialSums(f, S)
           T == {s \in SUBSET S : F[s] = c * Cardinality(s)}
<1>1. \A s \in SUBSET S : F[s] = SumStep(f, F, s)
  BY FoldRecursion
<1>2. SumFunction(f) = F[S]
  BY SumUnfolds
<1> HIDE DEF F
<1>3. ASSUME NEW s \in SUBSET S, \A t \in SUBSET s : t # s => t \in T PROVE s \in T
  <2>0. IsFiniteSet(s)
    BY FS_Subset
  <2>1. CASE s = {}
    <3>1. F[s] = 0
      BY <1>1, <2>1 DEF SumStep
    <3>2. Cardinality(s) = 0
      BY <2>1, FS_EmptySet
    <3>3. c * 0 = 0
      OBVIOUS
    <3> QED
      BY <3>1, <3>2, <3>3
  <2>2. CASE s # {}
    <3> DEFINE e == Chosen(s)
               t == s \ {e}
    <3>1. e \in s /\ f[e] = c
      BY <2>2, Picked
    <3>2. t \in T /\ F[s] = f[e] + F[t]
      BY <1>1, <1>3, <2>2, <3>1 DEF SumStep
    <3>3. Cardinality(s) = Cardinality(t) + 1 /\ Cardinality(t) \in Nat
      <4>1. IsFiniteSet(t) /\ Cardinality(t) = Cardinality(s) - 1
        BY <2>0, <3>1, FS_RemoveElement
      <4>2. Cardinality(t) \in Nat /\ Cardinality(s) \in Nat
        BY <2>0, <4>1, FS_CardinalityType
      <4> HIDE DEF t
      <4> QED
        BY <4>1, <4>2
    <3> HIDE DEF e, t
    <3>4. ASSUME NEW n \in Nat PROVE c + c * n = c * (n + 1)
      OBVIOUS
    <3>5. F[t] = c * Cardinality(t)
      BY <3>2
    <3>6. c + c * Cardinality(t) = c * Cardinality(s)
      BY <3>3, <3>4
    <3>7. F[s] = c * Cardinality(s)
      BY <3>1, <3>2, <3>5, <3>6
    <3> QED
      BY <3>7
  <2> QED
    BY <2>1, <2>2
<1>4. SUBSET S \subseteq T
  <2> HIDE DEF T
  <2> QED
    BY <1>3, SubsetInduction
<1> QED
  BY <1>2, <1>4

(* f has the values of g on S and those of h on R.                          *)
Joins(f, g, h, S, R) ==
  /\ IsFiniteSet(S) /\ IsFiniteSet(R) /\ S \cap R = {}
  /\ f \in [S \cup R -> Int] /\ g \in [S -> Int] /\ h \in [R -> Int]
  /\ \A e \in S : f[e] = g[e]
  /\ \A e \in R : f[e] = h[e]

(* A sum over two sets that share nothing is the sum of the two sums.       *)
LEMMA SumUnion ==
  ASSUME NEW S, NEW R, NEW f, NEW g, NEW h, Joins(f, g, h, S, R)
  PROVE  SumFunction(f) = SumFunction(g) + SumFunction(h)
<1> SUFFICES ASSUME NEW U, IsFiniteSet(S), IsFiniteSet(R), S \cap R = {}, U = S \cup R,
                    f \in [U -> Int], g \in [S -> Int], h \in [R -> Int],
                    \A e \in S : f[e] = g[e], \A e \in R : f[e] = h[e]
             PROVE  SumFunction(f) = SumFunction(g) + SumFunction(h)
  BY DEF Joins
<1> DEFINE F == PartialSums(f, U)
           T == {s \in SUBSET S : F[s \cup R] = F[s] + F[R]}
<1>0. IsFiniteSet(U) /\ S \in SUBSET U /\ R \in SUBSET U /\ f \in [U -> Int]
  BY FS_Union
<1>1. \A s \in SUBSET U : F[s] = SumStep(f, F, s)
  BY <1>0, FoldRecursion
<1>2. \A s \in SUBSET U : \A e \in s : F[s] = f[e] + F[s \ {e}]
  BY ONLY <1>0, FoldAnyOrder
<1>3. F[U] = SumFunction(f) /\ F[S] = SumFunction(g) /\ F[R] = SumFunction(h)
  <2>1. PartialSums(f, U)[S] = PartialSums(g, S)[S] /\ PartialSums(f, U)[R] = PartialSums(h, R)[R]
    BY <1>0, FoldAcross
  <2>2. DOMAIN f = U /\ DOMAIN g = S /\ DOMAIN h = R
    OBVIOUS
  <2> QED
    BY <2>1, <2>2, SumUnfolds
<1>4. \A s \in SUBSET U : F[s] \in Int
  BY <1>0, FoldType
<1> HIDE DEF F
<1>5. ASSUME NEW s \in SUBSET S, \A t \in SUBSET s : t # s => t \in T PROVE s \in T
  <2>1. CASE s = {}
    <3>1. F[{}] = 0
      BY <1>1 DEF SumStep
    <3>2. F[s \cup R] = F[R] /\ F[R] \in Int
      BY <1>4, <2>1
    <3> QED
      BY <2>1, <3>1, <3>2
  <2>2. ASSUME NEW e \in s PROVE F[s \cup R] = F[s] + F[R]
    <3> DEFINE t == s \ {e}
    <3>1. t \in T
      BY <1>5
    <3>2. (s \cup R) \ {e} = t \cup R
      OBVIOUS
    <3>3. F[s \cup R] = f[e] + F[t \cup R] /\ F[s] = f[e] + F[t]
      <4>1. s \cup R \in SUBSET U /\ s \in SUBSET U /\ e \in s /\ e \in s \cup R
        BY <1>0
      <4>2. F[s \cup R] = f[e] + F[(s \cup R) \ {e}] /\ F[s] = f[e] + F[s \ {e}]
        BY ONLY <1>2, <4>1
      <4> QED
        BY <3>2, <4>2
    <3>4. F[t] \in Int /\ F[R] \in Int /\ f[e] \in Int /\ F[t \cup R] = F[t] + F[R]
      BY <1>4, <3>1
    <3> HIDE DEF t
    <3> QED
      BY <3>3, <3>4
  <2> QED
    BY <2>1, <2>2
<1>6. SUBSET S \subseteq T
  <2> HIDE DEF T
  <2> QED
    BY <1>5, SubsetInduction
<1> QED
  BY <1>3, <1>6


(* A sum of terms none of which is larger is no larger.                     *)
LEMMA SumBounded ==
  ASSUME NEW S, IsFiniteSet(S), NEW f \in [S -> Int], NEW g \in [S -> Int], \A e \in S : f[e] <= g[e]
  PROVE  SumFunction(f) <= SumFunction(g)
<1> DEFINE F == PartialSums(f, S)
           G == PartialSums(g, S)
           T == {s \in SUBSET S : F[s] \in Int /\ G[s] \in Int /\ F[s] <= G[s]}
<1>1. \A s \in SUBSET S : F[s] = SumStep(f, F, s) /\ G[s] = SumStep(g, G, s)
  BY FoldRecursion
<1>2. SumFunction(f) = F[S] /\ SumFunction(g) = G[S]
  BY SumUnfolds
<1> HIDE DEF F, G
<1>3. ASSUME NEW s \in SUBSET S, \A t \in SUBSET s : t # s => t \in T PROVE s \in T
  <2>1. CASE s = {}
    <3>1. F[s] = 0 /\ G[s] = 0
      BY <1>1, <2>1 DEF SumStep
    <3> QED
      BY <3>1
  <2>2. CASE s # {}
    <3> DEFINE e == Chosen(s)
               t == s \ {e}
    <3>1. e \in s /\ e \in S /\ f[e] <= g[e] /\ f[e] \in Int /\ g[e] \in Int
      BY <2>2, Picked
    <3>2. t \in T /\ F[s] = f[e] + F[t] /\ G[s] = g[e] + G[t]
      BY <1>1, <1>3, <2>2, <3>1 DEF SumStep
    <3> HIDE DEF e, t
    <3> QED
      BY <3>1, <3>2
  <2> QED
    BY <2>1, <2>2
<1>4. SUBSET S \subseteq T
  <2> HIDE DEF T
  <2> QED
    BY <1>3, SubsetInduction
<1> QED
  BY <1>2, <1>4

(* A sum of multiples is a multiple of the sum.                             *)
LEMMA SumScaled ==
  ASSUME NEW S, IsFiniteSet(S), NEW f \in [S -> Int], NEW g \in [S -> Int], NEW c \in Int,
         \A e \in S : f[e] = c * g[e]
  PROVE  SumFunction(f) = c * SumFunction(g)
<1> DEFINE F == PartialSums(f, S)
           G == PartialSums(g, S)
           T == {s \in SUBSET S : G[s] \in Int /\ F[s] = c * G[s]}
<1>1. \A s \in SUBSET S : F[s] = SumStep(f, F, s) /\ G[s] = SumStep(g, G, s)
  BY FoldRecursion
<1>2. SumFunction(f) = F[S] /\ SumFunction(g) = G[S]
  BY SumUnfolds
<1> HIDE DEF F, G
<1>3. ASSUME NEW s \in SUBSET S, \A t \in SUBSET s : t # s => t \in T PROVE s \in T
  <2>1. CASE s = {}
    <3>1. F[s] = 0 /\ G[s] = 0
      BY <1>1, <2>1 DEF SumStep
    <3>2. c * 0 = 0
      OBVIOUS
    <3> QED
      BY <3>1, <3>2
  <2>2. CASE s # {}
    <3> DEFINE e == Chosen(s)
               t == s \ {e}
    <3>1. e \in s /\ e \in S /\ f[e] = c * g[e] /\ g[e] \in Int
      BY <2>2, Picked
    <3>2. t \in T /\ F[s] = f[e] + F[t] /\ G[s] = g[e] + G[t]
      BY <1>1, <1>3, <2>2, <3>1 DEF SumStep
    <3> HIDE DEF e, t
    <3>3. ASSUME NEW a \in Int, NEW b \in Int PROVE c * a + c * b = c * (a + b)
      OBVIOUS
    <3>4. G[t] \in Int /\ F[t] = c * G[t]
      BY <3>2
    <3>5. c * g[e] + c * G[t] = c * (g[e] + G[t])
      BY <3>1, <3>3, <3>4
    <3>6. F[s] = c * G[s] /\ G[s] \in Int
      BY <3>1, <3>2, <3>4, <3>5
    <3> QED
      BY <3>6
  <2> QED
    BY <2>1, <2>2
<1>4. SUBSET S \subseteq T
  <2> HIDE DEF T
  <2> QED
    BY <1>3, SubsetInduction
<1> QED
  BY <1>2, <1>4

(* Terms that are zero can be left out of a sum.                            *)
LEMMA SumDrops ==
  ASSUME NEW S, IsFiniteSet(S), NEW R \in SUBSET S, NEW f \in [S -> Int], NEW g \in [R -> Int],
         \A e \in R : f[e] = g[e], \A e \in S \ R : f[e] = 0
  PROVE  SumFunction(f) = SumFunction(g)
<1> DEFINE h == [e \in S \ R |-> f[e]]
<1>1. h \in [S \ R -> Int] /\ \A e \in S \ R : h[e] = f[e] /\ h[e] = 0
  OBVIOUS
<1>2. IsFiniteSet(R) /\ IsFiniteSet(S \ R)
  BY FS_Subset
<1> HIDE DEF h
<1>3. R \cap (S \ R) = {} /\ R \cup (S \ R) = S
  OBVIOUS
<1>4. Joins(f, g, h, R, S \ R)
  BY <1>1, <1>2, <1>3 DEF Joins
<1>5. SumFunction(f) = SumFunction(g) + SumFunction(h)
  BY <1>4, SumUnion
<1>6. SumFunction(h) = 0
  BY <1>1, <1>2, SumZero
<1>7. SumFunction(g) \in Int
  BY <1>2, SumType
<1> QED
  BY <1>5, <1>6, <1>7

(* The part of a sum whose terms have a key.                                *)
KeyPart(f, key, v) == [e \in {e \in DOMAIN f : key[e] = v} |-> f[e]]

(* A sum is the sum of its parts, one for each key its terms have.          *)
LEMMA SumParted ==
  ASSUME NEW S, IsFiniteSet(S), NEW f \in [S -> Int], NEW key, NEW V, IsFiniteSet(V),
         \A e \in S : key[e] \in V
  PROVE  SumFunction(f) = SumFunction([v \in V |-> SumFunction(KeyPart(f, key, v))])
<1> DEFINE of(W) == {e \in S : key[e] \in W}
           part(v) == SumFunction(KeyPart(f, key, v))
           low(W) == [e \in of(W) |-> f[e]]
           high(W) == [v \in W |-> part(v)]
           T == {W \in SUBSET V : SumFunction(low(W)) = SumFunction(high(W))}
<1>1. \A v : IsFiniteSet({e \in S : key[e] = v}) /\ KeyPart(f, key, v) \in [{e \in S : key[e] = v} -> Int]
      /\ part(v) \in Int
  <2> TAKE v
  <2> DEFINE P == {e \in S : key[e] = v}
  <2>1. P \in SUBSET S
    OBVIOUS
  <2>2. IsFiniteSet(P)
    BY <2>1, FS_Subset
  <2>3. KeyPart(f, key, v) = [e \in P |-> f[e]]
    BY DEF KeyPart
  <2>4. KeyPart(f, key, v) \in [P -> Int]
    BY <2>3
  <2> HIDE DEF P
  <2>5. part(v) \in Int
    BY <2>2, <2>4, SumType
  <2> QED
    BY <2>2, <2>4, <2>5 DEF P
<1> HIDE DEF part
<1>2. ASSUME NEW W \in SUBSET V, \A U \in SUBSET W : U # W => U \in T PROVE W \in T
  <2>1. CASE W = {}
    <3>1. low(W) \in [{} -> Int] /\ high(W) \in [{} -> Int] /\ IsFiniteSet({})
      BY <2>1, FS_EmptySet
    <3> HIDE DEF low, high
    <3>2. SumFunction(low(W)) = 0 /\ SumFunction(high(W)) = 0
      BY <3>1, SumZero
    <3> QED
      BY <3>2 DEF low, high
  <2>2. ASSUME NEW v \in W PROVE W \in T
    <3> DEFINE U == W \ {v}
               P == {e \in S : key[e] = v}
    <3>1. U \in T
      BY <1>2
    <3>2. IsFiniteSet(U) /\ v \notin U /\ U \cup {v} = W
      BY FS_Subset
    <3> DEFINE hw == high(W)
               hu == high(U)
    <3>3. hw \in [U \cup {v} -> Int] /\ hu \in [U -> Int] /\ (\A u \in U : hw[u] = hu[u]) /\ hw[v] = part(v)
      BY <1>1, <3>2
    <3>4. SumFunction(high(W)) = SumFunction(high(U)) + part(v)
      <4> HIDE DEF hw, hu, U
      <4>0. IsFiniteSet(U) /\ v \notin U /\ hw \in [U \cup {v} -> Int] /\ hu \in [U -> Int] /\ \A u \in U : hw[u] = hu[u]
        BY <3>2, <3>3
      <4>1. SumFunction(hw) = SumFunction(hu) + hw[v]
        BY ONLY <4>0, SumGrows
      <4> QED
        BY <3>3, <4>1 DEF hw, hu
    <3>5. Joins(low(W), low(U), KeyPart(f, key, v), of(U), P)
      <4>1. of(U) \in SUBSET S /\ P \in SUBSET S /\ of(U) \cap P = {} /\ of(U) \cup P = of(W)
        OBVIOUS
      <4>2. IsFiniteSet(of(U)) /\ IsFiniteSet(P)
        BY <4>1, FS_Subset
      <4>3. low(W) \in [of(W) -> Int] /\ low(U) \in [of(U) -> Int]
        OBVIOUS
      <4>4. \A e \in of(U) : low(W)[e] = low(U)[e]
        BY <4>1
      <4>5. \A e \in P : low(W)[e] = KeyPart(f, key, v)[e]
        BY <4>1 DEF KeyPart
      <4>6. KeyPart(f, key, v) \in [P -> Int]
        BY <1>1
      <4> HIDE DEF of, P, low
      <4> QED
        BY <4>1, <4>2, <4>3, <4>4, <4>5, <4>6 DEF Joins
    <3>6. SumFunction(low(W)) = SumFunction(low(U)) + part(v)
      BY <3>5, SumUnion DEF part
    <3>7. SumFunction(low(U)) = SumFunction(high(U))
      BY <3>1
    <3>8. SumFunction(low(W)) = SumFunction(high(W))
      BY <3>4, <3>6, <3>7
    <3> QED
      BY <3>8
  <2> QED
    BY <2>1, <2>2
<1>3. SUBSET V \subseteq T
  <2> HIDE DEF T
  <2> QED
    BY <1>2, SubsetInduction
<1>4. low(V) = f
  <2>1. of(V) = S
    OBVIOUS
  <2> QED
    BY <2>1
<1>5. SumFunction(low(V)) = SumFunction(high(V))
  BY <1>3
<1> QED
  BY <1>4, <1>5 DEF part
=============================================================================
