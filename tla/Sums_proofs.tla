----------------------------- MODULE Sums_proofs ----------------------------
(***************************************************************************)
(* What SumFunctionOnSet of the community modules computes: for a finite   *)
(* set, the sum of the values of f over it, in whatever order its elements *)
(* are chosen.  The induction is over the subsets of the set; it is        *)
(* written with sets of subsets in place of predicates.                    *)
(***************************************************************************)
EXTENDS Integers, Functions, FiniteSetTheorems, TLAPS

Pick(s) == CHOOSE x \in s : TRUE

(* The equation that the sum over the subsets of S is defined by.          *)
IsSum(g, f, S) ==
  g = [s \in SUBSET S |-> IF s = {} THEN 0 ELSE f[Pick(s)] + g[s \ {Pick(s)}]]

LEMMA SumUnfolds ==
  ASSUME NEW f, NEW S
  PROVE  SumFunctionOnSet(f, S) = (CHOOSE g : IsSum(g, f, S))[S]
  BY DEF SumFunctionOnSet, FoldFunctionOnSet, MapThenFoldSet, IsSum, Pick

(* What holds of a subset whenever it holds of all smaller ones, holds of  *)
(* all of them.                                                            *)
LEMMA SubsetInduction ==
  ASSUME NEW S, IsFiniteSet(S), NEW T,
         \A U \in SUBSET S : (\A V \in SUBSET U : V # U => V \in T) => U \in T
  PROVE  SUBSET S \subseteq T
<1> DEFINE W == (SUBSET S) \ T
<1>1. SUFFICES ASSUME W # {} PROVE FALSE
  OBVIOUS
<1>2. IsWellFoundedOn(StrictSubsetOrdering(S), SUBSET S)
  BY FS_StrictSubsetOrderingWellFounded, FS_FiniteSubsetsOfFinite
<1>3. W \subseteq SUBSET S
  OBVIOUS
<1> HIDE DEF W
<1>4. PICK U \in W : \A V \in W : <<V, U>> \notin StrictSubsetOrdering(S)
  BY <1>1, <1>2, <1>3, WFMin
<1> USE DEF W
<1>5. \A V \in SUBSET U : V # U => V \in T
  BY <1>4 DEF StrictSubsetOrdering
<1>6. QED
  BY <1>4, <1>5

LEMMA PickIsElement ==
  ASSUME NEW s, s # {}
  PROVE  Pick(s) \in s
  BY DEF Pick

(* The equation has a solution over each subset ...                        *)
LEMMA SumExists ==
  ASSUME NEW S, IsFiniteSet(S), NEW f
  PROVE  \E g : IsSum(g, f, S)
<1> DEFINE Body(g, s) == IF s = {} THEN 0 ELSE f[Pick(s)] + g[s \ {Pick(s)}]
           T == {n \in Nat : \E g : \A s \in SUBSET S : Cardinality(s) <= n => g[s] = Body(g, s)}
<1>1. \A s \in SUBSET S : IsFiniteSet(s) /\ Cardinality(s) \in Nat
                         /\ Cardinality(s) <= Cardinality(S)
  BY FS_Subset, FS_CardinalityType
<1>2. \A s \in SUBSET S : s # {} =>
        /\ s \ {Pick(s)} \in SUBSET S
        /\ Cardinality(s \ {Pick(s)}) = Cardinality(s) - 1
  BY <1>1, PickIsElement, FS_RemoveElement
<1>3. 0 \in T
  <2> DEFINE g == [s \in SUBSET S |-> 0]
  <2>1. \A s \in SUBSET S : Cardinality(s) <= 0 => s = {}
    BY <1>1, FS_EmptySet
  <2>2. \A s \in SUBSET S : Cardinality(s) <= 0 => g[s] = Body(g, s)
    BY <2>1
  <2>3. QED
    BY <2>2
<1>4. ASSUME NEW n \in T
      PROVE  n + 1 \in T
  <2>1. PICK g : \A s \in SUBSET S : Cardinality(s) <= n => g[s] = Body(g, s)
    OBVIOUS
  <2> DEFINE h == [s \in SUBSET S |-> IF Cardinality(s) <= n THEN g[s] ELSE Body(g, s)]
  <2>2. ASSUME NEW s \in SUBSET S, Cardinality(s) <= n + 1
        PROVE  h[s] = Body(h, s)
    <3>1. h[s] = Body(g, s)
      BY <2>1
    <3>2. s # {} => h[s \ {Pick(s)}] = g[s \ {Pick(s)}]
      BY <1>1, <1>2, <2>2
    <3>3. QED
      BY <3>1, <3>2
  <2> HIDE DEF h
  <2>3. \E k : \A s \in SUBSET S : Cardinality(s) <= n + 1 => k[s] = Body(k, s)
    BY <2>2
  <2>4. n + 1 \in Nat
    OBVIOUS
  <2> HIDE DEF Body
  <2>5. QED
    BY <2>3, <2>4
<1>5. Cardinality(S) \in T
  <2>1. \A U \in SUBSET S : (\A V \in SUBSET U : V # U => Cardinality(V) \in T) => Cardinality(U) \in T
    <3>1. ASSUME NEW U \in SUBSET S, \A V \in SUBSET U : V # U => Cardinality(V) \in T
          PROVE  Cardinality(U) \in T
      <4>1. CASE U = {}
        BY <1>3, <4>1, FS_EmptySet
      <4>2. CASE U # {}
        <5>1. U \ {Pick(U)} \in SUBSET U /\ U \ {Pick(U)} # U
          BY <4>2, PickIsElement
        <5>2. Cardinality(U) = Cardinality(U \ {Pick(U)}) + 1
          BY <1>1, <1>2, <4>2
        <5> HIDE DEF T
        <5>3. QED
          BY <1>4, <3>1, <5>1, <5>2
      <4>3. QED
        BY <4>1, <4>2
    <3>2. QED
      BY <3>1
  <2> DEFINE TT == {U \in SUBSET S : Cardinality(U) \in T}
  <2>2. SUBSET S \subseteq TT
    <3> HIDE DEF T
    <3>1. \A U \in SUBSET S : (\A V \in SUBSET U : V # U => V \in TT) => U \in TT
      BY <2>1
    <3> HIDE DEF TT
    <3>2. QED
      BY <3>1, SubsetInduction
  <2>3. QED
    BY <2>2
<1>6. PICK g : \A s \in SUBSET S : Cardinality(s) <= Cardinality(S) => g[s] = Body(g, s)
  BY <1>5
<1> DEFINE h == [s \in SUBSET S |-> g[s]]
<1>7. \A s \in SUBSET S : h[s] = Body(h, s)
  BY <1>1, <1>2, <1>6
<1>8. h = [s \in SUBSET S |-> h[s]]
  OBVIOUS
<1>9. h = [s \in SUBSET S |-> Body(h, s)]
  BY <1>7
<1>10. IsSum(h, f, S)
  BY <1>9 DEF IsSum
<1>11. QED
  BY <1>10

(* ... and it has one only.                                                *)
LEMMA SumUnique ==
  ASSUME NEW S, IsFiniteSet(S), NEW R \in SUBSET S, NEW f, NEW g, NEW h,
         IsSum(g, f, S), IsSum(h, f, R)
  PROVE  \A s \in SUBSET R : g[s] = h[s]
<1> DEFINE T == {s \in SUBSET R : g[s] = h[s]}
<1>1. IsFiniteSet(R)
  BY FS_Subset
<1>2. ASSUME NEW U \in SUBSET R, \A V \in SUBSET U : V # U => V \in T
      PROVE  U \in T
  <2>1. CASE U = {}
    BY <2>1 DEF IsSum
  <2>2. CASE U # {}
    <3>1. U \ {Pick(U)} \in SUBSET U /\ U \ {Pick(U)} # U
      BY <2>2, PickIsElement
    <3>2. g[U \ {Pick(U)}] = h[U \ {Pick(U)}]
      BY <1>2, <3>1
    <3>3. /\ g[U] = f[Pick(U)] + g[U \ {Pick(U)}]
          /\ h[U] = f[Pick(U)] + h[U \ {Pick(U)}]
      BY <2>2 DEF IsSum
    <3>4. QED
      BY <3>2, <3>3
  <2>3. QED
    BY <2>1, <2>2
<1> HIDE DEF T
<1>3. SUBSET R \subseteq T
  BY <1>1, <1>2, SubsetInduction
<1>4. QED
  BY <1>3 DEF T

LEMMA SumOfNothing ==
  ASSUME NEW f
  PROVE  SumFunctionOnSet(f, {}) = 0
<1>1. IsSum(CHOOSE g : IsSum(g, f, {}), f, {})
  BY SumExists, FS_EmptySet
<1>2. QED
  BY <1>1, SumUnfolds DEF IsSum

(* The sum is computed by taking elements as they are picked ...           *)
LEMMA SumPicks ==
  ASSUME NEW S, IsFiniteSet(S), S # {}, NEW f
  PROVE  SumFunctionOnSet(f, S) = f[Pick(S)] + SumFunctionOnSet(f, S \ {Pick(S)})
<1> DEFINE R == S \ {Pick(S)}
           g == CHOOSE g : IsSum(g, f, S)
           h == CHOOSE h : IsSum(h, f, R)
<1>1. R \in SUBSET S /\ IsFiniteSet(R)
  BY FS_RemoveElement
<1>2. IsSum(g, f, S)
  BY SumExists
<1>3. IsSum(h, f, R)
  BY <1>1, SumExists
<1>4. SumFunctionOnSet(f, S) = g[S] /\ SumFunctionOnSet(f, R) = h[R]
  BY SumUnfolds
<1> HIDE DEF g, h
<1>5. g[S] = f[Pick(S)] + g[R]
  BY <1>2 DEF IsSum
<1>6. g[R] = h[R]
  BY <1>1, <1>2, <1>3, SumUnique
<1>7. QED
  BY <1>4, <1>5, <1>6

LEMMA SumType ==
  ASSUME NEW S, IsFiniteSet(S), NEW f, \A x \in S : f[x] \in Int
  PROVE  SumFunctionOnSet(f, S) \in Int
<1> DEFINE T == {s \in SUBSET S : SumFunctionOnSet(f, s) \in Int}
<1>1. ASSUME NEW U \in SUBSET S, \A V \in SUBSET U : V # U => V \in T
      PROVE  U \in T
  <2>1. CASE U = {}
    BY <2>1, SumOfNothing
  <2>2. CASE U # {}
    <3>1. /\ U \ {Pick(U)} \in SUBSET U /\ U \ {Pick(U)} # U /\ Pick(U) \in S
      BY <2>2, PickIsElement
    <3>2. IsFiniteSet(U)
      BY FS_Subset
    <3>3. SumFunctionOnSet(f, U) = f[Pick(U)] + SumFunctionOnSet(f, U \ {Pick(U)})
      BY <2>2, <3>2, SumPicks
    <3>4. SumFunctionOnSet(f, U \ {Pick(U)}) \in Int
      BY <1>1, <3>1
    <3>5. QED
      BY <3>1, <3>3, <3>4
  <2>3. QED
    BY <2>1, <2>2
<1> HIDE DEF T
<1>2. SUBSET S \subseteq T
  BY <1>1, SubsetInduction
<1>3. QED
  BY <1>2 DEF T

(* ... but in any other order it comes to the same.                        *)
LEMMA SumTakes ==
  ASSUME NEW S, IsFiniteSet(S), NEW f, \A x \in S : f[x] \in Int, NEW a \in S
  PROVE  SumFunctionOnSet(f, S) = f[a] + SumFunctionOnSet(f, S \ {a})
<1> DEFINE Sum(s) == SumFunctionOnSet(f, s)
           T == {s \in SUBSET S : \A x \in s : Sum(s) = f[x] + Sum(s \ {x})}
<1>1. \A s \in SUBSET S : IsFiniteSet(s) /\ Sum(s) \in Int
  BY FS_Subset, SumType
<1>2. ASSUME NEW U \in SUBSET S, \A V \in SUBSET U : V # U => V \in T
      PROVE  U \in T
  <2>1. ASSUME NEW x \in U
        PROVE  Sum(U) = f[x] + Sum(U \ {x})
    <3> DEFINE c == Pick(U)
    <3>1. c \in U
      BY PickIsElement
    <3>2. Sum(U) = f[c] + Sum(U \ {c})
      BY <1>1, SumPicks
    <3> HIDE DEF c, Sum
    <3>3. CASE x = c
      BY <3>2, <3>3
    <3>4. CASE x # c
      <4>1. /\ U \ {c} \in SUBSET U /\ U \ {c} # U /\ x \in U \ {c}
            /\ U \ {x} \in SUBSET U /\ U \ {x} # U /\ c \in U \ {x}
            /\ (U \ {c}) \ {x} = (U \ {x}) \ {c} /\ (U \ {x}) \ {c} \in SUBSET S
        BY <3>1, <3>4
      <4>2. Sum(U \ {c}) = f[x] + Sum((U \ {x}) \ {c})
        BY <1>2, <4>1
      <4>3. Sum(U \ {x}) = f[c] + Sum((U \ {x}) \ {c})
        BY <1>2, <4>1
      <4>4. f[x] \in Int /\ f[c] \in Int /\ Sum((U \ {x}) \ {c}) \in Int
        BY <1>1, <3>1, <4>1
      <4>5. QED
        BY <3>2, <4>2, <4>3, <4>4
    <3>5. QED
      BY <3>3, <3>4
  <2>2. QED
    BY <2>1
<1> HIDE DEF T
<1>3. SUBSET S \subseteq T
  BY <1>2, SubsetInduction
<1>4. QED
  BY <1>3 DEF T

-----------------------------------------------------------------------------
(* Functions that agree on a finite set have the same sum over it.         *)
LEMMA SumAgrees ==
  ASSUME NEW S, IsFiniteSet(S), NEW f, NEW g, \A x \in S : f[x] = g[x]
  PROVE  SumFunctionOnSet(f, S) = SumFunctionOnSet(g, S)
<1> DEFINE T == {s \in SUBSET S : SumFunctionOnSet(f, s) = SumFunctionOnSet(g, s)}
<1>1. ASSUME NEW U \in SUBSET S, \A V \in SUBSET U : V # U => V \in T
      PROVE  U \in T
  <2>1. CASE U = {}
    BY <2>1, SumOfNothing
  <2>2. CASE U # {}
    <3>1. U \ {Pick(U)} \in SUBSET U /\ U \ {Pick(U)} # U /\ Pick(U) \in S
      BY <2>2, PickIsElement
    <3>2. IsFiniteSet(U)
      BY FS_Subset
    <3>3. /\ SumFunctionOnSet(f, U) = f[Pick(U)] + SumFunctionOnSet(f, U \ {Pick(U)})
          /\ SumFunctionOnSet(g, U) = g[Pick(U)] + SumFunctionOnSet(g, U \ {Pick(U)})
      BY <2>2, <3>2, SumPicks
    <3>4. SumFunctionOnSet(f, U \ {Pick(U)}) = SumFunctionOnSet(g, U \ {Pick(U)})
      BY <1>1, <3>1
    <3>5. QED
      BY <3>1, <3>3, <3>4
  <2>3. QED
    BY <2>1, <2>2
<1> HIDE DEF T
<1>2. SUBSET S \subseteq T
  BY <1>1, SubsetInduction
<1>3. QED
  BY <1>2 DEF T

(* The sum of no integers, and of integers.                                *)
LEMMA TotalOfNothing ==
  ASSUME NEW f, DOMAIN f = {}
  PROVE  SumFunction(f) = 0
  BY SumOfNothing DEF SumFunction

LEMMA TotalOfZeros ==
  ASSUME NEW f, IsFiniteSet(DOMAIN f), \A x \in DOMAIN f : f[x] = 0
  PROVE  SumFunction(f) = 0
<1> DEFINE T == {s \in SUBSET DOMAIN f : SumFunctionOnSet(f, s) = 0}
<1>1. ASSUME NEW U \in SUBSET DOMAIN f, \A V \in SUBSET U : V # U => V \in T
      PROVE  U \in T
  <2>1. CASE U = {}
    BY <2>1, SumOfNothing
  <2>2. CASE U # {}
    <3>1. U \ {Pick(U)} \in SUBSET U /\ U \ {Pick(U)} # U /\ Pick(U) \in DOMAIN f
      BY <2>2, PickIsElement
    <3>2. SumFunctionOnSet(f, U) = f[Pick(U)] + SumFunctionOnSet(f, U \ {Pick(U)})
      BY <2>2, FS_Subset, SumPicks
    <3>3. SumFunctionOnSet(f, U \ {Pick(U)}) = 0
      BY <1>1, <3>1
    <3>4. QED
      BY <3>1, <3>2, <3>3
  <2>3. QED
    BY <2>1, <2>2
<1> HIDE DEF T
<1>2. SUBSET DOMAIN f \subseteq T
  BY <1>1, SubsetInduction
<1>3. QED
  BY <1>2 DEF T, SumFunction

LEMMA TotalType ==
  ASSUME NEW f, IsFiniteSet(DOMAIN f), \A x \in DOMAIN f : f[x] \in Int
  PROVE  SumFunction(f) \in Int
  BY SumType DEF SumFunction

LEMMA TotalAgrees ==
  ASSUME NEW f, NEW g, IsFiniteSet(DOMAIN f), DOMAIN g = DOMAIN f,
         \A x \in DOMAIN f : f[x] = g[x]
  PROVE  SumFunction(f) = SumFunction(g)
  BY SumAgrees DEF SumFunction

(* One more addend, or one less.                                           *)
LEMMA TotalAdds ==
  ASSUME NEW f, NEW g, IsFiniteSet(DOMAIN f), \A x \in DOMAIN f : f[x] \in Int /\ g[x] = f[x],
         NEW a, a \notin DOMAIN f, DOMAIN g = DOMAIN f \cup {a}, g[a] \in Int
  PROVE  SumFunction(g) = SumFunction(f) + g[a]
<1>1. IsFiniteSet(DOMAIN g) /\ \A x \in DOMAIN g : g[x] \in Int
  BY FS_AddElement
<1>2. SumFunctionOnSet(g, DOMAIN g) = g[a] + SumFunctionOnSet(g, (DOMAIN g) \ {a})
  BY <1>1, SumTakes
<1>3. (DOMAIN g) \ {a} = DOMAIN f
  OBVIOUS
<1>4. SumFunctionOnSet(g, DOMAIN f) = SumFunctionOnSet(f, DOMAIN f)
  BY SumAgrees
<1>5. SumFunctionOnSet(f, DOMAIN f) \in Int
  BY SumType
<1>6. QED
  BY <1>2, <1>3, <1>4, <1>5 DEF SumFunction

(* One addend that is another.                                             *)
LEMMA TotalChanges ==
  ASSUME NEW f, NEW g, IsFiniteSet(DOMAIN f), DOMAIN g = DOMAIN f, NEW a \in DOMAIN f, NEW d \in Int,
         \A x \in DOMAIN f : f[x] \in Int /\ g[x] = IF x = a THEN f[x] + d ELSE f[x]
  PROVE  SumFunction(g) = SumFunction(f) + d
<1> DEFINE D == DOMAIN f
<1>1. \A x \in D : g[x] \in Int
  OBVIOUS
<1>2. /\ SumFunctionOnSet(f, D) = f[a] + SumFunctionOnSet(f, D \ {a})
      /\ SumFunctionOnSet(g, D) = g[a] + SumFunctionOnSet(g, D \ {a})
  BY <1>1, SumTakes
<1>3. IsFiniteSet(D \ {a}) /\ \A x \in D \ {a} : f[x] = g[x] /\ f[x] \in Int
  BY FS_RemoveElement
<1>4. SumFunctionOnSet(f, D \ {a}) = SumFunctionOnSet(g, D \ {a})
  BY <1>3, SumAgrees
<1>5. SumFunctionOnSet(f, D \ {a}) \in Int
  BY <1>3, SumType
<1>6. g[a] = f[a] + d /\ f[a] \in Int
  OBVIOUS
<1> HIDE DEF D
<1>7. SumFunctionOnSet(g, D) = SumFunctionOnSet(f, D) + d
  BY <1>2, <1>4, <1>5, <1>6
<1>8. QED
  BY <1>7 DEF SumFunction, D

(* Addends that are not negative have a sum that is not.                   *)
LEMMA TotalNatural ==
  ASSUME NEW f, IsFiniteSet(DOMAIN f), \A x \in DOMAIN f : f[x] \in Nat
  PROVE  SumFunction(f) \in Nat
<1> DEFINE T == {s \in SUBSET DOMAIN f : SumFunctionOnSet(f, s) \in Nat}
<1>1. ASSUME NEW U \in SUBSET DOMAIN f, \A V \in SUBSET U : V # U => V \in T
      PROVE  U \in T
  <2>1. CASE U = {}
    BY <2>1, SumOfNothing
  <2>2. CASE U # {}
    <3>1. U \ {Pick(U)} \in SUBSET U /\ U \ {Pick(U)} # U /\ Pick(U) \in DOMAIN f
      BY <2>2, PickIsElement
    <3>2. IsFiniteSet(U)
      BY FS_Subset
    <3>3. SumFunctionOnSet(f, U) = f[Pick(U)] + SumFunctionOnSet(f, U \ {Pick(U)})
      BY <2>2, <3>2, SumPicks
    <3>4. SumFunctionOnSet(f, U \ {Pick(U)}) \in Nat
      BY <1>1, <3>1
    <3>5. QED
      BY <3>1, <3>3, <3>4
  <2>3. QED
    BY <2>1, <2>2
<1> HIDE DEF T
<1>2. SUBSET DOMAIN f \subseteq T
  BY <1>1, SubsetInduction
<1>3. QED
  BY <1>2 DEF T, SumFunction
=============================================================================
