---------------------------- MODULE SumTheorems ----------------------------
(***************************************************************************)
(* Facts about SumFunctionOnSet, the sum of a function's values over a     *)
(* finite set: the model's totals are such sums.                           *)
(*                                                                         *)
(* The operator takes the elements out of the set in an order of its own.  *)
(* That any order gives the same sum, and everything that follows from it, *)
(* is proved by looking at a smallest subset for which it would be false.  *)
(* So is that a finite set of numbers has a largest.                       *)
(***************************************************************************)
EXTENDS Functions, FiniteSetsExt, Integers, FiniteSetTheorems, TLAPS

-----------------------------------------------------------------------------
(* The sum is what its definition says: there are the partial sums it      *)
(* chooses.                                                                *)

FirstOf(s) == CHOOSE x \in s : TRUE
Partial(f, g, s) == IF s = {} THEN 0 ELSE f[FirstOf(s)] + g[s \ {FirstOf(s)}]
PartialSums(f, g, S) == g = [s \in SUBSET S |-> Partial(f, g, s)]

\* Among subsets of a finite set there is one that has no other of them as a part.
LEMMA SmallestSubset ==
    ASSUME NEW S, IsFiniteSet(S), NEW B, B \subseteq SUBSET S, B # {}
    PROVE  \E T \in B : \A U \in B : U \subseteq T => U = T
<1>1. IsWellFoundedOn(StrictSubsetOrdering(S), FiniteSubsetsOf(S))
  BY FS_StrictSubsetOrderingWellFounded
<1>2. B \subseteq FiniteSubsetsOf(S)
  BY FS_FiniteSubsetsOfFinite
<1>3. \E T \in B : \A U \in B : ~(<<U, T>> \in StrictSubsetOrdering(S))
  BY <1>1, <1>2, WFMin
<1> QED  BY <1>2, <1>3 DEF StrictSubsetOrdering

LEMMA FirstOfIn ==
    ASSUME NEW s, s # {}
    PROVE  FirstOf(s) \in s
  BY DEF FirstOf

\* The sum as the library defines it.
LEMMA SumUnfolds ==
    ASSUME NEW f, NEW S
    PROVE  SumFunctionOnSet(f, S) = (CHOOSE g : PartialSums(f, g, S))[S]
  BY DEF SumFunctionOnSet, FoldFunctionOnSet, MapThenFoldSet, PartialSums, Partial, FirstOf

\* Partial sums, of whatever sets, agree on the subsets they share ...
LEMMA PartialSumsAgree ==
    ASSUME NEW f, NEW S, NEW T, NEW g, NEW h, PartialSums(f, g, S), PartialSums(f, h, T),
           NEW V \in (SUBSET S) \cap (SUBSET T), IsFiniteSet(V)
    PROVE  g[V] = h[V]
<1> DEFINE B == {U \in SUBSET V : g[U] # h[U]}
<1> SUFFICES ASSUME B # {} PROVE FALSE  OBVIOUS
<1>0. B \subseteq SUBSET V
  OBVIOUS
<1>1. PICK U \in B : \A W \in B : W \subseteq U => W = U
  <2> HIDE DEF B
  <2> QED  BY <1>0, SmallestSubset
<1>a. U \in SUBSET S /\ U \in SUBSET T
  BY <1>1
<1>2. g[U] = Partial(f, g, U) /\ h[U] = Partial(f, h, U)
  BY <1>a DEF PartialSums
<1>3. U # {}
  BY <1>1, <1>2 DEF Partial
<1>4. U \ {FirstOf(U)} \in SUBSET V /\ U \ {FirstOf(U)} # U
  BY <1>3, FirstOfIn
<1>5. g[U \ {FirstOf(U)}] = h[U \ {FirstOf(U)}]
  BY <1>1, <1>4
<1> QED  BY <1>2, <1>3, <1>5 DEF Partial

\* ... and exist for every finite set.
LEMMA PartialSumsExist ==
    ASSUME NEW f, NEW S, IsFiniteSet(S)
    PROVE  \E g : PartialSums(f, g, S)
<1> DEFINE B == {T \in SUBSET S : ~\E g : PartialSums(f, g, T)}
<1> SUFFICES ASSUME B # {} PROVE FALSE  OBVIOUS
<1>0. B \subseteq SUBSET S
  OBVIOUS
<1>1. PICK T \in B : \A W \in B : W \subseteq T => W = T
  <2> HIDE DEF B
  <2> QED  BY <1>0, SmallestSubset
<1> DEFINE G(U) == CHOOSE g : PartialSums(f, g, U)
           k == [s \in SUBSET T |-> G(s)[s]]
           h == [s \in SUBSET T |-> Partial(f, k, s)]
<1>2. \A U \in SUBSET T : U # T => PartialSums(f, G(U), U)
  BY <1>1
<1>3. \A s \in SUBSET T : s # {} => h[s \ {FirstOf(s)}] = k[s \ {FirstOf(s)}]
  <2> SUFFICES ASSUME NEW s \in SUBSET T, s # {}
               PROVE  h[s \ {FirstOf(s)}] = k[s \ {FirstOf(s)}]
    OBVIOUS
  <2> DEFINE U == s \ {FirstOf(s)}
  <2>1. U \in SUBSET T /\ U # T
    BY FirstOfIn
  <2>2. PartialSums(f, G(U), U)
    BY <2>1, <1>2
  <2>3. G(U)[U] = Partial(f, G(U), U)
    BY <2>2 DEF PartialSums
  <2>4. CASE U = {}
    BY <2>1, <2>3, <2>4 DEF Partial
  <2>5. CASE U # {}
    <3> DEFINE W == U \ {FirstOf(U)}
    <3>1. W \in SUBSET U /\ W # T /\ W \in SUBSET T
      BY <2>1, <2>5, FirstOfIn
    <3>2. PartialSums(f, G(W), W)
      BY <3>1, <1>2
    <3>3. IsFiniteSet(W)
      BY <3>1, FS_Subset
    <3>4. G(W)[W] = G(U)[W]
      <4> HIDE DEF W, U, G
      <4>1. W \in (SUBSET W) \cap (SUBSET U) BY <3>1
      <4> QED BY <4>1, <3>2, <3>3, <2>2, PartialSumsAgree
    <3>5. k[W] = G(U)[W]
      BY <3>1, <3>4
    <3>6. Partial(f, k, U) = Partial(f, G(U), U)
      <4> HIDE DEF G, k
      <4> QED BY <3>5 DEF Partial
    <3> QED  BY <2>1, <2>3, <3>6
  <2> QED  BY <2>4, <2>5
<1>4. \A s \in SUBSET T : Partial(f, k, s) = Partial(f, h, s)
  <2> HIDE DEF h, k
  <2> QED  BY <1>3 DEF Partial
<1>5. PartialSums(f, h, T)
  <2> HIDE DEF k
  <2> QED  BY <1>4 DEF PartialSums
<1> QED  BY <1>1, <1>5

\* Nothing sums to zero.
LEMMA SumEmpty ==
    ASSUME NEW f
    PROVE  SumFunctionOnSet(f, {}) = 0
<1>1. PICK g : PartialSums(f, g, {})
  BY PartialSumsExist, FS_EmptySet
<1>2. PartialSums(f, CHOOSE x : PartialSums(f, x, {}), {})
  BY <1>1
<1> QED  BY <1>2, SumUnfolds DEF PartialSums, Partial

\* The sum is the first element's value and the sum of the rest.
LEMMA SumFirst ==
    ASSUME NEW f, NEW S, IsFiniteSet(S), S # {}
    PROVE  /\ FirstOf(S) \in S
           /\ SumFunctionOnSet(f, S) = f[FirstOf(S)] + SumFunctionOnSet(f, S \ {FirstOf(S)})
<1> DEFINE T == S \ {FirstOf(S)}
           G(U) == CHOOSE x : PartialSums(f, x, U)
<1>1. IsFiniteSet(T)
  BY FS_RemoveElement
<1>2. PartialSums(f, G(S), S) /\ PartialSums(f, G(T), T)
  BY <1>1, PartialSumsExist
<1>3. G(S)[T] = G(T)[T]
  <2> HIDE DEF G
  <2>1. T \in (SUBSET T) \cap (SUBSET S) OBVIOUS
  <2> HIDE DEF T
  <2> QED BY <2>1, <1>1, <1>2, PartialSumsAgree
<1>4. G(S)[S] = f[FirstOf(S)] + G(S)[T]
  BY <1>2 DEF PartialSums, Partial
<1> QED  BY <1>3, <1>4, FirstOfIn, SumUnfolds

-----------------------------------------------------------------------------
(* What the proofs about the model use.                                    *)

\* The sum of integers is an integer.
LEMMA SumType ==
    ASSUME NEW f, NEW S, IsFiniteSet(S), \A x \in S : f[x] \in Int
    PROVE  SumFunctionOnSet(f, S) \in Int
<1> DEFINE B == {U \in SUBSET S : SumFunctionOnSet(f, U) \notin Int}
<1> SUFFICES ASSUME B # {} PROVE FALSE  OBVIOUS
<1>0. B \subseteq SUBSET S
  OBVIOUS
<1>1. PICK T \in B : \A W \in B : W \subseteq T => W = T
  <2> HIDE DEF B
  <2> QED  BY <1>0, SmallestSubset
<1>2. IsFiniteSet(T) /\ T \subseteq S
  BY <1>0, <1>1, FS_Subset
<1>a. T # {}
  <2>1. SumFunctionOnSet(f, {}) \in Int  BY SumEmpty
  <2>2. SumFunctionOnSet(f, T) \notin Int  BY <1>1
  <2> QED  BY <2>1, <2>2
<1>3. FirstOf(T) \in T /\ SumFunctionOnSet(f, T) = f[FirstOf(T)] + SumFunctionOnSet(f, T \ {FirstOf(T)})
  BY <1>2, <1>a, SumFirst
<1>4. SumFunctionOnSet(f, T \ {FirstOf(T)}) \in Int
  BY <1>1, <1>2, <1>3
<1> QED  BY <1>1, <1>2, <1>3, <1>4

\* Any element can be taken out first.
LEMMA SumStep ==
    ASSUME NEW f, NEW S, IsFiniteSet(S), \A y \in S : f[y] \in Int, NEW x \in S
    PROVE  SumFunctionOnSet(f, S) = f[x] + SumFunctionOnSet(f, S \ {x})
<1> DEFINE Off(U) == \E z \in U : SumFunctionOnSet(f, U) # f[z] + SumFunctionOnSet(f, U \ {z})
           B == {U \in SUBSET S : Off(U)}
<1> SUFFICES ASSUME B # {} PROVE FALSE  OBVIOUS
<1>0. B \subseteq SUBSET S
  OBVIOUS
<1>1. PICK T \in B : \A W \in B : W \subseteq T => W = T
  <2> HIDE DEF B
  <2> QED  BY <1>0, SmallestSubset
<1> DEFINE y == FirstOf(T)
<1>2. IsFiniteSet(T) /\ T \subseteq S
  BY <1>0, <1>1, FS_Subset
<1>3. PICK z \in T : SumFunctionOnSet(f, T) # f[z] + SumFunctionOnSet(f, T \ {z})
  BY <1>1
<1>4. y \in T /\ SumFunctionOnSet(f, T) = f[y] + SumFunctionOnSet(f, T \ {y})
  BY <1>2, <1>3, SumFirst
<1>5. y # z
  BY <1>3, <1>4
<1> DEFINE R == T \ {y, z}
<1>6. SumFunctionOnSet(f, T \ {y}) = f[z] + SumFunctionOnSet(f, R)
  <2>1. ~Off(T \ {y})
    BY <1>1, <1>2, <1>4
  <2>2. z \in T \ {y} /\ (T \ {y}) \ {z} = R
    BY <1>5
  <2> QED  BY <2>1, <2>2
<1>7. SumFunctionOnSet(f, T \ {z}) = f[y] + SumFunctionOnSet(f, R)
  <2>1. ~Off(T \ {z})
    BY <1>1, <1>2, <1>3
  <2>2. y \in T \ {z} /\ (T \ {z}) \ {y} = R
    BY <1>4, <1>5
  <2> QED  BY <2>1, <2>2
<1>8. SumFunctionOnSet(f, R) \in Int /\ f[y] \in Int /\ f[z] \in Int
  <2>1. IsFiniteSet(R)  BY <1>2, FS_Subset
  <2> QED  BY <1>2, <1>4, <2>1, SumType
<1>9. SumFunctionOnSet(f, T) = f[z] + SumFunctionOnSet(f, T \ {z})
  <2> HIDE DEF y, R
  <2> QED  BY <1>4, <1>6, <1>7, <1>8
<1> QED  BY <1>3, <1>9

\* A new element adds its value.
LEMMA SumAdd ==
    ASSUME NEW f, NEW S, IsFiniteSet(S), NEW x, x \notin S,
           \A y \in S \cup {x} : f[y] \in Int
    PROVE  SumFunctionOnSet(f, S \cup {x}) = f[x] + SumFunctionOnSet(f, S)
<1>1. IsFiniteSet(S \cup {x})
  BY FS_AddElement
<1>2. (S \cup {x}) \ {x} = S
  OBVIOUS
<1> QED  BY <1>1, <1>2, SumStep

\* Greater values have a greater sum.
LEMMA SumMono ==
    ASSUME NEW f, NEW g, NEW S, IsFiniteSet(S),
           \A x \in S : f[x] \in Int /\ g[x] \in Int /\ f[x] =< g[x]
    PROVE  SumFunctionOnSet(f, S) =< SumFunctionOnSet(g, S)
<1> DEFINE B == {U \in SUBSET S : ~(SumFunctionOnSet(f, U) =< SumFunctionOnSet(g, U))}
<1> SUFFICES ASSUME B # {} PROVE FALSE  OBVIOUS
<1>0. B \subseteq SUBSET S
  OBVIOUS
<1>1. PICK T \in B : \A W \in B : W \subseteq T => W = T
  <2> HIDE DEF B
  <2> QED  BY <1>0, SmallestSubset
<1>2. IsFiniteSet(T) /\ T \subseteq S
  BY <1>0, <1>1, FS_Subset
<1>3. T # {}
  <2>1. SumFunctionOnSet(f, {}) = 0 /\ SumFunctionOnSet(g, {}) = 0  BY SumEmpty
  <2>2. ~(SumFunctionOnSet(f, T) =< SumFunctionOnSet(g, T))  BY <1>1
  <2> QED  BY <2>1, <2>2
<1>4. PICK x \in T : TRUE
  BY <1>3
<1>5. /\ SumFunctionOnSet(f, T) = f[x] + SumFunctionOnSet(f, T \ {x})
      /\ SumFunctionOnSet(g, T) = g[x] + SumFunctionOnSet(g, T \ {x})
  BY <1>2, <1>4, SumStep
<1>6. SumFunctionOnSet(f, T \ {x}) =< SumFunctionOnSet(g, T \ {x})
  BY <1>1, <1>2, <1>4
<1>7. /\ SumFunctionOnSet(f, T \ {x}) \in Int
      /\ SumFunctionOnSet(g, T \ {x}) \in Int
  <2>1. IsFiniteSet(T \ {x})  BY <1>2, FS_RemoveElement
  <2> QED  BY <1>2, <2>1, SumType
<1>8. f[x] \in Int /\ g[x] \in Int /\ f[x] =< g[x]
  BY <1>2, <1>4
<1>9. SumFunctionOnSet(f, T) =< SumFunctionOnSet(g, T)
  BY <1>5, <1>6, <1>7, <1>8
<1> QED  BY <1>1, <1>9

\* Only the values on the set count.
LEMMA SumAgree ==
    ASSUME NEW f, NEW g, NEW S, IsFiniteSet(S),
           \A x \in S : f[x] \in Int /\ f[x] = g[x]
    PROVE  SumFunctionOnSet(f, S) = SumFunctionOnSet(g, S)
<1>1. \A x \in S : f[x] \in Int /\ g[x] \in Int /\ f[x] =< g[x] /\ g[x] =< f[x]
  OBVIOUS
<1>2. SumFunctionOnSet(f, S) =< SumFunctionOnSet(g, S)
  BY <1>1, SumMono
<1>3. SumFunctionOnSet(g, S) =< SumFunctionOnSet(f, S)
  BY <1>1, SumMono
<1>4. SumFunctionOnSet(f, S) \in Int /\ SumFunctionOnSet(g, S) \in Int
  BY <1>1, SumType
<1> QED  BY <1>2, <1>3, <1>4

\* Zeros sum to zero.
LEMMA SumZero ==
    ASSUME NEW f, NEW S, IsFiniteSet(S), \A x \in S : f[x] = 0
    PROVE  SumFunctionOnSet(f, S) = 0
<1> DEFINE B == {U \in SUBSET S : SumFunctionOnSet(f, U) # 0}
<1> SUFFICES ASSUME B # {} PROVE FALSE  OBVIOUS
<1>0. B \subseteq SUBSET S
  OBVIOUS
<1>1. PICK T \in B : \A W \in B : W \subseteq T => W = T
  <2> HIDE DEF B
  <2> QED  BY <1>0, SmallestSubset
<1>2. IsFiniteSet(T) /\ T \subseteq S
  BY <1>0, <1>1, FS_Subset
<1>3. T # {}
  BY <1>1, SumEmpty
<1>4. FirstOf(T) \in T /\ SumFunctionOnSet(f, T) = f[FirstOf(T)] + SumFunctionOnSet(f, T \ {FirstOf(T)})
  BY <1>2, <1>3, SumFirst
<1>5. SumFunctionOnSet(f, T \ {FirstOf(T)}) = 0 /\ f[FirstOf(T)] = 0
  BY <1>1, <1>2, <1>4
<1> QED  BY <1>1, <1>4, <1>5

\* The sum of natural numbers is one.
LEMMA SumNat ==
    ASSUME NEW f, NEW S, IsFiniteSet(S), \A x \in S : f[x] \in Nat
    PROVE  SumFunctionOnSet(f, S) \in Nat
<1> DEFINE z == [x \in S |-> 0]
<1>1. SumFunctionOnSet(z, S) = 0
  BY SumZero
<1>2. \A x \in S : z[x] \in Int /\ f[x] \in Int /\ z[x] =< f[x]
  OBVIOUS
<1>3. SumFunctionOnSet(z, S) =< SumFunctionOnSet(f, S)
  <2> HIDE DEF z
  <2> QED  BY <1>2, SumMono
<1>4. SumFunctionOnSet(f, S) \in Int
  BY SumType
<1> QED  BY <1>1, <1>3, <1>4

\* No part of a sum of natural numbers is greater than the sum: neither an element ...
LEMMA SumAtLeast ==
    ASSUME NEW f, NEW S, IsFiniteSet(S), \A x \in S : f[x] \in Nat, NEW x \in S
    PROVE  f[x] =< SumFunctionOnSet(f, S)
<1>1. SumFunctionOnSet(f, S \ {x}) \in Nat
  BY FS_RemoveElement, SumNat
<1> QED  BY <1>1, SumStep

\* ... nor a subset.
LEMMA SumPart ==
    ASSUME NEW f, NEW S, IsFiniteSet(S), \A x \in S : f[x] \in Nat, NEW T \in SUBSET S
    PROVE  SumFunctionOnSet(f, T) =< SumFunctionOnSet(f, S)
<1> DEFINE B == {U \in SUBSET S : T \subseteq U /\ ~(SumFunctionOnSet(f, T) =< SumFunctionOnSet(f, U))}
<1> SUFFICES ASSUME B # {} PROVE FALSE  
  OBVIOUS
<1>0. B \subseteq SUBSET S
  OBVIOUS
<1>1. PICK U \in B : \A W \in B : W \subseteq U => W = U
  <2> HIDE DEF B
  <2> QED  BY <1>0, SmallestSubset
<1>2. IsFiniteSet(U) /\ U \subseteq S /\ T \subseteq U /\ IsFiniteSet(T)
  BY <1>0, <1>1, FS_Subset
<1>3. SumFunctionOnSet(f, T) \in Int
  BY <1>2, SumType
<1>4. PICK x \in U : x \notin T
  <2>1. U # T
    <3>1. ~(SumFunctionOnSet(f, T) =< SumFunctionOnSet(f, U))  BY <1>1
    <3> QED  BY <3>1, <1>3
  <2> QED  BY <2>1, <1>2
<1>5. SumFunctionOnSet(f, U) = f[x] + SumFunctionOnSet(f, U \ {x})
  BY <1>2, SumStep
<1>6. SumFunctionOnSet(f, T) =< SumFunctionOnSet(f, U \ {x})
  BY <1>1, <1>2, <1>4
<1>7. SumFunctionOnSet(f, U \ {x}) \in Nat
  BY <1>2, FS_RemoveElement, SumNat
<1> QED  BY <1>1, <1>2, <1>3, <1>5, <1>6, <1>7

\* One value changes.
LEMMA SumChange ==
    ASSUME NEW f, NEW g, NEW S, IsFiniteSet(S), NEW x \in S,
           \A y \in S : f[y] \in Int /\ g[y] \in Int /\ (y # x => g[y] = f[y])
    PROVE  SumFunctionOnSet(g, S) = (SumFunctionOnSet(f, S) - f[x]) + g[x]
<1> DEFINE R == S \ {x}
<1>1. IsFiniteSet(R)
  BY FS_RemoveElement
<1>2. /\ SumFunctionOnSet(f, S) = f[x] + SumFunctionOnSet(f, R)
      /\ SumFunctionOnSet(g, S) = g[x] + SumFunctionOnSet(g, R)
  BY SumStep
<1>3. SumFunctionOnSet(f, R) = SumFunctionOnSet(g, R)
  BY <1>1, SumAgree
<1>4. SumFunctionOnSet(f, R) \in Int
  BY <1>1, SumType
<1> QED  BY <1>2, <1>3, <1>4

\* One element joins the set, leaves it or changes its value.
LEMMA SumMoves ==
    ASSUME NEW f, NEW S, IsFiniteSet(S), \A y \in S : f[y] \in Int,
           NEW g, NEW T, IsFiniteSet(T), \A y \in T : g[y] \in Int,
           NEW x, S \ {x} = T \ {x}, \A y \in S \ {x} : f[y] = g[y]
    PROVE  SumFunctionOnSet(g, T) = (SumFunctionOnSet(f, S) - (IF x \in S THEN f[x] ELSE 0))
                                        + (IF x \in T THEN g[x] ELSE 0)
<1> DEFINE R == S \ {x}
<1>1. IsFiniteSet(R)
  BY FS_RemoveElement
<1>2. SumFunctionOnSet(f, R) = SumFunctionOnSet(g, R) /\ SumFunctionOnSet(f, R) \in Int
  BY <1>1, SumAgree, SumType
<1>3. SumFunctionOnSet(f, S) = (IF x \in S THEN f[x] ELSE 0) + SumFunctionOnSet(f, R)
  <2>1. CASE x \in S
    BY <2>1, SumStep
  <2>2. CASE x \notin S
    <3>1. R = S  BY <2>2
    <3> HIDE DEF R
    <3>2. SumFunctionOnSet(f, S) = 0 + SumFunctionOnSet(f, R)  BY <1>2, <3>1
    <3> QED  BY <2>2, <3>2
  <2> QED  BY <2>1, <2>2
<1>4. SumFunctionOnSet(g, T) = (IF x \in T THEN g[x] ELSE 0) + SumFunctionOnSet(g, R)
  <2>1. CASE x \in T
    <3>1. T \ {x} = R  OBVIOUS
    <3> QED  BY <2>1, <3>1, SumStep
  <2>2. CASE x \notin T
    <3>1. R = T  BY <2>2
    <3> HIDE DEF R
    <3>2. SumFunctionOnSet(g, T) = 0 + SumFunctionOnSet(g, R)  BY <1>2, <3>1
    <3> QED  BY <2>2, <3>2
  <2> QED  BY <2>1, <2>2
<1>5. /\ (IF x \in S THEN f[x] ELSE 0) \in Int
      /\ (IF x \in T THEN g[x] ELSE 0) \in Int
  OBVIOUS
<1> DEFINE a == IF x \in S THEN f[x] ELSE 0
           b == IF x \in T THEN g[x] ELSE 0
<1>6. /\ SumFunctionOnSet(f, S) = a + SumFunctionOnSet(f, R)
      /\ SumFunctionOnSet(g, T) = b + SumFunctionOnSet(f, R)
      /\ a \in Int /\ b \in Int
  BY <1>2, <1>3, <1>4, <1>5
<1>7. SumFunctionOnSet(g, T) = (SumFunctionOnSet(f, S) - a) + b
  <2> HIDE DEF a, b, R
  <2> QED  BY <1>2, <1>6
<1> QED  BY <1>7

-----------------------------------------------------------------------------
(* The largest of a finite set of numbers.                                 *)

\* Of the parts given for the members of a finite set, there is one that has no other as its part.
LEMMA SmallestPart ==
    ASSUME NEW S, IsFiniteSet(S), S # {}, NEW up \in [S -> SUBSET S]
    PROVE  \E x \in S : \A y \in S : up[y] \subseteq up[x] => up[y] = up[x]
<1> DEFINE B == {up[x] : x \in S}
<1>1. B \subseteq SUBSET S /\ B # {}
    OBVIOUS
<1>2. \E T \in B : \A U \in B : U \subseteq T => U = T
    <2> HIDE DEF B
    <2>1. QED BY <1>1, SmallestSubset
<1>3. QED BY <1>2

\* A finite set of numbers has a largest: the one that fewest are no smaller than.
LEMMA MaxIn ==
    ASSUME NEW S, IsFiniteSet(S), S # {}
    PROVE  S \subseteq Int => Max(S) \in S /\ \A y \in S : y =< Max(S)
<1> DEFINE up == [x \in S |-> {y \in S : y >= x}]
<1>1. PICK x \in S : \A y \in S : up[y] \subseteq up[x] => up[y] = up[x]
    <2>1. up \in [S -> SUBSET S]
        OBVIOUS
    <2> HIDE DEF up
    <2>2. QED BY <2>1, SmallestPart
<1>2. ASSUME S \subseteq Int, NEW y \in S PROVE x >= y
    <2>1. SUFFICES ASSUME y > x PROVE FALSE
        BY <1>2
    <2>2. x \in Int /\ y \in Int /\ \A z \in S : z \in Int
        BY <1>2
    <2>3. x \in up[x] /\ x \notin up[y]
        BY <2>1, <2>2
    <2>4. ASSUME NEW z \in up[y] PROVE z \in up[x]
        BY <2>1, <2>2, <2>4
    <2> HIDE DEF up
    <2>5. QED BY <1>1, <2>3, <2>4
<1>3. S \subseteq Int => \E m \in S : \A y \in S : m >= y
    BY <1>2
<1>4. QED BY <1>3 DEF Max

\* A finite set of numbers has a smallest.
LEMMA MinIn ==
    ASSUME NEW S, IsFiniteSet(S), S # {}
    PROVE  S \subseteq Int => \E m \in S : \A y \in S : m =< y
<1> DEFINE up == [x \in S |-> {y \in S : y =< x}]
<1>1. PICK x \in S : \A y \in S : up[y] \subseteq up[x] => up[y] = up[x]
    <2>1. up \in [S -> SUBSET S]
        OBVIOUS
    <2> HIDE DEF up
    <2>2. QED BY <2>1, SmallestPart
<1>2. ASSUME S \subseteq Int, NEW y \in S PROVE x =< y
    <2>1. SUFFICES ASSUME y < x PROVE FALSE
        BY <1>2
    <2>2. x \in Int /\ y \in Int /\ \A z \in S : z \in Int
        BY <1>2
    <2>3. x \in up[x] /\ x \notin up[y]
        BY <2>1, <2>2
    <2>4. ASSUME NEW z \in up[y] PROVE z \in up[x]
        BY <2>1, <2>2, <2>4
    <2> HIDE DEF up
    <2>5. QED BY <1>1, <2>3, <2>4
<1>3. QED BY <1>2
=============================================================================
