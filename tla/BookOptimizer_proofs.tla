-------------------------- MODULE BookOptimizer_proofs --------------------------
(***************************************************************************)
(* Proofs about the book optimizer and the desk that acts on it, for every *)
(* finite book, every limits, caps and dust share.                         *)
(*                                                                         *)
(* The properties compare sums.  The first two sections prove what is      *)
(* needed of a sum over a finite set: an induction over its subsets is an  *)
(* argument by a least counterexample, which is first-order.               *)
(***************************************************************************)
EXTENDS BookOptimizer, FiniteSetTheorems, WellFoundedInduction, TLAPS

-----------------------------------------------------------------------------
(* Induction over the subsets of a finite set *)

\* A set of subsets of a finite set has a least element.
LEMMA LeastSubset ==
    ASSUME NEW S, IsFiniteSet(S), NEW Bad \in SUBSET (SUBSET S), Bad # {}
    PROVE  \E D \in Bad : \A U \in SUBSET D : U # D => U \notin Bad
<1>1. Bad \subseteq FiniteSubsetsOf(S)
  BY FS_FiniteSubsetsOfFinite
<1>2. IsWellFoundedOn(StrictSubsetOrdering(S), FiniteSubsetsOf(S))
  BY FS_StrictSubsetOrderingWellFounded
<1>3. PICK D \in Bad : \A E \in Bad : <<E, D>> \notin StrictSubsetOrdering(S)
  BY <1>1, <1>2, WFMin
<1>4. ASSUME NEW U \in SUBSET D, U # D, U \in Bad PROVE FALSE
  <2>1. <<U, D>> \in StrictSubsetOrdering(S)
    BY <1>4 DEF StrictSubsetOrdering
  <2>2. QED
    BY <1>3, <1>4, <2>1
<1>5. QED
  BY <1>4

\* What holds of the empty set and is kept when one element is added holds of S.
LEMMA SetInduction ==
    ASSUME NEW S, IsFiniteSet(S), NEW Good, {} \in Good,
           \A T \in SUBSET S : \A x \in S \ T : T \in Good => T \cup {x} \in Good
    PROVE  S \in Good
<1> SUFFICES ASSUME S \notin Good PROVE FALSE
  OBVIOUS
<1> DEFINE Bad == {T \in SUBSET S : T \notin Good}
<1>1. PICK D \in Bad : \A U \in SUBSET D : U # D => U \notin Bad
  <2>1. Bad \in SUBSET (SUBSET S) /\ Bad # {}
    OBVIOUS
  <2> HIDE DEF Bad
  <2>2. QED
    BY <2>1, LeastSubset
<1>2. PICK x \in D : TRUE
  OBVIOUS
<1>3. D \ {x} \in Good
  BY <1>1, <1>2
<1>4. (D \ {x}) \cup {x} = D
  BY <1>2
<1>5. QED
  BY <1>2, <1>3, <1>4

-----------------------------------------------------------------------------
(* Sums over a finite set *)

\* g gives every subset of S its sum, whichever element is taken out first.
IsAdditive(g, f, S) ==
    \A U \in SUBSET S :
        /\ g[U] \in Int
        /\ U = {} => g[U] = 0
        /\ \A y \in U : g[U] = f[y] + g[U \ {y}]

LEMMA AdditiveExists ==
    ASSUME NEW S, IsFiniteSet(S), NEW f, \A x \in S : f[x] \in Int
    PROVE  \E g : IsAdditive(g, f, S)
<1> DEFINE Good == {T \in SUBSET S : \E g : IsAdditive(g, f, T)}
<1>1. {} \in Good
  <2>1. IsAdditive([U \in {{}} |-> 0], f, {})
    BY DEF IsAdditive
  <2>2. QED
    BY <2>1
<1>2. ASSUME NEW T \in SUBSET S, NEW x \in S \ T, T \in Good
      PROVE  T \cup {x} \in Good
  <2>1. PICK g : IsAdditive(g, f, T)
    BY <1>2
  <2> DEFINE h == [U \in SUBSET (T \cup {x}) |->
                      IF x \in U THEN f[x] + g[U \ {x}] ELSE g[U]]
  <2>2. ASSUME NEW U \in SUBSET (T \cup {x})
        PROVE  /\ h[U] \in Int
               /\ U = {} => h[U] = 0
               /\ \A y \in U : h[U] = f[y] + h[U \ {y}]
    <3>1. CASE x \notin U
      <4>1. U \in SUBSET T /\ h[U] = g[U] /\ \A y \in U : h[U \ {y}] = g[U \ {y}]
        BY <3>1
      <4> HIDE DEF h
      <4>2. QED
        BY <2>1, <4>1 DEF IsAdditive
    <3>2. CASE x \in U
      <4>1. U \ {x} \in SUBSET T
        OBVIOUS
      <4>2. h[U] = f[x] + g[U \ {x}] /\ h[U \ {x}] = g[U \ {x}]
        BY <3>2
      <4>3. f[x] \in Int /\ g[U \ {x}] \in Int
        BY <2>1, <4>1 DEF IsAdditive
      <4>4. ASSUME NEW y \in U, y # x
            PROVE  h[U] = f[y] + h[U \ {y}]
        <5>1. /\ y \in U \ {x} /\ (U \ {y}) \ {x} = (U \ {x}) \ {y}
              /\ (U \ {x}) \ {y} \in SUBSET T
          BY <4>1, <4>4
        <5>2. /\ g[U \ {x}] = f[y] + g[(U \ {x}) \ {y}]
              /\ g[(U \ {x}) \ {y}] \in Int
          BY <2>1, <4>1, <5>1 DEF IsAdditive
        <5>3. h[U \ {y}] = f[x] + g[(U \ {x}) \ {y}]
          BY <3>2, <4>4, <5>1
        <5>4. f[y] \in Int
          BY <4>4
        <5> HIDE DEF h
        <5>5. QED
          BY <4>2, <4>3, <5>2, <5>3, <5>4
      <4> HIDE DEF h
      <4>5. h[U] \in Int /\ h[U] = f[x] + h[U \ {x}]
        BY <4>2, <4>3
      <4>6. \A y \in U : h[U] = f[y] + h[U \ {y}]
        BY <4>4, <4>5
      <4>7. QED
        BY <3>2, <4>5, <4>6
    <3>3. QED
      BY <3>1, <3>2
  <2>3. IsAdditive(h, f, T \cup {x})
    <3> HIDE DEF h
    <3> QED
      BY <2>2 DEF IsAdditive
  <2>4. QED
    BY <2>3
<1> HIDE DEF Good
<1>3. S \in Good
  BY <1>1, <1>2, SetInduction
<1>4. QED
  BY <1>3 DEF Good

\* The sum of the community modules, with its recursion written out.
TakenFirst(T) == CHOOSE x \in T : TRUE

Recurses(g, f, S) ==
    g = [T \in SUBSET S |-> IF T = {} THEN 0
                            ELSE f[TakenFirst(T)] + g[T \ {TakenFirst(T)}]]

LEMMA SumUnfolds ==
    ASSUME NEW f, NEW S
    PROVE  SumFunctionOnSet(f, S) = (CHOOSE g : Recurses(g, f, S))[S]
BY DEF SumFunctionOnSet, FoldFunctionOnSet, MapThenFoldSet, Recurses, TakenFirst

\* An additive function gives a set the sum.
LEMMA SumIsAdditive ==
    ASSUME NEW S, IsFiniteSet(S), NEW f, \A x \in S : f[x] \in Int,
           NEW g, IsAdditive(g, f, S)
    PROVE  SumFunctionOnSet(f, S) = g[S]
<1>1. \A T \in SUBSET S : T # {} => TakenFirst(T) \in T
  BY DEF TakenFirst
<1>2. \E h : Recurses(h, f, S)
  <2> DEFINE h == [T \in SUBSET S |-> g[T]]
  <2>1. \A T \in SUBSET S :
           g[T] = IF T = {} THEN 0 ELSE f[TakenFirst(T)] + g[T \ {TakenFirst(T)}]
    BY <1>1 DEF IsAdditive
  <2>2. \A T \in SUBSET S : T # {} => h[T \ {TakenFirst(T)}] = g[T \ {TakenFirst(T)}]
    OBVIOUS
  <2>3. Recurses(h, f, S)
    BY <2>1, <2>2 DEF Recurses
  <2>4. QED
    BY <2>3
<1> DEFINE sum == CHOOSE h : Recurses(h, f, S)
<1>3. Recurses(sum, f, S)
  BY <1>2
<1> HIDE DEF sum
<1> DEFINE Bad == {T \in SUBSET S : sum[T] # g[T]}
<1>4. Bad = {}
  <2> SUFFICES ASSUME Bad # {} PROVE FALSE
    OBVIOUS
  <2>1. PICK D \in Bad : \A U \in SUBSET D : U # D => U \notin Bad
    <3>1. Bad \in SUBSET (SUBSET S)
      OBVIOUS
    <3> HIDE DEF Bad
    <3>2. QED
      BY <3>1, LeastSubset
  <2>2. sum[D] = IF D = {} THEN 0 ELSE f[TakenFirst(D)] + sum[D \ {TakenFirst(D)}]
    BY <1>3 DEF Recurses
  <2>3. D # {}
    BY <2>2 DEF IsAdditive
  <2>4. TakenFirst(D) \in D
    BY <1>1, <2>3
  <2>5. sum[D \ {TakenFirst(D)}] = g[D \ {TakenFirst(D)}]
    BY <2>1, <2>4
  <2>6. g[D] = f[TakenFirst(D)] + g[D \ {TakenFirst(D)}]
    BY <2>4 DEF IsAdditive
  <2>7. QED
    BY <2>2, <2>3, <2>5, <2>6
<1>5. QED
  BY <1>4, SumUnfolds DEF sum

\* The sum is an integer, and any element can be taken out of it.
LEMMA SumFacts ==
    ASSUME NEW S, IsFiniteSet(S), NEW f, \A x \in S : f[x] \in Int
    PROVE  /\ SumFunctionOnSet(f, S) \in Int
           /\ S = {} => SumFunctionOnSet(f, S) = 0
           /\ \A x \in S : SumFunctionOnSet(f, S) = f[x] + SumFunctionOnSet(f, S \ {x})
<1>1. PICK g : IsAdditive(g, f, S)
  BY AdditiveExists
<1>2. ASSUME NEW T \in SUBSET S PROVE SumFunctionOnSet(f, T) = g[T]
  <2>1. IsFiniteSet(T)
    BY FS_Subset
  <2>2. IsAdditive(g, f, T)
    BY <1>1 DEF IsAdditive
  <2>3. QED
    BY <2>1, <2>2, SumIsAdditive
<1>3. SumFunctionOnSet(f, S) = g[S]
  BY <1>2
<1>4. \A x \in S : SumFunctionOnSet(f, S \ {x}) = g[S \ {x}]
  BY <1>2
<1>5. g[S] \in Int /\ (S = {} => g[S] = 0) /\ \A x \in S : g[S] = f[x] + g[S \ {x}]
  BY <1>1 DEF IsAdditive
<1>6. QED
  BY <1>3, <1>4, <1>5

\* An element that is added adds its value.
LEMMA SumAdd ==
    ASSUME NEW S, IsFiniteSet(S), NEW x, x \notin S,
           NEW f, \A y \in S \cup {x} : f[y] \in Int
    PROVE  SumFunctionOnSet(f, S \cup {x}) = f[x] + SumFunctionOnSet(f, S)
<1>1. IsFiniteSet(S \cup {x})
  BY FS_AddElement
<1>2. (S \cup {x}) \ {x} = S
  OBVIOUS
<1>3. QED
  BY <1>1, <1>2, SumFacts

\* A sum of naturals is a natural.
LEMMA SumNat ==
    ASSUME NEW S, IsFiniteSet(S), NEW f, \A x \in S : f[x] \in Nat
    PROVE  SumFunctionOnSet(f, S) \in Nat
<1> DEFINE Good == {T \in SUBSET S : SumFunctionOnSet(f, T) \in Nat}
<1>1. {} \in Good
  BY FS_EmptySet, SumFacts
<1>2. ASSUME NEW T \in SUBSET S, NEW x \in S \ T, T \in Good
      PROVE  T \cup {x} \in Good
  <2>1. IsFiniteSet(T) /\ \A y \in T \cup {x} : f[y] \in Int
    BY FS_Subset
  <2>2. SumFunctionOnSet(f, T \cup {x}) = f[x] + SumFunctionOnSet(f, T)
    BY <2>1, SumAdd
  <2>3. f[x] \in Nat /\ SumFunctionOnSet(f, T) \in Nat
    BY <1>2
  <2>4. QED
    BY <2>2, <2>3
<1> HIDE DEF Good
<1>3. S \in Good
  BY <1>1, <1>2, SetInduction
<1>4. QED
  BY <1>3 DEF Good

\* A sum of zeros is zero.
LEMMA SumZero ==
    ASSUME NEW S, IsFiniteSet(S), NEW f, \A x \in S : f[x] = 0
    PROVE  SumFunctionOnSet(f, S) = 0
<1> DEFINE Good == {T \in SUBSET S : SumFunctionOnSet(f, T) = 0}
<1>1. {} \in Good
  BY FS_EmptySet, SumFacts
<1>2. ASSUME NEW T \in SUBSET S, NEW x \in S \ T, T \in Good
      PROVE  T \cup {x} \in Good
  <2>1. IsFiniteSet(T) /\ \A y \in T \cup {x} : f[y] \in Int
    BY FS_Subset
  <2>2. SumFunctionOnSet(f, T \cup {x}) = f[x] + SumFunctionOnSet(f, T)
    BY <2>1, SumAdd
  <2>3. f[x] = 0 /\ SumFunctionOnSet(f, T) = 0
    BY <1>2
  <2>4. QED
    BY <2>2, <2>3
<1> HIDE DEF Good
<1>3. S \in Good
  BY <1>1, <1>2, SetInduction
<1>4. QED
  BY <1>3 DEF Good

\* Larger values have the larger sum.
LEMMA SumMonotone ==
    ASSUME NEW S, IsFiniteSet(S), NEW f, NEW g,
           \A x \in S : f[x] \in Int /\ g[x] \in Int /\ f[x] <= g[x]
    PROVE  SumFunctionOnSet(f, S) <= SumFunctionOnSet(g, S)
<1> DEFINE Good == {T \in SUBSET S : SumFunctionOnSet(f, T) <= SumFunctionOnSet(g, T)}
<1>1. {} \in Good
  <2>1. SumFunctionOnSet(f, {}) = 0 /\ SumFunctionOnSet(g, {}) = 0
    BY FS_EmptySet, SumFacts
  <2>2. QED
    BY <2>1
<1>2. ASSUME NEW T \in SUBSET S, NEW x \in S \ T, T \in Good
      PROVE  T \cup {x} \in Good
  <2>1. IsFiniteSet(T)
    BY FS_Subset
  <2>2. /\ SumFunctionOnSet(f, T \cup {x}) = f[x] + SumFunctionOnSet(f, T)
        /\ SumFunctionOnSet(g, T \cup {x}) = g[x] + SumFunctionOnSet(g, T)
    BY <2>1, SumAdd
  <2>3. SumFunctionOnSet(f, T) \in Int /\ SumFunctionOnSet(g, T) \in Int
    BY <2>1, SumFacts
  <2>4. SumFunctionOnSet(f, T) <= SumFunctionOnSet(g, T)
    BY <1>2
  <2>5. f[x] \in Int /\ g[x] \in Int /\ f[x] <= g[x]
    OBVIOUS
  <2>6. QED
    BY <2>2, <2>3, <2>4, <2>5
<1> HIDE DEF Good
<1>3. S \in Good
  BY <1>1, <1>2, SetInduction
<1>4. QED
  BY <1>3 DEF Good

\* Equal values have the same sum.
LEMMA SumSame ==
    ASSUME NEW S, IsFiniteSet(S), NEW f, NEW g,
           \A x \in S : f[x] \in Int /\ g[x] = f[x]
    PROVE  SumFunctionOnSet(f, S) = SumFunctionOnSet(g, S)
<1>1. SumFunctionOnSet(f, S) <= SumFunctionOnSet(g, S)
  BY SumMonotone
<1>2. SumFunctionOnSet(g, S) <= SumFunctionOnSet(f, S)
  BY SumMonotone
<1>3. SumFunctionOnSet(f, S) \in Int /\ SumFunctionOnSet(g, S) \in Int
  BY SumFacts
<1>4. QED
  BY <1>1, <1>2, <1>3

\* The sum over two disjoint sets is the sum of both sums.
LEMMA SumUnion ==
    ASSUME NEW S, IsFiniteSet(S), NEW T, IsFiniteSet(T), S \cap T = {},
           NEW f, \A x \in S \cup T : f[x] \in Int
    PROVE  SumFunctionOnSet(f, S \cup T) = SumFunctionOnSet(f, S) + SumFunctionOnSet(f, T)
<1> DEFINE Good == {U \in SUBSET T : SumFunctionOnSet(f, S \cup U)
                                  = SumFunctionOnSet(f, S) + SumFunctionOnSet(f, U)}
<1>1. SumFunctionOnSet(f, S) \in Int
  BY SumFacts
<1>2. {} \in Good
  <2>1. SumFunctionOnSet(f, {}) = 0 /\ S \cup {} = S
    BY FS_EmptySet, SumFacts
  <2>2. QED
    BY <1>1, <2>1
<1>3. ASSUME NEW U \in SUBSET T, NEW x \in T \ U, U \in Good
      PROVE  U \cup {x} \in Good
  <2>1. IsFiniteSet(U) /\ IsFiniteSet(S \cup U)
    BY FS_Subset, FS_Union
  <2>2. SumFunctionOnSet(f, U \cup {x}) = f[x] + SumFunctionOnSet(f, U)
    BY <2>1, SumAdd
  <2>3. SumFunctionOnSet(f, (S \cup U) \cup {x}) = f[x] + SumFunctionOnSet(f, S \cup U)
    BY <2>1, SumAdd
  <2>4. (S \cup U) \cup {x} = S \cup (U \cup {x})
    OBVIOUS
  <2>5. f[x] \in Int /\ SumFunctionOnSet(f, U) \in Int
    BY <2>1, SumFacts
  <2>6. SumFunctionOnSet(f, S \cup U) = SumFunctionOnSet(f, S) + SumFunctionOnSet(f, U)
    BY <1>3
  <2>7. SumFunctionOnSet(f, (S \cup U) \cup {x})
          = SumFunctionOnSet(f, S) + SumFunctionOnSet(f, U \cup {x})
    BY <1>1, <2>2, <2>3, <2>5, <2>6
  <2>8. QED
    BY <2>4, <2>7
<1> HIDE DEF Good
<1>4. T \in Good
  BY <1>2, <1>3, SetInduction
<1>5. QED
  BY <1>4 DEF Good

\* Fewer naturals have the smaller sum.
LEMMA SumSubset ==
    ASSUME NEW S, IsFiniteSet(S), NEW T \in SUBSET S,
           NEW f, \A x \in S : f[x] \in Nat
    PROVE  SumFunctionOnSet(f, T) <= SumFunctionOnSet(f, S)
<1>1. IsFiniteSet(T) /\ IsFiniteSet(S \ T)
  BY FS_Subset
<1>2. /\ SumFunctionOnSet(f, T) \in Nat
      /\ SumFunctionOnSet(f, S \ T) \in Nat
  BY <1>1, SumNat
<1>3. T \cup (S \ T) = S /\ T \cap (S \ T) = {}
  OBVIOUS
<1>4. SumFunctionOnSet(f, S) = SumFunctionOnSet(f, T) + SumFunctionOnSet(f, S \ T)
  BY <1>1, <1>3, SumUnion
<1>5. QED
  BY <1>2, <1>4

\* Values that each have one of their own above them have the smaller sum.
LEMMA SumAlong ==
    ASSUME NEW S, IsFiniteSet(S), NEW T, IsFiniteSet(T),
           NEW f, \A x \in S : f[x] \in Int,
           NEW g, \A y \in T : g[y] \in Nat,
           NEW h, \A x \in S : h[x] \in T /\ f[x] <= g[h[x]],
           \A x, y \in S : h[x] = h[y] => x = y
    PROVE  SumFunctionOnSet(f, S) <= SumFunctionOnSet(g, T)
<1> DEFINE Image(U) == {h[x] : x \in U}
           Good == {U \in SUBSET S : SumFunctionOnSet(f, U) <= SumFunctionOnSet(g, Image(U))}
<1>1. \A U \in SUBSET S : Image(U) \in SUBSET T /\ IsFiniteSet(Image(U))
  BY FS_Subset
<1>2. {} \in Good
  <2>1. SumFunctionOnSet(f, {}) = 0 /\ SumFunctionOnSet(g, {}) = 0
    BY FS_EmptySet, SumFacts
  <2>2. Image({}) = {}
    OBVIOUS
  <2> HIDE DEF Image
  <2>3. QED
    BY <2>1, <2>2
<1>3. ASSUME NEW U \in SUBSET S, NEW x \in S \ U, U \in Good
      PROVE  U \cup {x} \in Good
  <2>1. IsFiniteSet(U) /\ Image(U) \in SUBSET T /\ IsFiniteSet(Image(U))
    BY <1>1, FS_Subset
  <2>2. Image(U \cup {x}) = Image(U) \cup {h[x]} /\ h[x] \notin Image(U)
    OBVIOUS
  <2> HIDE DEF Image
  <2>3. SumFunctionOnSet(f, U \cup {x}) = f[x] + SumFunctionOnSet(f, U)
    BY <2>1, SumAdd
  <2> DEFINE hx == h[x]
  <2>4. SumFunctionOnSet(g, Image(U) \cup {hx}) = g[hx] + SumFunctionOnSet(g, Image(U))
    <3>1. hx \notin Image(U) /\ \A y \in Image(U) \cup {hx} : g[y] \in Int
      BY <2>1, <2>2
    <3> HIDE DEF hx
    <3>2. QED
      BY <2>1, <3>1, SumAdd
  <2>5. /\ SumFunctionOnSet(f, U) \in Int
        /\ SumFunctionOnSet(g, Image(U)) \in Int
        /\ f[x] \in Int /\ g[h[x]] \in Int /\ f[x] <= g[h[x]]
    BY <2>1, SumFacts
  <2>6. SumFunctionOnSet(f, U) <= SumFunctionOnSet(g, Image(U))
    BY <1>3
  <2>7. SumFunctionOnSet(f, U \cup {x}) <= SumFunctionOnSet(g, Image(U) \cup {h[x]})
    BY <2>3, <2>4, <2>5, <2>6
  <2>8. QED
    BY <2>2, <2>7
<1>4. S \in Good
  <2> HIDE DEF Good
  <2> QED
    BY <1>2, <1>3, SetInduction
<1>5. SumFunctionOnSet(f, S) <= SumFunctionOnSet(g, Image(S))
  BY <1>4
<1>6. Image(S) \in SUBSET T /\ IsFiniteSet(Image(S))
  BY <1>1
<1> HIDE DEF Image
<1>7. SumFunctionOnSet(g, Image(S)) <= SumFunctionOnSet(g, T)
  BY <1>6, SumSubset
<1>8. /\ SumFunctionOnSet(f, S) \in Int /\ SumFunctionOnSet(g, T) \in Int
      /\ SumFunctionOnSet(g, Image(S)) \in Int
  BY <1>6, SumFacts
<1>9. QED
  BY <1>5, <1>7, <1>8

\* A sum can be taken class by class.
LEMMA SumByClass ==
    ASSUME NEW S, IsFiniteSet(S), NEW C, IsFiniteSet(C),
           NEW f, \A x \in S : f[x] \in Int,
           NEW k, \A x \in S : k[x] \in C
    PROVE  SumFunctionOnSet(f, S)
             = SumFunctionOnSet([c \in C |-> SumFunctionOnSet(f, {x \in S : k[x] = c})], C)
<1> DEFINE Class(c) == {x \in S : k[x] = c}
           Of(D) == {x \in S : k[x] \in D}
           F == [c \in C |-> SumFunctionOnSet(f, Class(c))]
           Good == {D \in SUBSET C : SumFunctionOnSet(f, Of(D)) = SumFunctionOnSet(F, D)}
<1>1. \A c \in C : IsFiniteSet(Class(c))
  BY FS_Subset
<1>2. \A D \in SUBSET C : IsFiniteSet(Of(D)) /\ Of(D) \in SUBSET S
  BY FS_Subset
<1>3. \A c \in C : F[c] \in Int /\ F[c] = SumFunctionOnSet(f, Class(c))
  <2> SUFFICES ASSUME NEW c \in C
               PROVE  F[c] \in Int /\ F[c] = SumFunctionOnSet(f, Class(c))
    OBVIOUS
  <2>1. SumFunctionOnSet(f, Class(c)) \in Int
    BY <1>1, SumFacts
  <2>2. QED
    BY <2>1
<1>4. {} \in Good
  <2>1. SumFunctionOnSet(f, {}) = 0 /\ SumFunctionOnSet(F, {}) = 0
    <3> HIDE DEF F
    <3> QED
      BY FS_EmptySet, SumFacts
  <2>2. Of({}) = {}
    OBVIOUS
  <2> HIDE DEF Of, F
  <2>3. QED
    BY <2>1, <2>2
<1>5. ASSUME NEW D \in SUBSET C, NEW c \in C \ D, D \in Good
      PROVE  D \cup {c} \in Good
  <2>1. IsFiniteSet(D) /\ IsFiniteSet(Of(D)) /\ IsFiniteSet(Class(c))
    BY <1>1, <1>2, FS_Subset
  <2>2. /\ Of(D \cup {c}) = Of(D) \cup Class(c) /\ Of(D) \cap Class(c) = {}
        /\ Of(D) \cup Class(c) \subseteq S
    OBVIOUS
  <2>3. SumFunctionOnSet(f, Of(D)) = SumFunctionOnSet(F, D)
    BY <1>5
  <2> HIDE DEF Of, Class, F
  <2>4. SumFunctionOnSet(f, Of(D) \cup Class(c))
          = SumFunctionOnSet(f, Of(D)) + SumFunctionOnSet(f, Class(c))
    BY <2>1, <2>2, SumUnion
  <2>5. SumFunctionOnSet(F, D \cup {c}) = F[c] + SumFunctionOnSet(F, D)
    BY <1>3, <2>1, SumAdd
  <2>6. SumFunctionOnSet(F, D) \in Int /\ F[c] \in Int
    BY <1>3, <2>1, SumFacts
  <2>7. F[c] = SumFunctionOnSet(f, Class(c))
    BY <1>3
  <2>8. SumFunctionOnSet(f, Of(D) \cup Class(c)) = SumFunctionOnSet(F, D \cup {c})
    BY <2>3, <2>4, <2>5, <2>6, <2>7
  <2>9. QED
    BY <2>2, <2>8
<1>6. Of(C) = S
  OBVIOUS
<1>7. C \in Good
  <2> HIDE DEF Good
  <2> QED
    BY <1>4, <1>5, SetInduction
<1>8. SumFunctionOnSet(f, Of(C)) = SumFunctionOnSet(F, C)
  BY <1>7
<1> HIDE DEF Of
<1>9. QED
  BY <1>6, <1>8

\* Changing one value changes the sum by the difference.
LEMMA SumUpdate ==
    ASSUME NEW S, IsFiniteSet(S), NEW f, NEW g, NEW x \in S,
           \A y \in S : f[y] \in Int /\ g[y] \in Int,
           \A y \in S \ {x} : g[y] = f[y]
    PROVE  SumFunctionOnSet(g, S) = SumFunctionOnSet(f, S) - f[x] + g[x]
<1>1. IsFiniteSet(S \ {x})
  BY FS_RemoveElement
<1>2. SumFunctionOnSet(f, S \ {x}) = SumFunctionOnSet(g, S \ {x})
  BY <1>1, SumSame
<1>3. /\ SumFunctionOnSet(f, S) = f[x] + SumFunctionOnSet(f, S \ {x})
      /\ SumFunctionOnSet(g, S) = g[x] + SumFunctionOnSet(g, S \ {x})
  BY SumFacts
<1>4. /\ SumFunctionOnSet(f, S \ {x}) \in Int
      /\ f[x] \in Int /\ g[x] \in Int
  BY <1>1, SumFacts
<1>5. QED
  BY <1>2, <1>3, <1>4

-----------------------------------------------------------------------------
(* Books *)

LEMMA FiniteParts ==
    /\ IsFiniteSet(Security) /\ IsFiniteSet(Cpty) /\ IsFiniteSet(Position)
    /\ \A book : Held(book) \in SUBSET Position /\ IsFiniteSet(Held(book))
<1>1. IsFiniteSet(Security) /\ IsFiniteSet(Cpty)
  BY OptimizerAssumption
<1>2. IsFiniteSet(Position)
  BY <1>1, FS_Product DEF Position
<1>3. \A book : Held(book) \in SUBSET Position
  BY DEF Held
<1>4. \A book : IsFiniteSet(Held(book))
  BY <1>2, <1>3, FS_Subset
<1>5. QED
  BY <1>1, <1>2, <1>3, <1>4

\* A book of natural balances has a natural total, above the balances of each
\* security, which are above each one of them.
LEMMA TotalFacts ==
    ASSUME NEW book \in [Security -> [Cpty -> Nat]]
    PROVE  /\ Total(book) \in Nat
           /\ \A s \in Security :
                 /\ SumFunction(book[s]) \in Nat
                 /\ SumFunction(book[s]) <= Total(book)
                 /\ \A c \in Cpty : book[s][c] <= SumFunction(book[s])
<1> DEFINE V == [p \in Position |-> ValueOf(book, p)]
<1>1. \A p \in Position : V[p] \in Nat /\ V[p] = book[p[1]][p[2]]
  BY DEF Position, ValueOf
<1>2. Total(book) = SumFunctionOnSet(V, Position)
  BY DEF Total, SumFunction
<1> HIDE DEF V
<1>3. Total(book) \in Nat
  BY <1>1, <1>2, FiniteParts, SumNat
<1>4. ASSUME NEW s \in Security
      PROVE  /\ SumFunction(book[s]) \in Nat
             /\ SumFunction(book[s]) <= Total(book)
             /\ \A c \in Cpty : book[s][c] <= SumFunction(book[s])
  <2>1. \A c \in Cpty : book[s][c] \in Nat /\ book[s][c] \in Int
    OBVIOUS
  <2>2. SumFunction(book[s]) = SumFunctionOnSet(book[s], Cpty)
    BY DEF SumFunction
  <2>3. SumFunctionOnSet(book[s], Cpty) \in Nat
    BY <2>1, FiniteParts, SumNat
  <2>4. SumFunctionOnSet(book[s], Cpty) <= SumFunctionOnSet(V, Position)
    <3> DEFINE h == [c \in Cpty |-> <<s, c>>]
    <3>1. \A c \in Cpty : h[c] \in Position /\ book[s][c] <= V[h[c]]
      BY <1>1, <2>1 DEF Position
    <3>2. \A c, d \in Cpty : h[c] = h[d] => c = d
      OBVIOUS
    <3>3. \A p \in Position : V[p] \in Nat
      BY <1>1
    <3> HIDE DEF h
    <3>4. QED
      BY <2>1, <3>1, <3>2, <3>3, FiniteParts, SumAlong
  <2>5. ASSUME NEW c \in Cpty PROVE book[s][c] <= SumFunctionOnSet(book[s], Cpty)
    <3>1. IsFiniteSet(Cpty \ {c})
      BY FiniteParts, FS_RemoveElement
    <3>2. SumFunctionOnSet(book[s], Cpty)
            = book[s][c] + SumFunctionOnSet(book[s], Cpty \ {c})
      BY <2>1, FiniteParts, SumFacts
    <3>3. SumFunctionOnSet(book[s], Cpty \ {c}) \in Nat
      BY <2>1, <3>1, SumNat
    <3>4. QED
      BY <2>1, <3>2, <3>3
  <2>6. QED
    BY <1>2, <2>2, <2>3, <2>4, <2>5
<1>5. QED
  BY <1>3, <1>4

LEMMA BookFacts ==
    ASSUME NEW book \in Books
    PROVE  /\ book \in [Security -> [Cpty -> Nat]]
           /\ Total(book) \in Nat
           /\ \A s \in Security : SumFunction(book[s]) = SumFunction(OpeningBook[s])
<1>1. OpeningBook \in [Security -> [Cpty -> Nat]]
  BY OptimizerAssumption
<1>2. Total(OpeningBook) \in Nat
  BY <1>1, TotalFacts
<1>3. book \in [Security -> [Cpty -> Nat]]
  BY <1>2 DEF Books
<1>4. QED
  BY <1>3, TotalFacts DEF Books

\* Any way to spread each security's opening balance is a book the desk can get to.
LEMMA IsBook ==
    ASSUME NEW book \in [Security -> [Cpty -> Nat]],
           \A s \in Security : SumFunction(book[s]) = SumFunction(OpeningBook[s])
    PROVE  book \in Books
<1>1. OpeningBook \in [Security -> [Cpty -> Nat]]
  BY OptimizerAssumption
<1>2. Total(OpeningBook) \in Nat
  BY <1>1, TotalFacts
<1>3. ASSUME NEW s \in Security, NEW c \in Cpty
      PROVE  book[s][c] \in 0..Total(OpeningBook)
  <2>1. /\ book[s][c] <= SumFunction(book[s])
        /\ SumFunction(book[s]) \in Nat
    BY TotalFacts
  <2>2. SumFunction(book[s]) <= Total(OpeningBook)
    BY <1>1, TotalFacts
  <2>3. QED
    BY <1>2, <2>1, <2>2
<1>4. book \in [Security -> [Cpty -> 0..Total(OpeningBook)]]
  BY <1>3
<1>5. QED
  BY <1>4 DEF Books

-----------------------------------------------------------------------------
(* Amounts *)

\* The amount of a finite set of recommendations is a sum of one function.
AmountOf == [r \in Recommendation |-> r.amount]

LEMMA AmountIsSum ==
    ASSUME NEW S \in SUBSET Recommendation, IsFiniteSet(S)
    PROVE  /\ \A r \in S : AmountOf[r] = r.amount /\ AmountOf[r] \in Nat /\ AmountOf[r] \in Int
           /\ Amount(S) = SumFunctionOnSet(AmountOf, S)
           /\ Amount(S) \in Nat
           /\ S = {} => Amount(S) = 0
<1> DEFINE f == [r \in S |-> r.amount]
<1>1. \A r \in S : AmountOf[r] = r.amount /\ AmountOf[r] \in Nat /\ AmountOf[r] \in Int
  BY DEF AmountOf, Recommendation
<1>2. Amount(S) = SumFunctionOnSet(f, S)
  BY DEF Amount, SumFunction
<1>3. \A r \in S : f[r] \in Int /\ AmountOf[r] = f[r]
  BY <1>1
<1> HIDE DEF f
<1>4. Amount(S) = SumFunctionOnSet(AmountOf, S)
  BY <1>2, <1>3, SumSame
<1>5. SumFunctionOnSet(AmountOf, S) \in Nat
  BY <1>1, SumNat
<1>6. S = {} => SumFunctionOnSet(AmountOf, S) = 0
  BY <1>1, SumFacts
<1>7. QED
  BY <1>1, <1>4, <1>5, <1>6

LEMMA AmountUnion ==
    ASSUME NEW S \in SUBSET Recommendation, IsFiniteSet(S),
           NEW T \in SUBSET Recommendation, IsFiniteSet(T), S \cap T = {}
    PROVE  Amount(S \cup T) = Amount(S) + Amount(T)
<1>1. IsFiniteSet(S \cup T)
  BY FS_Union
<1>2. \A r \in S \cup T : AmountOf[r] \in Int
  BY <1>1, AmountIsSum
<1>3. SumFunctionOnSet(AmountOf, S \cup T)
        = SumFunctionOnSet(AmountOf, S) + SumFunctionOnSet(AmountOf, T)
  BY <1>2, SumUnion
<1>4. QED
  BY <1>1, <1>3, AmountIsSum

LEMMA AmountSubset ==
    ASSUME NEW S \in SUBSET Recommendation, IsFiniteSet(S), NEW T \in SUBSET S
    PROVE  Amount(T) <= Amount(S)
<1>1. IsFiniteSet(T) /\ IsFiniteSet(S \ T) /\ T \cap (S \ T) = {} /\ S = T \cup (S \ T)
  BY FS_Subset
<1>2. Amount(S) = Amount(T) + Amount(S \ T)
  BY <1>1, AmountUnion
<1>3. Amount(T) \in Nat /\ Amount(S \ T) \in Nat
  BY <1>1, AmountIsSum
<1>4. QED
  BY <1>2, <1>3

LEMMA AmountSingle ==
    ASSUME NEW S \in SUBSET Recommendation, IsFiniteSet(S), NEW r \in Recommendation
    PROVE  /\ r \in S => Amount(S \ {r}) = Amount(S) - r.amount
           /\ r \notin S => Amount(S \cup {r}) = Amount(S) + r.amount
<1>1. IsFiniteSet({r}) /\ IsFiniteSet(S \ {r}) /\ r.amount \in Nat
  BY FS_Singleton, FS_RemoveElement DEF Recommendation
<1>2. Amount({r}) = r.amount
  <2>1. SumFunctionOnSet(AmountOf, {} \cup {r})
          = AmountOf[r] + SumFunctionOnSet(AmountOf, {})
    <3>1. \A q \in {} \cup {r} : AmountOf[q] \in Int
      BY <1>1, AmountIsSum
    <3>2. QED
      BY <3>1, FS_EmptySet, SumAdd
  <2>2. SumFunctionOnSet(AmountOf, {}) = 0 /\ {} \cup {r} = {r}
    BY FS_EmptySet, SumFacts
  <2>3. /\ AmountOf[r] = r.amount
        /\ Amount({r}) = SumFunctionOnSet(AmountOf, {r})
    BY <1>1, AmountIsSum
  <2>4. QED
    BY <1>1, <2>1, <2>2, <2>3
<1>3. /\ Amount(S) \in Nat /\ Amount(S \ {r}) \in Nat
  BY <1>1, AmountIsSum
<1>4. ASSUME r \in S PROVE Amount(S \ {r}) = Amount(S) - r.amount
  <2>1. (S \ {r}) \cup {r} = S /\ (S \ {r}) \cap {r} = {}
    BY <1>4
  <2>2. Amount((S \ {r}) \cup {r}) = Amount(S \ {r}) + Amount({r})
    BY <1>1, <2>1, AmountUnion
  <2>3. Amount(S) = Amount(S \ {r}) + r.amount
    BY <1>2, <2>1, <2>2
  <2>4. QED
    BY <1>1, <1>3, <2>3
<1>5. ASSUME r \notin S PROVE Amount(S \cup {r}) = Amount(S) + r.amount
  <2>1. S \cap {r} = {} /\ {r} \in SUBSET Recommendation
    BY <1>5
  <2>2. Amount(S \cup {r}) = Amount(S) + Amount({r})
    BY <1>1, <2>1, AmountUnion
  <2>3. QED
    BY <1>2, <2>2
<1>6. QED
  BY <1>4, <1>5

-----------------------------------------------------------------------------
(* What a cycle recommends *)

\* The recommendations of a cycle that looked at a book keep within its positions,
\* the counterparty limits and the issuer caps.
Sound(book, R) ==
    /\ R \subseteq Recommendation /\ IsFiniteSet(R)
    /\ \A s \in Security, c \in Cpty :
          Amount({r \in R : r.security = s /\ r.from = c}) <= book[s][c]
    /\ \A c \in Cpty : Limit[c] # None => Amount({r \in R : r.to = c}) <= Limit[c]
    /\ \A s \in Security :
          100 * Amount({r \in R : IssuerOf[r.security] = IssuerOf[s]})
              <= IssuerCapPct * Total(book)

\* A nonempty set of naturals that is finite has a largest element.
LEMMA MaxNat ==
    ASSUME NEW S \in SUBSET Nat, IsFiniteSet(S), S # {}
    PROVE  Max(S) \in Nat /\ \A n \in S : n <= Max(S)
<1> DEFINE Good == {T \in SUBSET S : T = {} \/ \E m \in T : \A n \in T : n <= m}
<1>1. {} \in Good
  OBVIOUS
<1>2. ASSUME NEW T \in SUBSET S, NEW x \in S \ T, T \in Good
      PROVE  T \cup {x} \in Good
  <2>1. CASE T = {}
    BY <2>1
  <2>2. ASSUME NEW m \in T, \A n \in T : n <= m
        PROVE  \E k \in T \cup {x} : \A n \in T \cup {x} : n <= k
    <3>1. CASE x <= m
      BY <2>2, <3>1
    <3>2. CASE ~(x <= m)
      <4>1. \A n \in T \cup {x} : n <= x
        BY <2>2, <3>2
      <4>2. QED
        BY <4>1
    <3>3. QED
      BY <3>1, <3>2
  <2>3. QED
    BY <1>2, <2>1, <2>2
<1>3. S \in Good
  <2> HIDE DEF Good
  <2> QED
    BY <1>1, <1>2, SetInduction
<1>4. \E m \in S : \A n \in S : m >= n
  BY <1>3
<1>5. Max(S) \in S /\ \A n \in S : Max(S) >= n
  BY <1>4 DEF Max
<1>6. QED
  BY <1>5

\* A book with a position has a largest balance.
LEMMA LargestValue ==
    ASSUME NEW book \in Books, Position # {}
    PROVE  Max({ValueOf(book, p) : p \in Position}) \in Nat
<1> DEFINE values == {ValueOf(book, p) : p \in Position}
<1>1. values \subseteq Nat /\ values # {}
  BY BookFacts DEF ValueOf, Position
<1>2. IsFiniteSet(values)
  <2> DEFINE f == [q \in Position |-> ValueOf(book, q)]
  <2>1. f \in Surjection(Position, values)
    BY DEF Surjection
  <2>2. QED
    BY <2>1, FiniteParts, FS_Surjection
<1>3. Max(values) \in Nat
  <2> HIDE DEF values
  <2> QED
    BY <1>1, <1>2, MaxNat
<1>4. QED
  BY <1>3

\* A solution allocates natural amounts, and refining them takes some away.
LEMMA SolutionFacts ==
    ASSUME NEW book \in Books, NEW x \in Solutions(book)
    PROVE  /\ DOMAIN x = Held(book) /\ DOMAIN Refined(book, x) = Held(book)
           /\ \A p \in Held(book) :
                 /\ x[p] \in [Cpty -> Nat] /\ Refined(book, x)[p] \in [Cpty -> Nat]
                 /\ \A c \in Cpty : Refined(book, x)[p][c] <= x[p][c]
                 /\ AllocatedOf(x, p) <= ValueOf(book, p)
           /\ \A c \in Cpty : Limit[c] # None => AllocatedTo(x, c) <= Limit[c]
           /\ WithinIssuerCaps(book, x)
<1> DEFINE top == Max({ValueOf(book, p) : p \in Position})
<1>1. x \in [Held(book) -> [Cpty -> 0..top]]
  BY DEF Solutions
<1>2. ASSUME NEW p \in Held(book) PROVE 0..top \subseteq Nat
  <2>1. top \in Nat
    BY LargestValue DEF Held
  <2>2. QED
    BY <2>1
<1> HIDE DEF top
<1>3. ASSUME NEW p \in Held(book)
      PROVE  /\ x[p] \in [Cpty -> Nat] /\ Refined(book, x)[p] \in [Cpty -> Nat]
             /\ \A c \in Cpty : Refined(book, x)[p][c] <= x[p][c]
  BY <1>1, <1>2 DEF Refined
<1>4. /\ \A p \in Held(book) : AllocatedOf(x, p) <= ValueOf(book, p)
      /\ \A c \in Cpty : Limit[c] # None => AllocatedTo(x, c) <= Limit[c]
      /\ WithinIssuerCaps(book, x)
  BY <1>1 DEF Solutions, WithinPositions, WithinLimits
<1>5. DOMAIN x = Held(book) /\ DOMAIN Refined(book, x) = Held(book)
  BY <1>1 DEF Refined
<1>6. QED
  BY <1>3, <1>4, <1>5

\* The position a recommendation is about, and the cell of the solution it is.
PositionOf(r) == <<r.security, r.from>>

\* A recommendation is an allocation of the solution, less the dust, and no other
\* recommendation of the cycle is the same one.
LEMMA RecommendationFacts ==
    ASSUME NEW book \in Books, NEW x \in Solutions(book), NEW cold,
           NEW R, R = Recommendations(Refined(book, x), cold)
    PROVE  /\ R \subseteq Recommendation /\ IsFiniteSet(R)
           /\ \A r \in R : /\ PositionOf(r) \in Held(book)
                           /\ r.amount <= x[PositionOf(r)][r.to]
           /\ \A q, r \in R : PositionOf(q) = PositionOf(r) /\ q.to = r.to => q = r
<1> DEFINE y == Refined(book, x)
           M == {m \in (DOMAIN y) \X Cpty : /\ y[m[1]][m[2]] > 0
                                            /\ ~(m[1][2] = m[2] /\ m[1] \in cold)}
           Rec(m) == [security |-> m[1][1], from |-> m[1][2], to |-> m[2],
                      amount |-> y[m[1]][m[2]]]
<1>1. R = {Rec(m) : m \in M}
  BY DEF Recommendations
<1>2. /\ DOMAIN y = Held(book) /\ Held(book) \in SUBSET Position
      /\ \A p \in Held(book) : /\ y[p] \in [Cpty -> Nat]
                               /\ \A c \in Cpty : y[p][c] <= x[p][c]
  BY SolutionFacts, FiniteParts
<1> HIDE DEF y
<1>3. ASSUME NEW m \in M
      PROVE  /\ Rec(m) \in Recommendation
             /\ PositionOf(Rec(m)) = m[1] /\ m[1] \in Held(book)
             /\ Rec(m).to = m[2] /\ m = <<m[1], m[2]>>
             /\ Rec(m).amount <= x[m[1]][m[2]]
  <2>1. m[1] \in Position /\ m[1] \in Held(book) /\ m[2] \in Cpty /\ m = <<m[1], m[2]>>
    BY <1>2
  <2>2. m[1][1] \in Security /\ m[1][2] \in Cpty /\ m[1] = <<m[1][1], m[1][2]>>
    BY <2>1 DEF Position
  <2>3. y[m[1]][m[2]] \in Nat \ {0} /\ y[m[1]][m[2]] <= x[m[1]][m[2]]
    BY <1>2, <2>1
  <2>4. QED
    BY <2>1, <2>2, <2>3 DEF Recommendation, PositionOf
<1> HIDE DEF M, Rec
<1>4. R \subseteq Recommendation
  BY <1>1, <1>3
<1>5. \A r \in R : /\ PositionOf(r) \in Held(book)
                   /\ r.amount <= x[PositionOf(r)][r.to]
  BY <1>1, <1>3
<1>6. \A q, r \in R : PositionOf(q) = PositionOf(r) /\ q.to = r.to => q = r
  BY <1>1, <1>3
<1>7. IsFiniteSet(R)
  <2> DEFINE h == [r \in R |-> <<PositionOf(r), r.to>>]
  <2>1. h \in Injection(R, Held(book) \X Cpty)
    BY <1>4, <1>5, <1>6 DEF Injection, IsInjective, Recommendation
  <2>2. IsFiniteSet(Held(book) \X Cpty)
    BY FiniteParts, FS_Product
  <2>3. QED
    BY <2>1, <2>2, FS_Injection
<1>8. QED
  BY <1>4, <1>5, <1>6, <1>7

\* Recommendations about one position are no more than the solution allocates of it.
LEMMA WithinOnePosition ==
    ASSUME NEW book \in Books, NEW x \in Solutions(book), NEW cold,
           NEW R, R = Recommendations(Refined(book, x), cold), NEW p \in Held(book)
    PROVE  LET ofPosition == {r \in R : PositionOf(r) = p}
           IN  /\ Amount(ofPosition) <= AllocatedOf(x, p)
               /\ Amount(ofPosition) \in Nat /\ AllocatedOf(x, p) \in Nat
<1> DEFINE S == {r \in R : PositionOf(r) = p}
           h == [r \in S |-> r.to]
<1>1. S \in SUBSET Recommendation /\ IsFiniteSet(S)
  BY RecommendationFacts, FS_Subset
<1>2. x[p] \in [Cpty -> Nat] /\ \A c \in Cpty : x[p][c] \in Nat /\ x[p][c] \in Int
  BY SolutionFacts
<1>3. \A r \in S : h[r] \in Cpty /\ r.amount <= x[p][h[r]]
  BY <1>1, RecommendationFacts DEF Recommendation
<1>4. \A q, r \in S : h[q] = h[r] => q = r
  BY RecommendationFacts
<1> HIDE DEF S, h
<1>5. \A r \in S : AmountOf[r] \in Int /\ h[r] \in Cpty /\ AmountOf[r] <= x[p][h[r]]
  BY <1>1, <1>3, AmountIsSum
<1>6. SumFunctionOnSet(AmountOf, S) <= SumFunctionOnSet(x[p], Cpty)
  BY <1>1, <1>2, <1>4, <1>5, FiniteParts, SumAlong
<1>7. AllocatedOf(x, p) = SumFunctionOnSet(x[p], Cpty)
  BY <1>2 DEF AllocatedOf, SumFunction
<1>8. SumFunctionOnSet(x[p], Cpty) \in Nat
  BY <1>2, FiniteParts, SumNat
<1>9. Amount(S) = SumFunctionOnSet(AmountOf, S) /\ Amount(S) \in Nat
  BY <1>1, AmountIsSum
<1>10. QED
  BY <1>6, <1>7, <1>8, <1>9 DEF S

\* Recommendations to one counterparty are no more than the solution allocates to it.
LEMMA WithinOneCounterparty ==
    ASSUME NEW book \in Books, NEW x \in Solutions(book), NEW cold,
           NEW R, R = Recommendations(Refined(book, x), cold), NEW c \in Cpty
    PROVE  Amount({r \in R : r.to = c}) <= AllocatedTo(x, c)
<1> DEFINE S == {r \in R : r.to = c}
           T == Held(book)
           g == [p \in T |-> x[p][c]]
           h == [r \in S |-> PositionOf(r)]
<1>1. S \in SUBSET Recommendation /\ IsFiniteSet(S)
  BY RecommendationFacts, FS_Subset
<1>2. \A p \in T : g[p] \in Nat /\ g[p] = x[p][c]
  BY SolutionFacts
<1>3. \A r \in S : h[r] \in T /\ r.amount <= g[h[r]]
  BY <1>2, RecommendationFacts
<1>4. \A q, r \in S : h[q] = h[r] => q = r
  BY RecommendationFacts
<1>5. AllocatedTo(x, c) = SumFunctionOnSet(g, T)
  BY SolutionFacts DEF AllocatedTo, SumFunction
<1> HIDE DEF S, T, g, h
<1>6. \A r \in S : AmountOf[r] \in Int /\ h[r] \in T /\ AmountOf[r] <= g[h[r]]
  BY <1>1, <1>3, AmountIsSum
<1>7. IsFiniteSet(T) /\ \A p \in T : g[p] \in Nat
  BY <1>2, FiniteParts DEF T
<1>8. SumFunctionOnSet(AmountOf, S) <= SumFunctionOnSet(g, T)
  BY <1>1, <1>4, <1>6, <1>7, SumAlong
<1>9. Amount(S) = SumFunctionOnSet(AmountOf, S)
  BY <1>1, AmountIsSum
<1>10. QED
  BY <1>5, <1>8, <1>9 DEF S

\* Recommendations on one issuer are no more than the solution allocates to it:
\* position by position.
LEMMA WithinOneIssuer ==
    ASSUME NEW book \in Books, NEW x \in Solutions(book), NEW cold,
           NEW R, R = Recommendations(Refined(book, x), cold), NEW s \in Security
    PROVE  100 * Amount({r \in R : IssuerOf[r.security] = IssuerOf[s]})
             <= IssuerCapPct * Total(book)
<1> DEFINE S == {r \in R : IssuerOf[r.security] = IssuerOf[s]}
           C == {p \in DOMAIN x : IssuerOf[p[1]] = IssuerOf[s]}
           k == [r \in S |-> PositionOf(r)]
           Class(p) == {r \in S : k[r] = p}
           F == [p \in C |-> SumFunctionOnSet(AmountOf, Class(p))]
           A == [p \in C |-> AllocatedOf(x, p)]
<1>1. S \in SUBSET Recommendation /\ IsFiniteSet(S)
  BY RecommendationFacts, FS_Subset
<1>2. C \in SUBSET Held(book) /\ IsFiniteSet(C)
  BY SolutionFacts, FiniteParts, FS_Subset
<1>3. \A r \in S : k[r] \in C
  <2> TAKE r \in S
  <2>1. PositionOf(r) \in DOMAIN x
    BY SolutionFacts, RecommendationFacts
  <2>2. PositionOf(r)[1] = r.security
    BY DEF PositionOf
  <2>3. PositionOf(r) \in C
    BY <2>1, <2>2
  <2>4. QED
    BY <2>3
<1>4. \A r \in S : AmountOf[r] \in Int
  BY <1>1, AmountIsSum
<1>5. SumFunctionOnSet(AmountOf, S) = SumFunctionOnSet(F, C)
  <2> HIDE DEF S, C, k
  <2> QED
    BY <1>1, <1>2, <1>3, <1>4, SumByClass
<1>6. ASSUME NEW p \in C
      PROVE  F[p] \in Int /\ A[p] \in Int /\ F[p] <= A[p]
  <2> DEFINE ofPosition == {r \in R : PositionOf(r) = p}
  <2>1. Class(p) = ofPosition
    BY DEF PositionOf
  <2>2. /\ Amount(ofPosition) <= AllocatedOf(x, p)
        /\ Amount(ofPosition) \in Nat /\ AllocatedOf(x, p) \in Nat
    BY <1>2, WithinOnePosition
  <2>3. Amount(ofPosition) = SumFunctionOnSet(AmountOf, ofPosition)
    BY RecommendationFacts, FS_Subset, AmountIsSum
  <2>4. F[p] = SumFunctionOnSet(AmountOf, Class(p)) /\ A[p] = AllocatedOf(x, p)
    OBVIOUS
  <2> HIDE DEF F, A, Class, ofPosition
  <2>5. QED
    BY <2>1, <2>2, <2>3, <2>4
<1>7. SumFunctionOnSet(F, C) <= SumFunctionOnSet(A, C)
  <2> HIDE DEF F, A, C
  <2> QED
    BY <1>2, <1>6, SumMonotone
<1>8. 100 * SumFunctionOnSet(A, C) <= IssuerCapPct * Total(book)
  <2>1. WithinIssuerCaps(book, x)
    BY SolutionFacts
  <2>2. 100 * SumFunction(A) <= IssuerCapPct * Total(book)
    BY <2>1 DEF WithinIssuerCaps
  <2>3. SumFunction(A) = SumFunctionOnSet(A, C)
    BY DEF SumFunction
  <2>4. QED
    BY <2>2, <2>3
<1>9. /\ SumFunctionOnSet(F, C) \in Int /\ SumFunctionOnSet(A, C) \in Int
  <2> HIDE DEF F, A, C
  <2> QED
    BY <1>2, <1>6, SumFacts
<1>10. Amount(S) = SumFunctionOnSet(AmountOf, S)
  BY <1>1, AmountIsSum
<1>11. Total(book) \in Nat /\ IssuerCapPct \in Nat
  BY BookFacts, OptimizerAssumption
<1>12. IssuerCapPct * Total(book) \in Int
  BY <1>11
<1> HIDE DEF F, A, C
<1>13. 100 * Amount(S) <= IssuerCapPct * Total(book)
  BY <1>5, <1>7, <1>8, <1>9, <1>10, <1>12
<1>14. QED
  BY <1>13

\* Whatever point the solver returns and whatever the rates are, the recommendations
\* of a cycle are sound.
LEMMA OutcomeSound ==
    ASSUME NEW o \in Outcome
    PROVE  o.book \in Books /\ Sound(o.book, o.recs)
<1> DEFINE From(b, x, cold) == [book |-> b, recs |-> Recommendations(Refined(b, x), cold)]
<1>1. PICK book \in Books : \E x \in Solutions(book), cold \in SUBSET Held(book) :
         o = From(book, x, cold)
  BY DEF Outcome
<1>2. PICK x \in Solutions(book) : \E cold \in SUBSET Held(book) : o = From(book, x, cold)
  BY <1>1
<1>3. PICK cold \in SUBSET Held(book) : o = From(book, x, cold)
  BY <1>2
<1> DEFINE R == Recommendations(Refined(book, x), cold)
<1>4. R \subseteq Recommendation /\ IsFiniteSet(R)
  BY RecommendationFacts
<1>5. ASSUME NEW s \in Security, NEW c \in Cpty
      PROVE  Amount({r \in R : r.security = s /\ r.from = c}) <= book[s][c]
  <2> DEFINE S == {r \in R : r.security = s /\ r.from = c}
             p == <<s, c>>
  <2>1. S = {r \in R : PositionOf(r) = p}
    BY DEF PositionOf
  <2>2. ValueOf(book, p) = book[s][c] /\ book[s][c] \in Nat
    BY BookFacts DEF ValueOf
  <2>3. CASE p \in Held(book)
    <3>1. /\ Amount({r \in R : PositionOf(r) = p}) <= AllocatedOf(x, p)
          /\ Amount({r \in R : PositionOf(r) = p}) \in Nat /\ AllocatedOf(x, p) \in Nat
      BY <2>3, WithinOnePosition
    <3>2. AllocatedOf(x, p) <= ValueOf(book, p)
      BY <2>3, SolutionFacts
    <3> HIDE DEF S, p, R
    <3>3. Amount(S) <= book[s][c]
      BY <2>1, <2>2, <3>1, <3>2
    <3>4. QED
      BY <3>3 DEF S
  <2>4. CASE p \notin Held(book)
    <3>1. S = {}
      BY <2>1, <2>4, RecommendationFacts
    <3>2. Amount(S) = 0
      BY <3>1, FS_EmptySet, AmountIsSum
    <3>3. QED
      BY <2>2, <3>2
  <2>5. QED
    BY <2>3, <2>4
<1>6. ASSUME NEW c \in Cpty, Limit[c] # None
      PROVE  Amount({r \in R : r.to = c}) <= Limit[c]
  <2> DEFINE S == {r \in R : r.to = c}
  <2>1. Amount(S) <= AllocatedTo(x, c)
    BY WithinOneCounterparty
  <2>2. AllocatedTo(x, c) <= Limit[c]
    BY <1>6, SolutionFacts
  <2>3. Amount(S) \in Nat
    BY <1>4, FS_Subset, AmountIsSum
  <2>4. AllocatedTo(x, c) \in Nat
    <3> DEFINE g == [p \in Held(book) |-> x[p][c]]
    <3>1. AllocatedTo(x, c) = SumFunctionOnSet(g, Held(book))
      BY SolutionFacts DEF AllocatedTo, SumFunction
    <3>2. \A p \in Held(book) : g[p] \in Nat
      BY SolutionFacts
    <3> HIDE DEF g
    <3>3. QED
      BY <3>1, <3>2, FiniteParts, SumNat
  <2>5. Limit[c] \in Nat
    BY <1>6, OptimizerAssumption
  <2> HIDE DEF S
  <2>6. Amount(S) <= Limit[c]
    BY <2>1, <2>2, <2>3, <2>4, <2>5
  <2>7. QED
    BY <2>6 DEF S
<1>7. ASSUME NEW s \in Security
      PROVE  100 * Amount({r \in R : IssuerOf[r.security] = IssuerOf[s]})
               <= IssuerCapPct * Total(book)
  BY WithinOneIssuer
<1>8. Sound(book, R)
  BY <1>4, <1>5, <1>6, <1>7 DEF Sound
<1>9. QED
  BY <1>3, <1>8

-----------------------------------------------------------------------------
(* Executing a recommendation *)

LEMMA ExposureNat ==
    ASSUME NEW book \in Books, NEW c \in Cpty
    PROVE  Exposure(book, c) \in Nat
<1> DEFINE column == [s \in Security |-> book[s][c]]
<1>1. \A s \in Security : column[s] \in Nat
  BY BookFacts
<1>2. Exposure(book, c) = SumFunctionOnSet(column, Security)
  BY DEF Exposure, SumFunction
<1> HIDE DEF column
<1>3. QED
  BY <1>1, <1>2, FiniteParts, SumNat

Moved(book, r) ==
    [book EXCEPT ![r.security][r.from] = @ - r.amount,
                 ![r.security][r.to] = @ + r.amount]

\* What is moved leaves one counterparty, arrives at the other and stays in the book.
LEMMA MovedFacts ==
    ASSUME NEW book \in Books, NEW r \in Recommendation, r.from # r.to,
           book[r.security][r.from] >= r.amount
    PROVE  /\ Moved(book, r) \in Books
           /\ \A s \in Security, c \in Cpty :
                 Moved(book, r)[s][c] =
                    IF s # r.security THEN book[s][c]
                    ELSE IF c = r.from THEN book[s][c] - r.amount
                    ELSE IF c = r.to THEN book[s][c] + r.amount
                    ELSE book[s][c]
           /\ \A c \in Cpty :
                 Exposure(Moved(book, r), c) =
                    IF c = r.from THEN Exposure(book, c) - r.amount
                    ELSE IF c = r.to THEN Exposure(book, c) + r.amount
                    ELSE Exposure(book, c)
<1> DEFINE s0 == r.security
           moved == Moved(book, r)
           row == book[s0]
           mid == [row EXCEPT ![r.from] = @ - r.amount]
           new == [mid EXCEPT ![r.to] = @ + r.amount]
<1>1. /\ s0 \in Security /\ r.from \in Cpty /\ r.to \in Cpty /\ r.amount \in Nat
      /\ book \in [Security -> [Cpty -> Nat]] /\ row \in [Cpty -> Nat]
  BY BookFacts DEF Recommendation
<1>2. /\ mid \in [Cpty -> Nat] /\ mid[r.from] = row[r.from] - r.amount
      /\ \A c \in Cpty \ {r.from} : mid[c] = row[c]
  BY <1>1
<1>3. /\ new \in [Cpty -> Nat] /\ new[r.to] = mid[r.to] + r.amount
      /\ \A c \in Cpty \ {r.to} : new[c] = mid[c]
  BY <1>1, <1>2
<1>4. moved = [book EXCEPT ![s0] = new]
  BY <1>1 DEF Moved
<1>5. /\ moved \in [Security -> [Cpty -> Nat]] /\ moved[s0] = new
      /\ \A s \in Security \ {s0} : moved[s] = book[s]
  BY <1>1, <1>3, <1>4
<1> HIDE DEF s0, moved, row, mid, new
<1>6. \A s \in Security, c \in Cpty :
         moved[s][c] = IF s # s0 THEN book[s][c]
                       ELSE IF c = r.from THEN book[s][c] - r.amount
                       ELSE IF c = r.to THEN book[s][c] + r.amount
                       ELSE book[s][c]
  BY <1>1, <1>2, <1>3, <1>5 DEF row
<1>7. moved \in Books
  <2>1. \A c \in Cpty : row[c] \in Int /\ mid[c] \in Int /\ new[c] \in Int
    BY <1>1, <1>2, <1>3
  <2>2. SumFunctionOnSet(mid, Cpty)
          = SumFunctionOnSet(row, Cpty) - row[r.from] + mid[r.from]
    BY <1>1, <1>2, <2>1, FiniteParts, SumUpdate
  <2>3. SumFunctionOnSet(new, Cpty)
          = SumFunctionOnSet(mid, Cpty) - mid[r.to] + new[r.to]
    <3>1. /\ r.to \in Cpty /\ \A c \in Cpty : mid[c] \in Int /\ new[c] \in Int
          /\ \A c \in Cpty \ {r.to} : new[c] = mid[c]
      BY <1>1, <1>3, <2>1
    <3>2. QED
      BY <3>1, FiniteParts, SumUpdate
  <2>4. /\ SumFunctionOnSet(row, Cpty) \in Int /\ SumFunctionOnSet(mid, Cpty) \in Int
        /\ row[r.from] \in Int /\ mid[r.to] \in Int
    BY <1>1, <2>1, FiniteParts, SumFacts
  <2>5. SumFunctionOnSet(new, Cpty) = SumFunctionOnSet(row, Cpty)
    BY <1>1, <1>2, <1>3, <2>2, <2>3, <2>4
  <2>6. SumFunction(new) = SumFunction(row)
    BY <1>1, <1>3, <2>5 DEF SumFunction
  <2>7. \A s \in Security : SumFunction(moved[s]) = SumFunction(OpeningBook[s])
    BY <1>5, <2>6, BookFacts DEF row
  <2>8. QED
    BY <1>5, <2>7, IsBook
<1>8. ASSUME NEW c \in Cpty
      PROVE  Exposure(moved, c) = Exposure(book, c) - book[s0][c] + moved[s0][c]
  <2> DEFINE old == [s \in Security |-> book[s][c]]
             now == [s \in Security |-> moved[s][c]]
  <2>1. \A s \in Security : old[s] \in Int /\ now[s] \in Int
    BY <1>1, <1>5
  <2>2. \A s \in Security \ {s0} : now[s] = old[s]
    BY <1>5
  <2>3. old[s0] = book[s0][c] /\ now[s0] = moved[s0][c]
    BY <1>1
  <2>4. /\ Exposure(book, c) = SumFunctionOnSet(old, Security)
        /\ Exposure(moved, c) = SumFunctionOnSet(now, Security)
    BY DEF Exposure, SumFunction
  <2> HIDE DEF old, now
  <2>5. SumFunctionOnSet(now, Security)
          = SumFunctionOnSet(old, Security) - old[s0] + now[s0]
    BY <1>1, <2>1, <2>2, FiniteParts, SumUpdate
  <2>6. QED
    BY <2>3, <2>4, <2>5
<1>9. ASSUME NEW c \in Cpty
      PROVE  Exposure(moved, c) =
                IF c = r.from THEN Exposure(book, c) - r.amount
                ELSE IF c = r.to THEN Exposure(book, c) + r.amount
                ELSE Exposure(book, c)
  <2>1. Exposure(book, c) \in Nat /\ book[s0][c] \in Nat
    BY <1>1, ExposureNat
  <2>2. moved[s0][c] = IF c = r.from THEN book[s0][c] - r.amount
                       ELSE IF c = r.to THEN book[s0][c] + r.amount
                       ELSE book[s0][c]
    BY <1>1, <1>6
  <2>3. QED
    BY <1>1, <1>8, <2>1, <2>2
<1>10. QED
  BY <1>6, <1>7, <1>9 DEF moved, s0

-----------------------------------------------------------------------------
(* The inductive invariant *)

\* What the desk has moved in and out explains how an exposure has changed since the
\* cycle looked at it.
MovedOut(c) == {r \in done : r.from = c /\ r.to # c}
MovedIn(c) == {r \in done : r.to = c /\ r.from # c}

Ledger ==
    \A c \in Cpty :
        Exposure(balance, c)
            = Exposure(snapshot, c) - Amount(MovedOut(c)) + Amount(MovedIn(c))

IInv ==
    /\ TypeOK
    /\ Sound(snapshot, recs)
    /\ JointlyExecutable
    /\ Ledger

LEMMA OpeningIsBook == OpeningBook \in Books
BY IsBook, OptimizerAssumption

\* The books are equal and nothing is done yet: the ledger is empty.
LEMMA LedgerOpens ==
    ASSUME balance \in Books, snapshot = balance, done = {}
    PROVE  Ledger
<1> SUFFICES ASSUME NEW c \in Cpty
             PROVE  Exposure(balance, c)
                      = Exposure(snapshot, c) - Amount(MovedOut(c)) + Amount(MovedIn(c))
  BY DEF Ledger
<1>1. Amount(MovedOut(c)) = 0 /\ Amount(MovedIn(c)) = 0
  <2>1. MovedOut(c) = {} /\ MovedIn(c) = {}
    BY DEF MovedOut, MovedIn
  <2>2. QED
    BY <2>1, FS_EmptySet, AmountIsSum
<1>2. Exposure(balance, c) \in Nat
  BY ExposureNat
<1>3. QED
  BY <1>1, <1>2

\* Sound recommendations of the book as it stands do not compete.
LEMMA NoneExecuted ==
    ASSUME Sound(balance, recs), done = {}
    PROVE  JointlyExecutable
<1>1. recs \ done = recs
  OBVIOUS
<1>2. QED
  BY <1>1 DEF Sound, JointlyExecutable

\* Recommending nothing is sound.
LEMMA EmptySound ==
    ASSUME NEW book \in Books
    PROVE  Sound(book, {})
<1>1. Amount({}) = 0 /\ IsFiniteSet({})
  BY FS_EmptySet, AmountIsSum
<1>2. \A s \in Security, c \in Cpty : {r \in {} : r.security = s /\ r.from = c} = {}
  OBVIOUS
<1>3. \A s \in Security, c \in Cpty : 0 <= book[s][c]
  BY BookFacts
<1>4. \A c \in Cpty : {r \in {} : r.to = c} = {}
  OBVIOUS
<1>5. \A c \in Cpty : Limit[c] # None => 0 <= Limit[c]
  BY OptimizerAssumption
<1>6. \A s \in Security : {r \in {} : IssuerOf[r.security] = IssuerOf[s]} = {}
  OBVIOUS
<1>7. 100 * 0 <= IssuerCapPct * Total(book)
  BY BookFacts, OptimizerAssumption
<1>8. QED
  BY <1>1, <1>2, <1>3, <1>4, <1>5, <1>6, <1>7 DEF Sound

LEMMA OptimizerInit == Init => IInv
<1> SUFFICES ASSUME Init PROVE IInv
  OBVIOUS
<1>1. TypeOK
  BY OpeningIsBook DEF Init, TypeOK
<1>2. Sound(snapshot, recs) /\ Sound(balance, recs)
  BY OpeningIsBook, EmptySound DEF Init
<1>3. JointlyExecutable /\ Ledger
  BY <1>1, <1>2, NoneExecuted, LedgerOpens DEF Init, TypeOK
<1>4. QED
  BY <1>1, <1>2, <1>3 DEF IInv

LEMMA OptimizeStep ==
    ASSUME IInv, Optimize
    PROVE  IInv'
<1>1. PICK o \in Outcome : o.book = balance /\ recs' = o.recs
  BY DEF Optimize
<1>2. balance' = balance /\ snapshot' = balance /\ done' = {} /\ balance \in Books
  BY DEF Optimize, IInv, TypeOK
<1>3. Sound(snapshot', recs') /\ Sound(balance', recs')
  BY <1>1, <1>2, OutcomeSound
<1>4. TypeOK'
  BY <1>2, <1>3 DEF TypeOK, Sound
<1>5. JointlyExecutable'
  <2>1. recs' \ done' = recs'
    BY <1>2
  <2>2. QED
    BY <1>3, <2>1 DEF Sound, JointlyExecutable
<1>6. Ledger'
  <2> SUFFICES ASSUME NEW c \in Cpty
               PROVE  Exposure(balance', c) = Exposure(snapshot', c)
                        - Amount(MovedOut(c)') + Amount(MovedIn(c)')
    BY DEF Ledger
  <2>1. MovedOut(c)' = {} /\ MovedIn(c)' = {}
    BY <1>2 DEF MovedOut, MovedIn
  <2>2. Amount({}) = 0
    BY FS_EmptySet, AmountIsSum
  <2>3. Exposure(balance, c) \in Nat
    BY <1>2, ExposureNat
  <2>4. QED
    BY <1>2, <2>1, <2>2, <2>3
<1>7. QED
  BY <1>3, <1>4, <1>5, <1>6 DEF IInv

\* The amount that has moved in or out of a counterparty, after one execution.
LEMMA ExecuteMoves ==
    ASSUME TypeOK, IsFiniteSet(recs), NEW r \in recs \ done, done' = done \cup {r},
           NEW c \in Cpty
    PROVE  /\ Amount(MovedOut(c)') = IF r.from = c /\ r.to # c
                                     THEN Amount(MovedOut(c)) + r.amount
                                     ELSE Amount(MovedOut(c))
           /\ Amount(MovedIn(c)') = IF r.to = c /\ r.from # c
                                    THEN Amount(MovedIn(c)) + r.amount
                                    ELSE Amount(MovedIn(c))
<1>1. done \in SUBSET Recommendation /\ IsFiniteSet(done) /\ r \in Recommendation
  BY FS_Subset DEF TypeOK
<1>2. /\ MovedOut(c) \in SUBSET Recommendation /\ IsFiniteSet(MovedOut(c)) /\ r \notin MovedOut(c)
      /\ MovedIn(c) \in SUBSET Recommendation /\ IsFiniteSet(MovedIn(c)) /\ r \notin MovedIn(c)
  BY <1>1, FS_Subset DEF MovedOut, MovedIn
<1>3. /\ Amount(MovedOut(c) \cup {r}) = Amount(MovedOut(c)) + r.amount
      /\ Amount(MovedIn(c) \cup {r}) = Amount(MovedIn(c)) + r.amount
  BY <1>1, <1>2, AmountSingle
<1>4. MovedOut(c)' = IF r.from = c /\ r.to # c THEN MovedOut(c) \cup {r} ELSE MovedOut(c)
  BY DEF MovedOut
<1>5. MovedIn(c)' = IF r.to = c /\ r.from # c THEN MovedIn(c) \cup {r} ELSE MovedIn(c)
  BY DEF MovedIn
<1>6. QED
  BY <1>3, <1>4, <1>5

LEMMA ExecuteStep ==
    ASSUME IInv, NEW r \in recs, Execute(r)
    PROVE  IInv'
<1>1. /\ TypeOK /\ r \in recs \ done /\ r \in Recommendation
      /\ recs' = recs /\ snapshot' = snapshot /\ done' = done \cup {r}
      /\ balance \in Books /\ snapshot \in Books
      /\ balance[r.security][r.from] >= r.amount
      /\ recs \in SUBSET Recommendation /\ IsFiniteSet(recs)
  BY DEF Execute, IInv, TypeOK, Sound
<1>2. /\ r.security \in Security /\ r.from \in Cpty /\ r.to \in Cpty /\ r.amount \in Nat
  BY <1>1 DEF Recommendation
<1>3. /\ balance' \in Books
      /\ \A s \in Security, c \in Cpty :
            balance'[s][c] >= IF s = r.security /\ c = r.from THEN balance[s][c] - r.amount
                              ELSE balance[s][c]
      /\ \A c \in Cpty :
            Exposure(balance', c) = IF r.from = r.to THEN Exposure(balance, c)
                                    ELSE IF c = r.from THEN Exposure(balance, c) - r.amount
                                    ELSE IF c = r.to THEN Exposure(balance, c) + r.amount
                                    ELSE Exposure(balance, c)
  <2>1. \A s \in Security, c \in Cpty : balance[s][c] \in Nat
    BY <1>1, BookFacts
  <2>2. CASE r.from = r.to
    <3>1. balance' = balance
      BY <2>2 DEF Execute
    <3>2. QED
      BY <1>1, <1>2, <2>1, <2>2, <3>1
  <2>3. CASE r.from # r.to
    <3>1. balance' = Moved(balance, r)
      BY <2>3 DEF Execute, Moved
    <3>2. /\ balance' \in Books
          /\ \A s \in Security, c \in Cpty :
                balance'[s][c] =
                   IF s # r.security THEN balance[s][c]
                   ELSE IF c = r.from THEN balance[s][c] - r.amount
                   ELSE IF c = r.to THEN balance[s][c] + r.amount
                   ELSE balance[s][c]
          /\ \A c \in Cpty :
                Exposure(balance', c) =
                   IF c = r.from THEN Exposure(balance, c) - r.amount
                   ELSE IF c = r.to THEN Exposure(balance, c) + r.amount
                   ELSE Exposure(balance, c)
      BY <1>1, <2>3, <3>1, MovedFacts
    <3>3. ASSUME NEW s \in Security, NEW c \in Cpty
          PROVE  balance'[s][c] >= IF s = r.security /\ c = r.from
                                   THEN balance[s][c] - r.amount ELSE balance[s][c]
      BY <1>2, <2>1, <3>2
    <3>4. QED
      BY <2>3, <3>2, <3>3
  <2>4. QED
    BY <2>2, <2>3
<1>4. TypeOK'
  BY <1>1, <1>3 DEF TypeOK
<1>5. Sound(snapshot, recs)'
  BY <1>1 DEF IInv, Sound
<1>6. ASSUME NEW s \in Security, NEW c \in Cpty
      PROVE  Amount({q \in recs' \ done' : q.security = s /\ q.from = c}) <= balance'[s][c]
  <2> DEFINE K == {q \in recs \ done : q.security = s /\ q.from = c}
             K2 == {q \in recs' \ done' : q.security = s /\ q.from = c}
  <2>1. K \in SUBSET Recommendation /\ IsFiniteSet(K) /\ K2 = K \ {r}
    BY <1>1, FS_Subset
  <2>2. r \in K <=> s = r.security /\ c = r.from
    BY <1>1
  <2>3. Amount(K) <= balance[s][c]
    BY DEF IInv, JointlyExecutable
  <2>4. balance[s][c] \in Nat /\ balance'[s][c] \in Nat
    BY <1>1, <1>3, BookFacts
  <2> HIDE DEF K, K2
  <2>5. r \notin K => K2 = K
    BY <2>1
  <2>6. Amount(K) \in Nat /\ (r \in K => Amount(K2) = Amount(K) - r.amount)
    BY <1>1, <2>1, AmountIsSum, AmountSingle
  <2>7. balance'[s][c] >= IF r \in K THEN balance[s][c] - r.amount ELSE balance[s][c]
    BY <1>3, <2>2
  <2>8. Amount(K2) <= balance'[s][c]
    BY <1>2, <2>3, <2>4, <2>5, <2>6, <2>7
  <2>9. QED
    BY <2>8 DEF K2
<1>7. JointlyExecutable'
  BY <1>6 DEF JointlyExecutable
<1>8. Ledger'
  <2> SUFFICES ASSUME NEW c \in Cpty
               PROVE  Exposure(balance', c) = Exposure(snapshot', c)
                        - Amount(MovedOut(c)') + Amount(MovedIn(c)')
    BY DEF Ledger
  <2>1. Exposure(balance, c) = Exposure(snapshot, c) - Amount(MovedOut(c)) + Amount(MovedIn(c))
    BY DEF IInv, Ledger
  <2>2. Exposure(snapshot, c) \in Nat /\ Exposure(snapshot', c) = Exposure(snapshot, c)
    BY <1>1, ExposureNat
  <2>3. /\ Amount(MovedOut(c)') = IF r.from = c /\ r.to # c
                                  THEN Amount(MovedOut(c)) + r.amount ELSE Amount(MovedOut(c))
        /\ Amount(MovedIn(c)') = IF r.to = c /\ r.from # c
                                 THEN Amount(MovedIn(c)) + r.amount ELSE Amount(MovedIn(c))
    BY <1>1, ExecuteMoves
  <2>4. Amount(MovedOut(c)) \in Nat /\ Amount(MovedIn(c)) \in Nat
    <3>1. /\ MovedOut(c) \in SUBSET recs /\ MovedIn(c) \in SUBSET recs
          /\ recs \in SUBSET Recommendation
      BY <1>1 DEF MovedOut, MovedIn, TypeOK
    <3>2. IsFiniteSet(MovedOut(c)) /\ IsFiniteSet(MovedIn(c))
      BY <1>1, <3>1, FS_Subset
    <3>3. QED
      BY <3>1, <3>2, AmountIsSum
  <2>5. Exposure(balance', c) = IF r.from = r.to THEN Exposure(balance, c)
                                ELSE IF c = r.from THEN Exposure(balance, c) - r.amount
                                ELSE IF c = r.to THEN Exposure(balance, c) + r.amount
                                ELSE Exposure(balance, c)
    BY <1>3
  <2>6. CASE r.from = r.to
    BY <2>1, <2>2, <2>3, <2>5, <2>6
  <2>7. CASE r.from # r.to /\ c = r.from
    BY <1>2, <2>1, <2>2, <2>3, <2>4, <2>5, <2>7
  <2>8. CASE r.from # r.to /\ c = r.to
    BY <1>2, <2>1, <2>2, <2>3, <2>4, <2>5, <2>8
  <2>9. CASE r.from # r.to /\ c # r.from /\ c # r.to
    BY <2>1, <2>2, <2>3, <2>5, <2>9
  <2>10. QED
    BY <2>6, <2>7, <2>8, <2>9
<1>9. QED
  BY <1>4, <1>5, <1>7, <1>8 DEF IInv

LEMMA OptimizerStep == IInv /\ [Next]_vars => IInv'
<1> SUFFICES ASSUME IInv, [Next]_vars PROVE IInv'
  OBVIOUS
<1>1. CASE Optimize
  BY <1>1, OptimizeStep
<1>2. ASSUME NEW r \in recs, Execute(r) PROVE IInv'
  BY <1>2, ExecuteStep
<1>3. CASE UNCHANGED vars
  BY <1>3 DEF vars, IInv, TypeOK, Sound, JointlyExecutable, Ledger, MovedOut, MovedIn
<1>4. QED
  BY <1>1, <1>2, <1>3 DEF Next

LEMMA OptimizerInv == Spec => []IInv
BY OptimizerInit, OptimizerStep, PTL DEF Spec

-----------------------------------------------------------------------------
(* Theorems *)

\* The desk stays within the books that spread the opening balances: executing moves
\* value between counterparties and neither makes nor loses any, no balance becomes
\* negative, and only recommendations of the latest cycle are executed.
THEOREM OptimizerTypeCorrect == Spec => []TypeOK
<1>1. IInv => TypeOK
  BY DEF IInv
<1>2. QED
  BY <1>1, OptimizerInv, PTL

\* However many recommendations of a cycle have been executed, and in whatever order,
\* the balance is still there for each of those that are left.
THEOREM NeverCompete == Spec => []JointlyExecutable
<1>1. IInv => JointlyExecutable
  BY DEF IInv
<1>2. QED
  BY <1>1, OptimizerInv, PTL

\* The allocations that are left after dust has been swept stay under the issuer cap.
THEOREM CapSurvivesRefinement == Spec => []IssuerCapped
<1>1. IInv => IssuerCapped
  BY DEF IInv, Sound, IssuerCapped
<1>2. QED
  BY <1>1, OptimizerInv, PTL

\* What has moved in, and what was recommended to stay, are both part of what a cycle
\* allocates to a counterparty: the limit covers their sum.
LEMMA InflowAndStayWithinLimit ==
    ASSUME IInv, NEW c \in Cpty, Limit[c] # None
    PROVE  Amount(MovedIn(c)) + Amount({r \in recs : r.from = c /\ r.to = c}) <= Limit[c]
<1> DEFINE stay == {r \in recs : r.from = c /\ r.to = c}
           into == {r \in recs : r.to = c}
<1>1. /\ MovedIn(c) \in SUBSET into /\ stay \in SUBSET into /\ MovedIn(c) \cap stay = {}
      /\ into \in SUBSET Recommendation /\ IsFiniteSet(into)
  BY FS_Subset DEF IInv, TypeOK, Sound, MovedIn
<1>2. Amount(into) <= Limit[c] /\ Limit[c] \in Nat
  BY OptimizerAssumption DEF IInv, Sound
<1> HIDE DEF stay, into
<1>3. /\ IsFiniteSet(MovedIn(c)) /\ IsFiniteSet(stay)
      /\ MovedIn(c) \in SUBSET Recommendation /\ stay \in SUBSET Recommendation
      /\ MovedIn(c) \cup stay \in SUBSET into
  BY <1>1, FS_Subset
<1>4. Amount(MovedIn(c) \cup stay) = Amount(MovedIn(c)) + Amount(stay)
  BY <1>1, <1>3, AmountUnion
<1>5. Amount(MovedIn(c) \cup stay) <= Amount(into)
  BY <1>1, <1>3, AmountSubset
<1>6. Amount(MovedIn(c)) \in Nat /\ Amount(stay) \in Nat /\ Amount(into) \in Nat
  BY <1>1, <1>3, AmountIsSum
<1>7. Amount(MovedIn(c)) + Amount(stay) <= Limit[c]
  BY <1>2, <1>4, <1>5, <1>6
<1>8. QED
  BY <1>7 DEF stay

\* What a cycle recommends of a counterparty's balances stays there, has left or has
\* still to leave.
LEMMA RecommendedFrom ==
    ASSUME IInv, NEW c \in Cpty
    PROVE  LET stay == {r \in recs : r.from = c /\ r.to = c}
           IN  /\ Amount({r \in recs : r.from = c})
                     = Amount(stay) + Amount(MovedOut(c)) + YetToLeave(c)
               /\ Amount(stay) \in Nat /\ Amount(MovedOut(c)) \in Nat
               /\ Amount(MovedIn(c)) \in Nat /\ YetToLeave(c) \in Nat
<1> DEFINE stay == {r \in recs : r.from = c /\ r.to = c}
           left == MovedOut(c)
           yet == {r \in recs \ done : r.from = c /\ r.to # c}
           all == {r \in recs : r.from = c}
<1>1. /\ recs \in SUBSET Recommendation /\ IsFiniteSet(recs) /\ done \subseteq recs
  BY DEF IInv, TypeOK, Sound
<1>2. /\ stay \in SUBSET recs /\ left \in SUBSET recs /\ yet \in SUBSET recs
      /\ MovedIn(c) \in SUBSET recs
  BY <1>1 DEF MovedOut, MovedIn
<1>3. /\ all = (stay \cup left) \cup yet
      /\ stay \cap left = {} /\ (stay \cup left) \cap yet = {}
  BY <1>1 DEF MovedOut
<1>4. YetToLeave(c) = Amount(yet)
  BY DEF YetToLeave
<1> HIDE DEF stay, left, yet, all
<1>5. /\ IsFiniteSet(stay) /\ IsFiniteSet(left) /\ IsFiniteSet(yet)
      /\ IsFiniteSet(stay \cup left) /\ IsFiniteSet(MovedIn(c))
  BY <1>1, <1>2, FS_Subset, FS_Union
<1>6. /\ stay \in SUBSET Recommendation /\ left \in SUBSET Recommendation
      /\ yet \in SUBSET Recommendation /\ stay \cup left \in SUBSET Recommendation
      /\ MovedIn(c) \in SUBSET Recommendation
  BY <1>1, <1>2
<1>7. Amount(stay \cup left) = Amount(stay) + Amount(left)
  BY <1>3, <1>5, <1>6, AmountUnion
<1>8. Amount((stay \cup left) \cup yet) = Amount(stay \cup left) + Amount(yet)
  BY <1>3, <1>5, <1>6, AmountUnion
<1>9. /\ Amount(stay) \in Nat /\ Amount(left) \in Nat /\ Amount(yet) \in Nat
      /\ Amount(MovedIn(c)) \in Nat
  BY <1>5, <1>6, AmountIsSum
<1>10. Amount(all) = Amount(stay) + Amount(left) + Amount(yet)
  BY <1>3, <1>7, <1>8
<1>11. QED
  BY <1>4, <1>9, <1>10 DEF stay, left, all

\* However far the desk has followed a cycle, a counterparty is above its limit by no
\* more than what the cycle left untouched there or still wants to move away.
THEOREM NoExcessOfItsOwn == Spec => []ExcessIsWhatStays
<1>1. IInv => ExcessIsWhatStays
  <2> SUFFICES ASSUME IInv, NEW c \in Cpty, Limit[c] # None
               PROVE  Exposure(balance, c) <= Limit[c] + Untouched(c) + YetToLeave(c)
    BY DEF ExcessIsWhatStays
  <2> DEFINE stay == {r \in recs : r.from = c /\ r.to = c}
             all == {r \in recs : r.from = c}
  <2>1. Exposure(balance, c)
          = Exposure(snapshot, c) - Amount(MovedOut(c)) + Amount(MovedIn(c))
    BY DEF IInv, Ledger
  <2>2. Amount(MovedIn(c)) + Amount(stay) <= Limit[c] /\ Limit[c] \in Nat
    BY InflowAndStayWithinLimit, OptimizerAssumption
  <2>3. /\ Amount(all) = Amount(stay) + Amount(MovedOut(c)) + YetToLeave(c)
        /\ Amount(stay) \in Nat /\ Amount(MovedOut(c)) \in Nat
        /\ Amount(MovedIn(c)) \in Nat /\ YetToLeave(c) \in Nat
    BY RecommendedFrom
  <2>4. Untouched(c) = Exposure(snapshot, c) - Amount(all)
    BY DEF Untouched
  <2>5. Exposure(snapshot, c) \in Nat
    BY ExposureNat DEF IInv, TypeOK
  <2> HIDE DEF stay, all
  <2>6. QED
    BY <2>1, <2>2, <2>3, <2>4, <2>5
<1>2. QED
  BY <1>1, OptimizerInv, PTL

\* Allocating nothing meets every constraint, whatever the book has become: without an
\* RWA budget the solver always has a point to return, so the branch of optimize_book
\* for a failed solve is never taken for want of one.
THEOREM AlwaysFeasible ==
    ASSUME NEW book \in Books
    PROVE  Solutions(book) # {}
<1> DEFINE top == Max({ValueOf(book, p) : p \in Position})
           x == [p \in Held(book) |-> [c \in Cpty |-> 0]]
<1>1. \A p \in Held(book) : /\ p \in Position /\ x[p] = [c \in Cpty |-> 0]
                            /\ ValueOf(book, p) \in Nat
  BY FiniteParts, BookFacts DEF ValueOf, Position
<1>2. x \in [Held(book) -> [Cpty -> 0..top]]
  <2>1. ASSUME NEW p \in Held(book) PROVE 0 \in 0..top
    <3>1. top \in Nat
      BY LargestValue DEF Held
    <3>2. QED
      BY <3>1
  <2>2. QED
    BY <2>1
<1>3. \A p \in Held(book) : AllocatedOf(x, p) = 0
  <2> SUFFICES ASSUME NEW p \in Held(book) PROVE SumFunction(x[p]) = 0
    BY DEF AllocatedOf
  <2> DEFINE zero == [c \in Cpty |-> 0]
  <2>1. SumFunctionOnSet(zero, Cpty) = 0
    <3>1. \A c \in Cpty : zero[c] = 0
      OBVIOUS
    <3> HIDE DEF zero
    <3>2. QED
      BY <3>1, FiniteParts, SumZero
  <2>2. QED
    BY <2>1 DEF SumFunction
<1>4. WithinPositions(book, x)
  BY <1>1, <1>3 DEF WithinPositions
<1>5. WithinLimits(x)
  <2> SUFFICES ASSUME NEW c \in Cpty, Limit[c] # None
               PROVE  AllocatedTo(x, c) <= Limit[c]
    BY DEF WithinLimits
  <2> DEFINE f == [p \in Held(book) |-> x[p][c]]
  <2>1. SumFunctionOnSet(f, Held(book)) = 0
    <3>1. \A p \in Held(book) : f[p] = 0
      OBVIOUS
    <3> HIDE DEF f
    <3>2. QED
      BY <3>1, FiniteParts, SumZero
  <2>2. AllocatedTo(x, c) = 0
    BY <2>1 DEF AllocatedTo, SumFunction
  <2>3. Limit[c] \in Nat
    BY OptimizerAssumption
  <2>4. QED
    BY <2>2, <2>3
<1>6. WithinIssuerCaps(book, x)
  <2> SUFFICES ASSUME NEW s \in Security
               PROVE  LET ofIssuer == {p \in Held(book) : IssuerOf[p[1]] = IssuerOf[s]}
                      IN  100 * SumFunction([p \in ofIssuer |-> AllocatedOf(x, p)])
                              <= IssuerCapPct * Total(book)
    BY DEF WithinIssuerCaps
  <2> DEFINE ofIssuer == {p \in Held(book) : IssuerOf[p[1]] = IssuerOf[s]}
             f == [p \in ofIssuer |-> AllocatedOf(x, p)]
  <2>1. SumFunctionOnSet(f, ofIssuer) = 0
    <3>1. IsFiniteSet(ofIssuer) /\ \A p \in ofIssuer : f[p] = 0
      BY <1>3, FiniteParts, FS_Subset
    <3> HIDE DEF f, ofIssuer
    <3>2. QED
      BY <3>1, SumZero
  <2>2. SumFunction(f) = 0
    BY <2>1 DEF SumFunction
  <2>3. IssuerCapPct * Total(book) \in Nat
    <3>1. IssuerCapPct \in Nat /\ Total(book) \in Nat
      BY OptimizerAssumption, BookFacts
    <3>2. QED
      BY <3>1
  <2>4. QED
    BY <2>2, <2>3
<1>7. x \in Solutions(book)
  BY <1>2, <1>4, <1>5, <1>6 DEF Solutions
<1>8. QED
  BY <1>7
=============================================================================
