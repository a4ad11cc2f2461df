-------------------------------- MODULE Sums ---------------------------------
(***************************************************************************)
(* What MapThenSumSet of the community modules returns, and what else the  *)
(* proofs need of numbers and sequences.  A sum is a recursive function on *)
(* the subsets of the set that is summed over; that there is one, and only *)
(* one, is shown by way of a smallest subset on which it would fail.       *)
(***************************************************************************)
EXTENDS Integers, Sequences, FiniteSets, FiniteSetsExt,
        FiniteSetTheorems, WellFoundedInduction, TLAPS

\* The sum of the values of a function over a part of its domain.
SumOf(f, S) == MapThenSumSet(LAMBDA x : f[x], S)

\* The element that the fold takes next, and what its function satisfies.
AnyOf(s) == CHOOSE x \in s : TRUE
IsSum(g, f, S) ==
    g = [s \in SUBSET S |-> IF s = {} THEN 0 ELSE f[AnyOf(s)] + g[s \ {AnyOf(s)}]]

LEMMA FirstIn == ASSUME NEW s, s # {} PROVE AnyOf(s) \in s
BY DEF AnyOf

\* What holds of a set whenever it holds of it less any of its elements.
LEMMA FromSmaller ==
    ASSUME NEW S, IsFiniteSet(S), NEW G \in SUBSET SUBSET S,
           \A s \in SUBSET S : (\A x \in s : s \ {x} \in G) => s \in G
    PROVE  \A s \in SUBSET S : s \in G
<1> SUFFICES ASSUME (SUBSET S) \ G # {} PROVE FALSE
  OBVIOUS
<1> DEFINE B == (SUBSET S) \ G
           R == StrictSubsetOrdering(S)
<1>1. IsWellFoundedOn(R, SUBSET S)
  <2>1. FiniteSubsetsOf(S) = SUBSET S
    BY FS_FiniteSubsetsOfFinite
  <2>2. IsWellFoundedOn(StrictSubsetOrdering(S), FiniteSubsetsOf(S))
    BY FS_StrictSubsetOrderingWellFounded
  <2> QED BY <2>1, <2>2
<1>2. \A s \in SUBSET S : \A x \in s : <<s \ {x}, s>> \in R
  BY DEF StrictSubsetOrdering
<1> HIDE DEF R
<1>3. PICK s \in B : \A t \in B : ~(<<t, s>> \in R)
  BY <1>1, WFMin
<1>4. \A x \in s : s \ {x} \in G
  BY <1>2, <1>3
<1> QED BY <1>3, <1>4

\* Two such functions agree where both have a value, which is an integer.
LEMMA SumsAgree ==
    ASSUME NEW U, NEW f \in [U -> Int], NEW S \in SUBSET U, NEW T \in SUBSET S, IsFiniteSet(T),
           NEW g, NEW h, IsSum(g, f, S), IsSum(h, f, T)
    PROVE  \A s \in SUBSET T : g[s] = h[s] /\ h[s] \in Int
<1> DEFINE G == {s \in SUBSET T : g[s] = h[s] /\ h[s] \in Int}
<1>1. ASSUME NEW s \in SUBSET T, \A x \in s : s \ {x} \in G PROVE s \in G
  <2>1. CASE s = {}
    <3>1. g[s] = 0 /\ h[s] = 0
      BY <2>1 DEF IsSum
    <3> QED BY <3>1
  <2>2. CASE s # {}
    <3>1. AnyOf(s) \in s /\ f[AnyOf(s)] \in Int
      BY <2>2, FirstIn
    <3>2. g[s] = f[AnyOf(s)] + g[s \ {AnyOf(s)}] /\ h[s] = f[AnyOf(s)] + h[s \ {AnyOf(s)}]
      BY <2>2 DEF IsSum
    <3>3. g[s \ {AnyOf(s)}] = h[s \ {AnyOf(s)}] /\ h[s \ {AnyOf(s)}] \in Int
      BY <1>1, <3>1
    <3> QED BY <3>1, <3>2, <3>3
  <2> QED BY <2>1, <2>2
<1> HIDE DEF G
<1>2. G \in SUBSET SUBSET T
  BY DEF G
<1>3. \A s \in SUBSET T : s \in G
  BY <1>1, <1>2, FromSmaller
<1> QED BY <1>3 DEF G

LEMMA SumsMeet ==
    ASSUME NEW U, NEW f \in [U -> Int], NEW S \in SUBSET U, NEW T \in SUBSET S, IsFiniteSet(T)
    PROVE  \A g, h : IsSum(g, f, S) /\ IsSum(h, f, T) => g[T] = h[T]
BY SumsAgree

\* What is defined on the subsets of a part is its function.
LEMMA SumsBelow ==
    ASSUME NEW U, NEW f \in [U -> Int], NEW S \in SUBSET U, NEW T \in SUBSET S, NEW g, IsSum(g, f, S)
    PROVE  \E h : IsSum(h, f, T)
<1> DEFINE h == [s \in SUBSET T |-> g[s]]
<1>1. ASSUME NEW s \in SUBSET T, s # {} PROVE h[s] = f[AnyOf(s)] + h[s \ {AnyOf(s)}]
  <2>1. g[s] = f[AnyOf(s)] + g[s \ {AnyOf(s)}]
    BY <1>1 DEF IsSum
  <2>2. h[s] = g[s] /\ h[s \ {AnyOf(s)}] = g[s \ {AnyOf(s)}]
    OBVIOUS
  <2> QED BY <2>1, <2>2
<1>2. {} \in SUBSET T => h[{}] = 0
  BY DEF IsSum
<1> HIDE DEF h
<1>3. DOMAIN h = SUBSET T /\ h = [s \in SUBSET T |-> h[s]]
  BY DEF h
<1>4. \A s \in SUBSET T : h[s] = IF s = {} THEN 0 ELSE f[AnyOf(s)] + h[s \ {AnyOf(s)}]
  BY <1>1, <1>2
<1>5. h = [s \in SUBSET T |-> IF s = {} THEN 0 ELSE f[AnyOf(s)] + h[s \ {AnyOf(s)}]]
  BY <1>3, <1>4
<1> QED BY <1>5 DEF IsSum

LEMMA SumExists ==
    ASSUME NEW U, NEW f \in [U -> Int], NEW S \in SUBSET U, IsFiniteSet(S)
    PROVE  \E g : IsSum(g, f, S)
<1> DEFINE G == {s \in SUBSET S : \E g : IsSum(g, f, s)}
<1>1. ASSUME NEW s \in SUBSET S, \A x \in s : s \ {x} \in G PROVE s \in G
  <2> DEFINE of(t) == CHOOSE g : IsSum(g, f, t)
             g == [t \in SUBSET s |-> IF t = {} THEN 0 ELSE f[AnyOf(t)] + of(t \ {AnyOf(t)})[t \ {AnyOf(t)}]]
  <2>1. ASSUME NEW t \in SUBSET s, t # s PROVE IsSum(of(t), f, t)
    <3>1. PICK x \in s : t \in SUBSET (s \ {x})
      BY <2>1
    <3>2. PICK h : IsSum(h, f, s \ {x})
      BY <1>1
    <3>3. \E k : IsSum(k, f, t)
      <4>1. s \ {x} \in SUBSET U
        OBVIOUS
      <4> QED BY <3>1, <3>2, <4>1, SumsBelow
    <3> QED BY <3>3
  <2> HIDE DEF of
  <2>2. ASSUME NEW t \in SUBSET s, t # s, t # {}
        PROVE  of(t)[t] = f[AnyOf(t)] + of(t \ {AnyOf(t)})[t \ {AnyOf(t)}]
    <3>1. IsSum(of(t), f, t) /\ AnyOf(t) \in t
      BY <2>1, <2>2, FirstIn
    <3>2. IsSum(of(t \ {AnyOf(t)}), f, t \ {AnyOf(t)})
      BY <2>1, <2>2, <3>1
    <3>3. IsFiniteSet(t \ {AnyOf(t)}) /\ t \ {AnyOf(t)} \in SUBSET t /\ t \in SUBSET U
      BY FS_Subset
    <3>4. of(t)[t \ {AnyOf(t)}] = of(t \ {AnyOf(t)})[t \ {AnyOf(t)}]
      <4>1. t \in SUBSET U /\ t \ {AnyOf(t)} \in SUBSET t /\ IsFiniteSet(t \ {AnyOf(t)})
        BY <3>3
      <4> HIDE DEF g, G
      <4>2. \A k, h : IsSum(k, f, t) /\ IsSum(h, f, t \ {AnyOf(t)}) => k[t \ {AnyOf(t)}] = h[t \ {AnyOf(t)}]
        BY <4>1, SumsMeet
      <4> QED BY <3>1, <3>2, <4>2
    <3>5. of(t)[t] = f[AnyOf(t)] + of(t)[t \ {AnyOf(t)}]
      BY <2>2, <3>1 DEF IsSum
    <3> QED BY <3>4, <3>5
  <2>3. of({})[{}] = 0 \/ s = {}
    BY <2>1 DEF IsSum
  <2>4. ASSUME NEW t \in SUBSET s, t # {} PROVE g[t] = f[AnyOf(t)] + g[t \ {AnyOf(t)}]
    <3> DEFINE u == t \ {AnyOf(t)}
    <3>1. AnyOf(t) \in t
      BY <2>4, FirstIn
    <3>2. u \in SUBSET s /\ u # s
      BY <3>1
    <3>3. g[u] = of(u)[u]
      <4>1. CASE u = {}
        <5>1. g[u] = 0 /\ s # {}
          BY <2>4, <4>1
        <5> QED BY <2>3, <4>1, <5>1
      <4>2. CASE u # {}
        <5>1. of(u)[u] = f[AnyOf(u)] + of(u \ {AnyOf(u)})[u \ {AnyOf(u)}]
          BY <2>2, <3>2, <4>2
        <5> HIDE DEF u
        <5>2. g[u] = f[AnyOf(u)] + of(u \ {AnyOf(u)})[u \ {AnyOf(u)}]
          BY <3>2, <4>2
        <5> QED BY <5>1, <5>2
      <4> QED BY <4>1, <4>2
    <3>4. g[t] = f[AnyOf(t)] + of(u)[u]
      BY <2>4
    <3> QED BY <3>3, <3>4
  <2>5. g[{}] = 0 /\ g = [t \in SUBSET s |-> g[t]]
    OBVIOUS
  <2> HIDE DEF g
  <2>6. \A t \in SUBSET s : g[t] = IF t = {} THEN 0 ELSE f[AnyOf(t)] + g[t \ {AnyOf(t)}]
    BY <2>4, <2>5
  <2>7. g = [t \in SUBSET s |-> IF t = {} THEN 0 ELSE f[AnyOf(t)] + g[t \ {AnyOf(t)}]]
    BY <2>5, <2>6
  <2> QED BY <2>7 DEF IsSum
<1> HIDE DEF G
<1>2. G \in SUBSET SUBSET S
  BY DEF G
<1>3. \A s \in SUBSET S : s \in G
  BY <1>1, <1>2, FromSmaller
<1> QED BY <1>3 DEF G

\* The fold is the value of any such function.
LEMMA SumUnfolds ==
    ASSUME NEW U, NEW f \in [U -> Int], NEW S \in SUBSET U, IsFiniteSet(S), NEW g, IsSum(g, f, S)
    PROVE  SumOf(f, S) = g[S] /\ SumOf(f, S) \in Int
<1>1. \E h : IsSum(h, f, S) /\ SumOf(f, S) = h[S]
  BY ZenonT(30) DEF SumOf, MapThenSumSet, MapThenFoldSet, IsSum, AnyOf
<1>2. PICK h : IsSum(h, f, S) /\ SumOf(f, S) = h[S]
  BY <1>1
<1> QED BY <1>2, SumsAgree
-----------------------------------------------------------------------------
LEMMA SumInt ==
    ASSUME NEW U, NEW f \in [U -> Int], NEW S \in SUBSET U, IsFiniteSet(S)
    PROVE  SumOf(f, S) \in Int
<1>1. PICK g : IsSum(g, f, S)
  BY SumExists
<1> QED BY <1>1, SumUnfolds

LEMMA SumEmpty == ASSUME NEW U, NEW f \in [U -> Int] PROVE SumOf(f, {}) = 0
<1>1. {} \in SUBSET U /\ IsFiniteSet({})
  BY FS_EmptySet
<1>2. PICK g : IsSum(g, f, {})
  BY <1>1, SumExists
<1>3. SumOf(f, {}) = g[{}]
  BY <1>1, <1>2, SumUnfolds
<1> QED BY <1>2, <1>3 DEF IsSum

LEMMA SumFirst ==
    ASSUME NEW U, NEW f \in [U -> Int], NEW S \in SUBSET U, IsFiniteSet(S), S # {}
    PROVE  SumOf(f, S) = f[AnyOf(S)] + SumOf(f, S \ {AnyOf(S)})
<1>1. PICK g : IsSum(g, f, S)
  BY SumExists
<1>2. SumOf(f, S) = g[S] /\ g[S] = f[AnyOf(S)] + g[S \ {AnyOf(S)}]
  <2>1. SumOf(f, S) = g[S]
    BY <1>1, SumUnfolds
  <2> QED BY <1>1, <2>1 DEF IsSum
<1>3. /\ S \ {AnyOf(S)} \in SUBSET S /\ S \ {AnyOf(S)} \in SUBSET U /\ IsFiniteSet(S \ {AnyOf(S)})
  BY FS_Subset
<1>4. PICK h : IsSum(h, f, S \ {AnyOf(S)})
  BY <1>3, SumExists
<1>5. SumOf(f, S \ {AnyOf(S)}) = h[S \ {AnyOf(S)}]
  BY <1>3, <1>4, SumUnfolds
<1>6. g[S \ {AnyOf(S)}] = h[S \ {AnyOf(S)}]
  BY <1>1, <1>3, <1>4, SumsMeet
<1> QED BY <1>2, <1>5, <1>6

\* The order in which the fold takes the elements is of no matter.
LEMMA SumRemove ==
    ASSUME NEW U, NEW f \in [U -> Int], NEW S \in SUBSET U, IsFiniteSet(S), NEW y \in S
    PROVE  SumOf(f, S) = f[y] + SumOf(f, S \ {y})
<1> DEFINE G == {s \in SUBSET S : \A z \in s : SumOf(f, s) = f[z] + SumOf(f, s \ {z})}
<1>1. ASSUME NEW s \in SUBSET S, \A x \in s : s \ {x} \in G PROVE s \in G
  <2> SUFFICES ASSUME NEW z \in s PROVE SumOf(f, s) = f[z] + SumOf(f, s \ {z})
    OBVIOUS
  <2> DEFINE x == AnyOf(s)
  <2>1. x \in s /\ s \in SUBSET U /\ IsFiniteSet(s)
    BY FirstIn, FS_Subset
  <2>2. SumOf(f, s) = f[x] + SumOf(f, s \ {x})
    BY <2>1, SumFirst
  <2> HIDE DEF x
  <2>3. CASE z = x
    BY <2>2, <2>3
  <2>4. CASE z # x
    <3>1. SumOf(f, s \ {x}) = f[z] + SumOf(f, (s \ {x}) \ {z})
      BY <1>1, <2>1, <2>4
    <3>2. SumOf(f, s \ {z}) = f[x] + SumOf(f, (s \ {z}) \ {x})
      BY <1>1, <2>1, <2>4
    <3>3. (s \ {x}) \ {z} = (s \ {z}) \ {x}
      OBVIOUS
    <3>4. f[x] \in Int /\ f[z] \in Int
      BY <2>1
    <3>5. (s \ {z}) \ {x} \in SUBSET U /\ IsFiniteSet((s \ {z}) \ {x})
      BY <2>1, FS_Subset
    <3>6. SumOf(f, (s \ {z}) \ {x}) \in Int
      BY <3>5, SumInt
    <3>7. SumOf(f, s \ {x}) = f[z] + SumOf(f, (s \ {z}) \ {x})
      BY <3>1, <3>3
    <3> DEFINE rest == SumOf(f, (s \ {z}) \ {x})
    <3>8. SumOf(f, s) = f[x] + (f[z] + rest) /\ SumOf(f, s \ {z}) = f[x] + rest /\ rest \in Int
      BY <2>2, <3>2, <3>6, <3>7
    <3> HIDE DEF rest
    <3> QED BY <3>4, <3>8
  <2> QED BY <2>3, <2>4
<1> HIDE DEF G
<1>2. G \in SUBSET SUBSET S
  BY DEF G
<1>3. \A s \in SUBSET S : s \in G
  BY <1>1, <1>2, FromSmaller
<1> QED BY <1>3 DEF G

LEMMA SumAdd ==
    ASSUME NEW U, NEW f \in [U -> Int], NEW S \in SUBSET U, IsFiniteSet(S), NEW y \in U \ S
    PROVE  SumOf(f, S \cup {y}) = f[y] + SumOf(f, S)
<1>1. S \cup {y} \in SUBSET U /\ IsFiniteSet(S \cup {y}) /\ (S \cup {y}) \ {y} = S
  BY FS_AddElement
<1> QED BY <1>1, SumRemove

LEMMA SumOne == ASSUME NEW U, NEW f \in [U -> Int], NEW y \in U PROVE SumOf(f, {y}) = f[y]
<1>1. {y} \in SUBSET U /\ IsFiniteSet({y}) /\ {y} \ {y} = {}
  BY FS_Singleton
<1>2. SumOf(f, {y}) = f[y] + SumOf(f, {y} \ {y})
  BY <1>1, SumRemove
<1> QED BY <1>1, <1>2, SumEmpty

\* Sums of two functions over a set compare as their values do.
LEMMA SumMonotone ==
    ASSUME NEW U, NEW f \in [U -> Int], NEW V, NEW h \in [V -> Int], NEW S \in SUBSET (U \cap V), IsFiniteSet(S),
           \A x \in S : f[x] <= h[x]
    PROVE  SumOf(f, S) <= SumOf(h, S)
<1> DEFINE G == {s \in SUBSET S : SumOf(f, s) <= SumOf(h, s)}
<1>1. ASSUME NEW s \in SUBSET S, \A x \in s : s \ {x} \in G PROVE s \in G
  <2>1. CASE s = {}
    <3>1. SumOf(f, s) = 0 /\ SumOf(h, s) = 0
      BY <2>1, SumEmpty
    <3> QED BY <3>1
  <2>2. ASSUME NEW x \in s PROVE s \in G
    <3>1. /\ IsFiniteSet(s) /\ IsFiniteSet(s \ {x}) /\ s \in SUBSET U /\ s \in SUBSET V
          /\ s \ {x} \in SUBSET U /\ s \ {x} \in SUBSET V
      BY FS_Subset
    <3>2. SumOf(f, s) = f[x] + SumOf(f, s \ {x}) /\ SumOf(h, s) = h[x] + SumOf(h, s \ {x})
      BY <3>1, SumRemove
    <3>3. SumOf(f, s \ {x}) <= SumOf(h, s \ {x}) /\ f[x] <= h[x]
      BY <1>1
    <3>4. f[x] \in Int /\ h[x] \in Int /\ SumOf(f, s \ {x}) \in Int /\ SumOf(h, s \ {x}) \in Int
      BY <3>1, SumInt
    <3> QED BY <3>2, <3>3, <3>4
  <2> QED BY <2>1, <2>2
<1> HIDE DEF G
<1>2. G \in SUBSET SUBSET S
  BY DEF G
<1>3. \A s \in SUBSET S : s \in G
  BY <1>1, <1>2, FromSmaller
<1> QED BY <1>3 DEF G

\* The sum over two parts.
LEMMA SumParts ==
    ASSUME NEW U, NEW f \in [U -> Int], NEW A \in SUBSET U, NEW B \in SUBSET U,
           IsFiniteSet(A), IsFiniteSet(B), A \cap B = {}
    PROVE  SumOf(f, A \cup B) = SumOf(f, A) + SumOf(f, B)
<1> DEFINE G == {s \in SUBSET B : SumOf(f, A \cup s) = SumOf(f, A) + SumOf(f, s)}
<1>1. ASSUME NEW s \in SUBSET B, \A x \in s : s \ {x} \in G PROVE s \in G
  <2>1. CASE s = {}
    <3>1. SumOf(f, s) = 0 /\ A \cup s = A /\ SumOf(f, A) \in Int
      BY <2>1, SumEmpty, SumInt
    <3> QED BY <3>1
  <2>2. ASSUME NEW x \in s PROVE s \in G
    <3>1. /\ IsFiniteSet(s) /\ IsFiniteSet(s \ {x}) /\ s \in SUBSET U /\ s \ {x} \in SUBSET U
          /\ A \cup s \in SUBSET U /\ x \in A \cup s /\ (A \cup s) \ {x} = A \cup (s \ {x})
      BY FS_Subset
    <3>2. IsFiniteSet(A \cup s)
      BY <3>1, FS_Union
    <3>3. SumOf(f, s) = f[x] + SumOf(f, s \ {x})
      BY <3>1, SumRemove
    <3>4. SumOf(f, A \cup s) = f[x] + SumOf(f, A \cup (s \ {x}))
      BY <3>1, <3>2, SumRemove
    <3>5. SumOf(f, A \cup (s \ {x})) = SumOf(f, A) + SumOf(f, s \ {x})
      BY <1>1
    <3>6. f[x] \in Int /\ SumOf(f, A) \in Int /\ SumOf(f, s \ {x}) \in Int
      BY <3>1, SumInt
    <3> QED BY <3>3, <3>4, <3>5, <3>6
  <2> QED BY <2>1, <2>2
<1> HIDE DEF G
<1>2. G \in SUBSET SUBSET B
  BY DEF G
<1>3. \A s \in SUBSET B : s \in G
  BY <1>1, <1>2, FromSmaller
<1> QED BY <1>3 DEF G

LEMMA SumNonneg ==
    ASSUME NEW U, NEW f \in [U -> Int], NEW S \in SUBSET U, IsFiniteSet(S), \A x \in S : 0 <= f[x]
    PROVE  0 <= SumOf(f, S)
<1> DEFINE G == {s \in SUBSET S : 0 <= SumOf(f, s)}
<1>1. ASSUME NEW s \in SUBSET S, \A x \in s : s \ {x} \in G PROVE s \in G
  <2>1. CASE s = {}
    <3>1. SumOf(f, s) = 0
      BY <2>1, SumEmpty
    <3> QED BY <3>1
  <2>2. ASSUME NEW x \in s PROVE s \in G
    <3>1. IsFiniteSet(s) /\ IsFiniteSet(s \ {x}) /\ s \in SUBSET U /\ s \ {x} \in SUBSET U
      BY FS_Subset
    <3>2. SumOf(f, s) = f[x] + SumOf(f, s \ {x})
      BY <3>1, SumRemove
    <3>3. f[x] \in Int /\ SumOf(f, s \ {x}) \in Int
      BY <3>1, SumInt
    <3>4. 0 <= f[x] /\ 0 <= SumOf(f, s \ {x})
      BY <1>1
    <3> QED BY <3>2, <3>3, <3>4
  <2> QED BY <2>1, <2>2
<1> HIDE DEF G
<1>2. G \in SUBSET SUBSET S
  BY DEF G
<1>3. \A s \in SUBSET S : s \in G
  BY <1>1, <1>2, FromSmaller
<1> QED BY <1>3 DEF G

\* More is summed over a larger set, where no value is negative.
LEMMA SumGrows ==
    ASSUME NEW U, NEW f \in [U -> Int], NEW S \in SUBSET U, IsFiniteSet(S), NEW T \in SUBSET S,
           \A x \in S \ T : 0 <= f[x]
    PROVE  SumOf(f, T) <= SumOf(f, S)
<1>1. /\ T \in SUBSET U /\ S \ T \in SUBSET U /\ IsFiniteSet(T) /\ IsFiniteSet(S \ T)
      /\ T \cap (S \ T) = {} /\ T \cup (S \ T) = S
  BY FS_Subset
<1>2. SumOf(f, S) = SumOf(f, T) + SumOf(f, S \ T)
  BY <1>1, SumParts
<1>3. 0 <= SumOf(f, S \ T) /\ SumOf(f, T) \in Int /\ SumOf(f, S \ T) \in Int
  BY <1>1, SumNonneg, SumInt
<1> QED BY <1>2, <1>3

LEMMA SumSame ==
    ASSUME NEW U, NEW f \in [U -> Int], NEW V, NEW h \in [V -> Int], NEW S \in SUBSET (U \cap V), IsFiniteSet(S),
           \A x \in S : f[x] = h[x]
    PROVE  SumOf(f, S) = SumOf(h, S)
<1>1. S \in SUBSET U /\ S \in SUBSET V /\ \A x \in S : f[x] \in Int /\ f[x] <= h[x] /\ h[x] <= f[x]
  OBVIOUS
<1>2. SumOf(f, S) \in Int /\ SumOf(h, S) \in Int
  BY <1>1, SumInt
<1>3. SumOf(f, S) <= SumOf(h, S)
  BY <1>1, SumMonotone
<1>4. SumOf(h, S) <= SumOf(f, S)
  <2>1. S \in SUBSET (V \cap U)
    OBVIOUS
  <2> QED BY <1>1, <2>1, SumMonotone
<1> QED BY <1>2, <1>3, <1>4

\* A constant is summed as often as there are elements.
LEMMA SumConstant ==
    ASSUME NEW U, NEW c \in Int, NEW S \in SUBSET U, IsFiniteSet(S)
    PROVE  SumOf([x \in U |-> c], S) = c * Cardinality(S)
<1> DEFINE f == [x \in U |-> c]
           G == {s \in SUBSET S : SumOf(f, s) = c * Cardinality(s)}
<1>0. f \in [U -> Int] /\ \A x \in U : f[x] = c
  OBVIOUS
<1> HIDE DEF f
<1>1. ASSUME NEW s \in SUBSET S, \A x \in s : s \ {x} \in G PROVE s \in G
  <2>1. CASE s = {}
    <3>1. SumOf(f, s) = 0 /\ Cardinality(s) = 0
      BY <1>0, <2>1, SumEmpty, FS_EmptySet
    <3> QED BY <3>1
  <2>2. ASSUME NEW x \in s PROVE s \in G
    <3>1. IsFiniteSet(s) /\ IsFiniteSet(s \ {x}) /\ s \in SUBSET U /\ s \ {x} \in SUBSET U
      BY FS_Subset
    <3>2. SumOf(f, s) = f[x] + SumOf(f, s \ {x})
      BY <1>0, <3>1, SumRemove
    <3>3. Cardinality(s) \in Nat /\ Cardinality(s \ {x}) = Cardinality(s) - 1
      BY <3>1, FS_RemoveElement, FS_CardinalityType
    <3>4. SumOf(f, s \ {x}) = c * Cardinality(s \ {x}) /\ f[x] = c
      BY <1>0, <1>1
    <3>5. \A n \in Int : c + c * (n - 1) = c * n
      OBVIOUS
    <3>6. SumOf(f, s) = c * Cardinality(s)
      BY <3>2, <3>3, <3>4, <3>5
    <3> QED BY <3>6
  <2> QED BY <2>1, <2>2
<1> HIDE DEF G
<1>2. G \in SUBSET SUBSET S
  BY DEF G
<1>3. \A s \in SUBSET S : s \in G
  BY <1>1, <1>2, FromSmaller
<1> QED BY <1>3 DEF G, f

LEMMA SumAtMost ==
    ASSUME NEW U, NEW f \in [U -> Int], NEW c \in Int, NEW S \in SUBSET U, IsFiniteSet(S),
           \A x \in S : f[x] <= c
    PROVE  SumOf(f, S) <= c * Cardinality(S)
<1> DEFINE h == [x \in U |-> c]
<1>1. h \in [U -> Int] /\ S \in SUBSET (U \cap U) /\ \A x \in S : f[x] <= h[x]
  OBVIOUS
<1>2. SumOf(h, S) = c * Cardinality(S)
  BY SumConstant
<1> HIDE DEF h
<1>3. SumOf(f, S) <= SumOf(h, S)
  BY <1>1, SumMonotone
<1> QED BY <1>2, <1>3

LEMMA SumAtLeast ==
    ASSUME NEW U, NEW f \in [U -> Int], NEW c \in Int, NEW S \in SUBSET U, IsFiniteSet(S),
           \A x \in S : c <= f[x]
    PROVE  c * Cardinality(S) <= SumOf(f, S)
<1> DEFINE h == [x \in U |-> c]
<1>1. h \in [U -> Int] /\ S \in SUBSET (U \cap U) /\ \A x \in S : h[x] <= f[x]
  OBVIOUS
<1>2. SumOf(h, S) = c * Cardinality(S)
  BY SumConstant
<1> HIDE DEF h
<1>3. SumOf(h, S) <= SumOf(f, S)
  BY <1>1, SumMonotone
<1> QED BY <1>2, <1>3

\* So many times the values are so many times the sum.
Scaled(h, c, f, S) == \A x \in S : h[x] = c * f[x]

LEMMA SumScale ==
    ASSUME NEW U, NEW f \in [U -> Int], NEW c \in Int, NEW S \in SUBSET U, IsFiniteSet(S),
           NEW h \in [U -> Int], Scaled(h, c, f, S)
    PROVE  SumOf(h, S) = c * SumOf(f, S)
<1> DEFINE G == {s \in SUBSET S : SumOf(h, s) = c * SumOf(f, s)}
<1>1. ASSUME NEW s \in SUBSET S, \A x \in s : s \ {x} \in G PROVE s \in G
  <2>1. CASE s = {}
    <3>1. SumOf(f, s) = 0 /\ SumOf(h, s) = 0
      BY <2>1, SumEmpty
    <3>2. SumOf(h, s) = c * SumOf(f, s)
      BY <3>1
    <3> QED BY <3>2
  <2>2. ASSUME NEW x \in s PROVE s \in G
    <3>1. IsFiniteSet(s) /\ IsFiniteSet(s \ {x}) /\ s \in SUBSET U /\ s \ {x} \in SUBSET U /\ x \in U
      BY FS_Subset
    <3>2. SumOf(f, s) = f[x] + SumOf(f, s \ {x}) /\ SumOf(h, s) = h[x] + SumOf(h, s \ {x})
      BY <3>1, SumRemove
    <3>3. SumOf(h, s \ {x}) = c * SumOf(f, s \ {x}) /\ h[x] = c * f[x]
      BY <1>1 DEF Scaled
    <3>4. f[x] \in Int /\ SumOf(f, s \ {x}) \in Int
      BY <3>1, SumInt
    <3>5. \A m, n \in Int : c * (m + n) = c * m + c * n
      OBVIOUS
    <3>6. SumOf(h, s) = c * SumOf(f, s)
      BY <3>2, <3>3, <3>4, <3>5
    <3> QED BY <3>6
  <2> QED BY <2>1, <2>2
<1> HIDE DEF G
<1>2. G \in SUBSET SUBSET S
  BY DEF G
<1>3. \A s \in SUBSET S : s \in G
  BY <1>1, <1>2, FromSmaller
<1> QED BY <1>3 DEF G

LEMMA SumRestrict ==
    ASSUME NEW U, NEW f \in [U -> Int], NEW S \in SUBSET U, IsFiniteSet(S),
           NEW h, DOMAIN h = S, h = [x \in S |-> h[x]], \A x \in S : h[x] = f[x]
    PROVE  SumOf(h, DOMAIN h) = SumOf(f, S) /\ SumOf(f, S) \in Int
<1>1. h \in [S -> Int] /\ S \in SUBSET (S \cap U)
  OBVIOUS
<1>2. SumOf(h, S) = SumOf(f, S)
  BY <1>1, SumSame
<1> QED BY <1>2, SumInt

\* The community modules have two names for it.
LEMMA SumsOfFunctions == ASSUME NEW f PROVE SumFunction(f) = SumOf(f, DOMAIN f)
BY Zenon DEF SumFunction, SumFunctionOnSet, FoldFunctionOnSet, SumOf, MapThenSumSet, MapThenFoldSet

LEMMA SumPair ==
    ASSUME NEW U, NEW f \in [U -> Int], NEW a \in U, NEW b \in U, a # b
    PROVE  SumOf(f, {a, b}) = f[a] + f[b] /\ IsFiniteSet({a, b})
<1> DEFINE one == {a}
<1>1. one \in SUBSET U /\ b \in U \ one
  OBVIOUS
<1>2. IsFiniteSet(one)
  BY FS_Singleton
<1>3. SumOf(f, one) = f[a]
  BY SumOne
<1>4. one \cup {b} = {a, b}
  OBVIOUS
<1>5. f[a] \in Int /\ f[b] \in Int
  OBVIOUS
<1> HIDE DEF one
<1>6. SumOf(f, one \cup {b}) = f[b] + SumOf(f, one)
  BY <1>1, <1>2, SumAdd
<1>7. IsFiniteSet(one \cup {b})
  BY <1>2, FS_AddElement
<1>8. SumOf(f, {a, b}) = f[b] + SumOf(f, one)
  BY <1>4, <1>6
<1>9. IsFiniteSet({a, b})
  BY <1>4, <1>7
<1> QED BY <1>3, <1>5, <1>8, <1>9

\* What one sum is more than another.
DiffersBy(h, f, g, S) == h \in [S -> Int] /\ f \in [S -> Int] /\ g \in [S -> Int] /\ \A x \in S : h[x] = f[x] - g[x]

LEMMA SumLess ==
    ASSUME NEW S, IsFiniteSet(S), NEW f, NEW g, NEW h, DiffersBy(h, f, g, S)
    PROVE  SumOf(h, S) = SumOf(f, S) - SumOf(g, S)
<1> DEFINE G == {s \in SUBSET S : SumOf(h, s) = SumOf(f, s) - SumOf(g, s)}
<1>0. h \in [S -> Int] /\ f \in [S -> Int] /\ g \in [S -> Int]
  BY DEF DiffersBy
<1>1. ASSUME NEW s \in SUBSET S, \A x \in s : s \ {x} \in G PROVE s \in G
  <2>1. CASE s = {}
    <3>1. SumOf(f, s) = 0 /\ SumOf(h, s) = 0 /\ SumOf(g, s) = 0
      BY <1>0, <2>1, SumEmpty
    <3> QED BY <3>1
  <2>2. ASSUME NEW x \in s PROVE s \in G
    <3>1. IsFiniteSet(s) /\ IsFiniteSet(s \ {x}) /\ s \in SUBSET S /\ s \ {x} \in SUBSET S /\ x \in S
      BY FS_Subset
    <3>0. ASSUME NEW j \in [S -> Int] PROVE SumOf(j, s) = j[x] + SumOf(j, s \ {x})
      BY <3>1, SumRemove
    <3>2. /\ SumOf(f, s) = f[x] + SumOf(f, s \ {x}) /\ SumOf(h, s) = h[x] + SumOf(h, s \ {x})
          /\ SumOf(g, s) = g[x] + SumOf(g, s \ {x})
      BY <1>0, <3>0
    <3>3. SumOf(h, s \ {x}) = SumOf(f, s \ {x}) - SumOf(g, s \ {x}) /\ h[x] = f[x] - g[x]
      BY <1>1 DEF DiffersBy
    <3>4. f[x] \in Int /\ g[x] \in Int /\ SumOf(f, s \ {x}) \in Int /\ SumOf(g, s \ {x}) \in Int
      BY <1>0, <3>1, SumInt
    <3>5. SumOf(h, s) = SumOf(f, s) - SumOf(g, s)
      BY <3>2, <3>3, <3>4
    <3> QED BY <3>5
  <2> QED BY <2>1, <2>2
<1> HIDE DEF G
<1>2. G \in SUBSET SUBSET S
  BY DEF G
<1>3. \A s \in SUBSET S : s \in G
  BY <1>1, <1>2, FromSmaller
<1> QED BY <1>3 DEF G

\* What is summed class by class is all.
Classes(T, K, S) ==
    /\ T \in [K -> SUBSET S] /\ \A x \in S : \E c \in K : x \in T[c]
    /\ \A c, d \in K : c # d => T[c] \cap T[d] = {}

LEMMA SumByClass ==
    ASSUME NEW U, NEW f \in [U -> Int], NEW S \in SUBSET U, IsFiniteSet(S),
           NEW K, IsFiniteSet(K), NEW T, Classes(T, K, S), NEW h \in [K -> Int], \A c \in K : h[c] = SumOf(f, T[c])
    PROVE  SumOf(h, K) = SumOf(f, S)
<1> DEFINE In(J) == {x \in S : \E c \in J : x \in T[c]}
           Class(c) == T[c]
           G == {J \in SUBSET K : SumOf(h, J) = SumOf(f, In(J))}
<1>1. ASSUME NEW J \in SUBSET K, \A c \in J : J \ {c} \in G PROVE J \in G
  <2>1. CASE J = {}
    <3>1. In(J) = {}
      BY <2>1
    <3>2. SumOf(h, J) = 0
      BY <2>1, SumEmpty
    <3>3. SumOf(f, In(J)) = 0
      <4>1. SumOf(f, {}) = 0
        BY SumEmpty
      <4> QED BY <3>1, <4>1
    <3> QED BY <3>2, <3>3
  <2>2. ASSUME NEW c \in J PROVE J \in G
    <3>1. J \in SUBSET K /\ IsFiniteSet(J) /\ c \in J
      BY FS_Subset
    <3>2. SumOf(h, J) = h[c] + SumOf(h, J \ {c})
      BY <3>1, SumRemove
    <3>3. SumOf(h, J \ {c}) = SumOf(f, In(J \ {c})) /\ h[c] = SumOf(f, Class(c))
      BY <1>1
    <3>4. /\ In(J) = Class(c) \cup In(J \ {c}) /\ Class(c) \cap In(J \ {c}) = {}
          /\ Class(c) \in SUBSET S /\ In(J \ {c}) \in SUBSET S
      BY DEF Classes
    <3> DEFINE A == Class(c)
               B == In(J \ {c})
    <3>5. A \in SUBSET S /\ B \in SUBSET S /\ A \cap B = {} /\ In(J) = A \cup B
      BY <3>4
    <3>6. SumOf(h, J) = SumOf(f, A) + SumOf(f, B)
      BY <3>2, <3>3
    <3> HIDE DEF In, Class, A, B
    <3>7. IsFiniteSet(A) /\ IsFiniteSet(B) /\ A \in SUBSET U /\ B \in SUBSET U
      BY <3>5, FS_Subset
    <3>8. SumOf(f, A \cup B) = SumOf(f, A) + SumOf(f, B)
      BY <3>5, <3>7, SumParts
    <3>9. SumOf(h, J) = SumOf(f, In(J))
      BY <3>5, <3>6, <3>8
    <3> QED BY <3>9
  <2> QED BY <2>1, <2>2
<1> HIDE DEF G
<1>2. G \in SUBSET SUBSET K
  BY DEF G
<1>3. \A J \in SUBSET K : J \in G
  BY <1>1, <1>2, FromSmaller
<1>4. In(K) = S
  BY DEF Classes
<1> QED BY <1>3, <1>4 DEF G

\* The squares of the distances from a number are not negative, nor are those
\* from the mean.
LEMMA SquaresFrom ==
    ASSUME NEW U, NEW f \in [U -> Int], NEW q \in [U -> Int], \A x \in U : q[x] = f[x] * f[x],
           NEW S \in SUBSET U, IsFiniteSet(S), NEW b \in Int
    PROVE  SumOf(q, S) - (2 * b) * SumOf(f, S) + (b * b) * Cardinality(S) >= 0
<1> DEFINE G == {s \in SUBSET S : SumOf(q, s) - (2 * b) * SumOf(f, s) + (b * b) * Cardinality(s) >= 0}
<1>1. ASSUME NEW s \in SUBSET S, \A x \in s : s \ {x} \in G PROVE s \in G
  <2>1. CASE s = {}
    <3>1. SumOf(f, s) = 0 /\ SumOf(q, s) = 0 /\ Cardinality(s) = 0
      BY <2>1, SumEmpty, FS_EmptySet
    <3> QED BY <3>1
  <2>2. ASSUME NEW x \in s PROVE s \in G
    <3>1. IsFiniteSet(s) /\ IsFiniteSet(s \ {x}) /\ s \in SUBSET U /\ s \ {x} \in SUBSET U /\ x \in U
      BY FS_Subset
    <3>2. SumOf(f, s) = f[x] + SumOf(f, s \ {x}) /\ SumOf(q, s) = q[x] + SumOf(q, s \ {x})
      BY <3>1, SumRemove
    <3>3. Cardinality(s) \in Nat /\ Cardinality(s \ {x}) = Cardinality(s) - 1
      BY <3>1, FS_RemoveElement, FS_CardinalityType
    <3>4. f[x] \in Int /\ q[x] = f[x] * f[x] /\ SumOf(f, s \ {x}) \in Int /\ SumOf(q, s \ {x}) \in Int
      BY <3>1, SumInt
    <3>5. SumOf(q, s \ {x}) - (2 * b) * SumOf(f, s \ {x}) + (b * b) * Cardinality(s \ {x}) >= 0
      BY <1>1
    <3> DEFINE v == f[x]
               F == SumOf(f, s \ {x})
               Q == SumOf(q, s \ {x})
               m == Cardinality(s \ {x})
    <3>6. v \in Int /\ F \in Int /\ Q \in Int /\ m \in Int
      BY <3>3, <3>4
    <3>7. SumOf(f, s) = v + F /\ SumOf(q, s) = v * v + Q /\ Cardinality(s) = m + 1
      BY <3>2, <3>3, <3>4
    <3>8. Q - (2 * b) * F + (b * b) * m >= 0
      BY <3>5
    <3> HIDE DEF v, F, Q, m
    <3>9. (v - b) * (v - b) >= 0
      BY <3>6
    <3>10. (v * v + Q) - (2 * b) * (v + F) + (b * b) * (m + 1)
              = (Q - (2 * b) * F + (b * b) * m) + (v - b) * (v - b)
      BY <3>6
    <3>11. Q - (2 * b) * F + (b * b) * m \in Int /\ (v - b) * (v - b) \in Int
      BY <3>6
    <3>12. (v * v + Q) - (2 * b) * (v + F) + (b * b) * (m + 1) >= 0
      BY <3>8, <3>9, <3>10, <3>11
    <3> QED BY <3>7, <3>12
  <2> QED BY <2>1, <2>2
<1> HIDE DEF G
<1>2. G \in SUBSET SUBSET S
  BY DEF G
<1>3. \A s \in SUBSET S : s \in G
  BY <1>1, <1>2, FromSmaller
<1> QED BY <1>3 DEF G

LEMMA SquareOfSum ==
    ASSUME NEW U, NEW f \in [U -> Int], NEW q \in [U -> Int], \A x \in U : q[x] = f[x] * f[x],
           NEW S \in SUBSET U, IsFiniteSet(S)
    PROVE  SumOf(f, S) * SumOf(f, S) <= Cardinality(S) * SumOf(q, S)
<1> DEFINE G == {s \in SUBSET S : SumOf(f, s) * SumOf(f, s) <= Cardinality(s) * SumOf(q, s)}
<1>1. ASSUME NEW s \in SUBSET S, \A x \in s : s \ {x} \in G PROVE s \in G
  <2>1. CASE s = {}
    <3>1. SumOf(f, s) = 0 /\ SumOf(q, s) = 0 /\ Cardinality(s) = 0
      BY <2>1, SumEmpty, FS_EmptySet
    <3> QED BY <3>1
  <2>2. ASSUME NEW x \in s PROVE s \in G
    <3>1. IsFiniteSet(s) /\ IsFiniteSet(s \ {x}) /\ s \in SUBSET U /\ s \ {x} \in SUBSET U /\ x \in U
      BY FS_Subset
    <3>2. SumOf(f, s) = f[x] + SumOf(f, s \ {x}) /\ SumOf(q, s) = q[x] + SumOf(q, s \ {x})
      BY <3>1, SumRemove
    <3>3. Cardinality(s) \in Nat /\ Cardinality(s \ {x}) = Cardinality(s) - 1
      BY <3>1, FS_RemoveElement, FS_CardinalityType
    <3>4. f[x] \in Int /\ q[x] = f[x] * f[x] /\ SumOf(f, s \ {x}) \in Int /\ SumOf(q, s \ {x}) \in Int
      BY <3>1, SumInt
    <3>5. SumOf(f, s \ {x}) * SumOf(f, s \ {x}) <= Cardinality(s \ {x}) * SumOf(q, s \ {x})
      BY <1>1
    <3>0. SumOf(q, s \ {x}) - (2 * f[x]) * SumOf(f, s \ {x}) + (f[x] * f[x]) * Cardinality(s \ {x}) >= 0
      BY <3>1, <3>4, SquaresFrom
    <3> DEFINE v == f[x]
               F == SumOf(f, s \ {x})
               Q == SumOf(q, s \ {x})
               m == Cardinality(s \ {x})
    <3>6. v \in Int /\ F \in Int /\ Q \in Int /\ m \in Int
      BY <3>3, <3>4
    <3>7. SumOf(f, s) = v + F /\ SumOf(q, s) = v * v + Q /\ Cardinality(s) = m + 1
      BY <3>2, <3>3, <3>4
    <3>8. Q - (2 * v) * F + (v * v) * m >= 0 /\ F * F <= m * Q
      BY <3>0, <3>5
    <3> HIDE DEF v, F, Q, m
    <3>9. (m + 1) * (v * v + Q) - (v + F) * (v + F) = (m * Q - F * F) + (Q - (2 * v) * F + (v * v) * m)
      BY <3>6
    <3>10. /\ m * Q \in Int /\ F * F \in Int /\ Q - (2 * v) * F + (v * v) * m \in Int
           /\ (m + 1) * (v * v + Q) \in Int /\ (v + F) * (v + F) \in Int
      BY <3>6
    <3>11. (v + F) * (v + F) <= (m + 1) * (v * v + Q)
      BY <3>8, <3>9, <3>10
    <3> QED BY <3>7, <3>11
  <2> QED BY <2>1, <2>2
<1> HIDE DEF G
<1>2. G \in SUBSET SUBSET S
  BY DEF G
<1>3. \A s \in SUBSET S : s \in G
  BY <1>1, <1>2, FromSmaller
<1> QED BY <1>3 DEF G

\* None of n numbers is further from their mean than the square root of n - 1
\* standard deviations.
LEMMA NoneIsFar ==
    ASSUME NEW U, NEW f \in [U -> Int], NEW q \in [U -> Int], \A x \in U : q[x] = f[x] * f[x],
           NEW S \in SUBSET U, IsFiniteSet(S), NEW y \in S
    PROVE  LET n == Cardinality(S)
               d == n * f[y] - SumOf(f, S)
               e == n * SumOf(q, S) - SumOf(f, S) * SumOf(f, S)
           IN  d \in Int /\ e \in Int /\ 0 <= e /\ d * d <= (n - 1) * e
<1> DEFINE T == S \ {y}
           v == f[y]
           F == SumOf(f, T)
           Q == SumOf(q, T)
           m == Cardinality(T)
<1>1. IsFiniteSet(T) /\ T \in SUBSET U /\ y \in U
  BY FS_Subset
<1>2. SumOf(f, S) = v + F /\ SumOf(q, S) = v * v + Q
  BY <1>1, SumRemove
<1>3. Cardinality(S) = m + 1 /\ m \in Nat
  BY <1>1, FS_RemoveElement, FS_CardinalityType
<1>4. v \in Int /\ F \in Int /\ Q \in Int
  BY <1>1, SumInt
<1>5. F * F <= m * Q
  BY <1>1, SquareOfSum
<1>6. SumOf(f, S) * SumOf(f, S) <= Cardinality(S) * SumOf(q, S)
  BY SquareOfSum
<1> HIDE DEF T, v, F, Q, m
<1> DEFINE d == (m + 1) * v - (v + F)
           e == (m + 1) * (v * v + Q) - (v + F) * (v + F)
<1>7. d \in Int /\ e \in Int
  BY <1>3, <1>4
<1>8. m * e - d * d = (m + 1) * (m * Q - F * F)
  BY <1>3, <1>4
<1>9. (m + 1) * (m * Q - F * F) >= 0
  <2>1. m * Q - F * F \in Nat
    BY <1>3, <1>4, <1>5
  <2>2. \A i, j \in Nat : i * j >= 0
    OBVIOUS
  <2> QED BY <1>3, <2>1, <2>2
<1>10. 0 <= e
  <2>1. (v + F) * (v + F) <= (m + 1) * (v * v + Q)
    BY <1>2, <1>3, <1>6
  <2>2. (v + F) * (v + F) \in Int /\ (m + 1) * (v * v + Q) \in Int
    BY <1>3, <1>4
  <2> QED BY <2>1, <2>2
<1>11. m * e \in Int /\ d * d \in Int
  BY <1>3, <1>7
<1>13. d * d <= m * e
  <2> HIDE DEF d, e
  <2> QED BY <1>8, <1>9, <1>11
<1>14. (m + 1) - 1 = m
  BY <1>3
<1>15. /\ Cardinality(S) * f[y] - SumOf(f, S) = d
       /\ Cardinality(S) * SumOf(q, S) - SumOf(f, S) * SumOf(f, S) = e
       /\ Cardinality(S) - 1 = m
  BY <1>2, <1>3, <1>14 DEF v
<1> HIDE DEF d, e
<1> QED BY <1>7, <1>10, <1>13, <1>15
-----------------------------------------------------------------------------
LEMMA NatOrder == IsWellFoundedOn({ss \in Nat \X Nat : ss[1] < ss[2]}, Nat)
BY NatLessThanWellFounded DEF OpToRel

LEMMA LeastNumber ==
    ASSUME NEW S \in SUBSET Nat, S # {} PROVE \E i \in S : \A j \in S : i <= j
<1> DEFINE R == {ss \in Nat \X Nat : ss[1] < ss[2]}
<1>1. IsWellFoundedOn(R, Nat)
  BY NatOrder
<1>2. \A x, y \in Nat : x < y => <<x, y>> \in R
  OBVIOUS
<1> HIDE DEF R
<1>3. PICK i \in S : \A j \in S : ~(<<j, i>> \in R)
  BY <1>1, WFMin
<1>4. \A j \in S : ~(j < i)
  BY <1>2, <1>3
<1> QED BY <1>4

LEMMA MinIn ==
    ASSUME NEW S \in SUBSET Nat, S # {} PROVE Min(S) \in S /\ \A n \in S : Min(S) <= n
<1>1. \E m \in S : \A n \in S : m <= n
  BY LeastNumber
<1> QED BY <1>1 DEF Min

LEMMA MaxIs ==
    ASSUME NEW S \in SUBSET Nat, NEW m \in S, \A n \in S : m >= n PROVE Max(S) = m
<1>1. Max(S) \in S /\ \A n \in S : Max(S) >= n
  BY DEF Max
<1>2. m \in Nat /\ Max(S) \in Nat /\ m >= Max(S) /\ Max(S) >= m
  BY <1>1
<1> DEFINE x == Max(S)
<1>3. m \in Nat /\ x \in Nat /\ m >= x /\ x >= m
  BY <1>2
<1> HIDE DEF x
<1>4. x = m
  BY <1>3
<1> QED BY <1>4 DEF x

\* A finite set of whole numbers that is not empty has a greatest.
LEMMA GreatestOf ==
    ASSUME NEW S, IsFiniteSet(S), S # {}, NEW f \in [S -> Int]
    PROVE  \E x \in S : \A y \in S : f[y] <= f[x]
<1> DEFINE G == {s \in SUBSET S : s # {} => \E x \in s : \A y \in s : f[y] <= f[x]}
<1>1. ASSUME NEW s \in SUBSET S, \A x \in s : s \ {x} \in G PROVE s \in G
  <2> SUFFICES ASSUME NEW a \in s PROVE \E x \in s : \A y \in s : f[y] <= f[x]
    OBVIOUS
  <2>1. s \ {a} \in G
    BY <1>1
  <2>2. CASE s = {a}
    <3>1. f[a] \in Int
      OBVIOUS
    <3> QED BY <2>2, <3>1
  <2>3. CASE s # {a}
    <3>1. PICK x \in s \ {a} : \A y \in s \ {a} : f[y] <= f[x]
      BY <2>1, <2>3
    <3>2. \A y \in s : f[y] \in Int
      OBVIOUS
    <3>3. CASE f[a] <= f[x]
      BY <3>1, <3>3
    <3>4. CASE f[x] <= f[a]
      BY <3>1, <3>2, <3>4
    <3> QED BY <3>2, <3>3, <3>4
  <2> QED BY <2>2, <2>3
<1> HIDE DEF G
<1>2. G \in SUBSET SUBSET S
  BY DEF G
<1>3. \A s \in SUBSET S : s \in G
  BY <1>1, <1>2, FromSmaller
<1> QED BY <1>3 DEF G

\* A whole quotient is at least m just if m times fit.
LEMMA Quotient ==
    ASSUME NEW a \in Int, NEW d \in Nat \ {0}, NEW m \in Int
    PROVE  a \div d \in Int /\ (a \div d >= m <=> a >= m * d)
OBVIOUS

LEMMA Times == ASSUME NEW a \in Nat, NEW b \in Nat, NEW c \in Nat, a <= b PROVE a * c <= b * c /\ a * c \in Nat
OBVIOUS

LEMMA Cancel == ASSUME NEW d \in Int, NEW p \in Nat \ {0}, d * p >= 0 PROVE d >= 0
OBVIOUS

\* Sequences: what is appended, and what is in them.
LEMMA AppendHas ==
    ASSUME NEW S, NEW s \in Seq(S), NEW x \in S
    PROVE  /\ Append(s, x) \in Seq(S) /\ Len(Append(s, x)) = Len(s) + 1
           /\ DOMAIN Append(s, x) = DOMAIN s \cup {Len(s) + 1}
           /\ Append(s, x)[Len(s) + 1] = x /\ \A i \in DOMAIN s : Append(s, x)[i] = s[i]
<1>1. Append(s, x) \in Seq(S) /\ Len(Append(s, x)) = Len(s) + 1 /\ Len(s) \in Nat
  OBVIOUS
<1>2. DOMAIN Append(s, x) = DOMAIN s \cup {Len(s) + 1}
  BY <1>1
<1>3. Append(s, x)[Len(s) + 1] = x /\ \A i \in DOMAIN s : Append(s, x)[i] = s[i]
  BY <1>1
<1> QED BY <1>1, <1>2, <1>3

LEMMA SeqHas ==
    ASSUME NEW S, NEW s \in Seq(S)
    PROVE  \A i \in DOMAIN s : s[i] \in S
OBVIOUS

LEMMA SeqMade ==
    ASSUME NEW S, NEW n \in Nat, NEW f \in [1..n -> S]
    PROVE  f \in Seq(S) /\ Len(f) = n
OBVIOUS

=============================================================================
