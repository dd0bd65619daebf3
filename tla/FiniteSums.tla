----------------------------- MODULE FiniteSums -----------------------------
(***************************************************************************)
(* Sums over finite sets, for proofs about books that must add up: what    *)
(* SumFunction and SumFunctionOnSet of the community modules compute, and  *)
(* how a sum follows a change of its terms.  They are defined by recursion *)
(* over the subsets of a set, so the facts are proved by induction on the  *)
(* set; the induction is stated for a set G of the sets that have a        *)
(* property, since no backend takes an operator for it.                    *)
(***************************************************************************)
EXTENDS Integers, Functions, FiniteSetTheorems, TLAPS

\* A set of naturals that has 0 and is closed under + 1 has them all.
LEMMA NatSetInduction ==
  ASSUME NEW T \in SUBSET Nat, 0 \in T, \A n \in T : n + 1 \in T
  PROVE  T = Nat
<1> DEFINE Less == {p \in Nat \X Nat : p[1] < p[2]}
<1>1. IsWellFoundedOn(Less, Nat)
  BY NatLessThanWellFounded DEF OpToRel
<1>2. SUFFICES ASSUME Nat \ T # {} PROVE FALSE
  OBVIOUS
<1>3. PICK x \in Nat \ T : \A y \in Nat \ T : <<y, x>> \notin Less
  <2> HIDE DEF Less
  <2> QED BY <1>1, <1>2, WFMin
<1>4. x # 0 /\ x - 1 \in Nat
  OBVIOUS
<1>5. <<x - 1, x>> \in Less
  BY <1>4
<1>6. x - 1 \in T
  BY <1>3, <1>4, <1>5
<1> QED
  BY <1>6, <1>4

\* A property of the empty set that is kept as an element is added holds of
\* every finite set.
LEMMA FiniteSetInduction ==
  ASSUME NEW S, IsFiniteSet(S),
         NEW G, {} \in G,
         \A T \in SUBSET S, x \in S : T \in G /\ x \notin T => T \cup {x} \in G
  PROVE  S \in G
<1> DEFINE N == {n \in Nat : \A T \in SUBSET S : Cardinality(T) = n => T \in G}
<1>1. \A T \in SUBSET S : IsFiniteSet(T) /\ Cardinality(T) \in Nat
  BY FS_Subset, FS_CardinalityType
<1>2. 0 \in N
  BY <1>1, FS_EmptySet
<1>3. ASSUME NEW n \in N PROVE n + 1 \in N
  <2>0. n \in Nat
    OBVIOUS
  <2>1. SUFFICES ASSUME NEW T \in SUBSET S, Cardinality(T) = n + 1 PROVE T \in G
    BY <2>0
  <2>2. T # {}
    <3>1. Cardinality({}) = 0
      BY FS_EmptySet
    <3> HIDE DEF N
    <3> QED
      BY <2>0, <2>1, <3>1
  <2>3. PICK x \in T : TRUE
    BY <2>2
  <2>4. Cardinality(T \ {x}) = n
    <3>1. Cardinality(T \ {x}) = Cardinality(T) - 1
      BY <1>1, FS_RemoveElement
    <3> QED BY <2>0, <2>1, <3>1
  <2>5. T \ {x} \in G
    BY <2>4
  <2>6. (T \ {x}) \cup {x} \in G
    BY <2>5
  <2>7. T = (T \ {x}) \cup {x}
    OBVIOUS
  <2> QED
    BY <2>6, <2>7
<1>4. N = Nat
  <2> HIDE DEF N
  <2>1. N \in SUBSET Nat
    BY DEF N
  <2> QED
    BY <1>2, <1>3, <2>1, NatSetInduction
<1> QED
  BY <1>4, <1>1

\* ... and one that a set has once all its proper subsets do.
LEMMA SubsetInduction ==
  ASSUME NEW S, IsFiniteSet(S), NEW G,
         \A T \in SUBSET S : (\A U \in SUBSET T : U # T => U \in G) => T \in G
  PROVE  S \in G
<1> DEFINE R == StrictSubsetOrdering(S)
           Bad == (SUBSET S) \ G
<1>1. IsWellFoundedOn(R, SUBSET S)
  BY FS_StrictSubsetOrderingWellFounded, FS_FiniteSubsetsOfFinite
<1>2. SUFFICES ASSUME Bad # {} PROVE FALSE
  OBVIOUS
<1>3. PICK T \in Bad : \A U \in Bad : <<U, T>> \notin R
  <2> HIDE DEF R, Bad
  <2>1. Bad \subseteq SUBSET S
    BY DEF Bad
  <2> QED BY <1>1, <1>2, <2>1, WFMin
<1>4. \A U \in SUBSET T : U # T => U \in G
  BY <1>3 DEF StrictSubsetOrdering
<1> QED
  BY <1>4

\* The recursive equation of a sum.
SumBody(f, g, s) == IF s = {} THEN 0
                    ELSE f[CHOOSE x \in s : TRUE] + g[s \ {CHOOSE x \in s : TRUE}]

IsSumOf(g, f, S) == g = [s \in SUBSET S |-> SumBody(f, g, s)]

\* SumFunctionOnSet is a function chosen by its recursive equation, ...
LEMMA SumUnfold ==
  ASSUME NEW S, NEW f
  PROVE  SumFunctionOnSet(f, S) = (CHOOSE g : IsSumOf(g, f, S))[S]
BY DEF IsSumOf, SumFunctionOnSet, FoldFunctionOnSet, MapThenFoldSet, SumBody

\* ... there is one, ...
LEMMA SumBodyExists ==
  ASSUME NEW S, IsFiniteSet(S), NEW f
  PROVE  \E g : IsSumOf(g, f, S)
<1> DEFINE Upto(n, g) == \A s \in SUBSET S : Cardinality(s) <= n => g[s] = SumBody(f, g, s)
           N == {n \in Nat : \E g : Upto(n, g)}
<1>1. \A s \in SUBSET S : /\ IsFiniteSet(s) /\ Cardinality(s) \in Nat
                          /\ Cardinality(s) <= Cardinality(S)
                          /\ s # {} => Cardinality(s \ {CHOOSE x \in s : TRUE}) = Cardinality(s) - 1
  <2> TAKE s \in SUBSET S
  <2>1. /\ IsFiniteSet(s) /\ Cardinality(s) \in Nat
        /\ Cardinality(s) <= Cardinality(S)
    BY FS_Subset, FS_CardinalityType
  <2>2. ASSUME s # {} PROVE (CHOOSE x \in s : TRUE) \in s
    BY <2>2
  <2> QED
    BY <2>1, <2>2, FS_RemoveElement
<1>2. 0 \in N
  <2> DEFINE g == [s \in SUBSET S |-> 0]
  <2>1. \A s \in SUBSET S : Cardinality(s) <= 0 => s = {}
    BY <1>1, FS_EmptySet
  <2>2. Upto(0, g)
    BY <2>1 DEF SumBody
  <2> QED
    BY <2>2
<1>3. ASSUME NEW n \in N PROVE n + 1 \in N
  <2>1. PICK g : Upto(n, g)
    OBVIOUS
  <2> DEFINE h == [s \in SUBSET S |-> SumBody(f, g, s)]
  <2>2. \A s \in SUBSET S : Cardinality(s) <= n => h[s] = g[s]
    BY <2>1
  <2>3. Upto(n + 1, h)
    <3> SUFFICES ASSUME NEW s \in SUBSET S, Cardinality(s) <= n + 1 
                 PROVE  h[s] = SumBody(f, h, s)
      OBVIOUS
    <3>1. CASE s = {}
      BY <3>1 DEF SumBody
    <3>2. CASE s # {}
      <4> DEFINE r == s \ {CHOOSE x \in s : TRUE}
      <4>0. Cardinality(r) = Cardinality(s) - 1 /\ Cardinality(s) \in Nat /\ n \in Nat
        BY <1>1, <3>2
      <4>1. Cardinality(r) <= n
        <5> HIDE DEF r
        <5> QED BY <4>0
      <4>2. r \in SUBSET S
        OBVIOUS
      <4>3. h[r] = g[r]
        BY <4>1, <4>2, <2>2
      <4> QED
        BY <4>3, <3>2 DEF SumBody
    <3> QED
      BY <3>1, <3>2
  <2>4. \E k : Upto(n + 1, k)
    <3> HIDE DEF Upto, h
    <3> QED BY <2>3
  <2>5. n + 1 \in Nat
    OBVIOUS
  <2> HIDE DEF Upto
  <2> QED
    BY <2>4, <2>5
<1>4. N = Nat
  <2> HIDE DEF N
  <2>1. N \in SUBSET Nat
    BY DEF N
  <2> QED
    BY <1>2, <1>3, <2>1, NatSetInduction
<1>5. PICK g : Upto(Cardinality(S), g)
  <2>1. Cardinality(S) \in N
    BY <1>4, <1>1
  <2> QED BY <2>1
<1> DEFINE h == [s \in SUBSET S |-> g[s]]
<1>6. \A s \in SUBSET S : h[s] = SumBody(f, h, s)
  <2> TAKE s \in SUBSET S
  <2>1. h[s] = SumBody(f, g, s)
    BY <1>1, <1>5
  <2> DEFINE r == s \ {CHOOSE x \in s : TRUE}
  <2>2. h[r] = g[r]
    OBVIOUS
  <2> QED
    BY <2>1, <2>2 DEF SumBody
<1>7. IsSumOf(h, f, S)
  BY <1>6 DEF IsSumOf
<1> QED
  BY <1>7

\* ... and so the sum is its value.
LEMMA SumFunctionOnSetDef ==
  ASSUME NEW S, IsFiniteSet(S), NEW f
  PROVE  \E g : IsSumOf(g, f, S) /\ SumFunctionOnSet(f, S) = g[S]
<1>1. \E g : IsSumOf(g, f, S)
  BY SumBodyExists
<1> QED
  BY <1>1, SumUnfold

\* The equation determines the function, whatever set it was chosen for.
LEMMA SumBodyUnique ==
  ASSUME NEW S, NEW T \in SUBSET S, IsFiniteSet(T), NEW f, NEW g, NEW h,
         IsSumOf(g, f, S), IsSumOf(h, f, T)
  PROVE  \A s \in SUBSET T : g[s] = h[s]
<1> DEFINE G == {s \in SUBSET T : g[s] = h[s]}
<1>1. ASSUME NEW s \in SUBSET T, \A U \in SUBSET s : U # s => U \in G
      PROVE  s \in G
  <2> DEFINE r == s \ {CHOOSE y \in s : TRUE}
  <2>1. g[s] = SumBody(f, g, s) /\ h[s] = SumBody(f, h, s)
    BY DEF IsSumOf
  <2>2. CASE s = {}
    BY <2>1, <2>2 DEF SumBody
  <2>3. CASE s # {}
    <3>1. r \in SUBSET s /\ r # s
      BY <2>3
    <3>2. g[r] = h[r]
      BY <3>1, <1>1
    <3> QED
      BY <2>1, <2>3, <3>2 DEF SumBody
  <2> QED
    BY <2>2, <2>3
<1>2. ASSUME NEW s \in SUBSET T PROVE s \in G
  <2>1. IsFiniteSet(s)
    BY FS_Subset, IsFiniteSet(T)
  <2>2. \A V \in SUBSET s : (\A U \in SUBSET V : U # V => U \in G) => V \in G
    <3> TAKE V \in SUBSET s
    <3> HAVE \A U \in SUBSET V : U # V => U \in G
    <3>1. V \in SUBSET T
      OBVIOUS
    <3> HIDE DEF G
    <3> QED
      BY <1>1, <3>1
  <2> HIDE DEF G
  <2> QED
    BY <2>1, <2>2, SubsetInduction
<1> QED
  BY <1>2

\* A sum is one of its terms and the sum of the others.
LEMMA SumRecursion ==
  ASSUME NEW S, IsFiniteSet(S), S # {}, NEW f
  PROVE  \E x \in S : SumFunctionOnSet(f, S) = f[x] + SumFunctionOnSet(f, S \ {x})
<1> DEFINE x == CHOOSE y \in S : TRUE
           T == S \ {x}
<1>1. x \in S
  OBVIOUS
<1>2. IsFiniteSet(T)
  BY FS_RemoveElement
<1>3. PICK g : IsSumOf(g, f, S) /\ SumFunctionOnSet(f, S) = g[S]
  BY SumFunctionOnSetDef
<1>4. PICK h : IsSumOf(h, f, T) /\ SumFunctionOnSet(f, T) = h[T]
  BY <1>2, SumFunctionOnSetDef
<1>5. g[T] = h[T]
  <2> HIDE DEF T
  <2>1. T \in SUBSET S
    BY DEF T
  <2> QED
    BY <1>2, <1>3, <1>4, <2>1, SumBodyUnique
<1>6. g[S] = SumBody(f, g, S)
  BY <1>3 DEF IsSumOf
<1>7. g[S] = f[x] + g[T]
  BY <1>6 DEF SumBody
<1> QED
  BY <1>1, <1>3, <1>4, <1>5, <1>7

\* The sum of nothing is 0.
LEMMA SumEmpty ==
  ASSUME NEW f
  PROVE  SumFunctionOnSet(f, {}) = 0
<1>1. IsFiniteSet({})
  BY FS_EmptySet
<1>2. PICK g : IsSumOf(g, f, {}) /\ SumFunctionOnSet(f, {}) = g[{}]
  BY <1>1, SumFunctionOnSetDef
<1>3. g[{}] = SumBody(f, g, {})
  BY <1>2 DEF IsSumOf
<1> QED
  BY <1>2, <1>3 DEF SumBody

\* A sum of integers is an integer.
LEMMA SumInt ==
  ASSUME NEW S, IsFiniteSet(S), NEW f, \A x \in S : f[x] \in Int
  PROVE  SumFunctionOnSet(f, S) \in Int
<1> DEFINE G == {T \in SUBSET S : SumFunctionOnSet(f, T) \in Int}
<1>1. ASSUME NEW T \in SUBSET S, \A U \in SUBSET T : U # T => U \in G
      PROVE  T \in G
  <2>1. CASE T = {}
    BY <2>1, SumEmpty
  <2>2. CASE T # {}
    <3>1. IsFiniteSet(T)
      BY FS_Subset
    <3>2. PICK x \in T : SumFunctionOnSet(f, T) = f[x] + SumFunctionOnSet(f, T \ {x})
      BY <2>2, <3>1, SumRecursion
    <3>3. SumFunctionOnSet(f, T \ {x}) \in Int
      BY <1>1
    <3> QED
      BY <3>2, <3>3
  <2> QED
    BY <2>1, <2>2
<1>2. S \in G
  <2> HIDE DEF G
  <2> QED
    BY <1>1, SubsetInduction
<1> QED
  BY <1>2

\* Any term can be taken out first.
LEMMA SumRemove ==
  ASSUME NEW S, IsFiniteSet(S), NEW f, \A x \in S : f[x] \in Int, NEW y \in S
  PROVE  SumFunctionOnSet(f, S) = f[y] + SumFunctionOnSet(f, S \ {y})
<1> DEFINE Sum(T) == SumFunctionOnSet(f, T)
           G == {T \in SUBSET S : \A z \in T : Sum(T) = f[z] + Sum(T \ {z})}
<1>0. \A T \in SUBSET S : IsFiniteSet(T) /\ Sum(T) \in Int
  BY FS_Subset, SumInt
<1>1. ASSUME NEW T \in SUBSET S, \A U \in SUBSET T : U # T => U \in G
      PROVE  T \in G
  <2>1. SUFFICES ASSUME NEW z \in T PROVE Sum(T) = f[z] + Sum(T \ {z})
    OBVIOUS
  <2>2. PICK x \in T : Sum(T) = f[x] + Sum(T \ {x})
    BY <1>0, SumRecursion
  <2>3. CASE x = z
    BY <2>2, <2>3
  <2>4. CASE x # z
    <3>1. T \ {x} \in G /\ T \ {z} \in G
      BY <1>1
    <3>2. /\ Sum(T \ {x}) = f[z] + Sum((T \ {x}) \ {z})
          /\ Sum(T \ {z}) = f[x] + Sum((T \ {z}) \ {x})
      BY <2>4, <3>1
    <3>3. (T \ {x}) \ {z} = (T \ {z}) \ {x}
      OBVIOUS
    <3>4. /\ f[x] \in Int /\ f[z] \in Int 
          /\ Sum((T \ {x}) \ {z}) \in Int
      BY <1>0
    <3> DEFINE rest == Sum((T \ {x}) \ {z})
    <3>5. /\ Sum(T) = f[x] + (f[z] + rest)
          /\ Sum(T \ {z}) = f[x] + rest
      BY <2>2, <3>2, <3>3
    <3> HIDE DEF rest, Sum
    <3>6. f[x] + (f[z] + rest) = f[z] + (f[x] + rest)
      BY <3>4 DEF rest
    <3> QED
      BY <3>5, <3>6
  <2> QED
    BY <2>3, <2>4
<1>2. S \in G
  <2> HIDE DEF G
  <2> QED
    BY <1>1, SubsetInduction
<1> QED
  BY <1>2

\* A sum depends on its terms only.
LEMMA SumCongruence ==
  ASSUME NEW S, IsFiniteSet(S), NEW f, NEW g,
         \A x \in S : f[x] \in Int, \A x \in S : f[x] = g[x]
  PROVE  SumFunctionOnSet(f, S) = SumFunctionOnSet(g, S)
<1> DEFINE G == {T \in SUBSET S : SumFunctionOnSet(f, T) = SumFunctionOnSet(g, T)}
<1>1. {} \in G
  BY SumEmpty
<1>2. ASSUME NEW T \in SUBSET S, NEW x \in S, T \in G, x \notin T
      PROVE  T \cup {x} \in G
  <2> DEFINE W == T \cup {x}
  <2>1. IsFiniteSet(W) /\ W \ {x} = T
    BY <1>2, FS_Subset
  <2>2. /\ SumFunctionOnSet(f, W) = f[x] + SumFunctionOnSet(f, W \ {x})
        /\ SumFunctionOnSet(g, W) = g[x] + SumFunctionOnSet(g, W \ {x})
    <3>1. W \in SUBSET S /\ x \in W
      OBVIOUS
    <3>2. \A z \in W : f[z] \in Int /\ g[z] \in Int
      BY <3>1
    <3> HIDE DEF W
    <3> QED
      BY <2>1, <3>1, <3>2, SumRemove
  <2> QED
    BY <1>2, <2>1, <2>2
<1>3. S \in G
  <2> HIDE DEF G
  <2> QED
    BY <1>1, <1>2, FiniteSetInduction
<1> QED
  BY <1>3

\* What one other term does to a sum.
LEMMA SumChangeOne ==
  ASSUME NEW S, IsFiniteSet(S), NEW x \in S, NEW f, NEW g,
         \A z \in S : f[z] \in Int, g[x] \in Int,
         \A z \in S : z # x => g[z] = f[z]
  PROVE  SumFunctionOnSet(g, S) = SumFunctionOnSet(f, S) - f[x] + g[x]
<1> DEFINE T == S \ {x}
<1>1. IsFiniteSet(T)
  BY FS_RemoveElement
<1>2. \A z \in S : g[z] \in Int
  OBVIOUS
<1>3. SumFunctionOnSet(f, T) = SumFunctionOnSet(g, T)
  BY <1>1, SumCongruence
<1>4. SumFunctionOnSet(f, T) \in Int
  BY <1>1, SumInt
<1>5. /\ SumFunctionOnSet(f, S) = f[x] + SumFunctionOnSet(f, T)
      /\ SumFunctionOnSet(g, S) = g[x] + SumFunctionOnSet(g, T)
  BY <1>2, SumRemove
<1> QED
  BY <1>2, <1>3, <1>4, <1>5

\* No term greater, no greater sum.
LEMMA SumMonotone ==
  ASSUME NEW S, IsFiniteSet(S), NEW f, NEW g,
         \A x \in S : f[x] \in Int, \A x \in S : g[x] \in Int, \A x \in S : f[x] <= g[x]
  PROVE  SumFunctionOnSet(f, S) <= SumFunctionOnSet(g, S)
<1> DEFINE G == {T \in SUBSET S : SumFunctionOnSet(f, T) <= SumFunctionOnSet(g, T)}
<1>1. {} \in G
  BY SumEmpty
<1>2. ASSUME NEW T \in SUBSET S, NEW x \in S, T \in G, x \notin T
      PROVE  T \cup {x} \in G
  <2> DEFINE W == T \cup {x}
  <2>1. IsFiniteSet(T) /\ IsFiniteSet(W) /\ W \ {x} = T
    BY <1>2, FS_Subset
  <2>2. /\ SumFunctionOnSet(f, W) = f[x] + SumFunctionOnSet(f, W \ {x})
        /\ SumFunctionOnSet(g, W) = g[x] + SumFunctionOnSet(g, W \ {x})
    <3>1. W \in SUBSET S /\ x \in W
      OBVIOUS
    <3>2. \A z \in W : f[z] \in Int /\ g[z] \in Int
      BY <3>1
    <3> HIDE DEF W
    <3> QED
      BY <2>1, <3>1, <3>2, SumRemove
  <2>3. SumFunctionOnSet(f, T) \in Int /\ SumFunctionOnSet(g, T) \in Int
    BY <2>1, SumInt
  <2>4. /\ SumFunctionOnSet(f, W) = f[x] + SumFunctionOnSet(f, T)
        /\ SumFunctionOnSet(g, W) = g[x] + SumFunctionOnSet(g, T)
    BY <2>1, <2>2
  <2>5. /\ f[x] \in Int /\ g[x] \in Int /\ f[x] <= g[x]
        /\ SumFunctionOnSet(f, T) <= SumFunctionOnSet(g, T)
    BY <1>2
  <2>6. SumFunctionOnSet(f, W) <= SumFunctionOnSet(g, W)
    <3> HIDE DEF W
    <3> QED BY <2>3, <2>4, <2>5
  <2> QED
    BY <2>6
<1>3. S \in G
  <2> HIDE DEF G
  <2> QED
    BY <1>1, <1>2, FiniteSetInduction
<1> QED
  BY <1>3

\* A sum of zeros is 0.
LEMMA SumZero ==
  ASSUME NEW S, IsFiniteSet(S), NEW f, \A x \in S : f[x] = 0
  PROVE  SumFunctionOnSet(f, S) = 0
<1> DEFINE G == {T \in SUBSET S : SumFunctionOnSet(f, T) = 0}
<1>1. ASSUME NEW T \in SUBSET S, \A U \in SUBSET T : U # T => U \in G
      PROVE  T \in G
  <2>1. CASE T = {}
    BY <2>1, SumEmpty
  <2>2. CASE T # {}
    <3>1. IsFiniteSet(T)
      BY FS_Subset
    <3>2. PICK x \in T : SumFunctionOnSet(f, T) = f[x] + SumFunctionOnSet(f, T \ {x})
      BY <2>2, <3>1, SumRecursion
    <3>3. SumFunctionOnSet(f, T \ {x}) = 0
      BY <1>1
    <3> QED
      BY <3>2, <3>3
  <2> QED
    BY <2>1, <2>2
<1>2. S \in G
  <2> HIDE DEF G
  <2> QED
    BY <1>1, SubsetInduction
<1> QED
  BY <1>2

\* A sum of naturals is a natural, ...
LEMMA SumNat ==
  ASSUME NEW S, IsFiniteSet(S), NEW f, \A x \in S : f[x] \in Nat
  PROVE  SumFunctionOnSet(f, S) \in Nat
<1> DEFINE z == [x \in S |-> 0]
<1>1. SumFunctionOnSet(z, S) = 0
  BY SumZero
<1>2. SumFunctionOnSet(z, S) <= SumFunctionOnSet(f, S)
  BY SumMonotone
<1>3. SumFunctionOnSet(f, S) \in Int
  BY SumInt
<1> QED
  BY <1>1, <1>2, <1>3

\* ... and at least the sum of some of them.
LEMMA SumAtLeast ==
  ASSUME NEW S, IsFiniteSet(S), NEW f, \A x \in S : f[x] \in Nat, NEW T \in SUBSET S
  PROVE  SumFunctionOnSet(f, T) <= SumFunctionOnSet(f, S)
<1> DEFINE G == {U \in SUBSET S : SumFunctionOnSet(f, T \cap U) <= SumFunctionOnSet(f, U)}
<1>0. \A U \in SUBSET S : IsFiniteSet(U) /\ SumFunctionOnSet(f, U) \in Int
  BY FS_Subset, SumInt
<1>1. {} \in G
  BY SumEmpty
<1>2. ASSUME NEW U \in SUBSET S, NEW x \in S, U \in G, x \notin U
      PROVE  U \cup {x} \in G
  <2> DEFINE W == U \cup {x}
  <2>1. W \in SUBSET S /\ x \in W /\ W \ {x} = U
    BY <1>2
  <2>2. SumFunctionOnSet(f, W) = f[x] + SumFunctionOnSet(f, U)
    <3> HIDE DEF W
    <3> QED BY <1>0, <2>1, SumRemove
  <2>3. CASE x \notin T
    <3>1. T \cap W = T \cap U
      BY <2>3
    <3>2. SumFunctionOnSet(f, W) >= SumFunctionOnSet(f, U)
      BY <2>2, <1>0
    <3> QED
      BY <3>1, <3>2, <1>0, <1>2
  <2>4. CASE x \in T
    <3> DEFINE V == T \cap W
    <3>1. x \in V /\ V \in SUBSET S /\ V \ {x} = T \cap U
      BY <2>4, <1>2
    <3>2. SumFunctionOnSet(f, V) = f[x] + SumFunctionOnSet(f, T \cap U)
      <4> HIDE DEF V
      <4> QED BY <1>0, <3>1, SumRemove
    <3> QED
      BY <3>2, <2>2, <1>0, <1>2
  <2> QED
    BY <2>3, <2>4
<1>3. S \in G
  <2> HIDE DEF G
  <2> QED
    BY <1>1, <1>2, FiniteSetInduction
<1>4. T \cap S = T
  OBVIOUS
<1> QED
  BY <1>3, <1>4

\* What an entry that is replaced does to the sum of a function.
LEMMA SumExcept ==
  ASSUME NEW S, IsFiniteSet(S), NEW f \in [S -> Int], NEW x \in S, NEW v \in Int
  PROVE  SumFunction([f EXCEPT ![x] = v]) = SumFunction(f) - f[x] + v
<1> DEFINE g == [f EXCEPT ![x] = v]
<1>1. /\ DOMAIN f = S /\ DOMAIN g = S /\ g[x] = v
      /\ \A z \in S : z # x => g[z] = f[z]
  OBVIOUS
<1>2. SumFunctionOnSet(g, S) = SumFunctionOnSet(f, S) - f[x] + g[x]
  <2>1. \A z \in S : f[z] \in Int
    OBVIOUS
  <2> HIDE DEF g
  <2> QED
    BY <1>1, <2>1, SumChangeOne
<1> QED
  BY <1>1, <1>2 DEF SumFunction

\* The sum of a function to the naturals is a natural.
LEMMA SumOfNat ==
  ASSUME NEW S, IsFiniteSet(S), NEW f \in [S -> Nat]
  PROVE  SumFunction(f) \in Nat
BY SumNat DEF SumFunction
\* What adding d to one entry of a function, or taking it off, does to its sum.
LEMMA SumAdded ==
  ASSUME NEW S, IsFiniteSet(S), NEW f \in [S -> Nat], NEW x \in S, NEW d \in Int, NEW g,
         g = [f EXCEPT ![x] = @ + d]
  PROVE  SumFunction(g) = SumFunction(f) + d
<1>1. /\ f \in [S -> Int] /\ f[x] \in Int /\ f[x] + d \in Int
  OBVIOUS
<1>2. SumFunction(f) \in Int
  BY SumOfNat
<1>3. SumFunction(g) = SumFunction(f) - f[x] + (f[x] + d)
  BY <1>1, SumExcept
<1> QED
  BY <1>1, <1>2, <1>3

LEMMA SumTaken ==
  ASSUME NEW S, IsFiniteSet(S), NEW f \in [S -> Nat], NEW x \in S, NEW d \in Int, NEW g,
         g = [f EXCEPT ![x] = @ - d]
  PROVE  SumFunction(g) = SumFunction(f) - d
<1>1. /\ f \in [S -> Int] /\ f[x] \in Int /\ f[x] - d \in Int
  OBVIOUS
<1>2. SumFunction(f) \in Int
  BY SumOfNat
<1>3. SumFunction(g) = SumFunction(f) - f[x] + (f[x] - d)
  BY <1>1, SumExcept
<1> QED
  BY <1>1, <1>2, <1>3


\* The sum of a single term.
LEMMA SumSingleton ==
  ASSUME NEW f, NEW x, f[x] \in Int
  PROVE  SumFunctionOnSet(f, {x}) = f[x]
<1> DEFINE T == {x}
<1>1. IsFiniteSet(T) /\ x \in T /\ T \ {x} = {} /\ \A z \in T : f[z] \in Int
  BY FS_Singleton
<1> HIDE DEF T
<1>2. SumFunctionOnSet(f, T) = f[x] + SumFunctionOnSet(f, T \ {x})
  BY <1>1, SumRemove
<1>3. SumFunctionOnSet(f, T \ {x}) = 0
  BY <1>1, SumEmpty
<1> QED
  BY <1>2, <1>3 DEF T

\* No entry, and no two entries, exceed the sum.
LEMMA SumOneEntry ==
  ASSUME NEW S, IsFiniteSet(S), NEW f \in [S -> Nat], NEW x \in S
  PROVE  f[x] <= SumFunction(f)
<1>1. f[x] \in Int /\ {x} \in SUBSET S /\ \A z \in S : f[z] \in Nat
  OBVIOUS
<1>2. SumFunctionOnSet(f, {x}) <= SumFunctionOnSet(f, S)
  BY <1>1, SumAtLeast
<1> QED
  BY <1>1, <1>2, SumSingleton DEF SumFunction

LEMMA SumPair ==
  ASSUME NEW S, IsFiniteSet(S), NEW f \in [S -> Nat], NEW x \in S, NEW y \in S, x # y
  PROVE  f[x] + f[y] <= SumFunction(f)
<1> DEFINE T == S \ {x}
<1>1. f[y] \in Int /\ {y} \in SUBSET T /\ \A z \in S : f[z] \in Nat /\ f[z] \in Int
  OBVIOUS
<1>2. IsFiniteSet(T)
  BY FS_RemoveElement
<1>3. SumFunctionOnSet(f, S) = f[x] + SumFunctionOnSet(f, T)
  BY <1>1, SumRemove
<1>4. SumFunctionOnSet(f, {y}) <= SumFunctionOnSet(f, T)
  BY <1>1, <1>2, SumAtLeast
<1>5. SumFunctionOnSet(f, {y}) = f[y] /\ SumFunctionOnSet(f, T) \in Int
  BY <1>1, <1>2, SumSingleton, SumInt
<1> QED
  BY <1>1, <1>3, <1>4, <1>5 DEF SumFunction

\* The sums of two functions that agree but for one entry, or for two.
LEMMA SumOneChanged ==
  ASSUME NEW S, IsFiniteSet(S), NEW f \in [S -> Int], NEW g \in [S -> Int], NEW x \in S,
         \A z \in S : z # x => g[z] = f[z]
  PROVE  /\ SumFunction(g) = SumFunction(f) + (g[x] - f[x])
         /\ SumFunction(f) \in Int /\ SumFunction(g) \in Int
<1>1. /\ DOMAIN f = S /\ DOMAIN g = S /\ g[x] \in Int /\ f[x] \in Int
      /\ \A z \in S : f[z] \in Int /\ g[z] \in Int
  OBVIOUS
<1>2. SumFunctionOnSet(g, S) = SumFunctionOnSet(f, S) - f[x] + g[x]
  BY <1>1, SumChangeOne
<1>3. SumFunctionOnSet(f, S) \in Int /\ SumFunctionOnSet(g, S) \in Int
  BY <1>1, SumInt
<1> QED
  BY <1>1, <1>2, <1>3 DEF SumFunction

LEMMA SumTwoChanged ==
  ASSUME NEW S, IsFiniteSet(S), NEW f \in [S -> Int], NEW g \in [S -> Int],
         NEW x \in S, NEW y \in S, x # y,
         \A z \in S : z # x /\ z # y => g[z] = f[z]
  PROVE  SumFunction(g) = SumFunction(f) + (g[x] - f[x]) + (g[y] - f[y])
<1> DEFINE h == [f EXCEPT ![x] = g[x]]
<1>1. /\ h \in [S -> Int] /\ h[x] = g[x] /\ h[y] = f[y]
      /\ \A z \in S : z # x => h[z] = f[z]
      /\ \A z \in S : z # y => g[z] = h[z]
  OBVIOUS
<1>2. g[x] \in Int /\ f[x] \in Int /\ g[y] \in Int /\ f[y] \in Int
  OBVIOUS
<1> HIDE DEF h
<1>3. SumFunction(h) = SumFunction(f) + (h[x] - f[x]) /\ SumFunction(f) \in Int
  BY <1>1, SumOneChanged
<1>4. SumFunction(g) = SumFunction(h) + (g[y] - h[y])
  BY <1>1, SumOneChanged
<1> QED
  BY <1>1, <1>2, <1>3, <1>4

\* A sum whose entries, scaled, stay below those of another, scales to less.
LEMMA SumScaled ==
  ASSUME NEW S, IsFiniteSet(S), NEW f \in [S -> Int], NEW g \in [S -> Int], NEW s \in Nat,
         \A x \in S : s * f[x] <= g[x]
  PROVE  s * SumFunction(f) <= SumFunction(g)
<1> DEFINE G == {T \in SUBSET S : s * SumFunctionOnSet(f, T) <= SumFunctionOnSet(g, T)}
<1>0. \A x \in S : f[x] \in Int /\ g[x] \in Int
  OBVIOUS
<1>1. {} \in G
  BY SumEmpty
<1>2. ASSUME NEW T \in SUBSET S, NEW x \in S, T \in G, x \notin T
      PROVE  T \cup {x} \in G
  <2> DEFINE W == T \cup {x}
  <2>1. IsFiniteSet(T) /\ IsFiniteSet(W) /\ W \ {x} = T /\ W \in SUBSET S /\ x \in W
    BY <1>2, FS_Subset
  <2>2. /\ SumFunctionOnSet(f, W) = f[x] + SumFunctionOnSet(f, T)
        /\ SumFunctionOnSet(g, W) = g[x] + SumFunctionOnSet(g, T)
    <3>1. \A z \in W : f[z] \in Int /\ g[z] \in Int
      BY <1>0, <2>1
    <3> HIDE DEF W
    <3> QED
      BY <2>1, <3>1, SumRemove
  <2>3. SumFunctionOnSet(f, T) \in Int /\ SumFunctionOnSet(g, T) \in Int
    BY <1>0, <2>1, SumInt
  <2>4. s * SumFunctionOnSet(f, T) <= SumFunctionOnSet(g, T)
    BY <1>2
  <2> DEFINE a == SumFunctionOnSet(f, T)
             b == SumFunctionOnSet(g, T)
  <2>5. s * (f[x] + a) <= g[x] + b
    <3>1. a \in Int /\ b \in Int /\ f[x] \in Int /\ g[x] \in Int /\ s * a <= b /\ s * f[x] <= g[x]
      BY <1>0, <2>3, <2>4
    <3> HIDE DEF a, b
    <3>2. s * (f[x] + a) = s * f[x] + s * a
      BY <3>1
    <3>3. s * f[x] \in Int /\ s * a \in Int
      BY <3>1
    <3> QED
      BY <3>1, <3>2, <3>3
  <2> QED
    BY <2>1, <2>2, <2>5
<1>3. S \in G
  <2> HIDE DEF G
  <2> QED
    BY <1>1, <1>2, FiniteSetInduction
<1>4. DOMAIN f = S /\ DOMAIN g = S
  OBVIOUS
<1> QED
  BY <1>3, <1>4 DEF SumFunction

\* Entries that grow by at most s times those of t make a sum grow by at most s
\* times the sum of t.
LEMMA SumSpread ==
  ASSUME NEW S, IsFiniteSet(S), NEW f \in [S -> Int], NEW g \in [S -> Int], NEW t \in [S -> Int],
         NEW s \in Int, \A x \in S : g[x] <= f[x] + s * t[x]
  PROVE  SumFunction(g) <= SumFunction(f) + s * SumFunction(t)
<1> DEFINE G == {T \in SUBSET S : SumFunctionOnSet(g, T)
                                    <= SumFunctionOnSet(f, T) + s * SumFunctionOnSet(t, T)}
<1>0. \A x \in S : f[x] \in Int /\ g[x] \in Int /\ t[x] \in Int
  OBVIOUS
<1>1. {} \in G
  BY SumEmpty
<1>2. ASSUME NEW T \in SUBSET S, NEW x \in S, T \in G, x \notin T
      PROVE  T \cup {x} \in G
  <2> DEFINE W == T \cup {x}
  <2>1. IsFiniteSet(T) /\ IsFiniteSet(W) /\ W \ {x} = T /\ W \in SUBSET S /\ x \in W
    BY <1>2, FS_Subset
  <2>2. /\ SumFunctionOnSet(f, W) = f[x] + SumFunctionOnSet(f, T)
        /\ SumFunctionOnSet(g, W) = g[x] + SumFunctionOnSet(g, T)
        /\ SumFunctionOnSet(t, W) = t[x] + SumFunctionOnSet(t, T)
    <3>1. \A z \in W : f[z] \in Int /\ g[z] \in Int /\ t[z] \in Int
      BY <1>0, <2>1
    <3> HIDE DEF W
    <3> QED
      BY <2>1, <3>1, SumRemove
  <2> DEFINE a == SumFunctionOnSet(f, T)
             b == SumFunctionOnSet(g, T)
             c == SumFunctionOnSet(t, T)
  <2>3. a \in Int /\ b \in Int /\ c \in Int
    BY <1>0, <2>1, SumInt
  <2>4. g[x] + b <= (f[x] + a) + s * (t[x] + c)
    <3>1. /\ f[x] \in Int /\ g[x] \in Int /\ t[x] \in Int
          /\ b <= a + s * c /\ g[x] <= f[x] + s * t[x]
      BY <1>0, <1>2
    <3> HIDE DEF a, b, c
    <3>2. s * (t[x] + c) = s * t[x] + s * c
      BY <2>3, <3>1
    <3>3. s * t[x] \in Int /\ s * c \in Int
      BY <2>3, <3>1
    <3> QED
      BY <2>3, <3>1, <3>2, <3>3
  <2> QED
    BY <2>1, <2>2, <2>4
<1>3. S \in G
  <2> HIDE DEF G
  <2> QED
    BY <1>1, <1>2, FiniteSetInduction
<1>4. DOMAIN f = S /\ DOMAIN g = S /\ DOMAIN t = S
  OBVIOUS
<1> QED
  BY <1>3, <1>4 DEF SumFunction

\* ... and by e more when one of them may grow by e more.
LEMMA SumSpreadAndAdded ==
  ASSUME NEW S, IsFiniteSet(S), NEW f \in [S -> Int], NEW g \in [S -> Int], NEW t \in [S -> Int],
         NEW s \in Int, NEW y \in S, NEW e \in Int,
         \A x \in S : g[x] <= f[x] + s * t[x] + (IF x = y THEN e ELSE 0)
  PROVE  SumFunction(g) <= SumFunction(f) + s * SumFunction(t) + e
<1> DEFINE h == [f EXCEPT ![y] = f[y] + e]
<1>1. /\ h \in [S -> Int] /\ h[y] = f[y] + e /\ f[y] \in Int
      /\ \A x \in S : x # y => h[x] = f[x]
  OBVIOUS
<1> HIDE DEF h
<1>2. SumFunction(h) = SumFunction(f) + (h[y] - f[y]) /\ SumFunction(f) \in Int
  BY <1>1, SumOneChanged
<1>3. \A x \in S : g[x] <= h[x] + s * t[x]
  <2> TAKE x \in S
  <2>1. f[x] \in Int /\ g[x] \in Int /\ s * t[x] \in Int
    <3>1. t[x] \in Int
      OBVIOUS
    <3> QED
      BY <3>1
  <2> QED
    BY <1>1, <2>1
<1>4. SumFunction(g) <= SumFunction(h) + s * SumFunction(t)
  BY <1>1, <1>3, SumSpread
<1>5. SumFunction(t) \in Int /\ SumFunction(g) \in Int
  <2>1. \A x \in S : t[x] \in Int /\ g[x] \in Int
    OBVIOUS
  <2>2. DOMAIN t = S /\ DOMAIN g = S
    OBVIOUS
  <2> QED
    BY <2>1, <2>2, SumInt DEF SumFunction
<1>6. s * SumFunction(t) \in Int
  BY <1>5
<1> QED
  BY <1>1, <1>2, <1>4, <1>5, <1>6

\* The sum of two sets that have nothing in common.
LEMMA SumUnion ==
  ASSUME NEW S, IsFiniteSet(S), NEW f, \A x \in S : f[x] \in Int,
         NEW A \in SUBSET S, NEW B \in SUBSET S, A \cap B = {}
  PROVE  SumFunctionOnSet(f, A \cup B) = SumFunctionOnSet(f, A) + SumFunctionOnSet(f, B)
<1> DEFINE Sum(T) == SumFunctionOnSet(f, T)
           G == {T \in SUBSET B : Sum(A \cup T) = Sum(A) + Sum(T)}
<1>0. /\ IsFiniteSet(B) /\ \A T \in SUBSET S : IsFiniteSet(T) /\ Sum(T) \in Int
      /\ \A T \in SUBSET S : \A x \in T : Sum(T) = f[x] + Sum(T \ {x})
  BY FS_Subset, SumInt, SumRemove
<1>1. {} \in G
  <2>1. A \cup {} = A /\ Sum({}) = 0 /\ Sum(A) \in Int
    BY <1>0, SumEmpty
  <2> QED BY <2>1
<1>2. ASSUME NEW T \in SUBSET B, NEW x \in B, T \in G, x \notin T
      PROVE  T \cup {x} \in G
  <2>1. /\ (T \cup {x}) \ {x} = T /\ (A \cup (T \cup {x})) \ {x} = A \cup T
        /\ T \cup {x} \in SUBSET S /\ A \cup (T \cup {x}) \in SUBSET S
        /\ x \in T \cup {x} /\ x \in A \cup (T \cup {x})
    BY <1>2
  <2>2. /\ Sum(T \cup {x}) = f[x] + Sum(T)
        /\ Sum(A \cup (T \cup {x})) = f[x] + Sum(A \cup T)
    <3> HIDE DEF Sum
    <3> QED BY <1>0, <2>1
  <2>3. Sum(A \cup T) = Sum(A) + Sum(T)
    BY <1>2
  <2>4. Sum(A) \in Int /\ Sum(T) \in Int /\ f[x] \in Int
    BY <1>0
  <2> QED BY <2>2, <2>3, <2>4
<1>3. B \in G
  <2> HIDE DEF G
  <2> QED BY <1>0, <1>1, <1>2, FiniteSetInduction
<1> QED BY <1>3
=============================================================================
