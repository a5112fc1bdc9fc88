----------------------------- MODULE DataProofs -----------------------------
(***************************************************************************)
(* Facts about the operators the modules compute with: induction over the  *)
(* natural numbers and over finite sets, stated with sets in the place of  *)
(* predicates; sums over finite sets; sequences put one after the other.   *)
(***************************************************************************)
EXTENDS Integers, FiniteSetsExt, SequencesExt, FiniteSetTheorems, SequenceTheorems,
        WellFoundedInduction, TLAPS

\* A family of subsets of a finite set has a smallest member.
LEMMA SmallestSubset ==
  ASSUME NEW S, IsFiniteSet(S), NEW F \in SUBSET (SUBSET S), F # {}
  PROVE  \E M \in F : \A T \in F : T \subseteq M => T = M
<1>1. IsWellFoundedOn(StrictSubsetOrdering(S), FiniteSubsetsOf(S))
  BY FS_StrictSubsetOrderingWellFounded
<1>2. FiniteSubsetsOf(S) = SUBSET S
  BY FS_FiniteSubsetsOfFinite
<1>3. F \subseteq FiniteSubsetsOf(S)
  BY <1>2
<1>4. PICK M \in F : \A T \in F : <<T, M>> \notin StrictSubsetOrdering(S)
  BY <1>1, <1>3, WFMin
<1>5. ASSUME NEW T \in F, T \subseteq M PROVE T = M
  BY <1>4, <1>5 DEF StrictSubsetOrdering
<1> QED  BY <1>5

\* A set of natural numbers that holds 0 and, with each number, the next one,
\* holds them all.
LEMMA NatInductionSet ==
  ASSUME NEW P, 0 \in P, \A n \in P \cap Nat : n + 1 \in P
  PROVE  Nat \subseteq P
<1> SUFFICES ASSUME NEW n \in Nat, n \notin P PROVE FALSE
  OBVIOUS
<1> DEFINE N == 0..n
           Bad == {k \in N : k \notin P}
           F == {0..k : k \in Bad}
<1>1. IsFiniteSet(N)
  BY FS_Interval
<1>2. F \in SUBSET (SUBSET N) /\ F # {}
  OBVIOUS
<1> HIDE DEF F, N
<1>3. PICK M \in F : \A T \in F : T \subseteq M => T = M
  BY <1>1, <1>2, SmallestSubset
<1>4. PICK k \in Bad : M = 0..k
  BY DEF F
<1> USE DEF N
<1>5. k # 0 /\ k - 1 \in 0..n
  OBVIOUS
<1>6. k - 1 \in P
  <2> SUFFICES ASSUME k - 1 \notin P PROVE FALSE
    OBVIOUS
  <2>1. 0..(k-1) \in F
    BY <1>5 DEF F
  <2>2. 0..(k-1) \subseteq M /\ k \in M /\ k \notin 0..(k-1)
    BY <1>4
  <2> QED  BY <1>3, <2>1, <2>2
<1>7. (k - 1) + 1 \in P
  BY <1>5, <1>6
<1> QED  BY <1>5, <1>7

\* What holds of a set when it holds of all smaller ones, holds of each finite set.
LEMMA SubsetInduction ==
  ASSUME NEW S, IsFiniteSet(S), NEW P,
         \A T \in SUBSET S : (\A U \in SUBSET T : U # T => U \in P) => T \in P
  PROVE  S \in P
<1> DEFINE F == {T \in SUBSET S : T \notin P}
<1>1. SUFFICES ASSUME F # {} PROVE FALSE
  OBVIOUS
<1>2. F \in SUBSET (SUBSET S)
  OBVIOUS
<1> HIDE DEF F
<1>3. PICK M \in F : \A T \in F : T \subseteq M => T = M
  BY <1>1, <1>2, SmallestSubset
<1>4. M \in SUBSET S /\ M \notin P
  BY DEF F
<1>5. ASSUME NEW U \in SUBSET M, U # M PROVE U \in P
  BY <1>3, <1>4, <1>5 DEF F
<1> QED  BY <1>4, <1>5

-----------------------------------------------------------------------------
(* Sums of a function over a finite set. *)

\* The equation that defines the sum over the subsets of S.
SumEquation(g, f, S) ==
  g = [s \in SUBSET S |->
         IF s = {} THEN 0
         ELSE f[CHOOSE x \in s : TRUE] + g[s \ {CHOOSE x \in s : TRUE}]]

LEMMA SumIsChosen ==
  ASSUME NEW f, NEW S
  PROVE  SumFunctionOnSet(f, S) = (CHOOSE g : SumEquation(g, f, S))[S]
  BY DEF SumFunctionOnSet, FoldFunctionOnSet, MapThenFoldSet, SumEquation

LEMMA SumEquationUnique ==
  ASSUME NEW f, NEW S, IsFiniteSet(S), NEW T \in SUBSET S,
         NEW g, SumEquation(g, f, S), NEW h, SumEquation(h, f, T)
  PROVE  \A s \in SUBSET T : g[s] = h[s]
<1> SUFFICES ASSUME NEW u \in SUBSET T, g[u] # h[u] PROVE FALSE
  OBVIOUS
<1> DEFINE F == {s \in SUBSET T : g[s] # h[s]}
<1>1. IsFiniteSet(T)
  BY FS_Subset
<1>2. F \in SUBSET (SUBSET T) /\ F # {}
  OBVIOUS
<1> HIDE DEF F
<1>3. PICK M \in F : \A s \in F : s \subseteq M => s = M
  BY <1>1, <1>2, SmallestSubset
<1>4. M \in SUBSET T /\ M \in SUBSET S /\ g[M] # h[M]
  BY <1>3 DEF F
<1>5. CASE M = {}
  BY <1>4, <1>5 DEF SumEquation
<1>6. CASE M # {}
  <2> DEFINE x == CHOOSE x \in M : TRUE
  <2>1. x \in M
    BY <1>6
  <2>2. M \ {x} \in SUBSET T /\ M \ {x} \notin F
    BY <1>3, <1>4, <2>1
  <2>3. g[M \ {x}] = h[M \ {x}]
    BY <2>2 DEF F
  <2>4. g[M] = f[x] + g[M \ {x}]
    BY <1>4, <1>6 DEF SumEquation
  <2>5. h[M] = f[x] + h[M \ {x}]
    BY <1>4, <1>6 DEF SumEquation
  <2> QED  BY <1>4, <2>3, <2>4, <2>5
<1> QED  BY <1>5, <1>6
LEMMA SumEquationExists ==
  ASSUME NEW f, NEW S, IsFiniteSet(S)
  PROVE  \E g : SumEquation(g, f, S)
<1> DEFINE P == {T \in SUBSET S : \E g : SumEquation(g, f, T)}
           G(T) == CHOOSE g : SumEquation(g, f, T)
           c(T) == CHOOSE x \in T : TRUE
<1>1. ASSUME NEW M \in SUBSET S, \A T \in SUBSET M : T # M => T \in P
      PROVE  M \in P
  <2> DEFINE h == [s \in SUBSET M |-> IF s = {} THEN 0
                                      ELSE f[c(s)] + G(s \ {c(s)})[s \ {c(s)}]]
  <2>1. ASSUME NEW T \in SUBSET M, T # M PROVE SumEquation(G(T), f, T)
    BY <1>1, <2>1
  <2>2. ASSUME NEW T \in SUBSET M, T # {}
        PROVE  c(T) \in T /\ T \ {c(T)} \in SUBSET M /\ T \ {c(T)} # M
    BY <2>2
  <2>3. ASSUME NEW T \in SUBSET M, T # M PROVE h[T] = G(T)[T]
    <3>1. CASE T = {}
      <4>1. SumEquation(G(T), f, T)
        BY <2>1, <2>3
      <4> HIDE DEF G
      <4>2. G(T)[T] = 0
        BY <4>1, <3>1 DEF SumEquation
      <4>3. h[T] = 0
        BY <3>1
      <4> QED  BY <4>2, <4>3
    <3>2. CASE T # {}
      <4> DEFINE U == T \ {c(T)}
      <4>1. U \in SUBSET M /\ U # M /\ U \in SUBSET T
        BY <2>2, <2>3, <3>2
      <4>2. SumEquation(G(T), f, T) /\ SumEquation(G(U), f, U)
        BY <2>1, <2>3, <4>1
      <4>3. IsFiniteSet(T)
        BY FS_Subset
      <4> HIDE DEF G, U, c
      <4>4. G(T)[U] = G(U)[U]
        BY <4>1, <4>2, <4>3, SumEquationUnique
      <4> USE DEF U
      <4>5. h[T] = f[c(T)] + G(U)[U]
        BY <3>2
      <4>6. G(T)[T] = f[c(T)] + G(T)[U]
        BY <3>2, <4>2 DEF SumEquation, c
      <4> QED  BY <4>4, <4>5, <4>6
    <3> QED  BY <3>1, <3>2
  <2>4. SumEquation(h, f, M)
    <3> DEFINE k == [s \in SUBSET M |-> IF s = {} THEN 0
                                       ELSE f[c(s)] + h[s \ {c(s)}]]
    <3>1. ASSUME NEW s \in SUBSET M PROVE h[s] = k[s]
      <4>1. CASE s = {}
        BY <4>1
      <4>2. CASE s # {}
        <5> DEFINE r == s \ {c(s)}
        <5>1. h[r] = G(r)[r]
          <6> HIDE DEF h, G, c
          <6> QED  BY <2>2, <2>3, <4>2
        <5>2. h[s] = f[c(s)] + G(r)[r]
          BY <4>2
        <5>3. k[s] = f[c(s)] + h[r]
          BY <4>2
        <5> QED  BY <5>1, <5>2, <5>3
      <4> QED  BY <4>1, <4>2
    <3>2. h = k
      BY <3>1
    <3> QED  BY <3>2 DEF SumEquation
  <2> QED  BY <2>4
<1> HIDE DEF P
<1>2. S \in P
  BY <1>1, SubsetInduction
<1> QED  BY <1>2 DEF P

LEMMA SumSolves ==
  ASSUME NEW f, NEW S, IsFiniteSet(S)
  PROVE  \E g : SumEquation(g, f, S) /\ SumFunctionOnSet(f, S) = g[S]
<1>1. PICK g : g = CHOOSE h : SumEquation(h, f, S)
  OBVIOUS
<1>2. SumEquation(g, f, S)
  BY <1>1, SumEquationExists
<1> QED  BY <1>1, <1>2, SumIsChosen

LEMMA SumEmpty ==
  ASSUME NEW f
  PROVE  SumFunctionOnSet(f, {}) = 0
<1>1. IsFiniteSet({})
  BY FS_EmptySet
<1>2. PICK g : SumEquation(g, f, {}) /\ SumFunctionOnSet(f, {}) = g[{}]
  BY <1>1, SumSolves
<1> QED  BY <1>2 DEF SumEquation

LEMMA SumStep ==
  ASSUME NEW f, NEW S, IsFiniteSet(S), S # {}
  PROVE  \E x \in S : SumFunctionOnSet(f, S) = f[x] + SumFunctionOnSet(f, S \ {x})
<1> DEFINE x == CHOOSE x \in S : TRUE
           T == S \ {x}
<1>1. x \in S /\ T \in SUBSET S /\ IsFiniteSet(T)
  BY FS_Subset
<1>2. PICK g : SumEquation(g, f, S) /\ SumFunctionOnSet(f, S) = g[S]
  BY SumSolves
<1>3. PICK h : SumEquation(h, f, T) /\ SumFunctionOnSet(f, T) = h[T]
  BY <1>1, SumSolves
<1> HIDE DEF T
<1>4. g[T] = h[T]
  BY <1>1, <1>2, <1>3, SumEquationUnique
<1>5. g[S] = f[x] + g[T]
  BY <1>2 DEF SumEquation, T
<1> QED  BY <1>1, <1>2, <1>3, <1>4, <1>5 DEF T

-----------------------------------------------------------------------------
(* What sums of integers do. *)

Summable(f, S) == IsFiniteSet(S) /\ \A x \in S : f[x] \in Int

LEMMA SummableSubset ==
  ASSUME NEW f, NEW S, Summable(f, S), NEW T \in SUBSET S
  PROVE  Summable(f, T)
  BY FS_Subset DEF Summable

LEMMA SumInt ==
  ASSUME NEW f, NEW S, Summable(f, S)
  PROVE  SumFunctionOnSet(f, S) \in Int
<1> DEFINE P == {T \in SUBSET S : SumFunctionOnSet(f, T) \in Int}
<1>1. ASSUME NEW T \in SUBSET S, \A U \in SUBSET T : U # T => U \in P
      PROVE  T \in P
  <2>1. CASE T = {}
    BY <2>1, SumEmpty
  <2>2. CASE T # {}
    <3>1. PICK x \in T : SumFunctionOnSet(f, T) = f[x] + SumFunctionOnSet(f, T \ {x})
      BY <2>2, SummableSubset, SumStep DEF Summable
    <3>2. T \ {x} \in P /\ f[x] \in Int
      BY <1>1 DEF Summable
    <3> QED  BY <3>1, <3>2
  <2> QED  BY <2>1, <2>2
<1> HIDE DEF P
<1>2. S \in P
  BY <1>1, SubsetInduction DEF Summable
<1> QED  BY <1>2 DEF P

\* Any element can be taken out of a sum.
LEMMA SumTakeOut ==
  ASSUME NEW f, NEW S, Summable(f, S), NEW x \in S
  PROVE  SumFunctionOnSet(f, S) = f[x] + SumFunctionOnSet(f, S \ {x})
<1> DEFINE P == {T \in SUBSET S : \A y \in T :
                   SumFunctionOnSet(f, T) = f[y] + SumFunctionOnSet(f, T \ {y})}
<1>1. ASSUME NEW T \in SUBSET S, \A U \in SUBSET T : U # T => U \in P
      PROVE  T \in P
  <2> SUFFICES ASSUME NEW y \in T
               PROVE  SumFunctionOnSet(f, T) = f[y] + SumFunctionOnSet(f, T \ {y})
    OBVIOUS
  <2>1. PICK z \in T : SumFunctionOnSet(f, T) = f[z] + SumFunctionOnSet(f, T \ {z})
    BY SummableSubset, SumStep DEF Summable
  <2>2. CASE y = z
    BY <2>1, <2>2
  <2>3. CASE y # z
    <3> DEFINE R == (T \ {z}) \ {y}
    <3>1. T \ {z} \in P /\ T \ {y} \in P /\ R = (T \ {y}) \ {z}
      BY <1>1
    <3>2. SumFunctionOnSet(f, T \ {z}) = f[y] + SumFunctionOnSet(f, R)
      BY <2>3, <3>1
    <3>3. SumFunctionOnSet(f, T \ {y}) = f[z] + SumFunctionOnSet(f, R)
      BY <2>3, <3>1
    <3>4. Summable(f, R)
      BY SummableSubset
    <3>5. SumFunctionOnSet(f, R) \in Int /\ f[y] \in Int /\ f[z] \in Int
      BY <3>4, SumInt DEF Summable
    <3> QED  BY <2>1, <3>2, <3>3, <3>5
  <2> QED  BY <2>2, <2>3
<1> HIDE DEF P
<1>2. S \in P
  BY <1>1, SubsetInduction DEF Summable
<1> QED  BY <1>2 DEF P

\* The sum depends on nothing but the values at the elements.
LEMMA SumSame ==
  ASSUME NEW f, NEW g, NEW S, Summable(f, S), \A x \in S : f[x] = g[x]
  PROVE  SumFunctionOnSet(f, S) = SumFunctionOnSet(g, S)
<1> DEFINE P == {T \in SUBSET S : SumFunctionOnSet(f, T) = SumFunctionOnSet(g, T)}
<1>1. ASSUME NEW T \in SUBSET S, \A U \in SUBSET T : U # T => U \in P
      PROVE  T \in P
  <2>1. CASE T = {}
    BY <2>1, SumEmpty
  <2>2. CASE T # {}
    <3>1. PICK x \in T : TRUE
      BY <2>2
    <3>2. Summable(f, T) /\ Summable(g, T)
      BY SummableSubset DEF Summable
    <3>3. SumFunctionOnSet(f, T) = f[x] + SumFunctionOnSet(f, T \ {x})
      BY <3>2, SumTakeOut
    <3>4. SumFunctionOnSet(g, T) = g[x] + SumFunctionOnSet(g, T \ {x})
      BY <3>2, SumTakeOut
    <3>5. T \ {x} \in P
      BY <1>1
    <3> QED  BY <3>3, <3>4, <3>5
  <2> QED  BY <2>1, <2>2
<1> HIDE DEF P
<1>2. S \in P
  BY <1>1, SubsetInduction DEF Summable
<1> QED  BY <1>2 DEF P

\* A set falls into two parts, and so does its sum.
LEMMA SumSplit ==
  ASSUME NEW f, NEW S, Summable(f, S), NEW A \in SUBSET S
  PROVE  SumFunctionOnSet(f, S) = SumFunctionOnSet(f, A) + SumFunctionOnSet(f, S \ A)
<1> DEFINE P == {T \in SUBSET S : SumFunctionOnSet(f, T)
                    = SumFunctionOnSet(f, T \cap A) + SumFunctionOnSet(f, T \ A)}
<1>1. ASSUME NEW T \in SUBSET S, \A U \in SUBSET T : U # T => U \in P
      PROVE  T \in P
  <2>1. CASE T = {}
    <3>1. T \cap A = {} /\ T \ A = {}
      BY <2>1
    <3> QED  BY <2>1, <3>1, SumEmpty
  <2>2. CASE T # {}
    <3>1. PICK x \in T : TRUE
      BY <2>2
    <3> DEFINE U == T \ {x}
    <3>2. Summable(f, T) /\ Summable(f, T \cap A) /\ Summable(f, T \ A)
           /\ Summable(f, U \cap A) /\ Summable(f, U \ A)
      BY SummableSubset
    <3>3. SumFunctionOnSet(f, T) = f[x] + SumFunctionOnSet(f, U)
      BY <3>2, SumTakeOut
    <3>4. SumFunctionOnSet(f, U)
            = SumFunctionOnSet(f, U \cap A) + SumFunctionOnSet(f, U \ A)
      BY <1>1
    <3>5. /\ SumFunctionOnSet(f, U \cap A) \in Int
          /\ SumFunctionOnSet(f, U \ A) \in Int
          /\ f[x] \in Int
      BY <3>2, SumInt DEF Summable
    <3>6. CASE x \in A
      <4>1. U \cap A = (T \cap A) \ {x} /\ U \ A = T \ A /\ x \in T \cap A
        BY <3>6
      <4>2. SumFunctionOnSet(f, T \cap A) = f[x] + SumFunctionOnSet(f, U \cap A)
        BY <3>2, <4>1, SumTakeOut
      <4>3. SumFunctionOnSet(f, T)
              = SumFunctionOnSet(f, T \cap A) + SumFunctionOnSet(f, T \ A)
        <5> DEFINE a == SumFunctionOnSet(f, U \cap A)
                   b == SumFunctionOnSet(f, U \ A)
        <5>1. SumFunctionOnSet(f, T) = f[x] + (a + b)
          BY <3>3, <3>4
        <5>2. SumFunctionOnSet(f, T \cap A) = f[x] + a /\ SumFunctionOnSet(f, T \ A) = b
          BY <4>1, <4>2
        <5>3. a \in Int /\ b \in Int /\ f[x] \in Int
          BY <3>5
        <5> HIDE DEF a, b
        <5> QED  BY <5>1, <5>2, <5>3
      <4> QED  BY <4>3
    <3>7. CASE x \notin A
      <4>1. U \cap A = T \cap A /\ U \ A = (T \ A) \ {x} /\ x \in T \ A
        BY <3>7
      <4>2. SumFunctionOnSet(f, T \ A) = f[x] + SumFunctionOnSet(f, U \ A)
        BY <3>2, <4>1, SumTakeOut
      <4>3. SumFunctionOnSet(f, T)
              = SumFunctionOnSet(f, T \cap A) + SumFunctionOnSet(f, T \ A)
        <5> DEFINE a == SumFunctionOnSet(f, U \cap A)
                   b == SumFunctionOnSet(f, U \ A)
        <5>1. SumFunctionOnSet(f, T) = f[x] + (a + b)
          BY <3>3, <3>4
        <5>2. SumFunctionOnSet(f, T \cap A) = a /\ SumFunctionOnSet(f, T \ A) = f[x] + b
          BY <4>1, <4>2
        <5>3. a \in Int /\ b \in Int /\ f[x] \in Int
          BY <3>5
        <5> HIDE DEF a, b
        <5> QED  BY <5>1, <5>2, <5>3
      <4> QED  BY <4>3
    <3> QED  BY <3>6, <3>7
  <2> QED  BY <2>1, <2>2
<1> HIDE DEF P
<1>2. S \in P
  BY <1>1, SubsetInduction DEF Summable
<1>3. S \cap A = A
  OBVIOUS
<1> QED  BY <1>2, <1>3 DEF P

LEMMA SumNat ==
  ASSUME NEW f, NEW S, IsFiniteSet(S), \A x \in S : f[x] \in Nat
  PROVE  SumFunctionOnSet(f, S) \in Nat
<1> DEFINE P == {T \in SUBSET S : SumFunctionOnSet(f, T) \in Nat}
<1>1. ASSUME NEW T \in SUBSET S, \A U \in SUBSET T : U # T => U \in P
      PROVE  T \in P
  <2>1. CASE T = {}
    BY <2>1, SumEmpty
  <2>2. CASE T # {}
    <3>1. IsFiniteSet(T)
      BY FS_Subset
    <3>2. PICK x \in T : SumFunctionOnSet(f, T) = f[x] + SumFunctionOnSet(f, T \ {x})
      BY <2>2, <3>1, SumStep
    <3>3. T \ {x} \in P /\ f[x] \in Nat
      BY <1>1
    <3> QED  BY <3>2, <3>3
  <2> QED  BY <2>1, <2>2
<1> HIDE DEF P
<1>2. S \in P
  BY <1>1, SubsetInduction
<1> QED  BY <1>2 DEF P

LEMMA SumZero ==
  ASSUME NEW f, NEW S, IsFiniteSet(S), \A x \in S : f[x] = 0
  PROVE  SumFunctionOnSet(f, S) = 0
<1> DEFINE P == {T \in SUBSET S : SumFunctionOnSet(f, T) = 0}
<1>1. ASSUME NEW T \in SUBSET S, \A U \in SUBSET T : U # T => U \in P
      PROVE  T \in P
  <2>1. CASE T = {}
    BY <2>1, SumEmpty
  <2>2. CASE T # {}
    <3>1. IsFiniteSet(T)
      BY FS_Subset
    <3>2. PICK x \in T : SumFunctionOnSet(f, T) = f[x] + SumFunctionOnSet(f, T \ {x})
      BY <2>2, <3>1, SumStep
    <3>3. T \ {x} \in P /\ f[x] = 0
      BY <1>1
    <3> QED  BY <3>2, <3>3
  <2> QED  BY <2>1, <2>2
<1> HIDE DEF P
<1>2. S \in P
  BY <1>1, SubsetInduction
<1> QED  BY <1>2 DEF P

\* Where all elements but one count nothing, that one is the sum.
LEMMA SumOne ==
  ASSUME NEW f, NEW S, Summable(f, S), NEW x \in S, \A y \in S \ {x} : f[y] = 0
  PROVE  SumFunctionOnSet(f, S) = f[x]
<1>1. IsFiniteSet(S \ {x})
  BY FS_Subset DEF Summable
<1>2. SumFunctionOnSet(f, S \ {x}) = 0
  BY <1>1, SumZero
<1> QED  BY <1>2, SumTakeOut DEF Summable

-----------------------------------------------------------------------------
(* Sequences.                                                              *)

LEMMA SeqWider ==
  ASSUME NEW S, NEW T, S \subseteq T, NEW q \in Seq(S)
  PROVE  q \in Seq(T) /\ \A i \in DOMAIN q : q[i] \in S
OBVIOUS

LEMMA SeqOne ==
  ASSUME NEW S, NEW a \in S
  PROVE  <<a>> \in Seq(S)
OBVIOUS

LEMMA SeqPair ==
  ASSUME NEW S, NEW a \in S, NEW b \in S
  PROVE  <<a, b>> \in Seq(S)
OBVIOUS

\* The equation that defines FlattenSeq over its first n members.
FlattenEquation(g, f, n) ==
  g = [i \in 1..n |-> IF i = 1 THEN f[i] ELSE g[i-1] \o f[i]]

LEMMA FlattenEquationExists ==
  ASSUME NEW f, NEW n \in Nat
  PROVE  \E g : FlattenEquation(g, f, n)
<1> DEFINE P == {m \in Nat : \E g : FlattenEquation(g, f, m)}
<1>1. 0 \in P
  <2> DEFINE h == [i \in 1..0 |-> <<>>]
  <2>1. FlattenEquation(h, f, 0)
    BY DEF FlattenEquation
  <2> QED  BY <2>1
<1>2. ASSUME NEW m \in P \cap Nat PROVE m + 1 \in P
  <2>1. PICK g : FlattenEquation(g, f, m)
    OBVIOUS
  <2> DEFINE h == [i \in 1..(m+1) |-> IF i <= m THEN g[i]
                                      ELSE IF i = 1 THEN f[i] ELSE g[i-1] \o f[i]]
             k == [i \in 1..(m+1) |-> IF i = 1 THEN f[i] ELSE h[i-1] \o f[i]]
  <2>2. ASSUME NEW i \in 1..(m+1) PROVE h[i] = k[i]
    <3>1. CASE i <= m
      <4>1. i \in 1..m /\ (i # 1 => i - 1 <= m /\ i - 1 \in 1..(m+1))
        BY <3>1
      <4>2. g[i] = IF i = 1 THEN f[i] ELSE g[i-1] \o f[i]
        <5> HIDE DEF P, h, k
        <5> QED  BY <2>1, <4>1, Zenon DEF FlattenEquation
      <4>3. h[i] = g[i] /\ (i # 1 => h[i-1] = g[i-1])
        BY <3>1, <4>1
      <4>4. k[i] = IF i = 1 THEN f[i] ELSE h[i-1] \o f[i]
        OBVIOUS
      <4> HIDE DEF h, k
      <4> QED  BY <4>2, <4>3, <4>4, Zenon
    <3>2. CASE i = m + 1
      BY <3>2
    <3> QED  BY <3>1, <3>2
  <2>3. h = k
    BY <2>2
  <2>4. FlattenEquation(h, f, m + 1)
    BY <2>3 DEF FlattenEquation
  <2> QED  BY <2>4
<1> HIDE DEF P
<1>3. n \in P
  BY <1>1, <1>2, NatInductionSet
<1> QED  BY <1>3 DEF P

\* Sequences over S, put one after the other, are a sequence over S.
LEMMA FlattenType ==
  ASSUME NEW S, NEW n \in Nat, NEW f, f \in [1..n -> Seq(S)]
  PROVE  FlattenSeq(f) \in Seq(S)
<1>1. Len(f) = n
  OBVIOUS
<1>2. CASE n = 0
  <2>1. FlattenSeq(f) = f /\ f = <<>>
    BY <1>1, <1>2 DEF FlattenSeq
  <2> QED  BY <2>1
<1>3. CASE n # 0
  <2> DEFINE g == CHOOSE h : FlattenEquation(h, f, n)
  <2>1. FlattenEquation(g, f, n)
    BY FlattenEquationExists
  <2>2. FlattenSeq(f) = g[n]
    BY <1>1, <1>3 DEF FlattenSeq, FlattenEquation
  <2> HIDE DEF g
  <2> DEFINE P == {m \in Nat : m \in 1..n => g[m] \in Seq(S)}
  <2>3. 0 \in P
    OBVIOUS
  <2>4. ASSUME NEW m \in P \cap Nat PROVE m + 1 \in P
    <3> SUFFICES ASSUME m + 1 \in 1..n PROVE g[m+1] \in Seq(S)
      OBVIOUS
    <3>1. g[m+1] = IF m + 1 = 1 THEN f[m+1] ELSE g[(m+1)-1] \o f[m+1]
      BY <2>1 DEF FlattenEquation
    <3>2. f[m+1] \in Seq(S)
      OBVIOUS
    <3>3. CASE m = 0
      BY <3>1, <3>2, <3>3
    <3>4. CASE m # 0
      <4>1. g[m] \in Seq(S)
        BY <3>4
      <4>2. g[m+1] = g[m] \o f[m+1]
        <5>1. m + 1 # 1 /\ (m + 1) - 1 = m
          BY <3>4
        <5> QED  BY <3>1, <5>1, Zenon
      <4> QED  BY <3>2, <4>1, <4>2
    <3> QED  BY <3>3, <3>4
  <2> HIDE DEF P
  <2>5. n \in P
    BY <2>3, <2>4, NatInductionSet
  <2> QED  BY <1>3, <2>2, <2>5 DEF P
<1> QED  BY <1>2, <1>3

\* The elements of a finite set can be listed.
LEMMA ListedType ==
  ASSUME NEW S, IsFiniteSet(S)
  PROVE  SetToSeq(S) \in [1..Cardinality(S) -> S] /\ Cardinality(S) \in Nat
<1>1. Cardinality(S) \in Nat
  BY FS_CardinalityType
<1>2. ExistsBijection(1..Cardinality(S), S)
  BY FS_CardinalityType
<1>3. PICK f : f \in Bijection(1..Cardinality(S), S)
  BY <1>2 DEF ExistsBijection
<1>4. f \in [1..Cardinality(S) -> S] /\ IsInjective(f)
  BY <1>3 DEF Bijection, Injection, IsInjective, IsInjective
<1> QED  BY <1>1, <1>4 DEF SetToSeq

\* Where two functions differ at one element only, so do their sums.
LEMMA SumDiffers ==
  ASSUME NEW f, NEW g, NEW S, Summable(f, S), Summable(g, S), NEW x \in S,
         \A y \in S \ {x} : g[y] = f[y]
  PROVE  SumFunctionOnSet(g, S) = SumFunctionOnSet(f, S) + (g[x] - f[x])
<1>1. Summable(f, S \ {x}) /\ Summable(g, S \ {x})
  BY SummableSubset
<1>2. SumFunctionOnSet(f, S \ {x}) = SumFunctionOnSet(g, S \ {x})
  BY <1>1, SumSame
<1>3. SumFunctionOnSet(f, S \ {x}) \in Int
  BY <1>1, SumInt
<1>4. f[x] \in Int /\ g[x] \in Int
  BY DEF Summable
<1>5. /\ SumFunctionOnSet(f, S) = f[x] + SumFunctionOnSet(f, S \ {x})
      /\ SumFunctionOnSet(g, S) = g[x] + SumFunctionOnSet(g, S \ {x})
  BY SumTakeOut
<1> QED  BY <1>2, <1>3, <1>4, <1>5

-----------------------------------------------------------------------------
(* Sums along a sequence.  From a, adding the weights w of the members of  *)
(* q one after the other leads to b.  The partial sums are given by their  *)
(* equation, which no recursion has to solve.                              *)

Leads(w, q, a, b) ==
    \E P \in [0..Len(q) -> Int] :
        /\ P[0] = a
        /\ P[Len(q)] = b
        /\ \A i \in 1..Len(q) : P[i] = P[i-1] + w[q[i]]

LEMMA LeadsNowhere ==
  ASSUME NEW w, NEW a \in Int, NEW b
  PROVE  Leads(w, <<>>, a, b) <=> a = b
<1>1. ASSUME a = b PROVE Leads(w, <<>>, a, b)
  <2> DEFINE P == [i \in 0..0 |-> a]
  <2>1. P \in [0..Len(<<>>) -> Int] /\ P[0] = a
    OBVIOUS
  <2> HIDE DEF P
  <2> QED  BY <1>1, <2>1 DEF Leads
<1>2. ASSUME Leads(w, <<>>, a, b) PROVE a = b
  BY <1>2 DEF Leads
<1> QED  BY <1>1, <1>2

LEMMA LeadsOne ==
  ASSUME NEW w, NEW x, NEW a \in Int, NEW b \in Int, b = a + w[x]
  PROVE  Leads(w, <<x>>, a, b)
<1> DEFINE P == [i \in 0..1 |-> IF i = 0 THEN a ELSE b]
<1>1. P \in [0..1 -> Int] /\ P[0] = a /\ P[1] = b
  OBVIOUS
<1> HIDE DEF P
<1> DEFINE q == <<x>>
<1>2. Len(q) = 1 /\ q[1] = x
  OBVIOUS
<1> HIDE DEF q
<1>3. \A i \in 1..Len(q) : P[i] = P[i-1] + w[q[i]]
  BY <1>1, <1>2
<1>4. Leads(w, q, a, b)
  BY <1>1, <1>2, <1>3 DEF Leads
<1> QED  BY <1>4 DEF q

\* Members without weight lead nowhere.
LEMMA LeadsStill ==
  ASSUME NEW S, NEW w, \A x \in S : w[x] = 0, NEW q \in Seq(S), NEW a \in Int
  PROVE  Leads(w, q, a, a)
<1> DEFINE P == [i \in 0..Len(q) |-> a]
<1>1. P \in [0..Len(q) -> Int] /\ \A i \in 0..Len(q) : P[i] = a
  OBVIOUS
<1>2. 0 \in 0..Len(q) /\ Len(q) \in 0..Len(q)
  OBVIOUS
<1> HIDE DEF P
<1>3. \A i \in 1..Len(q) : P[i] = P[i-1] + w[q[i]]
  <2> TAKE i \in 1..Len(q)
  <2>1. i \in 0..Len(q) /\ i - 1 \in 0..Len(q) /\ q[i] \in S
    OBVIOUS
  <2>2. P[i] = a /\ P[i-1] = a /\ w[q[i]] = 0
    BY <1>1, <2>1
  <2> QED  BY <2>2
<1> QED  BY <1>1, <1>2, <1>3 DEF Leads

LEMMA LeadsOn ==
  ASSUME NEW S, NEW w, \A x \in S : w[x] \in Int, NEW p \in Seq(S), NEW q \in Seq(S),
         NEW a \in Int, NEW b \in Int, NEW c \in Int,
         Leads(w, p, a, b), Leads(w, q, b, c)
  PROVE  Leads(w, p \o q, a, c)
<1>1. PICK P \in [0..Len(p) -> Int] :
         P[0] = a /\ P[Len(p)] = b /\ \A i \in 1..Len(p) : P[i] = P[i-1] + w[p[i]]
  BY DEF Leads
<1>2. PICK Q \in [0..Len(q) -> Int] :
         Q[0] = b /\ Q[Len(q)] = c /\ \A i \in 1..Len(q) : Q[i] = Q[i-1] + w[q[i]]
  BY DEF Leads
<1>3. PICK m \in Nat : m = Len(p)
  OBVIOUS
<1>4. PICK n \in Nat : n = Len(q)
  OBVIOUS
<1> DEFINE r == p \o q
           R == [i \in 0..(m+n) |-> IF i <= m THEN P[i] ELSE Q[i-m]]
<1>5. /\ Len(r) = m + n
      /\ \A i \in 1..(m+n) : r[i] = IF i <= m THEN p[i] ELSE q[i-m]
  BY <1>3, <1>4
<1>10. \A i \in 0..(m+n) : R[i] = IF i <= m THEN P[i] ELSE Q[i-m]
  OBVIOUS
<1>6. R \in [0..(m+n) -> Int]
  BY <1>1, <1>2, <1>3, <1>4
<1>7. R[0] = a /\ R[m+n] = c
  <2>1. R[0] = P[0]
    OBVIOUS
  <2>2. CASE n = 0
    BY <1>1, <1>2, <1>3, <1>4, <2>1, <2>2
  <2>3. CASE n # 0
    BY <1>1, <1>2, <1>3, <1>4, <2>1, <2>3
  <2> QED  BY <2>2, <2>3
<1> HIDE DEF R, r
<1>8. ASSUME NEW i \in 1..(m+n) PROVE R[i] = R[i-1] + w[r[i]]
  <2>1. CASE i <= m
    <3>1. i \in 1..m /\ i \in 0..(m+n) /\ i - 1 \in 0..(m+n) /\ i - 1 <= m
      BY <2>1
    <3>2. R[i] = P[i] /\ R[i-1] = P[i-1] /\ r[i] = p[i]
      BY <1>5, <1>10, <2>1, <3>1
    <3>3. P[i] = P[i-1] + w[p[i]]
      BY <1>1, <1>3, <3>1
    <3> QED  BY <3>2, <3>3
  <2>2. CASE ~(i <= m)
    <3>1. PICK k \in 1..n : i = m + k
      <4>1. i - m \in 1..n /\ i = m + (i - m)
        BY <2>2
      <4> QED  BY <4>1
    <3>2. i \in 0..(m+n) /\ i - 1 \in 0..(m+n) /\ i - m = k /\ (i - 1) - m = k - 1
      BY <3>1
    <3>3. R[i] = Q[k] /\ r[i] = q[k]
      BY <1>5, <1>10, <2>2, <3>2
    <3>4. R[i-1] = Q[k-1]
      <4>1. CASE k = 1
        <5>1. i - 1 = m
          BY <3>1, <4>1
        <5> QED  BY <1>1, <1>2, <1>3, <1>10, <3>2, <4>1, <5>1
      <4>2. CASE k # 1
        <5>1. ~(i - 1 <= m)
          BY <3>1, <4>2
        <5> QED  BY <1>10, <3>2, <5>1
      <4> QED  BY <4>1, <4>2
    <3>5. Q[k] = Q[k-1] + w[q[k]]
      BY <1>2, <1>4
    <3> QED  BY <3>3, <3>4, <3>5
  <2> QED  BY <2>1, <2>2
<1>9. Leads(w, r, a, c)
  BY <1>5, <1>6, <1>7, <1>8 DEF Leads
<1> QED  BY <1>9 DEF r

LEMMA LeadsTail ==
  ASSUME NEW S, NEW w, NEW q \in Seq(S), q # <<>>, NEW a, NEW b, Leads(w, q, a, b)
  PROVE  Leads(w, Tail(q), a + w[Head(q)], b)
<1>1. PICK P \in [0..Len(q) -> Int] :
         P[0] = a /\ P[Len(q)] = b /\ \A i \in 1..Len(q) : P[i] = P[i-1] + w[q[i]]
  BY DEF Leads
<1> DEFINE r == Tail(q)
           R == [i \in 0..(Len(q)-1) |-> P[i+1]]
<1>2. PICK n \in Nat : Len(q) = n + 1
  <2>1. Len(q) \in Nat /\ Len(q) # 0
    OBVIOUS
  <2>2. Len(q) - 1 \in Nat /\ Len(q) = (Len(q) - 1) + 1
    BY <2>1
  <2> QED  BY <2>2
<1>3. /\ Len(r) = n /\ Head(q) = q[1]
      /\ \A i \in 1..n : r[i] = q[i+1]
  BY <1>2
<1>4. /\ R \in [0..n -> Int]
      /\ \A i \in 0..n : R[i] = P[i+1]
  BY <1>1, <1>2
<1> HIDE DEF R, r
<1>5. R[0] = a + w[Head(q)] /\ R[n] = b
  <2>1. 0 \in 0..n /\ n \in 0..n /\ 1 \in 1..(n+1)
    OBVIOUS
  <2>2. R[0] = P[0+1] /\ R[n] = P[n+1]
    BY <1>4, <2>1
  <2>3. P[1] = P[1-1] + w[q[1]]
    BY <1>1, <1>2, <2>1
  <2> QED  BY <1>1, <1>2, <1>3, <2>2, <2>3
<1>6. ASSUME NEW i \in 1..n PROVE R[i] = R[i-1] + w[r[i]]
  <2>1. i \in 0..n /\ i - 1 \in 0..n /\ i + 1 \in 1..(n+1) /\ (i-1)+1 = i /\ (i+1)-1 = i
    OBVIOUS
  <2>2. R[i] = P[i+1] /\ R[i-1] = P[i] /\ r[i] = q[i+1]
    BY <1>3, <1>4, <2>1
  <2>3. P[i+1] = P[i] + w[q[i+1]]
    BY <1>1, <1>2, <2>1
  <2> QED  BY <2>2, <2>3
<1>7. Leads(w, r, a + w[Head(q)], b)
  BY <1>3, <1>4, <1>5, <1>6 DEF Leads
<1> QED  BY <1>7 DEF r

\* Only the weights of the members count.
LEMMA LeadsSame ==
  ASSUME NEW w, NEW v, NEW q, NEW a, NEW b, Leads(w, q, a, b),
         \A i \in 1..Len(q) : v[q[i]] = w[q[i]]
  PROVE  Leads(v, q, a, b)
BY DEF Leads

\* Sequences put one after the other lead where each of them takes up what the
\* one before has led to.
LEMMA LeadsFlat ==
  ASSUME NEW S, NEW w, \A x \in S : w[x] \in Int, NEW n \in Nat,
         NEW f \in [1..n -> Seq(S)], NEW P \in [0..n -> Int],
         \A i \in 1..n : Leads(w, f[i], P[i-1], P[i])
  PROVE  Leads(w, FlattenSeq(f), P[0], P[n])
<1>1. Len(f) = n
  OBVIOUS
<1>2. CASE n = 0
  <2>1. FlattenSeq(f) = <<>>
    BY <1>1, <1>2 DEF FlattenSeq
  <2>2. P[0] \in Int
    BY <1>2
  <2> QED  BY <1>2, <2>1, <2>2, LeadsNowhere
<1>3. CASE n # 0
  <2> DEFINE g == CHOOSE h : FlattenEquation(h, f, n)
  <2>1. FlattenEquation(g, f, n)
    BY FlattenEquationExists
  <2>2. FlattenSeq(f) = g[n]
    BY <1>1, <1>3 DEF FlattenSeq, FlattenEquation
  <2> HIDE DEF g
  <2> DEFINE Q == {m \in Nat : m \in 1..n => g[m] \in Seq(S) /\ Leads(w, g[m], P[0], P[m])}
  <2>3. 0 \in Q
    OBVIOUS
  <2>4. ASSUME NEW m \in Q \cap Nat PROVE m + 1 \in Q
    <3> SUFFICES ASSUME m + 1 \in 1..n
                 PROVE  g[m+1] \in Seq(S) /\ Leads(w, g[m+1], P[0], P[m+1])
      OBVIOUS
    <3>1. g[m+1] = IF m + 1 = 1 THEN f[m+1] ELSE g[(m+1)-1] \o f[m+1]
      BY <2>1 DEF FlattenEquation
    <3>2. f[m+1] \in Seq(S) /\ Leads(w, f[m+1], P[m], P[m+1])
      <4>1. Leads(w, f[m+1], P[(m+1)-1], P[m+1]) /\ (m+1)-1 = m
        OBVIOUS
      <4> QED  BY <4>1
    <3>3. CASE m = 0
      BY <3>1, <3>2, <3>3
    <3>4. CASE m # 0
      <4>1. g[m] \in Seq(S) /\ Leads(w, g[m], P[0], P[m])
        BY <3>4
      <4>2. g[m+1] = g[m] \o f[m+1]
        <5>1. m + 1 # 1 /\ (m + 1) - 1 = m
          BY <3>4
        <5> QED  BY <3>1, <5>1, Zenon
      <4>3. P[0] \in Int /\ P[m] \in Int /\ P[m+1] \in Int
        BY <3>4
      <4>4. PICK p \in Seq(S) : p = g[m]
        BY <4>1
      <4>5. PICK q \in Seq(S) : q = f[m+1]
        BY <3>2
      <4>6. Leads(w, p \o q, P[0], P[m+1])
        BY <3>2, <4>1, <4>3, <4>4, <4>5, LeadsOn
      <4> QED  BY <4>2, <4>4, <4>5, <4>6
    <3> QED  BY <3>3, <3>4
  <2> HIDE DEF Q
  <2>5. n \in Q
    BY <2>3, <2>4, NatInductionSet
  <2> QED  BY <1>3, <2>2, <2>5 DEF Q
<1> QED  BY <1>2, <1>3

\* A list of the elements of a finite set without repetition names them all.
LEMMA ListedAll ==
  ASSUME NEW S, IsFiniteSet(S), NEW f \in [1..Cardinality(S) -> S],
         \A i, j \in DOMAIN f : f[i] = f[j] => i = j
  PROVE  \A x \in S : \E i \in DOMAIN f : f[i] = x
<1> DEFINE n == Cardinality(S)
<1>1. n \in Nat
  BY FS_CardinalityType
<1>2. IsFiniteSet(1..n) /\ Cardinality(1..n) = n
  BY <1>1, FS_Interval
<1>3. f \in Injection(1..n, S)
  BY DEF Injection, IsInjective
<1>4. Cardinality(1..n) = Cardinality(S) <=> f \in Surjection(1..n, S)
  BY <1>3, FS_Injection
<1>5. f \in Surjection(1..n, S)
  BY <1>2, <1>4
<1> QED  BY <1>5 DEF Surjection

LEMMA SeqJoin ==
  ASSUME NEW a, NEW b
  PROVE  <<a>> \o <<b>> = <<a, b>>
<1> DEFINE S == {a, b}
           p == <<a>>
           q == <<b>>
           r == <<a, b>>
<1>1. p \in Seq(S) /\ q \in Seq(S) /\ r \in Seq(S)
  OBVIOUS
<1>2. Len(p) = 1 /\ p[1] = a /\ Len(q) = 1 /\ q[1] = b
      /\ Len(r) = 2 /\ r[1] = a /\ r[2] = b
  OBVIOUS
<1> HIDE DEF p, q, r, S
<1>3. /\ p \o q \in Seq(S)
      /\ Len(p \o q) = Len(p) + Len(q)
      /\ \A i \in 1 .. Len(p) + Len(q) :
           (p \o q)[i] = IF i <= Len(p) THEN p[i] ELSE q[i - Len(p)]
  BY <1>1, ConcatProperties
<1>4. Len(p \o q) = 2 /\ (p \o q)[1] = a /\ (p \o q)[2] = b
  BY <1>2, <1>3
<1>5. \A i \in 1..2 : (p \o q)[i] = r[i]
  <2>1. \A i \in 1..2 : i = 1 \/ i = 2
    OBVIOUS
  <2> QED  BY <1>2, <1>4, <2>1
<1>6. p \o q = r
  BY <1>1, <1>2, <1>3, <1>5, SeqEqual
<1> QED  BY <1>6 DEF p, q, r

\* The weights of the members of q come to k.
Adds(w, q, k) == \A a \in Int : Leads(w, q, a, a + k)

LEMMA AddsNone ==
  ASSUME NEW w
  PROVE  Adds(w, <<>>, 0)
BY LeadsNowhere DEF Adds

LEMMA AddsOne ==
  ASSUME NEW w, NEW x, NEW k \in Int, w[x] = k
  PROVE  Adds(w, <<x>>, k)
<1> SUFFICES ASSUME NEW a \in Int PROVE Leads(w, <<x>>, a, a + k)
  BY DEF Adds
<1>1. PICK b \in Int : b = a + k
  OBVIOUS
<1> QED  BY <1>1, LeadsOne

LEMMA AddsStill ==
  ASSUME NEW S, NEW w, \A x \in S : w[x] = 0, NEW q \in Seq(S)
  PROVE  Adds(w, q, 0)
<1> SUFFICES ASSUME NEW a \in Int PROVE Leads(w, q, a, a + 0)
  BY DEF Adds
<1>1. Leads(w, q, a, a)
  BY LeadsStill
<1> QED  BY <1>1

LEMMA AddsOn ==
  ASSUME NEW S, NEW w, \A x \in S : w[x] \in Int, NEW p \in Seq(S), NEW q \in Seq(S),
         NEW k \in Int, NEW l \in Int, Adds(w, p, k), Adds(w, q, l)
  PROVE  Adds(w, p \o q, k + l)
<1> SUFFICES ASSUME NEW a \in Int PROVE Leads(w, p \o q, a, a + (k + l))
  BY DEF Adds
<1>1. PICK b \in Int : b = a + k
  OBVIOUS
<1>2. PICK c \in Int : c = b + l
  OBVIOUS
<1>3. Leads(w, p, a, b) /\ Leads(w, q, b, c)
  BY <1>1, <1>2 DEF Adds
<1>4. Leads(w, p \o q, a, c)
  BY <1>3, LeadsOn
<1> QED  BY <1>1, <1>2, <1>4

LEMMA AddsNothing ==
  ASSUME NEW S, NEW w, \A x \in S : w[x] \in Int, NEW n \in Nat,
         NEW g \in [1..n -> Seq(S)], \A i \in 1..n : Adds(w, g[i], 0)
  PROVE  Adds(w, FlattenSeq(g), 0)
<1> SUFFICES ASSUME NEW a \in Int PROVE Leads(w, FlattenSeq(g), a, a + 0)
  BY DEF Adds
<1>1. PICK P \in [0..n -> Int] : \A i \in 0..n : P[i] = a
  <2> DEFINE P == [i \in 0..n |-> a]
  <2>1. P \in [0..n -> Int] /\ \A i \in 0..n : P[i] = a
    OBVIOUS
  <2> QED  BY <2>1
<1>2. ASSUME NEW i \in 1..n PROVE Leads(w, g[i], P[i-1], P[i])
  <2>1. Leads(w, g[i], a, a + 0)
    BY DEF Adds
  <2>2. i \in 0..n /\ i - 1 \in 0..n /\ a + 0 = a
    OBVIOUS
  <2>3. P[i] = a /\ P[i-1] = a
    BY <1>1, <2>2
  <2> QED  BY <2>1, <2>2, <2>3
<1>3. Leads(w, FlattenSeq(g), P[0], P[n])
  BY <1>2, LeadsFlat
<1>4. P[0] = a /\ P[n] = a /\ a + 0 = a
  BY <1>1
<1> QED  BY <1>3, <1>4

\* One sequence for each element of a finite set: that of x alone counts.
LEMMA AddsOnce ==
  ASSUME NEW S, NEW w, \A x \in S : w[x] \in Int,
         NEW E, IsFiniteSet(E), NEW f \in [1..Cardinality(E) -> E],
         \A i, j \in DOMAIN f : f[i] = f[j] => i = j,
         NEW g \in [1..Cardinality(E) -> Seq(S)], NEW x, NEW k \in Int,
         x \notin E => k = 0,
         \A i \in DOMAIN f : Adds(w, g[i], IF f[i] = x THEN k ELSE 0)
  PROVE  Adds(w, FlattenSeq(g), k)
<1> SUFFICES ASSUME NEW a \in Int PROVE Leads(w, FlattenSeq(g), a, a + k)
  BY DEF Adds
<1>1. PICK n \in Nat : n = Cardinality(E)
  BY FS_CardinalityType
<1>2. f \in [1..n -> E] /\ DOMAIN f = 1..n /\ g \in [1..n -> Seq(S)]
  BY <1>1
<1>3. CASE x \notin E
  <2>1. ASSUME NEW i \in 1..n PROVE Adds(w, g[i], 0)
    <3>1. f[i] \in E /\ i \in DOMAIN f
      BY <1>2
    <3>2. f[i] # x
      BY <1>3, <3>1
    <3>3. Adds(w, g[i], IF f[i] = x THEN k ELSE 0)
      BY <3>1
    <3> QED  BY <3>2, <3>3
  <2>2. Adds(w, FlattenSeq(g), 0)
    BY <1>2, <2>1, AddsNothing
  <2> QED  BY <1>3, <2>2 DEF Adds
<1>4. CASE x \in E
  <2>1. PICK j \in 1..n : f[j] = x
    BY <1>2, <1>4, ListedAll
  <2>2. PICK b \in Int : b = a + k
    OBVIOUS
  <2>3. PICK P \in [0..n -> Int] : \A i \in 0..n : P[i] = IF i < j THEN a ELSE b
    <3> DEFINE P == [i \in 0..n |-> IF i < j THEN a ELSE b]
    <3>1. P \in [0..n -> Int] /\ \A i \in 0..n : P[i] = IF i < j THEN a ELSE b
      OBVIOUS
    <3> QED  BY <3>1
  <2>4. ASSUME NEW i \in 1..n PROVE Leads(w, g[i], P[i-1], P[i])
    <3>1. Adds(w, g[i], IF f[i] = x THEN k ELSE 0)
      BY <1>2
    <3>2. i \in 0..n /\ i - 1 \in 0..n
      OBVIOUS
    <3>3. CASE i = j
      <4>1. P[i-1] = a /\ P[i] = b
        BY <2>3, <3>2, <3>3
      <4>2. Adds(w, g[i], k)
        BY <2>1, <3>1, <3>3
      <4> QED  BY <2>2, <4>1, <4>2 DEF Adds
    <3>4. CASE i # j
      <4>1. Adds(w, g[i], 0)
        BY <1>2, <2>1, <3>1, <3>4
      <4>2. PICK c \in Int : P[i-1] = c /\ P[i] = c
        BY <2>3, <3>2, <3>4
      <4>3. Leads(w, g[i], c, c + 0) /\ c + 0 = c
        BY <4>1 DEF Adds
      <4> QED  BY <4>2, <4>3
    <3> QED  BY <3>3, <3>4
  <2>5. Leads(w, FlattenSeq(g), P[0], P[n])
    BY <1>2, <2>4, LeadsFlat
  <2>6. P[0] = a /\ P[n] = b
    BY <2>3
  <2> QED  BY <2>2, <2>5, <2>6
<1> QED  BY <1>3, <1>4
=============================================================================
