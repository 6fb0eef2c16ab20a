----------------------------- MODULE SharedLemmas -----------------------------
(***************************************************************************)
(* Facts that several proofs need: about sums over finite sets,            *)
(* SumFunctionOnSet of the module Functions; about the digits of numbers;  *)
(* about sequences put together from parts, FlattenSeq of SequencesExt;    *)
(* and the two forms of induction they rest on.  Induction is stated for a *)
(* set (of numbers, of subsets), not for a predicate: a predicate is used  *)
(* as the set of what has it.                                              *)
(***************************************************************************)
EXTENDS Integers, SequencesExt, Functions, FiniteSets, FiniteSetTheorems, SequenceTheorems,
        WellFoundedInduction, TLAPS

(* What a function makes of a finite set is finite. *)
LEMMA ImageFinite ==
    ASSUME NEW S, IsFiniteSet(S), NEW f
    PROVE  IsFiniteSet({f[x] : x \in S})
<1> DEFINE T == {f[x] : x \in S}
           g == [x \in S |-> f[x]]
<1>1. g \in Surjection(S, T)
  BY DEF Surjection
<1> HIDE DEF T, g
<1>2. IsFiniteSet(T)
  BY <1>1, FS_Surjection
<1> QED BY <1>2 DEF T

(* Every set of numbers that is not empty has a smallest one. *)
LEMMA Smallest ==
    ASSUME NEW T \in SUBSET Nat, T # {}
    PROVE  \E k \in T : \A other \in T : k <= other
<1> DEFINE R == OpToRel(<, Nat)
<1>1. PICK k \in T : \A other \in T : ~(<<other, k>> \in R)
  <2> HIDE DEF R
  <2>1. IsWellFoundedOn(R, Nat)
    BY NatLessThanWellFounded DEF R
  <2> QED BY <2>1, WFMin
<1>2. ASSUME NEW other \in T PROVE k <= other
  <2>1. ~(other < k)
    BY <1>1 DEF OpToRel
  <2> QED BY <2>1
<1> QED BY <1>2

(* A set of numbers that contains a number whenever it contains all those  *)
(* below it contains every number.                                         *)
LEMMA NumbersInduction ==
    ASSUME NEW N, \A n \in Nat : (\A k \in 0..(n - 1) : k \in N) => n \in N
    PROVE  Nat \subseteq N
<1> SUFFICES ASSUME Nat \ N # {} PROVE FALSE
  OBVIOUS
<1>1. PICK n \in Nat \ N : \A other \in Nat \ N : n <= other
  BY Smallest
<1>2. \A k \in 0..(n - 1) : k \in N
  BY <1>1
<1> QED BY <1>1, <1>2

(* The same for the subsets of a finite set, ordered by inclusion. *)
LEMMA SubsetsInduction ==
    ASSUME NEW S, IsFiniteSet(S), NEW F,
           \A T \in SUBSET S : (\A R \in SUBSET T : R # T => R \in F) => T \in F
    PROVE  SUBSET S \subseteq F
<1> SUFFICES ASSUME NEW bad \in SUBSET S, bad \notin F PROVE FALSE
  OBVIOUS
<1> DEFINE B == {T \in SUBSET S : T \notin F}
           sizes == {Cardinality(T) : T \in B}
<1>1. \A T \in SUBSET S : IsFiniteSet(T) /\ Cardinality(T) \in Nat
  BY FS_Subset, FS_CardinalityType
<1>2. sizes \in SUBSET Nat /\ sizes # {}
  BY <1>1
<1>3. PICK k \in sizes : \A other \in sizes : k <= other
  BY <1>2, Smallest
<1>4. PICK T \in B : k = Cardinality(T)
  BY <1>3
<1>5. ASSUME NEW R \in SUBSET T, R # T, R \notin F PROVE FALSE
  <2>1. R \in B
    BY <1>4, <1>5
  <2>2. Cardinality(T) <= Cardinality(R)
    BY <1>3, <1>4, <2>1
  <2>3. Cardinality(R) <= Cardinality(T) /\ (Cardinality(T) = Cardinality(R) => T = R)
    BY <1>1, <1>4, <1>5, FS_Subset
  <2>4. Cardinality(R) \in Nat /\ Cardinality(T) \in Nat
    BY <1>1, <1>4, <2>1
  <2> QED BY <1>5, <2>2, <2>3, <2>4
<1> QED BY <1>4, <1>5

-----------------------------------------------------------------------------
(* How SumFunctionOnSet is computed: it takes the elements out of the set  *)
(* one by one.                                                             *)
Some(s) == CHOOSE x \in s : TRUE
Step(f, g, s) == IF s = {} THEN 0 ELSE f[Some(s)] + g[s \ {Some(s)}]
IsIter(g, f, S) == g = [s \in SUBSET S |-> Step(f, g, s)]
Iter(f, S) == CHOOSE g : IsIter(g, f, S)

LEMMA SumIsIter ==
    ASSUME NEW f, NEW S
    PROVE  SumFunctionOnSet(f, S) = Iter(f, S)[S]
BY Zenon DEF SumFunctionOnSet, FoldFunctionOnSet, MapThenFoldSet, Iter, IsIter, Step, Some

LEMMA SomeIsElement ==
    ASSUME NEW s, s # {}
    PROVE  Some(s) \in s
BY DEF Some

(* What is computed for a set does not depend on the set it is a part of. *)
LEMMA IterAgree ==
    ASSUME NEW f, NEW S, IsFiniteSet(S), NEW T \in SUBSET S, NEW g, NEW h,
           IsIter(g, f, S), IsIter(h, f, T)
    PROVE  \A s \in SUBSET T : g[s] = h[s]
<1> DEFINE F == {s \in SUBSET T : g[s] = h[s]}
<1>1. IsFiniteSet(T)
  BY FS_Subset
<1>2. ASSUME NEW s \in SUBSET T, \A r \in SUBSET s : r # s => r \in F
      PROVE  s \in F
  <2>1. g[s] = Step(f, g, s) /\ h[s] = Step(f, h, s)
    BY Zenon DEF IsIter
  <2>2. CASE s = {}
    BY <2>1, <2>2 DEF Step
  <2>3. CASE s # {}
    <3>1. s \ {Some(s)} \in F
      BY <1>2, <2>3, SomeIsElement
    <3> QED BY <2>1, <2>3, <3>1 DEF Step
  <2> QED BY <2>2, <2>3
<1> HIDE DEF F
<1>3. SUBSET T \subseteq F
  BY <1>1, <1>2, SubsetsInduction
<1> QED BY <1>3 DEF F

(* The function that SumFunctionOnSet applies exists. *)
LEMMA IterExists ==
    ASSUME NEW f, NEW S, IsFiniteSet(S)
    PROVE  IsIter(Iter(f, S), f, S)
<1> DEFINE F == {T \in SUBSET S : IsIter(Iter(f, T), f, T)}
<1>1. ASSUME NEW T \in SUBSET S, \A R \in SUBSET T : R # T => R \in F
      PROVE  T \in F
  <2> DEFINE part(s) == Iter(f, s)[s]
             g == [s \in SUBSET T |->
                     IF s = T THEN (IF s = {} THEN 0 ELSE f[Some(s)] + part(s \ {Some(s)}))
                     ELSE part(s)]
  <2>1. ASSUME NEW s \in SUBSET T, s # {}
        PROVE  /\ s \ {Some(s)} \in SUBSET T
               /\ g[s \ {Some(s)}] = part(s \ {Some(s)})
    BY <2>1, SomeIsElement
  <2>2. ASSUME NEW s \in SUBSET T, s # T
        PROVE  g[s] = Step(f, g, s)
    <3>1. IsIter(Iter(f, s), f, s)
      BY <1>1, <2>2
    <3>2. Iter(f, s)[s] = Step(f, Iter(f, s), s)
      BY <3>1, Zenon DEF IsIter
    <3>3. CASE s = {}
      BY <2>2, <3>2, <3>3 DEF Step
    <3>4. CASE s # {}
      <4> DEFINE r == s \ {Some(s)}
      <4>1. r \in SUBSET s /\ r # T
        BY <2>2, <3>4, SomeIsElement
      <4>2. IsIter(Iter(f, r), f, r)
        BY <1>1, <4>1
      <4>3. IsFiniteSet(s)
        BY FS_Subset
      <4>4. Iter(f, s)[r] = Iter(f, r)[r]
        BY <3>1, <4>1, <4>2, <4>3, IterAgree
      <4>5. g[r] = part(r)
        BY <2>1, <3>4
      <4> QED BY <2>2, <3>2, <3>4, <4>4, <4>5 DEF Step
    <3> QED BY <3>3, <3>4
  <2>3. g[T] = Step(f, g, T)
    BY <2>1 DEF Step
  <2>4. g = [s \in SUBSET T |-> Step(f, g, s)]
    <3>1. \A s \in SUBSET T : g[s] = Step(f, g, s)
      BY <2>2, <2>3
    <3>2. g = [s \in SUBSET T |-> g[s]]
      OBVIOUS
    <3> HIDE DEF g
    <3> QED BY <3>1, <3>2, Zenon
  <2>5. IsIter(g, f, T)
    BY <2>4 DEF IsIter
  <2> HIDE DEF g
  <2> QED BY <2>5, Zenon DEF Iter
<1> HIDE DEF F
<1>2. SUBSET S \subseteq F
  BY <1>1, SubsetsInduction
<1> QED BY <1>2 DEF F

-----------------------------------------------------------------------------
(* The sum over no elements. *)
LEMMA SumEmpty ==
    ASSUME NEW f
    PROVE  SumFunctionOnSet(f, {}) = 0
<1>1. IsIter(Iter(f, {}), f, {})
  BY IterExists, FS_EmptySet
<1>2. Iter(f, {})[{}] = Step(f, Iter(f, {}), {})
  BY <1>1, Zenon DEF IsIter
<1> QED BY <1>2, SumIsIter DEF Step

(* The element that is added last. *)
LEMMA SumFirst ==
    ASSUME NEW f, NEW S, IsFiniteSet(S), S # {}
    PROVE  SumFunctionOnSet(f, S) = f[Some(S)] + SumFunctionOnSet(f, S \ {Some(S)})
<1> DEFINE R == S \ {Some(S)}
<1>1. IsIter(Iter(f, S), f, S)
  BY IterExists
<1>2. R \in SUBSET S /\ IsFiniteSet(R)
  BY FS_Subset
<1>3. IsIter(Iter(f, R), f, R)
  BY <1>2, IterExists
<1>4. Iter(f, S)[R] = Iter(f, R)[R]
  <2> HIDE DEF R
  <2>1. \A s \in SUBSET R : Iter(f, S)[s] = Iter(f, R)[s]
    BY <1>1, <1>2, <1>3, IterAgree
  <2> QED BY <2>1
<1>5. Iter(f, S)[S] = Step(f, Iter(f, S), S)
  BY <1>1, Zenon DEF IsIter
<1> QED BY <1>4, <1>5, SumIsIter DEF Step

(* A sum of numbers is a number, and any of them can be taken out. *)
LEMMA SumSplits ==
    ASSUME NEW f, NEW S, IsFiniteSet(S), \A x \in S : f[x] \in Nat
    PROVE  /\ SumFunctionOnSet(f, S) \in Nat
           /\ \A x \in S : SumFunctionOnSet(f, S) = f[x] + SumFunctionOnSet(f, S \ {x})
<1> DEFINE sum(T) == SumFunctionOnSet(f, T)
           F == {T \in SUBSET S : /\ sum(T) \in Nat
                                  /\ \A x \in T : sum(T) = f[x] + sum(T \ {x})}
<1>1. ASSUME NEW T \in SUBSET S, \A R \in SUBSET T : R # T => R \in F
      PROVE  T \in F
  <2>1. CASE T = {}
    BY <2>1, SumEmpty
  <2>2. CASE T # {}
    <3> DEFINE c == Some(T)
    <3>1. c \in T /\ IsFiniteSet(T)
      BY <2>2, SomeIsElement, FS_Subset
    <3>2. sum(T) = f[c] + sum(T \ {c}) /\ T \ {c} \in F
      BY <1>1, <2>2, <3>1, SumFirst
    <3> HIDE DEF c
    <3>3. sum(T \ {c}) \in Nat /\ f[c] \in Nat /\ sum(T) \in Nat
      <4>1. sum(T \ {c}) \in Nat /\ f[c] \in Nat
        BY <3>1, <3>2
      <4> QED BY <3>2, <4>1
    <3>4. ASSUME NEW x \in T, x # c
          PROVE  sum(T) = f[x] + sum(T \ {x})
      <4>1. T \ {x} \in F /\ T \ {c, x} \in F
        BY <1>1, <3>4
      <4>2. (T \ {c}) \ {x} = T \ {c, x} /\ (T \ {x}) \ {c} = T \ {c, x}
        OBVIOUS
      <4>3. sum(T \ {c}) = f[x] + sum(T \ {c, x})
        BY <3>2, <3>4, <4>2
      <4>4. sum(T \ {x}) = f[c] + sum(T \ {c, x})
        BY <3>1, <3>4, <4>1, <4>2
      <4>5. sum(T \ {c, x}) \in Nat /\ f[x] \in Nat
        BY <4>1
      <4> HIDE DEF sum
      <4> QED BY <3>2, <3>3, <4>3, <4>4, <4>5
    <3> QED BY <3>2, <3>3, <3>4
  <2> QED BY <2>1, <2>2
<1> HIDE DEF F
<1>2. SUBSET S \subseteq F
  BY <1>1, SubsetsInduction
<1> QED BY <1>2 DEF F

(* Only the values at the elements of the set matter. *)
LEMMA SumSame ==
    ASSUME NEW f, NEW g, NEW S, IsFiniteSet(S), \A x \in S : f[x] = g[x]
    PROVE  SumFunctionOnSet(f, S) = SumFunctionOnSet(g, S)
<1> DEFINE F == {T \in SUBSET S : SumFunctionOnSet(f, T) = SumFunctionOnSet(g, T)}
<1>1. ASSUME NEW T \in SUBSET S, \A R \in SUBSET T : R # T => R \in F
      PROVE  T \in F
  <2>1. CASE T = {}
    BY <2>1, SumEmpty
  <2>2. CASE T # {}
    <3>1. Some(T) \in T /\ IsFiniteSet(T)
      BY <2>2, SomeIsElement, FS_Subset
    <3>2. T \ {Some(T)} \in F /\ f[Some(T)] = g[Some(T)]
      BY <1>1, <3>1
    <3> QED BY <2>2, <3>1, <3>2, SumFirst
  <2> QED BY <2>1, <2>2
<1> HIDE DEF F
<1>2. SUBSET S \subseteq F
  BY <1>1, SubsetsInduction
<1> QED BY <1>2 DEF F

(* A sum changes by what one of its terms changes. *)
LEMMA SumChange ==
    ASSUME NEW f, NEW g, NEW S, IsFiniteSet(S), NEW x \in S,
           \A y \in S : f[y] \in Nat /\ g[y] \in Nat,
           \A y \in S \ {x} : f[y] = g[y]
    PROVE  SumFunctionOnSet(g, S) = SumFunctionOnSet(f, S) - f[x] + g[x]
<1> DEFINE R == S \ {x}
<1>1. IsFiniteSet(R)
  BY FS_RemoveElement
<1>2. SumFunctionOnSet(f, R) = SumFunctionOnSet(g, R)
  BY <1>1, SumSame
<1>3. SumFunctionOnSet(f, R) \in Nat
  BY <1>1, SumSplits
<1>4. /\ SumFunctionOnSet(f, S) = f[x] + SumFunctionOnSet(f, R)
      /\ SumFunctionOnSet(g, S) = g[x] + SumFunctionOnSet(g, R)
  BY SumSplits
<1> HIDE DEF R
<1> QED BY <1>2, <1>3, <1>4

(* A term is at most the sum. *)
LEMMA TermAtMostSum ==
    ASSUME NEW f, NEW S, IsFiniteSet(S), \A x \in S : f[x] \in Nat, NEW x \in S
    PROVE  f[x] <= SumFunctionOnSet(f, S)
<1>1. IsFiniteSet(S \ {x})
  BY FS_RemoveElement
<1>2. SumFunctionOnSet(f, S \ {x}) \in Nat
  BY <1>1, SumSplits
<1>3. SumFunctionOnSet(f, S) = f[x] + SumFunctionOnSet(f, S \ {x})
  BY SumSplits
<1> QED BY <1>2, <1>3

(* A sum of zeros. *)
LEMMA SumOfZeros ==
    ASSUME NEW f, NEW S, IsFiniteSet(S), \A x \in S : f[x] = 0
    PROVE  SumFunctionOnSet(f, S) = 0
<1> DEFINE F == {T \in SUBSET S : SumFunctionOnSet(f, T) = 0}
<1>1. ASSUME NEW T \in SUBSET S, \A R \in SUBSET T : R # T => R \in F
      PROVE  T \in F
  <2>1. CASE T = {}
    BY <2>1, SumEmpty
  <2>2. CASE T # {}
    <3>1. Some(T) \in T /\ IsFiniteSet(T)
      BY <2>2, SomeIsElement, FS_Subset
    <3>2. T \ {Some(T)} \in F /\ f[Some(T)] = 0
      BY <1>1, <3>1
    <3> QED BY <2>2, <3>1, <3>2, SumFirst
  <2> QED BY <2>1, <2>2
<1> HIDE DEF F
<1>2. SUBSET S \subseteq F
  BY <1>1, SubsetsInduction
<1> QED BY <1>2 DEF F
(* Terms in a part T of S grow by h: the sum grows by the sum of h over T. *)
LEMMA SumRaised ==
    ASSUME NEW f, NEW g, NEW h, NEW S, IsFiniteSet(S), NEW T \in SUBSET S,
           \A x \in S : f[x] \in Nat /\ g[x] \in Nat,
           \A x \in T : h[x] \in Nat /\ g[x] = f[x] + h[x],
           \A x \in S \ T : g[x] = f[x]
    PROVE  SumFunctionOnSet(g, S) = SumFunctionOnSet(f, S) + SumFunctionOnSet(h, T)
<1> DEFINE F == {R \in SUBSET S : SumFunctionOnSet(g, R)
                                    = SumFunctionOnSet(f, R) + SumFunctionOnSet(h, R \cap T)}
<1>1. ASSUME NEW R \in SUBSET S, \A Q \in SUBSET R : Q # R => Q \in F
      PROVE  R \in F
  <2>1. CASE R = {}
    <3>1. R \cap T = {}
      BY <2>1
    <3> QED BY <2>1, <3>1, SumEmpty
  <2>2. CASE R # {}
    <3>1. PICK x \in R : TRUE
      BY <2>2
    <3> DEFINE Q == R \ {x}
    <3>2. IsFiniteSet(R) /\ IsFiniteSet(Q) /\ IsFiniteSet(R \cap T) /\ IsFiniteSet(Q \cap T)
      BY FS_Subset
    <3>3. SumFunctionOnSet(g, Q) = SumFunctionOnSet(f, Q) + SumFunctionOnSet(h, Q \cap T)
      BY <1>1
    <3>4. SumFunctionOnSet(g, R) = g[x] + SumFunctionOnSet(g, Q)
      <4>1. \A y \in R : g[y] \in Nat
        OBVIOUS
      <4> QED BY <3>2, <4>1, SumSplits
    <3>5. SumFunctionOnSet(f, R) = f[x] + SumFunctionOnSet(f, Q)
      <4>1. \A y \in R : f[y] \in Nat
        OBVIOUS
      <4> QED BY <3>2, <4>1, SumSplits
    <3>6. SumFunctionOnSet(f, Q) \in Nat /\ SumFunctionOnSet(h, Q \cap T) \in Nat
      <4>1. \A y \in Q : f[y] \in Nat
        OBVIOUS
      <4>2. \A y \in Q \cap T : h[y] \in Nat
        OBVIOUS
      <4> QED BY <3>2, <4>1, <4>2, SumSplits
    <3>7. CASE x \in T
      <4> DEFINE P == R \cap T
      <4>1. x \in P /\ \A y \in P : h[y] \in Nat
        BY <3>7
      <4>2. SumFunctionOnSet(h, P) = h[x] + SumFunctionOnSet(h, P \ {x})
        <5> HIDE DEF P
        <5> QED BY <3>2, <4>1, SumSplits DEF P
      <4>3. P \ {x} = Q \cap T
        OBVIOUS
      <4>4. SumFunctionOnSet(h, R \cap T) = h[x] + SumFunctionOnSet(h, Q \cap T)
        BY <4>2, <4>3, Zenon
      <4>5. g[x] = f[x] + h[x] /\ h[x] \in Nat /\ f[x] \in Nat
        BY <3>7
      <4> HIDE DEF P, Q
      <4> QED BY <3>3, <3>4, <3>5, <3>6, <4>4, <4>5
    <3>8. CASE x \notin T
      <4>1. Q \cap T = R \cap T
        BY <3>8
      <4>2. SumFunctionOnSet(h, Q \cap T) = SumFunctionOnSet(h, R \cap T)
        BY <4>1, Zenon
      <4>3. g[x] = f[x] /\ f[x] \in Nat
        BY <3>8
      <4> HIDE DEF Q
      <4> QED BY <3>3, <3>4, <3>5, <3>6, <4>2, <4>3
    <3> QED BY <3>7, <3>8
  <2> QED BY <2>1, <2>2
<1> HIDE DEF F
<1>2. SUBSET S \subseteq F
  BY <1>1, SubsetsInduction
<1>3. SumFunctionOnSet(g, S) = SumFunctionOnSet(f, S) + SumFunctionOnSet(h, S \cap T)
  BY <1>2 DEF F
<1>4. S \cap T = T
  OBVIOUS
<1> QED BY <1>3, <1>4, Zenon

-----------------------------------------------------------------------------
(* The sum of the first n values. *)
LEMMA SumTo ==
    ASSUME NEW f, NEW n \in Nat \ {0}, \A x \in 1..n : f[x] \in Nat
    PROVE  /\ SumFunctionOnSet(f, 1..n) = f[n] + SumFunctionOnSet(f, 1..(n - 1))
           /\ SumFunctionOnSet(f, 1..n) \in Nat /\ SumFunctionOnSet(f, 1..(n - 1)) \in Nat
<1> DEFINE S == 1..n
           R == 1..(n - 1)
<1>1. n \in S /\ S \ {n} = R /\ R \subseteq S
  OBVIOUS
<1>2. IsFiniteSet(S) /\ IsFiniteSet(R)
  BY FS_Interval
<1>3. \A x \in S : f[x] \in Nat
  OBVIOUS
<1> HIDE DEF S, R
<1>4. /\ SumFunctionOnSet(f, S) \in Nat
      /\ \A x \in S : SumFunctionOnSet(f, S) = f[x] + SumFunctionOnSet(f, S \ {x})
  BY ONLY <1>2, <1>3, SumSplits
<1>5. \A x \in R : f[x] \in Nat
  BY <1>1, <1>3
<1>6. /\ SumFunctionOnSet(f, R) \in Nat
      /\ \A x \in R : SumFunctionOnSet(f, R) = f[x] + SumFunctionOnSet(f, R \ {x})
  BY ONLY <1>2, <1>5, SumSplits
<1>7. /\ SumFunctionOnSet(f, S) = f[n] + SumFunctionOnSet(f, R)
      /\ SumFunctionOnSet(f, S) \in Nat /\ SumFunctionOnSet(f, R) \in Nat
  BY <1>1, <1>4, <1>6
<1> QED BY <1>7 DEF S, R

(* Division with remainder. *)
LEMMA DivisionIs ==
    ASSUME NEW v \in Nat, NEW d \in Nat \ {0}, NEW q \in Nat, NEW r \in 0..(d - 1), v = d * q + r
    PROVE  v \div d = q /\ v % d = r
OBVIOUS

LEMMA SmallRemainder ==
    ASSUME NEW d \in Nat \ {0}, NEW r \in 0..(d - 1)
    PROVE  r % d = r
OBVIOUS

LEMMA Division ==
    ASSUME NEW v \in Nat, NEW d \in Nat \ {0}
    PROVE  v \div d \in Nat /\ v % d \in 0..(d - 1) /\ v = d * (v \div d) + (v % d)
<1>1. v \div d \in Int /\ v \div d >= 0
  OBVIOUS
<1>2. v % d \in 0..(d - 1)
  OBVIOUS
<1>3. v = d * (v \div d) + (v % d)
  OBVIOUS
<1> QED BY <1>1, <1>2, <1>3

(* b to the power of k, as ByteLayout computes it for one base. *)
PowerOf(b, k) ==
    LET power[j \in 0..k] == IF j = 0 THEN 1 ELSE b * power[j - 1]
    IN  power[k]

PowerStep(b, g, j) == IF j = 0 THEN 1 ELSE b * g[j - 1]
IsPower(b, g, n) == g = [j \in 0..n |-> PowerStep(b, g, j)]

LEMMA PowerExists ==
    ASSUME NEW b, NEW n \in Nat
    PROVE  \E g : IsPower(b, g, n)
<1> DEFINE N == {k \in Nat : \E f : IsPower(b, f, k)}
<1>1. ASSUME NEW k \in Nat, \A j \in 0..(k - 1) : j \in N
      PROVE  k \in N
  <2>1. CASE k = 0
    <3> DEFINE h == [i \in 0..0 |-> 1]
    <3>1. h = [i \in 0..0 |-> PowerStep(b, h, i)]
      BY DEF PowerStep
    <3>2. IsPower(b, h, 0)
      BY <3>1, Zenon DEF IsPower
    <3> QED BY <2>1, <3>2
  <2>2. CASE k # 0
    <3>1. PICK g : IsPower(b, g, k - 1)
      BY <1>1, <2>2
    <3> DEFINE h == [j \in 0..k |-> IF j = k THEN PowerStep(b, g, k) ELSE g[j]]
    <3>2. g = [j \in 0..(k - 1) |-> PowerStep(b, g, j)]
      BY <3>1, Zenon DEF IsPower
    <3>3. ASSUME NEW j \in 0..k PROVE h[j] = PowerStep(b, h, j)
      <4>1. j # 0 => h[j - 1] = g[j - 1]
        OBVIOUS
      <4>2. PowerStep(b, h, j) = PowerStep(b, g, j)
        BY <4>1 DEF PowerStep
      <4>3. CASE j = k
        BY <4>2, <4>3
      <4>4. CASE j # k
        <5>1. j \in 0..(k - 1) /\ h[j] = g[j]
          BY <4>4
        <5>2. g[j] = PowerStep(b, g, j)
          BY <3>2, <5>1
        <5> QED BY <4>2, <5>1, <5>2
      <4> QED BY <4>3, <4>4
    <3>4. h = [j \in 0..k |-> PowerStep(b, h, j)]
      <4>1. h = [j \in 0..k |-> h[j]]
        OBVIOUS
      <4> HIDE DEF h
      <4> QED BY <3>3, <4>1
    <3>5. IsPower(b, h, k)
      BY <3>4, Zenon DEF IsPower
    <3> HIDE DEF h
    <3> QED BY <3>5
  <2> QED BY <2>1, <2>2
<1> HIDE DEF N
<1>2. Nat \subseteq N
  BY <1>1, NumbersInduction
<1> QED BY <1>2 DEF N

LEMMA PowerIs ==
    ASSUME NEW b, NEW n \in Nat, NEW g, IsPower(b, g, n)
    PROVE  \A k \in 0..n : g[k] = PowerOf(b, k)
<1> DEFINE N == {k \in Nat : k \in 0..n => g[k] = PowerOf(b, k)}
<1>0. g = [j \in 0..n |-> PowerStep(b, g, j)]
  BY Zenon DEF IsPower
<1>1. ASSUME NEW k \in Nat, \A j \in 0..(k - 1) : j \in N
      PROVE  k \in N
  <2> SUFFICES ASSUME k \in 0..n PROVE g[k] = PowerOf(b, k)
    OBVIOUS
  <2> DEFINE h == CHOOSE f : IsPower(b, f, k)
  <2>1. IsPower(b, h, k)
    BY PowerExists, Zenon
  <2>2. PowerOf(b, k) = h[k]
    BY Zenon DEF PowerOf, IsPower, PowerStep
  <2> HIDE DEF h
  <2>3. h = [j \in 0..k |-> PowerStep(b, h, j)]
    BY <2>1, Zenon DEF IsPower
  <2> DEFINE M == {i \in Nat : i \in 0..k => g[i] = h[i]}
  <2>4. ASSUME NEW i \in Nat, \A j \in 0..(i - 1) : j \in M
        PROVE  i \in M
    <3> SUFFICES ASSUME i \in 0..k PROVE g[i] = h[i]
      OBVIOUS
    <3>1. g[i] = PowerStep(b, g, i) /\ h[i] = PowerStep(b, h, i)
      <4>1. i \in 0..n
        OBVIOUS
      <4>2. g[i] = PowerStep(b, g, i)
        BY <1>0, <4>1
      <4> QED BY <2>3, <4>2
    <3>2. i # 0 => g[i - 1] = h[i - 1]
      BY <2>4
    <3>3. CASE i = 0
      BY <3>1, <3>3 DEF PowerStep
    <3>4. CASE i # 0
      BY <3>1, <3>2, <3>4 DEF PowerStep
    <3> QED BY <3>3, <3>4
  <2> HIDE DEF M
  <2>5. Nat \subseteq M
    BY <2>4, NumbersInduction
  <2>6. g[k] = h[k]
    BY <2>5 DEF M
  <2> QED BY <2>2, <2>6
<1> HIDE DEF N
<1>2. Nat \subseteq N
  BY <1>1, NumbersInduction
<1> QED BY <1>2 DEF N

LEMMA Powers ==
    ASSUME NEW b, NEW k \in Nat
    PROVE  PowerOf(b, 0) = 1 /\ PowerOf(b, k + 1) = b * PowerOf(b, k)
<1>1. PICK g : IsPower(b, g, k + 1)
  BY PowerExists
<1>2. \A j \in 0..(k + 1) : g[j] = PowerOf(b, j)
  BY <1>1, PowerIs
<1>3. g = [j \in 0..(k + 1) |-> PowerStep(b, g, j)]
  BY <1>1, Zenon DEF IsPower
<1>4. g[0] = 1 /\ g[k + 1] = b * g[k]
  BY <1>3 DEF PowerStep
<1> QED BY <1>2, <1>4

LEMMA PowerType ==
    ASSUME NEW b \in Nat \ {0}, NEW n \in Nat
    PROVE  PowerOf(b, n) \in Nat \ {0}
<1> DEFINE N == {k \in Nat : PowerOf(b, k) \in Nat \ {0}}
<1>1. ASSUME NEW k \in Nat, \A j \in 0..(k - 1) : j \in N
      PROVE  k \in N
  <2>1. CASE k = 0
    BY <2>1, Powers
  <2>2. CASE k # 0
    <3>1. k - 1 \in Nat /\ PowerOf(b, k - 1) \in Nat \ {0}
      BY <1>1, <2>2
    <3>2. PowerOf(b, k) = b * PowerOf(b, k - 1)
      BY <3>1, Powers
    <3> QED BY <3>1, <3>2
  <2> QED BY <2>1, <2>2
<1> HIDE DEF N
<1>2. Nat \subseteq N
  BY <1>1, NumbersInduction
<1> QED BY <1>2 DEF N

(* One more digit. *)
LEMMA NextDigit ==
    ASSUME NEW v \in Nat, NEW p \in Nat \ {0}, NEW b \in Nat \ {0}
    PROVE  v % (b * p) = ((v \div p) % b) * p + (v % p)
<1> DEFINE q == v \div p
           r == v % p
           a == q \div b
           d == q % b
<1>1. q \in Nat /\ r \in 0..(p - 1) /\ v = p * q + r
  BY Division
<1> HIDE DEF q, r
<1>2. a \in Nat /\ d \in 0..(b - 1) /\ q = b * a + d
  BY <1>1, Division
<1> HIDE DEF a, d
<1>3. v = (b * p) * a + (d * p + r)
  <2>1. p * q = p * (b * a) + p * d
    BY <1>1, <1>2
  <2>2. p * (b * a) = (b * p) * a
    BY <1>2
  <2>3. p * d = d * p
    BY <1>2
  <2> QED BY <1>1, <1>2, <2>1, <2>2, <2>3
<1>4. b * p \in Nat \ {0}
  OBVIOUS
<1>5. d * p + r \in 0..(b * p - 1)
  <2>1. d * p <= (b - 1) * p
    BY <1>2
  <2>2. (b - 1) * p = b * p - p
    OBVIOUS
  <2>3. d * p \in Nat
    BY <1>2
  <2> QED BY <1>1, <1>4, <2>1, <2>2, <2>3
<1>6. v % (b * p) = d * p + r
  BY <1>2, <1>3, <1>4, <1>5, DivisionIs
<1> QED BY <1>6 DEF q, r, d

(* The last n digits of v, put together again. *)
Digit(b, v, k) == (v \div PowerOf(b, k - 1)) % b

LEMMA DigitType ==
    ASSUME NEW b \in Nat \ {0}, NEW v \in Nat, NEW k \in Nat \ {0}
    PROVE  Digit(b, v, k) \in 0..(b - 1)
<1>1. PowerOf(b, k - 1) \in Nat \ {0}
  <2>1. k - 1 \in Nat
    OBVIOUS
  <2> QED BY <2>1, PowerType
<1>2. v \div PowerOf(b, k - 1) \in Nat
  BY <1>1, Division
<1>3. (v \div PowerOf(b, k - 1)) % b \in 0..(b - 1)
  BY <1>2, Division
<1> QED BY <1>3 DEF Digit

LEMMA DigitsBack ==
    ASSUME NEW b \in Nat \ {0}, NEW v \in Nat, NEW width \in Nat,
           NEW f, \A k \in 1..width : f[k] = Digit(b, v, k) * PowerOf(b, k - 1)
    PROVE  SumFunctionOnSet(f, 1..width) = v % PowerOf(b, width)
<1> DEFINE sum(n) == SumFunctionOnSet(f, 1..n)
<1>4. ASSUME NEW k \in 1..width
      PROVE  f[k] \in Nat /\ v % PowerOf(b, k) = f[k] + (v % PowerOf(b, k - 1))
  <2>1. k - 1 \in Nat /\ PowerOf(b, k - 1) \in Nat \ {0} /\ PowerOf(b, k) = b * PowerOf(b, k - 1)
    <3>1. k - 1 \in Nat /\ (k - 1) + 1 = k
      OBVIOUS
    <3> QED BY <3>1, PowerType, Powers
  <2> DEFINE p == PowerOf(b, k - 1)
  <2>2. v % (b * p) = ((v \div p) % b) * p + (v % p)
    BY <2>1, NextDigit
  <2>3. (v \div p) \in Nat /\ (v \div p) % b \in 0..(b - 1)
    BY <2>1, Division
  <2>4. f[k] = ((v \div p) % b) * p
    BY DEF Digit
  <2> HIDE DEF p
  <2> QED BY <2>1, <2>2, <2>3, <2>4 DEF p
<1> DEFINE N == {n \in Nat : n \in 0..width => sum(n) = v % PowerOf(b, n)}
<1>5. ASSUME NEW n \in Nat, \A j \in 0..(n - 1) : j \in N
      PROVE  n \in N
  <2> SUFFICES ASSUME n \in 0..width PROVE sum(n) = v % PowerOf(b, n)
    OBVIOUS
  <2>1. CASE n = 0
    <3>1. 1..n = {}
      BY <2>1
    <3>2. v % 1 = 0
      OBVIOUS
    <3> QED BY <2>1, <3>1, <3>2, SumEmpty, Powers
  <2>2. CASE n # 0
    <3>1. n \in 1..n /\ (1..n) \ {n} = 1..(n - 1)
      BY <2>2
    <3>2. IsFiniteSet(1..n) /\ \A x \in 1..n : f[x] \in Nat
      BY <1>4, FS_Interval
    <3>3. sum(n) = f[n] + sum(n - 1)
      BY <2>2, <3>2, SumTo
    <3>4. sum(n - 1) = v % PowerOf(b, n - 1)
      BY <1>5, <2>2
    <3>5. f[n] \in Nat /\ v % PowerOf(b, n) = f[n] + (v % PowerOf(b, n - 1))
      BY <1>4, <2>2
    <3> QED BY <3>3, <3>4, <3>5
  <2> QED BY <2>1, <2>2
<1> HIDE DEF N
<1>6. Nat \subseteq N
  BY <1>5, NumbersInduction
<1>7. sum(width) = v % PowerOf(b, width)
  BY <1>6 DEF N
<1> QED BY <1>7

(* A multiple of a power of the base leaves the digits below it alone. *)
LEMMA PowersDivide ==
    ASSUME NEW b \in Nat \ {0}, NEW k \in Nat, NEW n \in Nat
    PROVE  \E m \in Nat : PowerOf(b, k + n) = PowerOf(b, k) * m
<1> DEFINE N == {i \in Nat : \E m \in Nat : PowerOf(b, k + i) = PowerOf(b, k) * m}
<1>0. \A i \in Nat : PowerOf(b, i) \in Nat
  BY PowerType
<1>1. ASSUME NEW i \in Nat, \A j \in 0..(i - 1) : j \in N
      PROVE  i \in N
  <2>1. CASE i = 0
    <3>1. k + i = k
      BY <2>1
    <3>2. PowerOf(b, k + i) = PowerOf(b, k) * 1
      BY <1>0, <3>1
    <3> QED BY <3>2
  <2>2. CASE i # 0
    <3>1. i - 1 \in Nat /\ k + (i - 1) \in Nat /\ (k + (i - 1)) + 1 = k + i /\ i - 1 \in N
      BY <1>1, <2>2
    <3>2. PICK m \in Nat : PowerOf(b, k + (i - 1)) = PowerOf(b, k) * m
      BY <3>1
    <3>3. PowerOf(b, (k + (i - 1)) + 1) = b * PowerOf(b, k + (i - 1))
      BY <3>1, Powers
    <3> DEFINE p == PowerOf(b, k)
    <3>4. p \in Nat
      BY <1>0
    <3> HIDE DEF p, N
    <3>5. b * (p * m) = p * (b * m) /\ b * m \in Nat
      BY <3>4
    <3>6. PowerOf(b, k + i) = p * (b * m)
      BY <3>1, <3>2, <3>3, <3>5 DEF p
    <3> QED BY <3>5, <3>6 DEF N, p
  <2> QED BY <2>1, <2>2
<1> HIDE DEF N
<1>2. Nat \subseteq N
  BY <1>1, NumbersInduction
<1> QED BY <1>2 DEF N

LEMMA LowerDigits ==
    ASSUME NEW b \in Nat \ {0}, NEW n \in Nat, NEW a \in Nat, NEW r \in Nat, NEW k \in 1..n,
           NEW v \in Nat, v = PowerOf(b, n) * a + r
    PROVE  Digit(b, v, k) = Digit(b, r, k)
<1> DEFINE p == PowerOf(b, k - 1)
           q == r \div p
           s == r % p
<1>1. k - 1 \in Nat /\ (k - 1) + 1 = k /\ n - k \in Nat /\ k + (n - k) = n /\ k \in Nat
  OBVIOUS
<1>2. p \in Nat \ {0} /\ PowerOf(b, k) = b * p
  BY <1>1, PowerType, Powers
<1>3. PICK m \in Nat : PowerOf(b, k + (n - k)) = PowerOf(b, k) * m
  BY ONLY <1>1, b \in Nat \ {0}, PowersDivide
<1>4. PowerOf(b, n) = (b * p) * m
  BY <1>1, <1>2, <1>3
<1>5. q \in Nat /\ s \in 0..(p - 1) /\ r = p * q + s
  BY <1>2, Division
<1> HIDE DEF p, q, s
<1> DEFINE e == m * a
<1>6. e \in Nat
  OBVIOUS
<1>7. ((b * p) * m) * a = p * (b * e)
  <2>1. ((b * p) * m) * a = (b * p) * (m * a)
    BY <1>2
  <2> HIDE DEF e
  <2>2. (b * p) * e = p * (b * e)
    BY <1>2, <1>6
  <2> QED BY <2>1, <2>2 DEF e
<1> HIDE DEF e
<1> DEFINE c == b * e
<1>8. c \in Nat
  BY <1>6
<1>9. v = p * (c + q) + s
  <2>1. v = p * c + r
    BY <1>4, <1>7
  <2> HIDE DEF c
  <2>2. p * (c + q) = p * c + p * q
    BY <1>2, <1>5, <1>8
  <2>3. p * c \in Nat /\ p * q \in Nat
    BY <1>2, <1>5, <1>8
  <2> QED BY <1>5, <2>1, <2>2, <2>3
<1>10. v \div p = c + q
  <2> HIDE DEF c
  <2>1. c + q \in Nat
    BY <1>5, <1>8
  <2> QED BY <1>2, <1>5, <1>9, <2>1, DivisionIs
<1> DEFINE x == q \div b
           y == q % b
<1>11. x \in Nat /\ y \in 0..(b - 1) /\ q = b * x + y
  BY <1>5, Division
<1> HIDE DEF x, y
<1>12. c + q = b * (e + x) + y /\ e + x \in Nat /\ c + q \in Nat
  <2>1. b * (e + x) = b * e + b * x
    BY <1>6, <1>11
  <2>2. b * x \in Nat
    BY <1>11
  <2> QED BY <1>5, <1>6, <1>8, <1>11, <2>1, <2>2
<1>13. (c + q) % b = y
  <2> HIDE DEF c
  <2> QED BY <1>11, <1>12, DivisionIs
<1>14. Digit(b, v, k) = (c + q) % b /\ Digit(b, r, k) = y
  BY <1>10 DEF Digit, p, q, y
<1> QED BY <1>13, <1>14

(* Digits below the base are the digits of the number they make. *)
AreDigits(b, width, d, f) ==
    /\ \A k \in 1..width : d[k] \in 0..(b - 1)
    /\ \A k \in 1..width : f[k] = d[k] * PowerOf(b, k - 1)

LEMMA DigitsUnique ==
    ASSUME NEW b \in Nat \ {0}, NEW width \in Nat, NEW d, NEW f, AreDigits(b, width, d, f)
    PROVE  /\ SumFunctionOnSet(f, 1..width) \in Nat
           /\ SumFunctionOnSet(f, 1..width) < PowerOf(b, width)
           /\ \A k \in 1..width : Digit(b, SumFunctionOnSet(f, 1..width), k) = d[k]
<1> DEFINE sum(n) == SumFunctionOnSet(f, 1..n)
           good(n) == /\ sum(n) \in Nat /\ sum(n) < PowerOf(b, n)
                      /\ \A k \in 1..n : Digit(b, sum(n), k) = d[k]
           N == {n \in Nat : n \in 0..width => good(n)}
<1>0. /\ \A k \in 1..width : d[k] \in 0..(b - 1)
      /\ \A k \in 1..width : f[k] = d[k] * PowerOf(b, k - 1)
  BY DEF AreDigits
<1>1. \A k \in Nat : PowerOf(b, k) \in Nat \ {0}
  BY PowerType
<1>2. \A k \in 1..width : f[k] \in Nat
  <2>1. ASSUME NEW k \in 1..width PROVE f[k] \in Nat
    <3>1. PowerOf(b, k - 1) \in Nat /\ d[k] \in Nat
      BY <1>0, <1>1
    <3> QED BY <1>0, <3>1
  <2> QED BY <2>1
<1>3. ASSUME NEW n \in Nat, \A j \in 0..(n - 1) : j \in N
      PROVE  n \in N
  <2> SUFFICES ASSUME n \in 0..width PROVE good(n)
    OBVIOUS
  <2>1. CASE n = 0
    <3>1. 1..n = {}
      BY <2>1
    <3>2. sum(n) = 0
      BY <3>1, SumEmpty
    <3>3. PowerOf(b, n) = 1
      BY <2>1, Powers
    <3> HIDE DEF sum
    <3>4. \A k \in 1..n : Digit(b, sum(n), k) = d[k]
      BY <3>1
    <3> QED BY <3>2, <3>3, <3>4
  <2>2. CASE n # 0
    <3> DEFINE p == PowerOf(b, n - 1)
               r == sum(n - 1)
    <3>0. n - 1 \in Nat /\ n - 1 \in 0..(n - 1) /\ n - 1 \in 0..width /\ (n - 1) + 1 = n
      BY <2>2
    <3>1. n \in 1..n /\ (1..n) \ {n} = 1..(n - 1)
      BY <2>2
    <3>2. \A x \in 1..n : f[x] \in Nat
      BY <1>2
    <3>3. sum(n) = f[n] + sum(n - 1)
      BY <2>2, <3>2, SumTo
    <3>4. good(n - 1)
      <4>1. n - 1 \in N
        BY <1>3, <3>0
      <4> QED BY <3>0, <4>1
    <3>5. r \in Nat /\ r < p /\ p \in Nat \ {0} /\ PowerOf(b, n) = b * p
      BY <1>1, <3>0, <3>4, Powers
    <3>6. d[n] \in 0..(b - 1) /\ f[n] = d[n] * p
      <4>1. n \in 1..width
        BY <2>2
      <4> QED BY <1>0, <4>1
    <3>7. sum(n) = p * d[n] + r
      <4> HIDE DEF p, r, sum
      <4>1. d[n] * p = p * d[n]
        BY <3>5, <3>6
      <4> QED BY <3>3, <3>6, <4>1 DEF r
    <3> DEFINE v == sum(n)
    <3>8. \A k \in 1..(n - 1) : Digit(b, r, k) = d[k]
      BY <3>4
    <3> HIDE DEF p, r, sum, good, v
    <3>9. v = p * d[n] + r /\ d[n] \in Nat /\ p * d[n] \in Nat
      BY <3>5, <3>6, <3>7 DEF v
    <3>10. v \in Nat /\ v < b * p
      <4>1. d[n] <= b - 1
        BY <3>6
      <4>2. p * d[n] <= p * (b - 1)
        BY <3>5, <3>9, <4>1
      <4>3. p * (b - 1) = b * p - p
        BY <3>5
      <4>4. b * p \in Nat
        BY <3>5
      <4> QED BY <3>5, <3>9, <4>2, <4>3, <4>4
    <3>11. v \div p = d[n] /\ v % p = r
      <4>1. r \in 0..(p - 1)
        BY <3>5
      <4> QED BY <3>5, <3>9, <3>10, <4>1, DivisionIs
    <3>12. Digit(b, v, n) = d[n]
      <4>1. d[n] % b = d[n]
        BY <3>6, SmallRemainder
      <4>2. Digit(b, v, n) = (v \div p) % b
        BY DEF Digit, p
      <4> QED BY <3>11, <4>1, <4>2
    <3>13. ASSUME NEW k \in 1..(n - 1) PROVE Digit(b, v, k) = Digit(b, r, k)
      <4> DEFINE m == n - 1
                 a == d[n]
      <4>1. v = PowerOf(b, m) * a + r /\ m \in Nat /\ a \in Nat /\ r \in Nat /\ v \in Nat /\ k \in 1..m
        BY <3>0, <3>5, <3>9, <3>10, <3>13 DEF p
      <4> HIDE DEF m, a
      <4> QED BY <4>1, LowerDigits
    <3>14. \A k \in 1..n : Digit(b, v, k) = d[k]
      BY <3>8, <3>12, <3>13
    <3> QED BY <3>5, <3>10, <3>14 DEF good, v
  <2> QED BY <2>1, <2>2
<1> HIDE DEF N
<1>4. Nat \subseteq N
  BY <1>3, NumbersInduction
<1>5. good(width)
  BY <1>4 DEF N
<1> QED BY <1>5

-----------------------------------------------------------------------------
(* How FlattenSeq computes, and the type of what it returns. *)
FlatStep(f, q, i) == IF i = 1 THEN q[i] ELSE f[i - 1] \o q[i]
IsFlat(f, q, n) == f = [i \in 1..n |-> FlatStep(f, q, i)]

LEMMA FlatExists ==
    ASSUME NEW q, NEW n \in Nat
    PROVE  \E f : IsFlat(f, q, n)
<1> DEFINE N == {k \in Nat : \E f : IsFlat(f, q, k)}
<1>1. ASSUME NEW k \in Nat, \A j \in 0..(k - 1) : j \in N
      PROVE  k \in N
  <2>1. CASE k = 0
    <3> DEFINE h == [i \in 1..0 |-> 0]
    <3>1. h = [i \in 1..0 |-> FlatStep(h, q, i)]
      OBVIOUS
    <3>2. IsFlat(h, q, 0)
      BY <3>1, Zenon DEF IsFlat
    <3> QED BY <2>1, <3>2
  <2>2. CASE k # 0
    <3>1. PICK g : IsFlat(g, q, k - 1)
      BY <1>1, <2>2
    <3> DEFINE h == [j \in 1..k |-> IF j = k THEN FlatStep(g, q, k) ELSE g[j]]
    <3>2. g = [j \in 1..(k - 1) |-> FlatStep(g, q, j)]
      BY <3>1, Zenon DEF IsFlat
    <3>3. ASSUME NEW j \in 1..k PROVE h[j] = FlatStep(h, q, j)
      <4>1. j # 1 => h[j - 1] = g[j - 1]
        OBVIOUS
      <4>2. FlatStep(h, q, j) = FlatStep(g, q, j)
        BY <4>1 DEF FlatStep
      <4>3. CASE j = k
        BY <4>2, <4>3
      <4>4. CASE j # k
        <5>1. j \in 1..(k - 1) /\ h[j] = g[j]
          BY <4>4
        <5>2. g[j] = FlatStep(g, q, j)
          BY <3>2, <5>1
        <5> QED BY <4>2, <5>1, <5>2
      <4> QED BY <4>3, <4>4
    <3>4. h = [j \in 1..k |-> FlatStep(h, q, j)]
      <4>1. h = [j \in 1..k |-> h[j]]
        OBVIOUS
      <4> HIDE DEF h
      <4> QED BY <3>3, <4>1
    <3>5. IsFlat(h, q, k)
      BY <3>4, Zenon DEF IsFlat
    <3> HIDE DEF h
    <3> QED BY <3>5
  <2> QED BY <2>1, <2>2
<1> HIDE DEF N
<1>2. Nat \subseteq N
  BY <1>1, NumbersInduction
<1> QED BY <1>2 DEF N

LEMMA FlattenType ==
    ASSUME NEW S, NEW n \in Nat, NEW q \in [1..n -> Seq(S)]
    PROVE  FlattenSeq(q) \in Seq(S)
<1>1. Len(q) = n
  OBVIOUS
<1>2. CASE n = 0
  <2>1. FlattenSeq(q) = q
    BY <1>1, <1>2 DEF FlattenSeq
  <2>2. q \in Seq(S)
    BY <1>2
  <2> QED BY <2>1, <2>2, Zenon
<1>3. CASE n # 0
  <2> DEFINE f == CHOOSE f : IsFlat(f, q, n)
  <2>1. FlattenSeq(q) = f[n]
    BY <1>1, <1>3, Zenon DEF FlattenSeq, IsFlat, FlatStep
  <2>2. IsFlat(f, q, n)
    BY FlatExists, Zenon
  <2> HIDE DEF f
  <2>3. f = [i \in 1..n |-> FlatStep(f, q, i)]
    BY <2>2, Zenon DEF IsFlat
  <2> DEFINE N == {k \in Nat : k \in 1..n => f[k] \in Seq(S)}
  <2>4. ASSUME NEW k \in Nat, \A j \in 0..(k - 1) : j \in N
        PROVE  k \in N
    <3> SUFFICES ASSUME k \in 1..n PROVE f[k] \in Seq(S)
      OBVIOUS
    <3>1. f[k] = FlatStep(f, q, k)
      BY <2>3
    <3>2. CASE k = 1
      BY <3>1, <3>2 DEF FlatStep
    <3>3. CASE k # 1
      <4>1. f[k] = f[k - 1] \o q[k]
        BY <3>1, <3>3 DEF FlatStep
      <4>2. f[k - 1] \in Seq(S)
        BY <2>4, <3>3
      <4>3. q[k] \in Seq(S)
        OBVIOUS
      <4> QED BY <4>1, <4>2, <4>3, ConcatProperties
    <3> QED BY <3>2, <3>3
  <2> HIDE DEF N
  <2>5. Nat \subseteq N
    BY <2>4, NumbersInduction
  <2>6. f[n] \in Seq(S)
    BY <1>3, <2>5 DEF N
  <2> QED BY <2>1, <2>6, Zenon
<1> QED BY <1>2, <1>3

(* f[i] is the first i of the n parts of q. *)
AreParts(f, q, n, S) ==
    /\ FlattenSeq(q) = f[n]
    /\ f[1] = q[1]
    /\ \A i \in 1..n : f[i] \in Seq(S)
    /\ \A i \in 1..n : i # 1 => f[i] = f[i - 1] \o q[i]

LEMMA FlattenParts ==
    ASSUME NEW S, NEW n \in Nat \ {0}, NEW q \in [1..n -> Seq(S)]
    PROVE  \E f : AreParts(f, q, n, S)
<1>1. Len(q) = n
  OBVIOUS
<1> DEFINE f == CHOOSE f : IsFlat(f, q, n)
<1>2. FlattenSeq(q) = f[n]
  BY <1>1, Zenon DEF FlattenSeq, IsFlat, FlatStep
<1>3. IsFlat(f, q, n)
  BY FlatExists, Zenon
<1> HIDE DEF f
<1>4. f = [i \in 1..n |-> FlatStep(f, q, i)]
  BY <1>3, Zenon DEF IsFlat
<1>5. f[1] = q[1] /\ \A i \in 1..n : i # 1 => f[i] = f[i - 1] \o q[i]
  <2>1. \A i \in 1..n : f[i] = FlatStep(f, q, i)
    BY <1>4
  <2>2. ASSUME NEW i \in 1..n, i # 1 PROVE f[i] = f[i - 1] \o q[i]
    BY <2>1, <2>2, Zenon DEF FlatStep
  <2>3. f[1] = q[1]
    BY <2>1 DEF FlatStep
  <2> QED BY <2>2, <2>3
<1> DEFINE N == {k \in Nat : k \in 1..n => f[k] \in Seq(S)}
<1>6. ASSUME NEW k \in Nat, \A j \in 0..(k - 1) : j \in N
      PROVE  k \in N
  <2> SUFFICES ASSUME k \in 1..n PROVE f[k] \in Seq(S)
    OBVIOUS
  <2>1. q[k] \in Seq(S)
    OBVIOUS
  <2>2. CASE k = 1
    BY <1>5, <2>1, <2>2
  <2>3. CASE k # 1
    <3>1. f[k] = f[k - 1] \o q[k]
      BY <1>5, <2>3
    <3>2. f[k - 1] \in Seq(S)
      BY <1>6, <2>3
    <3> QED BY <2>1, <3>1, <3>2, ConcatProperties
  <2> QED BY <2>2, <2>3
<1> HIDE DEF N
<1>7. Nat \subseteq N
  BY <1>6, NumbersInduction
<1>8. \A i \in 1..n : f[i] \in Seq(S)
  BY <1>7 DEF N
<1>9. AreParts(f, q, n, S)
  BY <1>2, <1>5, <1>8 DEF AreParts
<1> QED BY <1>9

-----------------------------------------------------------------------------
(* bytes holds s from p on. *)
Holds(bytes, p, s) ==
    /\ p + Len(s) - 1 <= Len(bytes)
    /\ \A j \in 1..Len(s) : bytes[p + j - 1] = s[j]

LEMMA HoldsParts ==
    ASSUME NEW S, NEW bytes \in Seq(S), NEW p \in Nat \ {0}, NEW a \in Seq(S), NEW b \in Seq(S),
           Holds(bytes, p, a \o b)
    PROVE  Holds(bytes, p, a) /\ Holds(bytes, p + Len(a), b)
<1> DEFINE s == a \o b
<1>1. /\ Len(s) = Len(a) + Len(b)
      /\ \A j \in 1..Len(a) : s[j] = a[j]
      /\ \A j \in 1..Len(b) : s[Len(a) + j] = b[j]
  OBVIOUS
<1>2. Len(a) \in Nat /\ Len(b) \in Nat /\ Len(bytes) \in Nat
  OBVIOUS
<1>3. /\ p + Len(s) - 1 <= Len(bytes)
      /\ \A j \in 1..Len(s) : bytes[p + j - 1] = s[j]
  BY DEF Holds
<1> HIDE DEF s
<1>4. Holds(bytes, p, a)
  <2>1. ASSUME NEW j \in 1..Len(a) PROVE bytes[p + j - 1] = a[j]
    <3>1. j \in 1..Len(s) /\ s[j] = a[j]
      BY <1>1, <1>2
    <3> QED BY <1>3, <3>1
  <2>2. p + Len(a) - 1 <= Len(bytes)
    BY <1>1, <1>2, <1>3
  <2> QED BY <2>1, <2>2 DEF Holds
<1>5. Holds(bytes, p + Len(a), b)
  <2>1. ASSUME NEW j \in 1..Len(b) PROVE bytes[(p + Len(a)) + j - 1] = b[j]
    <3>1. Len(a) + j \in 1..Len(s) /\ s[Len(a) + j] = b[j]
      BY <1>1, <1>2
    <3>2. bytes[p + (Len(a) + j) - 1] = s[Len(a) + j]
      BY <1>3, <3>1
    <3>3. p + (Len(a) + j) - 1 = (p + Len(a)) + j - 1
      BY <1>2
    <3> QED BY <3>1, <3>2, <3>3
  <2>2. (p + Len(a)) + Len(b) - 1 <= Len(bytes)
    BY <1>1, <1>2, <1>3
  <2> QED BY <2>1, <2>2 DEF Holds
<1> QED BY <1>4, <1>5

LEMMA CutOut ==
    ASSUME NEW S, NEW bytes \in Seq(S), NEW p \in Nat \ {0}, NEW s \in Seq(S), Holds(bytes, p, s)
    PROVE  SubSeq(bytes, p, p + Len(s) - 1) = s
<1>1. Len(s) \in Nat /\ Len(bytes) \in Nat
  OBVIOUS
<1> DEFINE t == SubSeq(bytes, p, p + Len(s) - 1)
<1>2. /\ p + Len(s) - 1 <= Len(bytes)
      /\ \A j \in 1..Len(s) : bytes[p + j - 1] = s[j]
  BY DEF Holds
<1>3. t = [j \in 1..Len(s) |-> bytes[p + j - 1]]
  <2>1. t = [j \in 1..((p + Len(s) - 1) - p + 1) |-> bytes[p + j - 1]]
    BY <1>1, <1>2
  <2>2. (p + Len(s) - 1) - p + 1 = Len(s)
    BY <1>1
  <2> QED BY <2>1, <2>2
<1>4. s = [j \in 1..Len(s) |-> s[j]]
  OBVIOUS
<1> HIDE DEF t
<1>5. t = s
  BY <1>2, <1>3, <1>4
<1> QED BY <1>5 DEF t

(* Where each part of a flattened sequence is. *)
IsLayout(bytes, p, q, n, off) ==
    /\ off[1] = 0
    /\ \A i \in 1..n :
           /\ off[i] \in Nat
           /\ off[i + 1] = off[i] + Len(q[i])
           /\ Holds(bytes, p + off[i], q[i])

LEMMA FlattenHolds ==
    ASSUME NEW S, NEW bytes \in Seq(S), NEW p \in Nat \ {0}, NEW n \in Nat, NEW q \in [1..n -> Seq(S)],
           Holds(bytes, p, FlattenSeq(q))
    PROVE  \E off : IsLayout(bytes, p, q, n, off) /\ off[n + 1] = Len(FlattenSeq(q))
<1>1. CASE n = 0
  <2> DEFINE off == [i \in 1..1 |-> 0]
  <2>1. Len(q) = 0
    BY <1>1
  <2>2. Len(FlattenSeq(q)) = 0
    BY <2>1, Zenon DEF FlattenSeq
  <2>3. IsLayout(bytes, p, q, n, off) /\ off[n + 1] = 0
    BY <1>1 DEF IsLayout
  <2> HIDE DEF off
  <2> QED BY <2>2, <2>3
<1>2. CASE n # 0
  <2>0. PICK f : AreParts(f, q, n, S)
    <3>1. n \in Nat \ {0}
      BY <1>2
    <3> QED BY ONLY <3>1, q \in [1..n -> Seq(S)], FlattenParts
  <2>1. /\ FlattenSeq(q) = f[n]
        /\ f[1] = q[1]
        /\ \A i \in 1..n : f[i] \in Seq(S)
        /\ \A i \in 1..n : i # 1 => f[i] = f[i - 1] \o q[i]
    BY <2>0 DEF AreParts
  <2> DEFINE hold(i) == Holds(bytes, p, f[i])
             N == {k \in Nat : \A i \in 1..n : n - i = k => hold(i)}
  <2>2. ASSUME NEW k \in Nat, \A j \in 0..(k - 1) : j \in N
        PROVE  k \in N
    <3> SUFFICES ASSUME NEW i \in 1..n, n - i = k PROVE hold(i)
      OBVIOUS
    <3>1. CASE k = 0
      <4>1. i = n
        BY <3>1
      <4> QED BY <2>1, <4>1
    <3>2. CASE k # 0
      <4> HIDE DEF hold
      <4>1. i + 1 \in 1..n /\ i + 1 # 1 /\ (i + 1) - 1 = i /\ n - (i + 1) = k - 1
        BY <3>2
      <4>2. hold(i + 1)
        <5>0. k - 1 \in 0..(k - 1)
          BY <3>2
        <5>1. k - 1 \in N
          BY <2>2, <5>0
        <5> QED BY <4>1, <5>1
      <4>3. f[i + 1] = f[(i + 1) - 1] \o q[i + 1] /\ f[i] \in Seq(S) /\ q[i + 1] \in Seq(S)
        BY <2>1, <4>1
      <4>4. Holds(bytes, p, f[i] \o q[i + 1])
        BY <4>1, <4>2, <4>3 DEF hold
      <4>5. Holds(bytes, p, f[i])
        BY <4>3, <4>4, HoldsParts
      <4> QED BY <4>5 DEF hold
    <3> QED BY <3>1, <3>2
  <2> HIDE DEF N, hold
  <2>3. Nat \subseteq N
    BY <2>2, NumbersInduction
  <2>4. ASSUME NEW i \in 1..n PROVE Holds(bytes, p, f[i])
    <3>1. n - i \in Nat
      OBVIOUS
    <3>2. hold(i)
      BY <2>3, <3>1 DEF N
    <3> QED BY <3>2 DEF hold
  <2> DEFINE off == [i \in 1..(n + 1) |-> IF i = 1 THEN 0 ELSE Len(f[i - 1])]
  <2>5. off[1] = 0 /\ off[n + 1] = Len(f[n])
    BY <1>2
  <2>6. ASSUME NEW i \in 1..n
        PROVE  /\ off[i] \in Nat
               /\ off[i + 1] = off[i] + Len(q[i])
               /\ Holds(bytes, p + off[i], q[i])
    <3>0. off[i + 1] = Len(f[i])
      OBVIOUS
    <3>1. CASE i = 1
      <4>1. off[i] = 0 /\ f[i] = q[i] /\ Len(q[i]) \in Nat
        BY <2>1, <3>1
      <4>2. Holds(bytes, p, q[i])
        BY <2>4, <4>1
      <4> HIDE DEF off
      <4>3. p + off[i] = p
        BY <4>1
      <4> QED BY <3>0, <4>1, <4>2, <4>3
    <3>2. CASE i # 1
      <4>0. i - 1 \in 1..n
        BY <3>2
      <4>1. /\ off[i] = Len(f[i - 1]) /\ f[i - 1] \in Seq(S) /\ q[i] \in Seq(S)
            /\ f[i] = f[i - 1] \o q[i]
        <5>1. off[i] = Len(f[i - 1])
          BY <3>2
        <5> HIDE DEF off
        <5>2. f[i] = f[i - 1] \o q[i]
          BY <2>1, <3>2
        <5> QED BY <2>1, <4>0, <5>1, <5>2
      <4>2. Holds(bytes, p, f[i - 1] \o q[i])
        BY <2>4, <4>1
      <4>3. Holds(bytes, p + Len(f[i - 1]), q[i])
        BY <4>1, <4>2, HoldsParts
      <4>4. Len(f[i]) = Len(f[i - 1]) + Len(q[i]) /\ Len(f[i - 1]) \in Nat
        BY <4>1
      <4> HIDE DEF off
      <4> QED BY <3>0, <4>1, <4>3, <4>4
    <3> QED BY <3>1, <3>2
  <2> HIDE DEF off
  <2>7. IsLayout(bytes, p, q, n, off)
    BY <2>5, <2>6 DEF IsLayout
  <2> QED BY <2>1, <2>5, <2>7
<1> QED BY <1>1, <1>2
(* Parts of one width are where Chunk looks for them. *)
LEMMA EqualWidths ==
    ASSUME NEW S, NEW bytes \in Seq(S), NEW p \in Nat \ {0}, NEW n \in Nat, NEW w \in Nat,
           NEW q \in [1..n -> Seq(S)], \A i \in 1..n : Len(q[i]) = w,
           Holds(bytes, p, FlattenSeq(q))
    PROVE  /\ Len(FlattenSeq(q)) = n * w
           /\ \A i \in 1..n : Holds(bytes, p + (i - 1) * w, q[i])
<1>1. PICK off : IsLayout(bytes, p, q, n, off) /\ off[n + 1] = Len(FlattenSeq(q))
  BY FlattenHolds
<1>2. /\ off[1] = 0
      /\ \A i \in 1..n : off[i + 1] = off[i] + w /\ Holds(bytes, p + off[i], q[i])
  BY <1>1 DEF IsLayout
<1> DEFINE N == {k \in Nat : k \in 1..(n + 1) => off[k] = (k - 1) * w}
<1>3. ASSUME NEW k \in Nat, \A j \in 0..(k - 1) : j \in N
      PROVE  k \in N
  <2> SUFFICES ASSUME k \in 1..(n + 1) PROVE off[k] = (k - 1) * w
    OBVIOUS
  <2>1. CASE k = 1
    BY <1>2, <2>1
  <2>2. CASE k # 1
    <3>1. k - 1 \in 0..(k - 1) /\ k - 1 \in 1..n /\ (k - 1) + 1 = k
      BY <2>2
    <3>2. off[k - 1] = ((k - 1) - 1) * w
      BY <1>3, <3>1
    <3>3. off[k] = off[k - 1] + w
      BY <1>2, <3>1
    <3>4. ((k - 1) - 1) * w + w = (k - 1) * w
      OBVIOUS
    <3> QED BY <3>2, <3>3, <3>4
  <2> QED BY <2>1, <2>2
<1> HIDE DEF N
<1>4. Nat \subseteq N
  BY <1>3, NumbersInduction
<1>5. \A k \in 1..(n + 1) : off[k] = (k - 1) * w
  BY <1>4 DEF N
<1>6. off[n + 1] = n * w
  BY <1>5
<1>7. ASSUME NEW i \in 1..n PROVE Holds(bytes, p + (i - 1) * w, q[i])
  <2>1. off[i] = (i - 1) * w
    BY <1>5
  <2> QED BY <1>2, <2>1
<1> QED BY <1>1, <1>6, <1>7

LEMMA TwoParts ==
    ASSUME NEW S, NEW a \in Seq(S), NEW b \in Seq(S)
    PROVE  a \o b \in Seq(S) /\ Len(a \o b) = Len(a) + Len(b) /\ Len(a) \in Nat /\ Len(b) \in Nat
OBVIOUS
(* Two parts that are held one after the other, and a whole that is held. *)
LEMMA HoldsJoin ==
    ASSUME NEW S, NEW bytes \in Seq(S), NEW p \in Nat \ {0}, NEW a \in Seq(S), NEW b \in Seq(S),
           Holds(bytes, p, a), Holds(bytes, p + Len(a), b)
    PROVE  Holds(bytes, p, a \o b)
<1> DEFINE s == a \o b
<1>1. /\ Len(s) = Len(a) + Len(b)
      /\ \A j \in 1..Len(s) : s[j] = IF j <= Len(a) THEN a[j] ELSE b[j - Len(a)]
  OBVIOUS
<1>2. Len(a) \in Nat /\ Len(b) \in Nat /\ Len(bytes) \in Nat
  OBVIOUS
<1>3. /\ \A j \in 1..Len(a) : bytes[p + j - 1] = a[j]
      /\ (p + Len(a)) + Len(b) - 1 <= Len(bytes)
      /\ \A j \in 1..Len(b) : bytes[(p + Len(a)) + j - 1] = b[j]
  BY DEF Holds
<1> HIDE DEF s
<1>4. ASSUME NEW j \in 1..Len(s) PROVE bytes[p + j - 1] = s[j]
  <2>1. CASE j <= Len(a)
    <3>1. j \in 1..Len(a) /\ s[j] = a[j]
      BY <1>1, <1>2, <2>1
    <3> QED BY <1>3, <3>1
  <2>2. CASE ~(j <= Len(a))
    <3>1. j - Len(a) \in 1..Len(b) /\ s[j] = b[j - Len(a)]
      BY <1>1, <1>2, <2>2
    <3>2. bytes[(p + Len(a)) + (j - Len(a)) - 1] = b[j - Len(a)]
      BY <1>3, <3>1
    <3>3. (p + Len(a)) + (j - Len(a)) - 1 = p + j - 1
      BY <1>2
    <3> QED BY <3>1, <3>2, <3>3
  <2> QED BY <2>1, <2>2
<1>5. p + Len(s) - 1 <= Len(bytes)
  BY <1>1, <1>2, <1>3
<1>6. Holds(bytes, p, s)
  BY <1>4, <1>5 DEF Holds
<1> QED BY <1>6 DEF s

LEMMA HoldsWhole ==
    ASSUME NEW S, NEW t \in Seq(S), NEW s \in Seq(S), Holds(t, 1, s), Len(t) = Len(s)
    PROVE  t = s
<1>1. \A j \in 1..Len(s) : t[1 + j - 1] = s[j]
  BY DEF Holds
<1>2. \A j \in 1..Len(s) : t[j] = s[j]
  BY <1>1
<1> QED BY <1>2

LEMMA HoldsItself ==
    ASSUME NEW S, NEW s \in Seq(S)
    PROVE  Holds(s, 1, s)
BY DEF Holds

(* Where the parts of a flattened sequence are, when h gives their lengths. *)
AreLengths(h, q, n) == \A k \in 1..n : h[k] = Len(q[k])
HoldsEach(bytes, p, q, n, h) == \A k \in 1..n : Holds(bytes, p + SumFunctionOnSet(h, 1..(k - 1)), q[k])

LEMMA FlattenAt ==
    ASSUME NEW S, NEW bytes \in Seq(S), NEW p \in Nat \ {0}, NEW n \in Nat, NEW q \in [1..n -> Seq(S)],
           NEW h, AreLengths(h, q, n),
           Holds(bytes, p, FlattenSeq(q))
    PROVE  /\ Len(FlattenSeq(q)) = SumFunctionOnSet(h, 1..n)
           /\ HoldsEach(bytes, p, q, n, h)
<1> DEFINE sum(k) == SumFunctionOnSet(h, 1..k)
<1>0. \A k \in 1..n : h[k] = Len(q[k])
  BY DEF AreLengths
<1>1. PICK off : IsLayout(bytes, p, q, n, off) /\ off[n + 1] = Len(FlattenSeq(q))
  BY FlattenHolds
<1>2. /\ off[1] = 0
      /\ \A i \in 1..n : off[i + 1] = off[i] + h[i] /\ Holds(bytes, p + off[i], q[i])
  BY <1>0, <1>1 DEF IsLayout
<1>3. \A k \in 1..n : h[k] \in Nat
  BY <1>0
<1> DEFINE N == {k \in Nat : k \in 0..n => off[k + 1] = sum(k)}
<1>4. ASSUME NEW k \in Nat, \A j \in 0..(k - 1) : j \in N
      PROVE  k \in N
  <2> SUFFICES ASSUME k \in 0..n PROVE off[k + 1] = sum(k)
    OBVIOUS
  <2>1. CASE k = 0
    <3>1. 1..k = {}
      BY <2>1
    <3>2. sum(k) = 0
      BY <3>1, SumEmpty
    <3> HIDE DEF sum
    <3> QED BY <1>2, <2>1, <3>2
  <2>2. CASE k # 0
    <3>1. k - 1 \in 0..(k - 1) /\ k - 1 \in 0..n /\ (k - 1) + 1 = k /\ k \in 1..n /\ k \in Nat \ {0}
      BY <2>2
    <3>2. off[k] = sum(k - 1)
      BY <1>4, <3>1
    <3>3. \A x \in 1..k : h[x] \in Nat
      BY <1>3
    <3>4. sum(k) = h[k] + sum(k - 1) /\ sum(k - 1) \in Nat
      BY <3>1, <3>3, SumTo
    <3> HIDE DEF sum
    <3> QED BY <1>2, <1>3, <3>1, <3>2, <3>4
  <2> QED BY <2>1, <2>2
<1> HIDE DEF N
<1>5. Nat \subseteq N
  BY <1>4, NumbersInduction
<1>6. \A k \in 0..n : off[k + 1] = sum(k)
  BY <1>5 DEF N
<1> HIDE DEF sum
<1>7. ASSUME NEW k \in 1..n PROVE Holds(bytes, p + sum(k - 1), q[k])
  <2>1. k - 1 \in 0..n /\ (k - 1) + 1 = k
    OBVIOUS
  <2>2. off[k] = sum(k - 1)
    BY <1>6, <2>1
  <2> QED BY <1>2, <2>2
<1>8. off[n + 1] = sum(n)
  BY <1>6
<1> QED BY <1>1, <1>7, <1>8 DEF sum, HoldsEach

LEMMA FlattenLen ==
    ASSUME NEW S, NEW n \in Nat, NEW q \in [1..n -> Seq(S)], NEW h, AreLengths(h, q, n)
    PROVE  FlattenSeq(q) \in Seq(S) /\ Len(FlattenSeq(q)) = SumFunctionOnSet(h, 1..n)
<1> DEFINE t == FlattenSeq(q)
<1>1. t \in Seq(S)
  BY FlattenType
<1>2. Holds(t, 1, t)
  BY <1>1, HoldsItself
<1>3. Len(t) = SumFunctionOnSet(h, 1..n) /\ HoldsEach(t, 1, q, n, h)
  BY <1>1, <1>2, FlattenAt
<1> QED BY <1>1, <1>3

(* And a sequence that holds all parts at these places holds the whole. *)
LEMMA HoldsFlatten ==
    ASSUME NEW S, NEW bytes \in Seq(S), NEW p \in Nat \ {0}, NEW n \in Nat, NEW q \in [1..n -> Seq(S)],
           NEW h, AreLengths(h, q, n), HoldsEach(bytes, p, q, n, h), p - 1 <= Len(bytes)
    PROVE  Holds(bytes, p, FlattenSeq(q)) /\ FlattenSeq(q) \in Seq(S)
<1> DEFINE sum(k) == SumFunctionOnSet(h, 1..k)
<1>0. FlattenSeq(q) \in Seq(S)
  BY FlattenType
<1>3. /\ \A k \in 1..n : h[k] = Len(q[k])
      /\ \A k \in 1..n : Holds(bytes, p + sum(k - 1), q[k])
  BY DEF AreLengths, HoldsEach
<1>1. CASE n = 0
  <2>1. Len(q) = 0
    BY <1>1
  <2>2. Len(FlattenSeq(q)) = 0
    BY <2>1, Zenon DEF FlattenSeq
  <2> QED BY <1>0, <2>2 DEF Holds
<1>2. CASE n # 0
  <2>0. PICK f : AreParts(f, q, n, S)
    <3>1. n \in Nat \ {0}
      BY <1>2
    <3> QED BY ONLY <3>1, q \in [1..n -> Seq(S)], FlattenParts
  <2>1. /\ FlattenSeq(q) = f[n]
        /\ f[1] = q[1]
        /\ \A i \in 1..n : f[i] \in Seq(S)
        /\ \A i \in 1..n : i # 1 => f[i] = f[i - 1] \o q[i]
    BY <2>0 DEF AreParts
  <2>2. \A k \in 1..n : h[k] \in Nat
    BY <1>3
  <2> DEFINE good(k) == Len(f[k]) = sum(k) /\ Holds(bytes, p, f[k])
             N == {k \in Nat : k \in 1..n => good(k)}
  <2>3. ASSUME NEW k \in Nat, \A j \in 0..(k - 1) : j \in N
        PROVE  k \in N
    <3> SUFFICES ASSUME k \in 1..n PROVE good(k)
      OBVIOUS
    <3>0. k \in Nat \ {0} /\ \A x \in 1..k : h[x] \in Nat
      BY <2>2
    <3>1. sum(k) = h[k] + sum(k - 1) /\ sum(k - 1) \in Nat
      BY <3>0, SumTo
    <3>2. Holds(bytes, p + sum(k - 1), q[k]) /\ h[k] = Len(q[k]) /\ q[k] \in Seq(S)
      <4> HIDE DEF sum
      <4> QED BY <1>3
    <3>3. CASE k = 1
      <4>1. 1..(k - 1) = {}
        BY <3>3
      <4>2. sum(k - 1) = 0
        BY <4>1, SumEmpty
      <4> HIDE DEF sum
      <4>3. f[k] = q[k] /\ Len(q[k]) \in Nat /\ p + 0 = p
        BY <2>1, <3>2, <3>3
      <4> QED BY <3>1, <3>2, <4>2, <4>3
    <3>4. CASE k # 1
      <4>1. k - 1 \in 0..(k - 1) /\ k - 1 \in 1..n
        BY <3>4
      <4>2. good(k - 1)
        <5>1. k - 1 \in N
          BY <2>3, <4>1
        <5> QED BY <4>1, <5>1
      <4> HIDE DEF sum, N
      <4>3. f[k] = f[k - 1] \o q[k] /\ f[k - 1] \in Seq(S) /\ q[k] \in Seq(S)
        BY <2>1, <3>2, <3>4, <4>1
      <4>4. Holds(bytes, p, f[k - 1]) /\ Holds(bytes, p + Len(f[k - 1]), q[k])
        BY <3>2, <4>2
      <4>5. Holds(bytes, p, f[k - 1] \o q[k])
        BY ONLY <4>3, <4>4, bytes \in Seq(S), p \in Nat \ {0}, HoldsJoin
      <4>6. Len(f[k - 1] \o q[k]) = Len(f[k - 1]) + Len(q[k]) /\ Len(q[k]) \in Nat
        BY ONLY <4>3, TwoParts
      <4> QED BY <3>1, <3>2, <4>2, <4>3, <4>5, <4>6
    <3> QED BY <3>3, <3>4
  <2> HIDE DEF N, good
  <2>4. Nat \subseteq N
    BY <2>3, NumbersInduction
  <2>5. good(n)
    BY <1>2, <2>4 DEF N
  <2> QED BY <1>0, <2>1, <2>5 DEF good
<1> QED BY <1>1, <1>2

(* The sum of a fixed part and multiples of c. *)
IsLinear(h, a, w, c, n) == \A k \in 1..n : c[k] \in Nat /\ h[k] = a + w * c[k]

LEMMA SumLinear ==
    ASSUME NEW n \in Nat, NEW a \in Nat, NEW w \in Nat, NEW c, NEW h, IsLinear(h, a, w, c, n)
    PROVE  \A k \in 0..n : /\ SumFunctionOnSet(c, 1..k) \in Nat
                           /\ SumFunctionOnSet(h, 1..k) = a * k + w * SumFunctionOnSet(c, 1..k)
<1>0. \A k \in 1..n : c[k] \in Nat /\ h[k] = a + w * c[k]
  BY DEF IsLinear
<1> DEFINE C(k) == SumFunctionOnSet(c, 1..k)
           H(k) == SumFunctionOnSet(h, 1..k)
           good(k) == C(k) \in Nat /\ H(k) = a * k + w * C(k)
           N == {k \in Nat : k \in 0..n => good(k)}
<1>1. \A k \in 1..n : h[k] \in Nat
  BY <1>0
<1>2. ASSUME NEW k \in Nat, \A j \in 0..(k - 1) : j \in N
      PROVE  k \in N
  <2> SUFFICES ASSUME k \in 0..n PROVE good(k)
    OBVIOUS
  <2>1. CASE k = 0
    <3>1. 1..k = {}
      BY <2>1
    <3>2. C(k) = 0 /\ H(k) = 0
      BY <3>1, SumEmpty
    <3> HIDE DEF C, H
    <3>3. a * k = 0 /\ w * 0 = 0
      BY <2>1
    <3> QED BY <3>2, <3>3
  <2>2. CASE k # 0
    <3>1. k - 1 \in 0..(k - 1) /\ k - 1 \in 0..n /\ k \in 1..n /\ k \in Nat \ {0}
      BY <2>2
    <3>2. good(k - 1)
      <4>1. k - 1 \in N
        BY <1>2, <3>1
      <4> QED BY <3>1, <4>1
    <3>3. \A x \in 1..k : c[x] \in Nat
      BY <1>0
    <3>4. \A x \in 1..k : h[x] \in Nat
      BY <1>1
    <3>5. C(k) = c[k] + C(k - 1) /\ C(k) \in Nat /\ C(k - 1) \in Nat
      BY <3>1, <3>3, SumTo
    <3>6. H(k) = h[k] + H(k - 1)
      BY <3>1, <3>4, SumTo
    <3>7. c[k] \in Nat /\ h[k] = a + w * c[k]
      BY <1>0, <3>1
    <3> HIDE DEF C, H, N
    <3>8. w * C(k) = w * c[k] + w * C(k - 1)
      BY <3>5, <3>7
    <3>9. a * k = a + a * (k - 1)
      BY <3>1
    <3>10. w * c[k] \in Nat /\ w * C(k - 1) \in Nat /\ a * (k - 1) \in Nat
      BY <3>1, <3>5, <3>7
    <3> QED BY <3>2, <3>5, <3>6, <3>7, <3>8, <3>9, <3>10
  <2> QED BY <2>1, <2>2
<1> HIDE DEF N, good
<1>3. Nat \subseteq N
  BY <1>2, NumbersInduction
<1>4. \A k \in 0..n : good(k)
  BY <1>3 DEF N
<1> QED BY <1>4 DEF good
(* What is cut out of a sequence. *)
LEMMA Cut ==
    ASSUME NEW S, NEW s \in Seq(S), NEW m \in Nat \ {0}, NEW n \in Nat, m <= n + 1, n <= Len(s)
    PROVE  /\ SubSeq(s, m, n) \in Seq(S) /\ Len(SubSeq(s, m, n)) = n - m + 1
           /\ \A j \in 1..(n - m + 1) : SubSeq(s, m, n)[j] = s[m + j - 1] /\ s[m + j - 1] \in S
<1>1. Len(s) \in Nat
  OBVIOUS
<1>2. \A j \in 1..(n - m + 1) : m + j - 1 \in 1..Len(s)
  BY <1>1
<1>3. SubSeq(s, m, n) = [j \in 1..(n - m + 1) |-> s[m + j - 1]]
  BY <1>1
<1>4. \A j \in 1..(n - m + 1) : s[m + j - 1] \in S
  BY <1>2
<1>5. n - m + 1 \in Nat
  OBVIOUS
<1> QED BY <1>3, <1>4, <1>5
(* Sums of the first values grow. *)
LEMMA SumGrows ==
    ASSUME NEW n \in Nat, NEW f, \A x \in 1..n : f[x] \in Nat
    PROVE  /\ SumFunctionOnSet(f, 1..0) = 0
           /\ \A m \in 0..n : SumFunctionOnSet(f, 1..m) \in Nat
           /\ \A m \in 1..n : SumFunctionOnSet(f, 1..m) = SumFunctionOnSet(f, 1..(m - 1)) + f[m]
           /\ \A m \in 0..n, k \in 0..n : k <= m => SumFunctionOnSet(f, 1..k) <= SumFunctionOnSet(f, 1..m)
<1> DEFINE sum(k) == SumFunctionOnSet(f, 1..k)
<1>1. sum(0) = 0
  <2>1. 1..0 = {}
    OBVIOUS
  <2> QED BY <2>1, SumEmpty
<1>2. ASSUME NEW m \in 1..n
      PROVE  sum(m) = sum(m - 1) + f[m] /\ sum(m) \in Nat /\ sum(m - 1) \in Nat /\ f[m] \in Nat
  <2>1. m \in Nat \ {0} /\ \A x \in 1..m : f[x] \in Nat
    OBVIOUS
  <2>2. sum(m) = f[m] + sum(m - 1) /\ sum(m) \in Nat /\ sum(m - 1) \in Nat
    BY <2>1, SumTo
  <2> HIDE DEF sum
  <2> QED BY <2>1, <2>2
<1> HIDE DEF sum
<1>3. \A m \in 0..n : sum(m) \in Nat
  BY <1>1, <1>2
<1> DEFINE N == {m \in Nat : m \in 0..n => \A k \in 0..m : sum(k) <= sum(m)}
<1>4. ASSUME NEW m \in Nat, \A j \in 0..(m - 1) : j \in N
      PROVE  m \in N
  <2> SUFFICES ASSUME m \in 0..n, NEW k \in 0..m PROVE sum(k) <= sum(m)
    OBVIOUS
  <2>1. CASE k = m
    BY <1>3, <2>1
  <2>2. CASE k # m
    <3>1. m - 1 \in 0..(m - 1) /\ k \in 0..(m - 1) /\ m \in 1..n /\ m - 1 \in 0..n
      BY <2>2
    <3>2. sum(k) <= sum(m - 1)
      BY <1>4, <3>1
    <3> QED BY <1>2, <1>3, <3>1, <3>2
  <2> QED BY <2>1, <2>2
<1> HIDE DEF N
<1>5. Nat \subseteq N
  BY <1>4, NumbersInduction
<1>6. \A m \in 0..n, k \in 0..n : k <= m => sum(k) <= sum(m)
  BY <1>5 DEF N
<1> QED BY <1>1, <1>2, <1>3, <1>6 DEF sum
(* What is cut out is held where it was, and so is what is read one by one. *)
LEMMA HoldsCut ==
    ASSUME NEW S, NEW s \in Seq(S), NEW m \in Nat \ {0}, NEW n \in Nat, m <= n + 1, n <= Len(s)
    PROVE  Holds(s, m, SubSeq(s, m, n))
<1> DEFINE t == SubSeq(s, m, n)
<1>1. /\ Len(t) = n - m + 1
      /\ \A j \in 1..(n - m + 1) : t[j] = s[m + j - 1] /\ s[m + j - 1] \in S
  BY Cut
<1>2. Len(s) \in Nat
  OBVIOUS
<1> HIDE DEF t
<1>3. m + Len(t) - 1 <= Len(s)
  BY <1>1, <1>2
<1>4. \A j \in 1..Len(t) : s[m + j - 1] = t[j]
  BY <1>1
<1>5. Holds(s, m, t)
  BY <1>3, <1>4 DEF Holds
<1> QED BY <1>5 DEF t

(* The sum of n times the same. *)
AreAll(h, w, n) == \A k \in 1..n : h[k] = w

LEMMA SumConstant ==
    ASSUME NEW n \in Nat, NEW w \in Nat, NEW h, AreAll(h, w, n)
    PROVE  \A k \in 0..n : SumFunctionOnSet(h, 1..k) = w * k
<1> DEFINE c == [k \in 1..n |-> 0]
<1>1. IsLinear(h, w, 0, c, n)
  BY DEF IsLinear, AreAll
<1> HIDE DEF c
<1>2. \A k \in 0..n : /\ SumFunctionOnSet(c, 1..k) \in Nat
                      /\ SumFunctionOnSet(h, 1..k) = w * k + 0 * SumFunctionOnSet(c, 1..k)
  BY <1>1, SumLinear
<1>3. ASSUME NEW k \in 0..n PROVE SumFunctionOnSet(h, 1..k) = w * k
  <2> DEFINE x == SumFunctionOnSet(c, 1..k)
             y == SumFunctionOnSet(h, 1..k)
  <2>1. x \in Nat /\ y = w * k + 0 * x
    BY <1>2
  <2> HIDE DEF x, y
  <2>2. 0 * x = 0 /\ w * k \in Nat
    BY <2>1
  <2>3. y = w * k
    BY <2>1, <2>2
  <2> QED BY <2>3 DEF y
<1> QED BY <1>3

(* A sequence made of two is the one, then the other. *)
IsJoin(ab, a, b) == ab = a \o b
Joins(S, ab, a, b) == a \in Seq(S) /\ b \in Seq(S) /\ IsJoin(ab, a, b)

LEMMA PartsAt ==
    ASSUME NEW S, NEW ab, NEW a, NEW b, Joins(S, ab, a, b)
    PROVE  /\ ab \in Seq(S) /\ Len(ab) = Len(a) + Len(b) /\ Len(a) \in Nat /\ Len(b) \in Nat
           /\ Holds(ab, 1, a) /\ Holds(ab, 1 + Len(a), b)
           /\ \A j \in 1..Len(a) : ab[j] = a[j]
           /\ \A j \in 1..Len(b) : ab[Len(a) + j] = b[j]
<1>0. a \in Seq(S) /\ b \in Seq(S) /\ ab = a \o b
  BY Zenon DEF Joins, IsJoin
<1>1. ab \in Seq(S) /\ Len(ab) = Len(a) + Len(b) /\ Len(a) \in Nat /\ Len(b) \in Nat
  BY <1>0, TwoParts
<1>2. Holds(ab, 1, a \o b)
  <2>1. Holds(ab, 1, ab)
    BY <1>1, HoldsItself
  <2> QED BY <1>0, <2>1, Zenon
<1>3. Holds(ab, 1, a) /\ Holds(ab, 1 + Len(a), b)
  <2>1. a \in Seq(S) /\ b \in Seq(S) /\ ab \in Seq(S) /\ 1 \in Nat \ {0}
    BY <1>0, <1>1
  <2> QED BY ONLY <1>2, <2>1, HoldsParts
<1>4. \A j \in 1..Len(a) : 1 + j - 1 = j
  BY <1>1
<1>5. \A j \in 1..Len(b) : 1 + Len(a) + j - 1 = Len(a) + j
  BY <1>1
<1>6. \A j \in 1..Len(a) : ab[j] = a[j]
  BY <1>3, <1>4 DEF Holds
<1>7. \A j \in 1..Len(b) : ab[Len(a) + j] = b[j]
  BY <1>3, <1>5 DEF Holds
<1> QED BY <1>1, <1>3, <1>6, <1>7

(* Terms that are at most others and have their sum are the others. *)
LEMMA SumDominated ==
    ASSUME NEW n \in Nat, NEW f, NEW g, \A x \in 1..n : f[x] \in Nat /\ g[x] \in Nat /\ f[x] <= g[x],
           SumFunctionOnSet(f, 1..n) = SumFunctionOnSet(g, 1..n)
    PROVE  \A x \in 1..n : f[x] = g[x]
<1> DEFINE S == 1..n
           h == [x \in S |-> g[x] - f[x]]
<1>1. IsFiniteSet(S) /\ S \in SUBSET S
  BY FS_Interval
<1>2. \A x \in S : f[x] \in Nat /\ g[x] \in Nat
  OBVIOUS
<1>3. \A x \in S : h[x] \in Nat /\ g[x] = f[x] + h[x]
  OBVIOUS
<1>4. \A x \in S \ S : g[x] = f[x]
  OBVIOUS
<1> HIDE DEF h, S
<1>5. SumFunctionOnSet(g, S) = SumFunctionOnSet(f, S) + SumFunctionOnSet(h, S)
  BY <1>1, <1>2, <1>3, <1>4, SumRaised
<1>6. SumFunctionOnSet(f, S) \in Nat /\ SumFunctionOnSet(h, S) \in Nat
  BY <1>1, <1>2, <1>3, SumSplits
<1>7. SumFunctionOnSet(h, S) = 0
  BY <1>5, <1>6 DEF S
<1>8. ASSUME NEW x \in S PROVE f[x] = g[x]
  <2>1. h[x] <= 0
    BY <1>1, <1>3, <1>7, TermAtMostSum
  <2> QED BY <1>2, <1>3, <2>1
<1> QED BY <1>8 DEF S

(* A sequence with one element removed, inserted or changed. *)
LEMMA EditTypes ==
    ASSUME NEW S, NEW s \in Seq(S)
    PROVE  /\ \A i \in 1..Len(s) : RemoveAt(s, i) \in Seq(S)
           /\ \A i \in 1..(Len(s) + 1), v \in S : InsertAt(s, i, v) \in Seq(S)
           /\ \A i \in 1..Len(s), v \in S : ReplaceAt(s, i, v) \in Seq(S)
<1>0. Len(s) \in Nat
  OBVIOUS
<1>1. ASSUME NEW i \in 1..Len(s) PROVE RemoveAt(s, i) \in Seq(S)
  <2> DEFINE a == SubSeq(s, 1, i - 1)
             b == SubSeq(s, i + 1, Len(s))
  <2>1. i - 1 \in Nat /\ i + 1 \in Nat \ {0} /\ i - 1 <= Len(s) /\ 1 <= (i - 1) + 1
        /\ i + 1 <= Len(s) + 1 /\ 1 \in Nat \ {0} /\ Len(s) <= Len(s)
    BY <1>0
  <2>2. a \in Seq(S)
    BY <2>1, Cut
  <2>3. b \in Seq(S)
    BY <1>0, <2>1, Cut
  <2>4. RemoveAt(s, i) = a \o b
    BY Zenon DEF RemoveAt
  <2> HIDE DEF a, b
  <2> QED BY <2>2, <2>3, <2>4, TwoParts
<1>2. ASSUME NEW i \in 1..(Len(s) + 1), NEW v \in S PROVE InsertAt(s, i, v) \in Seq(S)
  <2> DEFINE a == SubSeq(s, 1, i - 1)
             b == SubSeq(s, i, Len(s))
             e == <<v>>
             ae == a \o e
  <2>1. i - 1 \in Nat /\ i \in Nat \ {0} /\ i - 1 <= Len(s) /\ 1 <= (i - 1) + 1
        /\ i <= Len(s) + 1 /\ 1 \in Nat \ {0} /\ Len(s) <= Len(s)
    BY <1>0
  <2>2. a \in Seq(S)
    BY <2>1, Cut
  <2>3. b \in Seq(S)
    BY <1>0, <2>1, Cut
  <2>4. e \in Seq(S)
    OBVIOUS
  <2>5. InsertAt(s, i, v) = ae \o b
    BY Zenon DEF InsertAt
  <2> HIDE DEF a, b, e
  <2>6. ae \in Seq(S)
    BY <2>2, <2>4, TwoParts
  <2> HIDE DEF ae
  <2> QED BY <2>3, <2>5, <2>6, TwoParts
<1>3. ASSUME NEW i \in 1..Len(s), NEW v \in S PROVE ReplaceAt(s, i, v) \in Seq(S)
  BY DEF ReplaceAt
<1> QED BY <1>1, <1>2, <1>3

(* The length of a sequence given as a function, and of two put together. *)
LEMMA LenIs ==
    ASSUME NEW n \in Nat, NEW S, NEW q \in [1..n -> S]
    PROVE  Len(q) = n
OBVIOUS

LEMMA JoinedParts ==
    ASSUME NEW K, NEW p \in Seq(K), NEW q \in Seq(K)
    PROVE  /\ p \o q \in Seq(K) /\ Len(p \o q) = Len(p) + Len(q)
           /\ \A j \in 1..Len(p) : (p \o q)[j] = p[j]
           /\ \A j \in 1..Len(q) : (p \o q)[Len(p) + j] = q[j]
OBVIOUS
===============================================================================
