----------------------------- MODULE NatLemmas -------------------------------
(***************************************************************************)
(* Facts about natural numbers that the proofs of several components use:   *)
(* induction, with the property as a set, and what SumFunction computes.    *)
(***************************************************************************)
EXTENDS Naturals, FiniteSetsExt, Functions, FiniteSetTheorems, WellFoundedInduction, TLAPS

\* A non-empty set of natural numbers has a least element.
LEMMA LeastNat ==
    ASSUME NEW T \in SUBSET Nat, T # {}
    PROVE  \E n \in T : \A m \in T : n <= m
  <1>1. PICK R : R = {ss \in Nat \X Nat : ss[1] < ss[2]}
    OBVIOUS
  <1>2. IsWellFoundedOn(R, Nat)
    BY <1>1, NatLessThanWellFounded DEF OpToRel
  <1>3. PICK n \in T : \A y \in T : ~(<<y, n>> \in R)
    BY <1>2, WFMin, Zenon
  <1>4. ASSUME NEW m \in T
        PROVE  n <= m
    <2>1. ~(<<m, n>> \in R)
      BY <1>3
    <2>2. m \in Nat /\ n \in Nat /\ (m < n => <<m, n>> \in R)
      BY <1>1
    <2>3. QED
      BY <2>1, <2>2
  <1>5. QED
    BY <1>4

\* A set with 0 and with the successor of each of its elements has all natural
\* numbers: induction, for a property that is written as a set.
LEMMA Induction ==
    ASSUME NEW S, 0 \in S, \A n \in Nat : n \in S => n + 1 \in S
    PROVE  \A n \in Nat : n \in S
  <1>1. SUFFICES ASSUME NEW k \in Nat, k \notin S PROVE FALSE
    OBVIOUS
  <1>2. PICK n \in Nat \ S : \A m \in Nat \ S : n <= m
    <2>1. Nat \ S \in SUBSET Nat /\ Nat \ S # {}
      BY <1>1
    <2>2. QED
      BY <2>1, LeastNat, Zenon
  <1>3. n # 0 /\ n - 1 \in Nat /\ n - 1 \notin Nat \ S
    BY <1>2
  <1>4. QED
    BY <1>2, <1>3

\* A set of numbers up to k that is not empty has a greatest one.
LEMMA GreatestUpTo ==
    ASSUME NEW T, T # {}, NEW k \in Nat, T \subseteq 0..k
    PROVE  Max(T) \in T
  <1> DEFINE B == {b \in Nat : \A x \in T : x <= b}
  <1>1. B \in SUBSET Nat /\ B # {}
    <2>1. k \in B
      OBVIOUS
    <2>2. QED
      BY <2>1
  <1> HIDE DEF B
  <1>2. PICK b \in B : \A c \in B : b <= c
    BY <1>1, LeastNat, Zenon
  <1>3. b \in Nat /\ \A x \in T : x <= b
    BY <1>2 DEF B
  <1>4. b \in T
    <2>1. SUFFICES ASSUME b \notin T PROVE FALSE
      OBVIOUS
    <2>2. \A x \in T : x <= b - 1 /\ x \in Nat
      <3>1. TAKE x \in T
      <3>2. x \in Nat /\ x <= b /\ x # b
        BY <1>3, <2>1
      <3>3. QED
        BY <1>3, <3>2
    <2>3. PICK x \in T : x \in Nat /\ x <= b - 1
      BY <2>2
    <2>4. b - 1 \in Nat
      BY <1>3, <2>3
    <2>5. b - 1 \in B
      BY <2>2, <2>4 DEF B
    <2>6. QED
      BY <1>2, <1>3, <2>5
  <1>5. \E x \in T : \A y \in T : x >= y
    <2>1. \A y \in T : b >= y
      <3>1. TAKE y \in T
      <3>2. y \in Nat /\ y <= b
        BY <1>3
      <3>3. QED
        BY <1>3, <3>2
    <2>2. QED
      BY <1>4, <2>1
  <1>6. QED
    BY <1>5 DEF Max

----------------------------------------------------------------------------
(* Sums                                                                    *)

\* The sum of f over a set, one element at a time, as the fold computes it
\* from a function g of the smaller sets.
Pick(s) == CHOOSE x \in s : TRUE
SumStep(f, s, g) == IF s = {} THEN 0 ELSE f[Pick(s)] + g[s \ {Pick(s)}]

\* What the fold computes for every subset of S.
AreSums(g, f, D) == g = [s \in D |-> SumStep(f, s, g)]
Sums(f, S) == CHOOSE g : AreSums(g, f, SUBSET S)

\* The subsets of S with at most n elements.
AtMost(S, n) == {s \in SUBSET S : Cardinality(s) <= n}

LEMMA AtMostFacts ==
    ASSUME NEW S, IsFiniteSet(S)
    PROVE  /\ \A n : {} \in AtMost(S, 0) /\ \A s \in AtMost(S, 0) : s = {}
           /\ \A n \in Nat : AtMost(S, n) \subseteq AtMost(S, n + 1)
           /\ \A n \in Nat : \A s \in AtMost(S, n + 1) : s # {} =>
                Pick(s) \in s /\ Pick(s) \in S /\ s \ {Pick(s)} \in AtMost(S, n)
           /\ \A n \in Nat : \A s \in AtMost(S, n) : s # {} => s \ {Pick(s)} \in AtMost(S, n)
           /\ Cardinality(S) \in Nat /\ AtMost(S, Cardinality(S)) = SUBSET S
  <1>1. \A s \in SUBSET S : IsFiniteSet(s) /\ Cardinality(s) \in Nat /\ Cardinality(s) <= Cardinality(S)
    BY FS_Subset, FS_CardinalityType
  <1>2. Cardinality(S) \in Nat
    BY FS_CardinalityType
  <1>3. {} \in AtMost(S, 0) /\ \A s \in AtMost(S, 0) : s = {}
    BY <1>1, FS_EmptySet DEF AtMost
  <1>4. \A n \in Nat : AtMost(S, n) \subseteq AtMost(S, n + 1)
    BY <1>1 DEF AtMost
  <1>5. ASSUME NEW n \in Nat, NEW s \in AtMost(S, n + 1), s # {}
        PROVE  Pick(s) \in s /\ Pick(s) \in S /\ s \ {Pick(s)} \in AtMost(S, n)
    <2>1. Pick(s) \in s /\ s \in SUBSET S /\ Cardinality(s) <= n + 1 /\ IsFiniteSet(s) /\ Cardinality(s) \in Nat
      BY <1>1, <1>5 DEF Pick, AtMost
    <2>2. Cardinality(s \ {Pick(s)}) = Cardinality(s) - 1
      BY <2>1, FS_RemoveElement
    <2>3. QED
      BY <2>1, <2>2 DEF AtMost
  <1>6. ASSUME NEW n \in Nat, NEW s \in AtMost(S, n), s # {}
        PROVE  s \ {Pick(s)} \in AtMost(S, n)
    BY <1>4, <1>5, <1>6
  <1>7. AtMost(S, Cardinality(S)) = SUBSET S
    BY <1>1 DEF AtMost
  <1>8. QED
    BY <1>2, <1>3, <1>4, <1>5, <1>6, <1>7

\* There is such a function: the fold is well defined.
LEMMA SumsExist ==
    ASSUME NEW S, IsFiniteSet(S), NEW f
    PROVE  Sums(f, S) = [s \in SUBSET S |-> SumStep(f, s, Sums(f, S))]
  <1> DEFINE T == {n \in Nat : \E g : AreSums(g, f, AtMost(S, n))}
  <1>1. 0 \in T
    <2> DEFINE g == [s \in AtMost(S, 0) |-> 0]
    <2>1. \A s \in AtMost(S, 0) : SumStep(f, s, g) = 0
      BY AtMostFacts DEF SumStep
    <2>2. g = [s \in AtMost(S, 0) |-> SumStep(f, s, g)]
      BY <2>1
    <2>3. AreSums(g, f, AtMost(S, 0))
      BY <2>2 DEF AreSums
    <2>4. QED
      BY <2>3
  <1>2. ASSUME NEW n \in Nat, n \in T
        PROVE  n + 1 \in T
    <2>0. PICK g : AreSums(g, f, AtMost(S, n))
      BY <1>2
    <2>1. g = [s \in AtMost(S, n) |-> SumStep(f, s, g)]
      BY <2>0 DEF AreSums
    <2> DEFINE h == [s \in AtMost(S, n + 1) |-> SumStep(f, s, g)]
    <2>2. \A s \in AtMost(S, n) : h[s] = g[s]
      <3>1. \A s \in AtMost(S, n) : g[s] = SumStep(f, s, g)
        BY <2>1
      <3>2. QED
        BY <3>1, AtMostFacts
    <2>3. ASSUME NEW s \in AtMost(S, n + 1)
          PROVE  SumStep(f, s, g) = SumStep(f, s, h)
      <3>1. s # {} => s \ {Pick(s)} \in AtMost(S, n)
        BY AtMostFacts
      <3> HIDE DEF h
      <3>2. QED
        BY <2>2, <3>1 DEF SumStep
    <2>4. h = [s \in AtMost(S, n + 1) |-> SumStep(f, s, h)]
      BY <2>3
    <2>5. AreSums(h, f, AtMost(S, n + 1))
      BY <2>4 DEF AreSums
    <2> HIDE DEF h
    <2>6. QED
      BY <2>5
  <1> HIDE DEF T
  <1>3. Cardinality(S) \in T
    BY <1>1, <1>2, Induction, AtMostFacts
  <1>4. \E g : AreSums(g, f, SUBSET S)
    <2>1. \E g : AreSums(g, f, AtMost(S, Cardinality(S)))
      BY <1>3 DEF T
    <2>2. AtMost(S, Cardinality(S)) = SUBSET S
      BY AtMostFacts
    <2>3. QED
      BY <2>1, <2>2, Zenon
  <1>5. AreSums(Sums(f, S), f, SUBSET S)
    BY <1>4 DEF Sums
  <1>6. QED
    BY <1>5 DEF AreSums

LEMMA SumsAt ==
    ASSUME NEW S, IsFiniteSet(S), NEW f
    PROVE  \A s \in SUBSET S : Sums(f, S)[s] = SumStep(f, s, Sums(f, S))
  BY SumsExist, Zenon

\* The sums of natural numbers are natural numbers, and 0 when all of them are.
LEMMA SumsNat ==
    ASSUME NEW S, IsFiniteSet(S), NEW f \in [S -> Nat]
    PROVE  \A s \in SUBSET S : Sums(f, S)[s] \in Nat /\ ((\A x \in s : f[x] = 0) => Sums(f, S)[s] = 0)
  <1> DEFINE ok(s) == Sums(f, S)[s] \in Nat /\ ((\A x \in s : f[x] = 0) => Sums(f, S)[s] = 0)
  <1> DEFINE T == {n \in Nat : \A s \in AtMost(S, n) : ok(s)}
  <1>0. \A s \in SUBSET S : Sums(f, S)[s] = SumStep(f, s, Sums(f, S))
    BY SumsAt
  <1>9. ok({})
    <2>1. {} \in SUBSET S
      OBVIOUS
    <2>2. Sums(f, S)[{}] = 0
      BY <1>0, <2>1 DEF SumStep
    <2>3. QED
      BY <2>2
  <1>1. 0 \in T
    <2>1. \A s \in AtMost(S, 0) : s = {} /\ s \in SUBSET S
      BY AtMostFacts DEF AtMost
    <2>2. \A s \in AtMost(S, 0) : ok(s)
      BY <2>1, <1>9
    <2>3. QED
      BY <2>2
  <1>2. ASSUME NEW n \in Nat, n \in T
        PROVE  n + 1 \in T
    <2>1. SUFFICES ASSUME NEW s \in AtMost(S, n + 1) PROVE ok(s)
      OBVIOUS
    <2>2. s \in SUBSET S
      BY DEF AtMost
    <2>3. CASE s = {}
      BY <1>9, <2>3
    <2>4. CASE s # {}
      <3>1. PICK x : x = Pick(s) /\ x \in s /\ x \in S /\ s \ {x} \in AtMost(S, n)
        BY <2>4, AtMostFacts
      <3>2. Sums(f, S)[s] = f[x] + Sums(f, S)[s \ {x}]
        BY <1>0, <2>2, <2>4, <3>1 DEF SumStep
      <3>3. ok(s \ {x})
        BY <1>2, <3>1
      <3>4. QED
        BY <3>1, <3>2, <3>3
    <2>5. QED
      BY <2>3, <2>4
  <1>3. Cardinality(S) \in T
    <2> HIDE DEF T
    <2>1. QED
      BY <1>1, <1>2, Induction, AtMostFacts
  <1>4. QED
    BY <1>3, AtMostFacts

\* A function that is changed at u: its sums change by as much.
LEMMA SumsUpdate ==
    ASSUME NEW S, IsFiniteSet(S), NEW f \in [S -> Nat], NEW h \in [S -> Nat], NEW u \in S,
           \A x \in S \ {u} : h[x] = f[x]
    PROVE  \A s \in SUBSET S : Sums(h, S)[s] + (IF u \in s THEN f[u] ELSE 0)
                                 = Sums(f, S)[s] + (IF u \in s THEN h[u] ELSE 0)
  <1> DEFINE ok(s) == Sums(h, S)[s] + (IF u \in s THEN f[u] ELSE 0)
                        = Sums(f, S)[s] + (IF u \in s THEN h[u] ELSE 0)
  <1> DEFINE T == {n \in Nat : \A s \in AtMost(S, n) : ok(s)}
  <1>0. \A s \in SUBSET S : /\ Sums(f, S)[s] = SumStep(f, s, Sums(f, S)) /\ Sums(f, S)[s] \in Nat
                            /\ Sums(h, S)[s] = SumStep(h, s, Sums(h, S)) /\ Sums(h, S)[s] \in Nat
    <2>1. ASSUME NEW s \in SUBSET S, NEW g \in [S -> Nat]
          PROVE  Sums(g, S)[s] = SumStep(g, s, Sums(g, S))
      BY SumsAt
    <2>2. ASSUME NEW s \in SUBSET S, NEW g \in [S -> Nat]
          PROVE  Sums(g, S)[s] \in Nat
      BY SumsNat
    <2>3. QED
      BY <2>1, <2>2
  <1>9. ok({})
    <2>1. {} \in SUBSET S
      OBVIOUS
    <2>2. Sums(f, S)[{}] = 0 /\ Sums(h, S)[{}] = 0
      BY <1>0, <2>1 DEF SumStep
    <2>3. QED
      BY <2>2
  <1>1. 0 \in T
    <2>1. \A s \in AtMost(S, 0) : s = {} /\ s \in SUBSET S
      BY AtMostFacts DEF AtMost
    <2>2. \A s \in AtMost(S, 0) : ok(s)
      BY <2>1, <1>9
    <2>3. QED
      BY <2>2
  <1>2. ASSUME NEW n \in Nat, n \in T
        PROVE  n + 1 \in T
    <2>1. SUFFICES ASSUME NEW s \in AtMost(S, n + 1) PROVE ok(s)
      OBVIOUS
    <2>2. s \in SUBSET S
      BY DEF AtMost
    <2>3. CASE s = {}
      BY <1>9, <2>3
    <2>4. CASE s # {}
      <3>1. PICK x : x = Pick(s) /\ x \in s /\ x \in S /\ s \ {x} \in AtMost(S, n)
        BY <2>4, AtMostFacts
      <3>2. PICK a \in Nat, b \in Nat, c \in Nat, d \in Nat :
               /\ a = f[x] /\ b = Sums(f, S)[s \ {x}] /\ c = h[x] /\ d = Sums(h, S)[s \ {x}]
        BY <1>0, <2>2, <3>1
      <3>3. Sums(f, S)[s] = a + b /\ Sums(h, S)[s] = c + d
        BY <1>0, <2>2, <2>4, <3>1, <3>2 DEF SumStep
      <3>4. ok(s \ {x})
        BY <1>2, <3>1
      <3>5. PICK y \in Nat, z \in Nat : y = f[u] /\ z = h[u]
        OBVIOUS
      <3>6. CASE x = u
        <4>1. u \in s /\ u \notin s \ {x} /\ a = y /\ c = z
          BY <3>1, <3>2, <3>5, <3>6
        <4>2. d = b
          BY <3>2, <3>4, <4>1
        <4>3. QED
          BY <3>3, <3>5, <4>1, <4>2
      <3>7. CASE x # u /\ u \in s
        <4>1. u \in s \ {x} /\ a = c
          BY <3>1, <3>2, <3>7
        <4>2. d + y = b + z
          BY <3>2, <3>4, <3>5, <4>1
        <4>3. QED
          BY <3>3, <3>5, <3>7, <4>1, <4>2
      <3>8. CASE u \notin s
        <4>1. u \notin s \ {x} /\ a = c
          BY <3>1, <3>2, <3>8
        <4>2. d = b
          BY <3>2, <3>4, <4>1
        <4>3. QED
          BY <3>3, <3>8, <4>1, <4>2
      <3>9. QED
        BY <3>6, <3>7, <3>8
    <2>5. QED
      BY <2>3, <2>4
  <1>3. Cardinality(S) \in T
    <2> HIDE DEF T
    <2>1. QED
      BY <1>1, <1>2, Induction, AtMostFacts
  <1>4. QED
    BY <1>3, AtMostFacts

LEMMA SumIsSums ==
    ASSUME NEW f
    PROVE  SumFunction(f) = Sums(f, DOMAIN f)[DOMAIN f]
  BY DEF SumFunction, SumFunctionOnSet, FoldFunctionOnSet, MapThenFoldSet, Sums, AreSums, SumStep, Pick

\* What the proofs use of the sum of a function.
LEMMA SumFunctionFacts ==
    ASSUME NEW S, IsFiniteSet(S), NEW f \in [S -> Nat]
    PROVE  /\ SumFunction(f) \in Nat
           /\ (\A x \in S : f[x] = 0) => SumFunction(f) = 0
           /\ \A h \in [S -> Nat] : \A u \in S :
                (\A x \in S \ {u} : h[x] = f[x]) => SumFunction(h) + f[u] = SumFunction(f) + h[u]
  <1>1. \A h \in [S -> Nat] : SumFunction(h) = Sums(h, S)[S]
    BY SumIsSums
  <1>2. S \in SUBSET S
    OBVIOUS
  <1>3. SumFunction(f) \in Nat /\ ((\A x \in S : f[x] = 0) => SumFunction(f) = 0)
    BY <1>1, <1>2, SumsNat
  <1>4. ASSUME NEW h \in [S -> Nat], NEW u \in S, \A x \in S \ {u} : h[x] = f[x]
        PROVE  SumFunction(h) + f[u] = SumFunction(f) + h[u]
    BY <1>1, <1>2, <1>4, SumsUpdate
  <1>5. QED
    BY <1>3, <1>4
=============================================================================
