------------------------------ MODULE Summation ------------------------------
(***************************************************************************)
(* Folds and sums over finite sets and sequences, for the proofs about the *)
(* components that add something up or collect it in a loop.  The          *)
(* library's induction theorems take an operator and cannot be cited here; *)
(* its least-element theorem takes a set, and induction over numbers and   *)
(* over finite sets follows from it.                                       *)
(***************************************************************************)
EXTENDS Integers, Sequences, FiniteSets, Functions, SequencesExt, FiniteSetsExt,
        FiniteSetTheorems, WellFoundedInduction, TLAPS

\* A non-empty set of naturals has a least element.
LEMMA LeastNumber ==
  ASSUME NEW T, T \subseteq Nat, T # {}
  PROVE \E n \in T : \A m \in T : n <= m
<1>1. \E x \in T : \A y \in T : ~ (<<y, x>> \in OpToRel(<, Nat))
  BY NatLessThanWellFounded, WFMin
<1>2. PICK x \in T : \A y \in T : ~ (<<y, x>> \in OpToRel(<, Nat))
  BY <1>1
<1>3. \A y \in T : ~(y < x)
  BY <1>2 DEF OpToRel
<1>4. QED
  BY <1>3

\* A set of naturals that holds zero and is closed under successor holds them all.
LEMMA EveryNumber ==
  ASSUME NEW T, T \subseteq Nat, 0 \in T, \A n \in T : n + 1 \in T
  PROVE  T = Nat
<1>1. SUFFICES ASSUME Nat \ T # {} PROVE FALSE
  OBVIOUS
<1>2. PICK n \in Nat \ T : \A m \in Nat \ T : n <= m
  <2>1. Nat \ T \subseteq Nat
    OBVIOUS
  <2>2. QED
  BY <2>1, <1>1, LeastNumber
<1>3. n # 0 /\ n - 1 \in Nat
  BY <1>2
<1>4. n - 1 \in T
  BY <1>2, <1>3
<1>5. n \in T
  BY <1>4, <1>3
<1>6. QED
  BY <1>5

\* Induction over the subsets of a finite set.
LEMMA FiniteInduction ==
  ASSUME NEW S, IsFiniteSet(S), NEW F, {} \in F,
         \A T \in F : \A x \in S \ T : T \cup {x} \in F
  PROVE  S \in F
<1> DEFINE N == {n \in Nat : \A T \in SUBSET S : Cardinality(T) = n => T \in F}
<1>1. \A T \in SUBSET S : IsFiniteSet(T) /\ Cardinality(T) \in Nat /\ (Cardinality(T) = 0 <=> T = {})
  BY FS_Subset, FS_EmptySet, FS_CardinalityType
<1>2. 0 \in N
  BY <1>1
<1>3. ASSUME NEW n \in N PROVE n + 1 \in N
  <2>1. n \in Nat /\ n + 1 \in Nat
    OBVIOUS
  <2>2. ASSUME NEW T \in SUBSET S, Cardinality(T) = n + 1 PROVE T \in F
    <3>1. PICK x \in T : TRUE
      BY <1>1, <2>1, <2>2
    <3>2. Cardinality(T \ {x}) = n
      BY <1>1, <2>1, <2>2, <3>1, FS_RemoveElement
    <3>3. T \ {x} \in F
      BY <3>2
    <3>4. (T \ {x}) \cup {x} = T /\ x \in S \ (T \ {x})
      BY <3>1
    <3>5. QED
      BY <3>3, <3>4
  <2>3. QED
    BY <2>1, <2>2
<1> HIDE DEF N
<1>4. N = Nat
  <2>1. N \subseteq Nat
    BY DEF N
  <2>2. QED
    BY <1>2, <1>3, <2>1, EveryNumber
<1>5. QED
  BY <1>1, <1>4 DEF N

\* A choice of an element of every part of a set; what a fold that takes these first keeps.
Chooses(S, c) == \A s \in SUBSET S : s # {} => c[s] \in s
Keeps(S, c, F) == \A T \in SUBSET S : (T = {} \/ T \ {c[T]} \in F) => T \in F

\* A fold takes the element c[s] of the set s first: its recursion, with the base
\* and the step it folds with.
FoldsBy(S, base, h, c, g) ==
  \A s \in SUBSET S : g[s] = IF s = {} THEN base ELSE h[<<c[s], g[s \ {c[s]}]>>]

\* The recursion a fold unfolds has a solution on every finite set.
LEMMA FoldByExists ==
  ASSUME NEW S, IsFiniteSet(S), NEW V, NEW base \in V, NEW h \in [S \X V -> V],
         NEW c, Chooses(S, c)
  PROVE  \E g \in [SUBSET S -> V] : FoldsBy(S, base, h, c, g)
<1> DEFINE Step(g, s) == IF s = {} THEN base ELSE h[<<c[s], g[s \ {c[s]}]>>]
           Upto(n) == {g \in [SUBSET S -> V] :
                         \A s \in SUBSET S : Cardinality(s) <= n => g[s] = Step(g, s)}
           T == {n \in Nat : Upto(n) # {}}
<1>0. \A s \in SUBSET S : s # {} => c[s] \in s
  BY DEF Chooses
<1>1. \A s \in SUBSET S : IsFiniteSet(s) /\ Cardinality(s) \in Nat /\ (Cardinality(s) = 0 <=> s = {})
  BY FS_Subset, FS_EmptySet, FS_CardinalityType
<1>2. \A s \in SUBSET S : s # {} => s \ {c[s]} \in SUBSET S /\ Cardinality(s \ {c[s]}) = Cardinality(s) - 1
  BY <1>0, <1>1, FS_RemoveElement
<1>3. 0 \in T
  <2>1. [s \in SUBSET S |-> base] \in Upto(0)
    BY <1>1
  <2>2. QED
    BY <2>1
<1>4. ASSUME NEW n \in T PROVE n + 1 \in T
  <2>1. PICK g \in [SUBSET S -> V] : \A s \in SUBSET S : Cardinality(s) <= n => g[s] = Step(g, s)
    OBVIOUS
  <2> DEFINE k == [s \in SUBSET S |-> Step(g, s)]
  <2>2. k \in [SUBSET S -> V]
    BY <1>0, <1>2
  <2>3. ASSUME NEW s \in SUBSET S, Cardinality(s) <= n + 1
        PROVE  k[s] = Step(k, s)
    <3>1. CASE s = {}
      BY <3>1
    <3>2. CASE s # {}
      <4> DEFINE t == s \ {c[s]}
      <4>1. t \in SUBSET S /\ Cardinality(t) <= n
        BY <1>1, <1>2, <2>3, <3>2
      <4>2. g[t] = Step(g, t)
        BY <4>1, <2>1
      <4>3. k[t] = g[t]
        BY <4>1, <4>2
      <4>4. QED
        BY <4>3, <3>2
    <3>3. QED
      BY <3>1, <3>2
  <2> HIDE DEF k
  <2>4. k \in Upto(n + 1)
    BY <2>2, <2>3
  <2>5. n \in Nat /\ n + 1 \in Nat
    OBVIOUS
  <2> HIDE DEF Upto
  <2>6. QED
    BY <2>4, <2>5
<1> HIDE DEF T
<1>5. T = Nat
  <2>1. T \subseteq Nat
    BY DEF T
  <2>2. QED
    BY <1>3, <1>4, <2>1, EveryNumber
<1>6. PICK g \in [SUBSET S -> V] : \A s \in SUBSET S : Cardinality(s) <= Cardinality(S) => g[s] = Step(g, s)
  <2>1. Cardinality(S) \in T
    BY <1>1, <1>5
  <2>2. Upto(Cardinality(S)) # {}
    BY <2>1 DEF T
  <2>3. QED
    BY <2>2
<1>7. \A s \in SUBSET S : Cardinality(s) <= Cardinality(S)
  BY FS_Subset
<1>8. QED
  BY <1>6, <1>7 DEF FoldsBy

\* What the base has and each step keeps, a fold has, whatever it takes first.
LEMMA FoldByInduction ==
  ASSUME NEW S, IsFiniteSet(S), NEW F, NEW c, Chooses(S, c), Keeps(S, c, F)
  PROVE  \A T \in SUBSET S : T \in F
<1> DEFINE N == {n \in Nat : \A T \in SUBSET S : Cardinality(T) = n => T \in F}
<1>1. \A T \in SUBSET S : IsFiniteSet(T) /\ Cardinality(T) \in Nat /\ (Cardinality(T) = 0 <=> T = {})
  BY FS_Subset, FS_EmptySet, FS_CardinalityType
<1>2. 0 \in N
  BY <1>1 DEF Keeps
<1>3. ASSUME NEW n \in N PROVE n + 1 \in N
  <2>1. n \in Nat /\ n + 1 \in Nat
    OBVIOUS
  <2>2. ASSUME NEW T \in SUBSET S, Cardinality(T) = n + 1 PROVE T \in F
    <3>1. T # {}
      BY <1>1, <2>1, <2>2
    <3>2. c[T] \in T
      BY <3>1 DEF Chooses
    <3>3. Cardinality(T \ {c[T]}) = n /\ T \ {c[T]} \in SUBSET S
      BY <1>1, <2>1, <2>2, <3>2, FS_RemoveElement
    <3>4. T \ {c[T]} \in F
      BY <3>3
    <3>5. QED
      BY <3>4 DEF Keeps
  <2>3. QED
    BY <2>1, <2>2
<1> HIDE DEF N
<1>4. N = Nat
  <2>1. N \subseteq Nat
    BY DEF N
  <2>2. QED
    BY <1>2, <1>3, <2>1, EveryNumber
<1>5. QED
  BY <1>1, <1>4 DEF N

\* The element that stands for a set, taken first where nothing else is said.
Chosen(s) == CHOOSE x \in s : TRUE

FoldsTo(S, base, h, g) ==
  \A s \in SUBSET S : g[s] = IF s = {} THEN base ELSE h[<<Chosen(s), g[s \ {Chosen(s)}]>>]

\* The same of the fold over a set.
LEMMA FoldExists ==
  ASSUME NEW S, IsFiniteSet(S), NEW V, NEW base \in V, NEW h \in [S \X V -> V]
  PROVE  \E g \in [SUBSET S -> V] : FoldsTo(S, base, h, g)
<1> DEFINE c == [s \in SUBSET S |-> Chosen(s)]
<1>1. \A s \in SUBSET S : c[s] = Chosen(s)
  OBVIOUS
<1>2. Chooses(S, c)
  BY DEF Chosen, Chooses
<1> HIDE DEF c
<1>3. PICK g \in [SUBSET S -> V] : FoldsBy(S, base, h, c, g)
  BY <1>1, <1>2, FoldByExists
<1>4. QED
  BY <1>1, <1>3 DEF FoldsBy, FoldsTo

Total(f, S) == MapThenSumSet(LAMBDA x : f[x], S)
Sums(f, S, g) ==
  \A s \in SUBSET S :
    g[s] = IF s = {} THEN 0
           ELSE f[Chosen(s)] + g[s \ {Chosen(s)}]

\* So has the recursion a sum unfolds.
LEMMA SumsExist ==
  ASSUME NEW S, IsFiniteSet(S), NEW f, \A x \in S : f[x] \in Int
  PROVE  \E g \in [SUBSET S -> Int] : Sums(f, S, g)
<1> DEFINE h == [p \in S \X Int |-> f[p[1]] + p[2]]
<1>1. h \in [S \X Int -> Int]
  OBVIOUS
<1>2. PICK g \in [SUBSET S -> Int] : FoldsTo(S, 0, h, g)
  <2> HIDE DEF h
  <2>1. 0 \in Int
    OBVIOUS
  <2>2. QED
    BY <1>1, <2>1, FoldExists, Zenon
<1>3. ASSUME NEW s \in SUBSET S, s # {}
      PROVE  g[s] = f[Chosen(s)] + g[s \ {Chosen(s)}]
  <2>1. Chosen(s) \in S
    BY <1>3 DEF Chosen
  <2>2. g[s \ {Chosen(s)}] \in Int
    OBVIOUS
  <2>3. QED
    BY <1>2, <1>3, <2>1, <2>2 DEF FoldsTo
<1>4. QED
  BY <1>2, <1>3 DEF Sums, FoldsTo

\* A solution of the sum's recursion does not depend on the order of its addends.
LEMMA SumsFacts ==
  ASSUME NEW S, IsFiniteSet(S), NEW f, \A x \in S : f[x] \in Int, NEW g, Sums(f, S, g)
  PROVE  /\ g[{}] = 0
         /\ \A s \in SUBSET S : g[s] \in Int
         /\ \A s \in SUBSET S : \A x \in s : g[s] = f[x] + g[s \ {x}]
<1> DEFINE Good(s) == g[s] \in Int /\ \A x \in s : g[s] = f[x] + g[s \ {x}]
           T == {n \in Nat : \A s \in SUBSET S : Cardinality(s) <= n => Good(s)}
<1>0. \A s \in SUBSET S : s # {} => Chosen(s) \in s /\ g[s] = f[Chosen(s)] + g[s \ {Chosen(s)}]
  BY DEF Sums, Chosen
<1>1. g[{}] = 0
  BY DEF Sums
<1>2. \A s \in SUBSET S : IsFiniteSet(s) /\ Cardinality(s) \in Nat /\ (Cardinality(s) = 0 <=> s = {})
  BY FS_Subset, FS_EmptySet, FS_CardinalityType
<1>3. \A s \in SUBSET S : \A x \in s : s \ {x} \in SUBSET S /\ Cardinality(s \ {x}) = Cardinality(s) - 1
  BY <1>2, FS_RemoveElement
<1>4. 0 \in T
  BY <1>1, <1>2
<1>5. ASSUME NEW n \in T PROVE n + 1 \in T
  <2>1. n \in Nat /\ n + 1 \in Nat
    OBVIOUS
  <2>2. ASSUME NEW s \in SUBSET S, Cardinality(s) <= n + 1, s # {} PROVE Good(s)
    <3>1. Chosen(s) \in s /\ g[s] = f[Chosen(s)] + g[s \ {Chosen(s)}]
      BY <1>0, <2>2
    <3>2. \A x \in s : Cardinality(s \ {x}) <= n /\ s \ {x} \in SUBSET S
      BY <1>2, <1>3, <2>1, <2>2
    <3>3. \A x \in s : Good(s \ {x})
      BY <3>2
    <3>4. g[s] \in Int
      <4>1. f[Chosen(s)] \in Int
        BY <3>1
      <4>2. g[s \ {Chosen(s)}] \in Int
        BY <3>1, <3>3
      <4>3. QED
        BY <3>1, <4>1, <4>2
    <3>5. ASSUME NEW x \in s, x # Chosen(s) PROVE g[s] = f[x] + g[s \ {x}]
      <4>1. x \in s \ {Chosen(s)} /\ Chosen(s) \in s \ {x}
        BY <3>1, <3>5
      <4>2. g[s \ {Chosen(s)}] = f[x] + g[(s \ {Chosen(s)}) \ {x}]
        BY <3>1, <3>3, <4>1
      <4>3. g[s \ {x}] = f[Chosen(s)] + g[(s \ {x}) \ {Chosen(s)}]
        BY <3>3, <4>1
      <4>4. (s \ {x}) \ {Chosen(s)} = (s \ {Chosen(s)}) \ {x} /\ (s \ {x}) \ {Chosen(s)} \in SUBSET S
        OBVIOUS
      <4>5. Good((s \ {x}) \ {Chosen(s)})
        <5>1. Cardinality((s \ {x}) \ {Chosen(s)}) = Cardinality(s \ {x}) - 1
          BY <1>3, <4>1, <3>2
        <5>2. Cardinality((s \ {x}) \ {Chosen(s)}) <= n
          BY <5>1, <3>2, <1>2, <2>1
        <5>3. QED
          BY <5>2, <4>4
      <4>6. f[x] \in Int /\ f[Chosen(s)] \in Int
        BY <3>1
      <4> DEFINE t == (s \ {x}) \ {Chosen(s)}
      <4>7. g[s] = f[Chosen(s)] + (f[x] + g[t]) /\ g[s \ {x}] = f[Chosen(s)] + g[t] /\ g[t] \in Int
        BY <3>1, <4>2, <4>3, <4>4, <4>5
      <4> HIDE DEF t
      <4>8. QED
        BY <4>6, <4>7
    <3>6. QED
      BY <3>1, <3>4, <3>5
  <2>3. ASSUME NEW s \in SUBSET S, Cardinality(s) <= n + 1 PROVE Good(s)
    <3>1. CASE s = {}
      BY <1>1, <3>1
    <3>2. QED
      BY <2>2, <2>3, <3>1
  <2>4. QED
    BY <2>1, <2>3
<1> HIDE DEF T
<1>6. T = Nat
  <2>1. T \subseteq Nat
    BY DEF T
  <2>2. QED
    BY <1>4, <1>5, <2>1, EveryNumber
<1>7. ASSUME NEW s \in SUBSET S PROVE Good(s)
  BY <1>2, <1>6 DEF T
<1>8. QED
  BY <1>1, <1>7

\* The sums over a set are unique.
LEMMA SumsAgree ==
  ASSUME NEW S, IsFiniteSet(S), NEW f, \A x \in S : f[x] \in Int,
         NEW g, Sums(f, S, g), NEW h, Sums(f, S, h)
  PROVE  g[S] = h[S]
<1> DEFINE F == {T \in SUBSET S : g[T] = h[T]}
<1>1. {} \in F
  BY SumsFacts
<1>2. ASSUME NEW T \in F, NEW x \in S \ T PROVE T \cup {x} \in F
  <2>1. T \cup {x} \in SUBSET S /\ (T \cup {x}) \ {x} = T
    OBVIOUS
  <2>2. g[T \cup {x}] = f[x] + g[T] /\ h[T \cup {x}] = f[x] + h[T]
    BY <2>1, SumsFacts
  <2>3. QED
    BY <2>1, <2>2
<1> HIDE DEF F
<1>3. S \in F
  BY <1>1, <1>2, FiniteInduction
<1>4. QED
  BY <1>3 DEF F

\* The total of the community modules' fold is such a solution.
LEMMA TotalSums ==
  ASSUME NEW S, IsFiniteSet(S), NEW f, \A x \in S : f[x] \in Int
  PROVE  \E g \in [SUBSET S -> Int] : Sums(f, S, g) /\ Total(f, S) = g[S]
<1> DEFINE B(g) == [s \in SUBSET S |-> IF s = {} THEN 0
                  ELSE f[Chosen(s)] + g[s \ {Chosen(s)}]]
           g == CHOOSE it : it = B(it)
<1>1. Total(f, S) = g[S]
  BY DEF Total, MapThenSumSet, MapThenFoldSet, Chosen
<1>2. PICK k \in [SUBSET S -> Int] : Sums(f, S, k)
  BY SumsExist
<1>3. k = B(k)
  BY <1>2 DEF Sums
<1>4. g = B(g)
  BY <1>3
<1> HIDE DEF g
<1>5. Sums(f, S, g)
  BY <1>4 DEF Sums
<1>6. g \in [SUBSET S -> Int]
  BY <1>4, <1>5, SumsFacts
<1>7. QED
  BY <1>1, <1>5, <1>6

\* Two functions that agree on a set have the same sums over its subsets.
LEMMA TotalSame ==
  ASSUME NEW S, IsFiniteSet(S), NEW f, NEW k, \A x \in S : f[x] \in Int /\ k[x] = f[x]
  PROVE  Total(k, S) = Total(f, S)
<1>1. PICK g \in [SUBSET S -> Int] : Sums(f, S, g) /\ Total(f, S) = g[S]
  BY TotalSums
<1>2. PICK h \in [SUBSET S -> Int] : Sums(k, S, h) /\ Total(k, S) = h[S]
  BY TotalSums
<1>3. Sums(f, S, h)
  BY <1>2 DEF Sums, Chosen
<1>4. QED
  BY <1>1, <1>2, <1>3, SumsAgree

\* Nothing sums to zero.
LEMMA TotalEmpty ==
  ASSUME NEW f
  PROVE  Total(f, {}) = 0
<1>1. IsFiniteSet({})
  BY FS_EmptySet
<1>2. PICK g \in [SUBSET {} -> Int] : Sums(f, {}, g) /\ Total(f, {}) = g[{}]
  BY <1>1, TotalSums
<1>3. QED
  BY <1>2 DEF Sums

\* A finite sum of integers is an integer.
LEMMA TotalInt ==
  ASSUME NEW S, IsFiniteSet(S), NEW f, \A x \in S : f[x] \in Int
  PROVE  Total(f, S) \in Int
<1>1. PICK g \in [SUBSET S -> Int] : Sums(f, S, g) /\ Total(f, S) = g[S]
  BY TotalSums
<1>2. QED
  BY <1>1

\* Taking an element out of a sum.
LEMMA TotalRemove ==
  ASSUME NEW S, IsFiniteSet(S), NEW f, \A x \in S : f[x] \in Int, NEW x \in S
  PROVE  Total(f, S) = f[x] + Total(f, S \ {x})
<1> DEFINE T == S \ {x}
<1>1. PICK g \in [SUBSET S -> Int] : Sums(f, S, g) /\ Total(f, S) = g[S]
  BY TotalSums
<1>2. IsFiniteSet(T)
  BY FS_RemoveElement
<1>3. PICK h \in [SUBSET T -> Int] : Sums(f, T, h) /\ Total(f, T) = h[T]
  BY <1>2, TotalSums
<1>4. Sums(f, T, g)
  BY <1>1 DEF Sums
<1>5. g[T] = h[T]
  <2> HIDE DEF T
  <2>1. \A y \in T : f[y] \in Int
    BY DEF T
  <2>2. QED
    BY <1>2, <1>3, <1>4, <2>1, SumsAgree
<1>6. g[S] = f[x] + g[T]
  BY <1>1, SumsFacts
<1>7. QED
  BY <1>1, <1>3, <1>5, <1>6

\* One more addend adds its value.
LEMMA TotalAdd ==
  ASSUME NEW S, IsFiniteSet(S), NEW x, x \notin S, NEW f, \A y \in S \cup {x} : f[y] \in Int
  PROVE  Total(f, S \cup {x}) = f[x] + Total(f, S)
<1>1. IsFiniteSet(S \cup {x}) /\ (S \cup {x}) \ {x} = S
  BY FS_AddElement
<1>2. QED
  BY <1>1, TotalRemove

\* A sum over part of a set, when nothing is negative.
LEMMA TotalPart ==
  ASSUME NEW S, IsFiniteSet(S), NEW f, \A x \in S : f[x] \in Nat, NEW T \in SUBSET S
  PROVE  Total(f, T) <= Total(f, S)
<1> DEFINE F == {U \in SUBSET S : Total(f, T) <= Total(f, T \cup U)}
<1>1. \A U \in SUBSET S : IsFiniteSet(T \cup U) /\ Total(f, T \cup U) \in Int
  <2>1. ASSUME NEW U \in SUBSET S PROVE IsFiniteSet(T \cup U) /\ \A x \in T \cup U : f[x] \in Int
    BY FS_Subset
  <2>2. QED
    BY <2>1, TotalInt
<1>2. T \cup {} = T /\ {} \in SUBSET S
  OBVIOUS
<1>3. {} \in F
  <2>1. Total(f, T) \in Int /\ Total(f, T \cup {}) = Total(f, T)
    BY <1>1, <1>2
  <2>2. QED
    BY <1>2, <2>1
<1>4. ASSUME NEW U \in F, NEW x \in S \ U PROVE U \cup {x} \in F
  <2>1. CASE x \in T
    <3>1. T \cup (U \cup {x}) = T \cup U
      BY <2>1
    <3>2. QED
      BY <3>1
  <2>2. CASE x \notin T
    <3>1. T \cup (U \cup {x}) = (T \cup U) \cup {x} /\ x \notin T \cup U
      BY <2>2
    <3>2. Total(f, (T \cup U) \cup {x}) = f[x] + Total(f, T \cup U)
      <4>1. \A y \in (T \cup U) \cup {x} : f[y] \in Int
        OBVIOUS
      <4>2. QED
        BY <1>1, <3>1, <4>1, TotalAdd
    <3>3. f[x] \in Nat /\ Total(f, T) \in Int /\ Total(f, T \cup U) \in Int
      BY <1>1, <1>2
    <3>4. QED
      BY <3>1, <3>2, <3>3
  <2>3. QED
    BY <2>1, <2>2
<1> HIDE DEF F
<1>5. S \in F
  BY <1>3, <1>4, FiniteInduction
<1>6. T \cup S = S
  OBVIOUS
<1>7. QED
  BY <1>5, <1>6 DEF F

\* A sum of ones counts.
LEMMA TotalOnes ==
  ASSUME NEW S, IsFiniteSet(S), NEW f, \A x \in S : f[x] = 1
  PROVE  Total(f, S) = Cardinality(S)
<1> DEFINE F == {U \in SUBSET S : Total(f, U) = Cardinality(U)}
<1>1. {} \in F
  BY TotalEmpty, FS_EmptySet
<1>2. ASSUME NEW U \in F, NEW x \in S \ U PROVE U \cup {x} \in F
  <2>1. IsFiniteSet(U)
    BY FS_Subset
  <2>2. Cardinality(U \cup {x}) = Cardinality(U) + 1 /\ Cardinality(U) \in Nat
    BY <2>1, FS_AddElement, FS_CardinalityType
  <2>3. Total(f, U \cup {x}) = f[x] + Total(f, U)
    <3>1. \A y \in U \cup {x} : f[y] \in Int
      OBVIOUS
    <3>2. QED
      BY <2>1, <3>1, TotalAdd
  <2>4. QED
    BY <2>2, <2>3
<1> HIDE DEF F
<1>3. S \in F
  BY <1>1, <1>2, FiniteInduction
<1>4. QED
  BY <1>3 DEF F

\* A sum over the image of an injection.
LEMMA TotalImage ==
  ASSUME NEW S, IsFiniteSet(S), NEW e, \A x, y \in S : e[x] = e[y] => x = y,
         NEW f, NEW k, \A x \in S : f[e[x]] \in Int /\ k[x] = f[e[x]]
  PROVE  Total(f, {e[x] : x \in S}) = Total(k, S)
<1> DEFINE Image(U) == {e[x] : x \in U}
           F == {U \in SUBSET S : IsFiniteSet(Image(U)) /\ Total(f, Image(U)) = Total(k, U)}
<1>1. {} \in F
  <2>1. Image({}) = {}
    OBVIOUS
  <2>2. QED
    BY <2>1, TotalEmpty, FS_EmptySet
<1>2. ASSUME NEW U \in F, NEW x \in S \ U PROVE U \cup {x} \in F
  <2>1. IsFiniteSet(U)
    BY FS_Subset
  <2>2. Image(U \cup {x}) = Image(U) \cup {e[x]} /\ e[x] \notin Image(U)
    OBVIOUS
  <2>3. Total(k, U \cup {x}) = k[x] + Total(k, U)
    <3>1. \A y \in U \cup {x} : k[y] \in Int
      OBVIOUS
    <3>2. QED
      BY <2>1, <3>1, TotalAdd
  <2>4. Total(f, Image(U) \cup {e[x]}) = f[e[x]] + Total(f, Image(U))
    <3>1. \A y \in Image(U) \cup {e[x]} : f[y] \in Int
      OBVIOUS
    <3>2. IsFiniteSet(Image(U))
      OBVIOUS
    <3> HIDE DEF Image
    <3>3. QED
      BY <2>2, <3>1, <3>2, TotalAdd
  <2>5. IsFiniteSet(Image(U) \cup {e[x]})
    BY FS_AddElement
  <2>6. QED
    BY <2>2, <2>3, <2>4, <2>5
<1> HIDE DEF F
<1>3. S \in F
  BY <1>1, <1>2, FiniteInduction
<1>4. QED
  BY <1>3 DEF F

\* The image of a finite set is finite.
LEMMA FiniteImage ==
  ASSUME NEW S, IsFiniteSet(S), NEW e
  PROVE  IsFiniteSet({e[x] : x \in S})
<1> DEFINE Image(U) == {e[x] : x \in U}
           F == {U \in SUBSET S : IsFiniteSet(Image(U))}
<1>1. {} \in F
  <2>1. Image({}) = {}
    OBVIOUS
  <2>2. QED
    BY <2>1, FS_EmptySet
<1>2. ASSUME NEW U \in F, NEW x \in S \ U PROVE U \cup {x} \in F
  <2>1. Image(U \cup {x}) = Image(U) \cup {e[x]}
    OBVIOUS
  <2>2. IsFiniteSet(Image(U))
    OBVIOUS
  <2> HIDE DEF Image
  <2>3. IsFiniteSet(Image(U) \cup {e[x]})
    BY <2>2, FS_AddElement
  <2>4. IsFiniteSet(Image(U \cup {x})) /\ U \cup {x} \in SUBSET S
    BY <2>1, <2>3
  <2>5. QED
    BY <2>4
<1> HIDE DEF F
<1>3. S \in F
  BY <1>1, <1>2, FiniteInduction
<1>4. QED
  BY <1>3 DEF F

\* Whatever adds up as the total does is the total.
LEMMA SumIsTotal ==
  ASSUME NEW S, IsFiniteSet(S), NEW f, \A x \in S : f[x] \in Int, NEW g, Sums(f, S, g)
  PROVE  g[S] = Total(f, S)
<1>1. PICK h \in [SUBSET S -> Int] : Sums(f, S, h) /\ Total(f, S) = h[S]
  BY TotalSums
<1>2. QED
  BY <1>1, SumsAgree

\* The same of the fold over a set.
LEMMA FoldInduction ==
  ASSUME NEW S, IsFiniteSet(S), NEW F,
         \A T \in SUBSET S : (T = {} \/ T \ {Chosen(T)} \in F) => T \in F
  PROVE  \A T \in SUBSET S : T \in F
<1> DEFINE c == [s \in SUBSET S |-> Chosen(s)]
<1>1. Chooses(S, c) /\ Keeps(S, c, F)
  BY DEF Chosen, Chooses, Keeps
<1> HIDE DEF c
<1>2. QED
  BY <1>1, FoldByInduction

\* A sum over two sets that share nothing.
LEMMA TotalUnion ==
  ASSUME NEW S, IsFiniteSet(S), NEW T, IsFiniteSet(T), S \cap T = {},
         NEW f, \A x \in S \cup T : f[x] \in Int
  PROVE  Total(f, S \cup T) = Total(f, S) + Total(f, T)
<1> DEFINE F == {U \in SUBSET T : Total(f, S \cup U) = Total(f, S) + Total(f, U)}
<1>1. Total(f, S) \in Int
  BY TotalInt
<1>2. {} \in F
  <2>1. S \cup {} = S
    OBVIOUS
  <2>2. QED
    BY <1>1, <2>1, TotalEmpty
<1>3. ASSUME NEW U \in F, NEW x \in T \ U PROVE U \cup {x} \in F
  <2>1. IsFiniteSet(U) /\ IsFiniteSet(S \cup U)
    BY FS_Subset, FS_Union
  <2>2. Total(f, U \cup {x}) = f[x] + Total(f, U)
    <3>1. \A y \in U \cup {x} : f[y] \in Int
      OBVIOUS
    <3>2. QED
      BY <2>1, <3>1, TotalAdd
  <2>3. Total(f, (S \cup U) \cup {x}) = f[x] + Total(f, S \cup U)
    <3>1. \A y \in (S \cup U) \cup {x} : f[y] \in Int
      OBVIOUS
    <3>2. x \notin S \cup U
      OBVIOUS
    <3>3. QED
      BY <2>1, <3>1, <3>2, TotalAdd
  <2>4. Total(f, U) \in Int /\ f[x] \in Int
    BY <2>1, TotalInt
  <2> DEFINE V == U \cup {x}
             W == S \cup V
  <2>5. W = (S \cup U) \cup {x} /\ V \in SUBSET T
    OBVIOUS
  <2>6. Total(f, S \cup U) = Total(f, S) + Total(f, U)
    OBVIOUS
  <2>7. Total(f, V) = f[x] + Total(f, U)
    BY <2>2
  <2> HIDE DEF V
  <2>8. Total(f, W) = Total(f, S) + Total(f, V)
    <3> HIDE DEF W
    <3>1. Total(f, W) = f[x] + Total(f, S \cup U)
      BY <2>3, <2>5
    <3>2. QED
      BY <1>1, <2>4, <2>6, <2>7, <3>1
  <2>9. V \in F
    BY <2>5, <2>8
  <2>10. QED
    BY <2>9 DEF V
<1> HIDE DEF F
<1>4. T \in F
  BY <1>2, <1>3, FiniteInduction
<1>5. QED
  BY <1>4 DEF F

\* The sums over the parts of a set make up the sum over it.
LEMMA TotalParts ==
  ASSUME NEW S, IsFiniteSet(S), NEW f, \A x \in S : f[x] \in Int,
         NEW C, IsFiniteSet(C), NEW p, \A c \in C : p[c] \subseteq S,
         \A c, d \in C : c # d => p[c] \cap p[d] = {},
         NEW v, \A c \in C : v[c] = Total(f, p[c])
  PROVE  Total(v, C) = Total(f, UNION {p[c] : c \in C})
<1> DEFINE All(U) == UNION {p[c] : c \in U}
           F == {U \in SUBSET C : Total(v, U) = Total(f, All(U))}
<1>1. All({}) = {} /\ \A U \in SUBSET C : All(U) \subseteq S
  OBVIOUS
<1>2. {} \in F
  BY <1>1, TotalEmpty
<1>3. ASSUME NEW U \in F, NEW x \in C \ U PROVE U \cup {x} \in F
  <2>1. All(U \cup {x}) = All(U) \cup p[x] /\ All(U) \cap p[x] = {}
    OBVIOUS
  <2>2. All(U) \subseteq S /\ p[x] \subseteq S /\ U \subseteq C
    BY <1>1
  <2>3. IsFiniteSet(All(U)) /\ IsFiniteSet(p[x]) /\ IsFiniteSet(U)
    BY <2>2, FS_Subset
  <2>4. Total(v, U) = Total(f, All(U))
    OBVIOUS
  <2> HIDE DEF F, All
  <2>5. Total(f, All(U) \cup p[x]) = Total(f, All(U)) + Total(f, p[x])
    <3>1. \A y \in All(U) \cup p[x] : f[y] \in Int
      BY <2>2
    <3>2. QED
      BY <2>1, <2>3, <3>1, TotalUnion
  <2>6. \A c \in U \cup {x} : v[c] \in Int
    <3>1. ASSUME NEW c \in C PROVE Total(f, p[c]) \in Int
      <4>1. IsFiniteSet(p[c]) /\ \A y \in p[c] : f[y] \in Int
        BY FS_Subset
      <4>2. QED
        BY <4>1, TotalInt
    <3>2. QED
      BY <2>2, <3>1
  <2>7. Total(v, U \cup {x}) = v[x] + Total(v, U)
    BY <2>3, <2>6, TotalAdd
  <2>8. Total(v, U) \in Int
    BY <2>3, <2>6, TotalInt
  <2>9. v[x] \in Int /\ v[x] = Total(f, p[x])
    BY <2>6
  <2> DEFINE W == U \cup {x}
             a == All(U)
             b == p[x]
             ab == All(W)
  <2>10. ab = a \cup b
    BY <2>1
  <2>11. Total(f, ab) = Total(f, a) + Total(f, b)
    <3> HIDE DEF a, b, ab
    <3>1. QED
      BY <2>5, <2>10 DEF a, b
  <2>12. Total(v, W) = Total(f, ab)
    <3> HIDE DEF ab
    <3>1. QED
      BY <2>4, <2>7, <2>8, <2>9, <2>11
  <2>13. W \in F
    BY <2>2, <2>12 DEF F
  <2>14. QED
    BY <2>13
<1> HIDE DEF F
<1>4. C \in F
  BY <1>2, <1>3, FiniteInduction
<1>5. QED
  BY <1>4 DEF F

\* The greatest of some numbers up to a bound is one of them.
LEMMA GreatestOf ==
  ASSUME NEW n \in Nat, NEW s \in SUBSET (0 .. n), s # {}
  PROVE  Max(s) \in s /\ \A y \in s : y <= Max(s)
<1> DEFINE T == {n - x : x \in s}
<1>0. \A x \in s : x \in Int /\ n - x \in Nat /\ n - x \in T
  OBVIOUS
<1>1. T \subseteq Nat /\ T # {}
  <2> HIDE DEF T
  <2>1. T # {}
    BY <1>0
  <2>2. T \subseteq Nat
    BY <1>0 DEF T
  <2>3. QED
    BY <2>1, <2>2
<1>2. PICK m \in T : \A k \in T : m <= k
  BY <1>1, LeastNumber
<1>3. PICK x \in s : m = n - x
  OBVIOUS
<1>4. \A y \in s : x >= y
  <2> SUFFICES ASSUME NEW y \in s PROVE x >= y
    OBVIOUS
  <2>1. m <= n - y
    BY <1>0, <1>2
  <2>2. x \in Int /\ y \in Int
    BY <1>0
  <2>3. QED
    BY <1>3, <2>1, <2>2
<1>5. Max(s) \in s /\ \A y \in s : Max(s) >= y
  BY <1>4 DEF Max
<1>6. QED
  BY <1>0, <1>5

\* The greatest of some indices is one of them.
LEMMA GreatestIndex ==
  ASSUME NEW n \in Nat, NEW s \in SUBSET (1 .. n), s # {}
  PROVE  Max(s) \in s
<1>1. s \in SUBSET (0 .. n)
  OBVIOUS
<1>2. QED
  BY <1>1, GreatestOf

\* The equation of a fold from left to right, as the library unfolds it.
FoldsLeft(n, base, h, g) ==
  g = [s \in SUBSET (1 .. n) |-> IF s = {} THEN base ELSE h[<<Max(s), g[s \ {Max(s)}]>>]]

\* It has a solution.
LEMMA FoldLeftExists ==
  ASSUME NEW n \in Nat, NEW V, NEW base \in V, NEW h \in [(1 .. n) \X V -> V]
  PROVE  \E g \in [SUBSET (1 .. n) -> V] : FoldsLeft(n, base, h, g)
<1> DEFINE S == 1 .. n
           c == [s \in SUBSET S |-> Max(s)]
<1>1. \A s \in SUBSET S : c[s] = Max(s)
  OBVIOUS
<1>2. Chooses(S, c)
  BY <1>1, GreatestIndex DEF Chooses
<1>3. IsFiniteSet(S)
  BY FS_Interval
<1>4. h \in [S \X V -> V]
  OBVIOUS
<1> HIDE DEF c, S
<1>5. PICK g \in [SUBSET S -> V] : FoldsBy(S, base, h, c, g)
  BY <1>2, <1>3, <1>4, FoldByExists
<1>6. g = [s \in SUBSET S |-> IF s = {} THEN base ELSE h[<<Max(s), g[s \ {Max(s)}]>>]]
  BY <1>1, <1>5 DEF FoldsBy
<1>7. QED
  BY <1>6 DEF FoldsLeft, S

\* What the base has and each step keeps, it has.
LEMMA FoldLeftInduction ==
  ASSUME NEW n \in Nat, NEW F,
         \A s \in SUBSET (1 .. n) : (s = {} \/ (Max(s) \in s /\ s \ {Max(s)} \in F)) => s \in F
  PROVE  1 .. n \in F
<1> DEFINE S == 1 .. n
           c == [s \in SUBSET S |-> Max(s)]
<1>1. \A s \in SUBSET S : c[s] = Max(s)
  OBVIOUS
<1>2. Chooses(S, c)
  BY <1>1, GreatestIndex DEF Chooses
<1>3. IsFiniteSet(S)
  BY FS_Interval
<1>4. Keeps(S, c, F)
  BY <1>1, <1>2 DEF Chooses, Keeps
<1> HIDE DEF c
<1>5. \A s \in SUBSET S : s \in F
  <2> HIDE DEF S
  <2>1. QED
    BY <1>2, <1>3, <1>4, FoldByInduction
<1>6. QED
  BY <1>5

\* The set of a finite set's elements, as a sequence: each of them once.
LEMMA InARow ==
  ASSUME NEW S, IsFiniteSet(S)
  PROVE  LET r == SetToSeq(S)
         IN  /\ r \in [1 .. Cardinality(S) -> S] /\ Cardinality(S) \in Nat
             /\ \A a, b \in DOMAIN r : r[a] = r[b] => a = b
             /\ \A e \in S : \E i \in 1 .. Cardinality(S) : r[i] = e
<1> DEFINE n == Cardinality(S)
           r == SetToSeq(S)
<1>1. n \in Nat /\ ExistsBijection(1 .. n, S)
  BY FS_CardinalityType
<1>2. PICK f : f \in [1 .. n -> S] /\ IsInjective(f)
  BY <1>1 DEF ExistsBijection, Bijection, Injection
<1>3. r \in [1 .. n -> S] /\ IsInjective(r)
  BY <1>2 DEF SetToSeq
<1>4. r \in Injection(1 .. n, S)
  BY <1>3 DEF Injection
<1>5. Cardinality(1 .. n) = n
  BY <1>1, FS_Interval
<1> HIDE DEF n, r
<1>6. r \in Surjection(1 .. n, S)
  <2>1. Cardinality(1 .. n) = Cardinality(S) <=> r \in Surjection(1 .. n, S)
    BY <1>4, FS_Injection
  <2>2. QED
    BY <1>5, <2>1 DEF n
<1>7. QED
  BY <1>1, <1>3, <1>6 DEF IsInjective, Surjection, n, r

==============================================================================
