------------------------------ MODULE Induction ------------------------------
(***************************************************************************)
(* Induction over naturals and finite sets, stated with sets in the place  *)
(* of predicates, and what follows from it: recursive functions are        *)
(* defined, finite orders have maximal elements.  No code is modelled      *)
(* here; the proofs about the other modules cite these lemmas.             *)
(***************************************************************************)
EXTENDS FiniteSetTheorems, WellFoundedInduction, TLAPS

\* Every non-empty set of naturals has a least element.
LEMMA LeastNat ==
  ASSUME NEW S \in SUBSET Nat, S # {}
  PROVE  \E m \in S : \A k \in S : m <= k
<1> DEFINE less == {p \in Nat \X Nat : p[1] < p[2]}
<1>1. IsWellFoundedOn(less, Nat)
  <2>1. OpToRel(<, Nat) = less
    BY DEF OpToRel
  <2> QED  BY <2>1, NatLessThanWellFounded
<1> HIDE DEF less
<1>2. PICK m \in S : \A k \in S : ~ (<<k, m>> \in less)
  BY <1>1, WFMin
<1>3. \A k \in S : ~ (k < m)
  BY <1>2 DEF less
<1>4. \A k \in S : m <= k
  BY <1>3
<1> QED  BY <1>4

\* A set of naturals with 0 and the successor of each of its members is Nat.
LEMMA NatInduct ==
  ASSUME NEW S, 0 \in S, \A n \in Nat : n \in S => n + 1 \in S
  PROVE  \A n \in Nat : n \in S
<1> SUFFICES ASSUME NEW n \in Nat, n \notin S  PROVE FALSE
  OBVIOUS
<1> DEFINE rest == {k \in Nat : k \notin S}
<1>1. PICK m \in rest : \A k \in rest : m <= k
  <2>1. rest \in SUBSET Nat /\ rest # {}
    OBVIOUS
  <2> HIDE DEF rest
  <2> QED  BY <2>1, LeastNat
<1>2. m # 0 /\ m \in Nat /\ m \notin S
  BY <1>1
<1>3. m - 1 \in Nat /\ m - 1 \notin rest
  BY <1>1, <1>2
<1>4. (m - 1) + 1 \in S
  BY <1>3
<1> QED  BY <1>2, <1>4

\* Every non-empty set of naturals with a bound has a greatest element.
LEMMA GreatestNat ==
  ASSUME NEW S \in SUBSET Nat, S # {}, NEW b \in Nat, \A k \in S : k <= b
  PROVE  \E m \in S : \A k \in S : k <= m
<1> DEFINE T == {b - k : k \in S}
<1>1. T \in SUBSET Nat /\ T # {}
  <2>1. \A k \in S : b - k \in Nat
    OBVIOUS
  <2> QED  BY <2>1
<1>2. PICK d \in T : \A k \in T : d <= k
  <2> HIDE DEF T
  <2> QED  BY <1>1, LeastNat
<1>3. PICK m \in S : d = b - m
  OBVIOUS
<1>4. \A k \in S : k <= m
  <2> SUFFICES ASSUME NEW k \in S  PROVE k <= m
    OBVIOUS
  <2>1. b - m <= b - k
    BY <1>2, <1>3
  <2> QED  BY <2>1
<1> QED  BY <1>4

\* A collection of sets with the empty set, and with each set it has also that
\* set and any one element more, has every finite set.
LEMMA FiniteInduct ==
  ASSUME NEW S, IsFiniteSet(S), NEW F, {} \in F,
         \A T \in SUBSET S, x \in S : T \in F /\ x \notin T => T \cup {x} \in F
  PROVE  S \in F
<1> DEFINE N == {n \in Nat : \A T \in SUBSET S : Cardinality(T) = n => T \in F}
<1>1. \A T \in SUBSET S : IsFiniteSet(T) /\ Cardinality(T) \in Nat
  BY FS_Subset, FS_CardinalityType
<1>2. 0 \in N
  BY <1>1, FS_EmptySet
<1>3. ASSUME NEW n \in Nat, n \in N  PROVE n + 1 \in N
  <2> SUFFICES ASSUME NEW T \in SUBSET S, Cardinality(T) = n + 1
               PROVE  T \in F
    OBVIOUS
  <2>1. T # {}
    <3>1. IsFiniteSet(T) /\ n + 1 # 0
      BY <1>1
    <3> QED  BY <3>1, FS_EmptySet
  <2>2. PICK x \in T : TRUE
    BY <2>1
  <2>3. T \ {x} \in SUBSET S /\ Cardinality(T \ {x}) = n
    <3>1. IsFiniteSet(T)
      BY <1>1
    <3>2. Cardinality(T \ {x}) = Cardinality(T) - 1
      BY <3>1, FS_RemoveElement
    <3> QED  BY <3>2
  <2>4. T \ {x} \in F
    BY <1>3, <2>3
  <2>5. (T \ {x}) \cup {x} \in F
    BY <2>3, <2>4
  <2>6. (T \ {x}) \cup {x} = T
    OBVIOUS
  <2> QED  BY <2>5, <2>6
<1> HIDE DEF N
<1>4. \A n \in Nat : n \in N
  BY <1>2, <1>3, NatInduct
<1>5. Cardinality(S) \in N
  BY <1>1, <1>4
<1> QED  BY <1>5 DEF N

\* A function of naturals on a finite set has a bound.
LEMMA FiniteBound ==
  ASSUME NEW S, IsFiniteSet(S), NEW f \in [S -> Nat]
  PROVE  \E b \in Nat : \A x \in S : f[x] <= b
<1> DEFINE F == {T \in SUBSET S : \E b \in Nat : \A x \in T : f[x] <= b}
<1>1. {} \in F
  OBVIOUS
<1>2. ASSUME NEW T \in SUBSET S, NEW x \in S, T \in F
      PROVE  T \cup {x} \in F
  <2>1. PICK b \in Nat : \A y \in T : f[y] <= b
    BY <1>2
  <2>2. CASE f[x] <= b
    BY <2>1, <2>2
  <2>3. CASE ~ (f[x] <= b)
    <3>1. \A y \in T \cup {x} : f[y] <= f[x]
      BY <2>1, <2>3
    <3> QED  BY <3>1
  <2> QED  BY <2>2, <2>3
<1> HIDE DEF F
<1>3. S \in F
  BY <1>1, <1>2, FiniteInduct
<1> QED  BY <1>3 DEF F

\* A strict order has a maximal element in every non-empty part of a finite set.
LEMMA FiniteMaximal ==
  ASSUME NEW S, IsFiniteSet(S), NEW R,
         \A x \in S : <<x, x>> \notin R,
         \A x, y, z \in S : <<x, y>> \in R /\ <<y, z>> \in R => <<x, z>> \in R
  PROVE  \A T \in SUBSET S : T # {} => \E x \in T : \A y \in T : <<x, y>> \notin R
<1> DEFINE Top(T) == \E x \in T : \A y \in T : <<x, y>> \notin R
<1> DEFINE F == {U \in SUBSET S : \A T \in SUBSET U : T # {} => Top(T)}
<1>1. {} \in F
  OBVIOUS
<1>2. ASSUME NEW U \in SUBSET S, NEW u \in S, U \in F
      PROVE  U \cup {u} \in F
  <2> SUFFICES ASSUME NEW T \in SUBSET (U \cup {u}), T # {}  PROVE Top(T)
    OBVIOUS
  <2>1. CASE u \notin T
    BY <1>2, <2>1
  <2>2. CASE T = {u}
    BY <2>2
  <2>3. CASE u \in T /\ T # {u}
    <3>1. T \ {u} \in SUBSET U /\ T \ {u} # {}
      BY <2>3
    <3>2. Top(T \ {u})
      BY <1>2, <3>1
    <3>3. PICK x \in T \ {u} : \A y \in T \ {u} : <<x, y>> \notin R
      BY <3>2
    <3>4. CASE <<x, u>> \notin R
      BY <3>3, <3>4
    <3>5. CASE <<x, u>> \in R
      <4>1. \A y \in T : <<u, y>> \notin R
        <5> SUFFICES ASSUME NEW y \in T, <<u, y>> \in R  PROVE FALSE
          OBVIOUS
        <5>1. x \in S /\ y \in S
          OBVIOUS
        <5>2. y # u
          OBVIOUS
        <5>3. <<x, y>> \in R
          BY <3>5, <5>1
        <5> QED  BY <3>3, <5>2, <5>3
      <4> QED  BY <2>3, <4>1
    <3> QED  BY <3>4, <3>5
  <2> QED  BY <2>1, <2>2, <2>3
<1> HIDE DEF F
<1>3. S \in F
  BY <1>1, <1>2, FiniteInduct
<1> QED  BY <1>3 DEF F

----------------------------------------------------------------------------
(* Recursive functions *)

\* The values f of a recursive function on 0..n that starts at a and goes from
\* each value to the next by step.
Chain(f, n, a, step) ==
  f[0] = a /\ \A i \in 1..n : f[i] = step[i][f[i - 1]]

\* Every step function has its chain of values.
LEMMA ChainExists ==
  ASSUME NEW n \in Nat, NEW R, NEW a \in R, NEW step,
         \A i \in 1..n : \A r \in R : step[i][r] \in R
  PROVE  \E f : /\ DOMAIN f = 0..n /\ \A i \in 0..n : f[i] \in R
                /\ f = [i \in 0..n |-> f[i]]
                /\ Chain(f, n, a, step)
<1> DEFINE Good(f, m) ==
             /\ f \in [0..m -> R]
             /\ f[0] = a /\ \A i \in 1..m : f[i] = step[i][f[i - 1]]
           N == {m \in Nat : m <= n => \E f : Good(f, m)}
<1>1. 0 \in N
  <2> DEFINE f == [i \in 0..0 |-> a]
  <2>1. Good(f, 0)
    OBVIOUS
  <2> QED  BY <2>1
<1>2. ASSUME NEW m \in Nat, m \in N  PROVE m + 1 \in N
  <2> SUFFICES ASSUME m + 1 <= n  PROVE \E f : Good(f, m + 1)
    OBVIOUS
  <2>1. PICK f : Good(f, m)
    BY <1>2
  <2>2. f \in [0..m -> R] /\ f[0] = a
        /\ \A i \in 1..m : f[i] = step[i][f[i - 1]]
    BY <2>1
  <2>3. f[m] \in R /\ m + 1 \in 1..n
    BY <2>2
  <2> DEFINE r == step[m + 1][f[m]]
             g == [i \in 0..(m + 1) |-> IF i = m + 1 THEN r ELSE f[i]]
  <2>4. r \in R
    BY <2>3
  <2>5. \A i \in 0..(m + 1) : i = m + 1 \/ i \in 0..m
    OBVIOUS
  <2> HIDE DEF r
  <2>6. g \in [0..(m + 1) -> R]
    BY <2>2, <2>4, <2>5
  <2>7. g[0] = a
    BY <2>2
  <2>8. \A i \in 1..(m + 1) : g[i] = step[i][g[i - 1]]
    <3> SUFFICES ASSUME NEW i \in 1..(m + 1)
                 PROVE  g[i] = step[i][g[i - 1]]
      OBVIOUS
    <3>1. i - 1 \in 0..(m + 1) /\ i - 1 # m + 1 /\ i \in 0..(m + 1)
      OBVIOUS
    <3>2. g[i - 1] = f[i - 1]
      BY <3>1
    <3>3. CASE i = m + 1
      <4>1. g[i] = r /\ i - 1 = m
        BY <3>1, <3>3
      <4> QED  BY <3>2, <3>3, <4>1 DEF r
    <3>4. CASE i # m + 1
      <4>1. i \in 1..m /\ g[i] = f[i]
        BY <3>1, <3>4
      <4> QED  BY <2>2, <3>2, <4>1
    <3> QED  BY <3>3, <3>4
  <2>9. Good(g, m + 1)
    BY <2>6, <2>7, <2>8
  <2> QED  BY <2>9
<1> HIDE DEF N
<1>3. n \in N
  BY <1>1, <1>2, NatInduct
<1>4. PICK f : Good(f, n)
  BY <1>3 DEF N
<1> QED  BY <1>4 DEF Chain

----------------------------------------------------------------------------
(* Sums over finite sets, as the folds of the community modules build them *)

\* The recursion of FoldSet, adding up G.
Summing(F, G, E) ==
  F = [s \in SUBSET E |->
         IF s = {} THEN 0
         ELSE F[s \ {CHOOSE x \in s : TRUE}] + G[CHOOSE x \in s : TRUE]]

LEMMA SummingStep ==
  ASSUME NEW E, NEW G, NEW F, Summing(F, G, E), NEW s \in SUBSET E
  PROVE  /\ s = {} => F[s] = 0
         /\ s # {} => \E x \in s : /\ x = CHOOSE y \in s : TRUE
                                   /\ F[s] = F[s \ {x}] + G[x]
<1>1. F[s] = IF s = {} THEN 0
             ELSE F[s \ {CHOOSE x \in s : TRUE}] + G[CHOOSE x \in s : TRUE]
  BY DEF Summing
<1> QED  BY <1>1

\* Induction over the subsets of a finite set by the number of their elements.
LEMMA SubsetInduct ==
  ASSUME NEW E, IsFiniteSet(E), NEW P,
         \A s \in SUBSET E :
           (\A t \in SUBSET s : t # s => t \in P) => s \in P
  PROVE  \A s \in SUBSET E : s \in P
<1> DEFINE N == {n \in Nat : \A s \in SUBSET E : Cardinality(s) <= n => s \in P}
<1>1. \A s \in SUBSET E : IsFiniteSet(s) /\ Cardinality(s) \in Nat
  BY FS_Subset, FS_CardinalityType
<1>2. ASSUME NEW s \in SUBSET E, NEW t \in SUBSET s, t # s
      PROVE  Cardinality(t) < Cardinality(s)
  <2>1. IsFiniteSet(s)
    BY <1>1
  <2>2. Cardinality(t) <= Cardinality(s)
        /\ (Cardinality(s) = Cardinality(t) => s = t)
    BY <2>1, FS_Subset
  <2>3. t \in SUBSET E
    OBVIOUS
  <2> QED  BY <1>1, <1>2, <2>2, <2>3
<1>3. 0 \in N
  <2> SUFFICES ASSUME NEW s \in SUBSET E, Cardinality(s) <= 0  PROVE s \in P
    OBVIOUS
  <2>1. \A t \in SUBSET s : t = s
    <3> SUFFICES ASSUME NEW t \in SUBSET s, t # s  PROVE FALSE
      OBVIOUS
    <3>1. Cardinality(t) < Cardinality(s)
      BY <1>2
    <3>2. Cardinality(t) \in Nat /\ Cardinality(s) \in Nat
      BY <1>1
    <3> QED  BY <3>1, <3>2
  <2> QED  BY <2>1
<1>4. ASSUME NEW n \in Nat, n \in N  PROVE n + 1 \in N
  <2> SUFFICES ASSUME NEW s \in SUBSET E, Cardinality(s) <= n + 1
               PROVE  s \in P
    OBVIOUS
  <2>1. ASSUME NEW t \in SUBSET s, t # s  PROVE t \in P
    <3>1. Cardinality(t) < Cardinality(s)
      BY <1>2, <2>1
    <3>2. t \in SUBSET E /\ Cardinality(t) \in Nat /\ Cardinality(s) \in Nat
      BY <1>1
    <3>3. Cardinality(t) <= n
      BY <3>1, <3>2
    <3> QED  BY <1>4, <3>2, <3>3
  <2> QED  BY <2>1
<1> HIDE DEF N
<1>5. \A n \in Nat : n \in N
  BY <1>3, <1>4, NatInduct
<1> QED
  <2> SUFFICES ASSUME NEW s \in SUBSET E  PROVE s \in P
    OBVIOUS
  <2>1. Cardinality(s) \in N
    BY <1>1, <1>5
  <2>2. Cardinality(s) <= Cardinality(s)
    BY <1>1
  <2> QED  BY <2>1, <2>2 DEF N

\* Sums are integers.
LEMMA SumType ==
  ASSUME NEW E, IsFiniteSet(E), NEW G, \A x \in E : G[x] \in Int,
         NEW F, Summing(F, G, E)
  PROVE  \A s \in SUBSET E : F[s] \in Int
<1> DEFINE P == {s \in SUBSET E : F[s] \in Int}
<1>1. ASSUME NEW s \in SUBSET E, \A t \in SUBSET s : t # s => t \in P
      PROVE  s \in P
  <2>1. CASE s = {}
    BY <2>1, SummingStep
  <2>2. CASE s # {}
    <3>1. PICK x \in s : F[s] = F[s \ {x}] + G[x]
      BY <2>2, SummingStep
    <3>2. s \ {x} \in P
      BY <1>1
    <3> QED  BY <3>1, <3>2
  <2> QED  BY <2>1, <2>2
<1> HIDE DEF P
<1>2. \A s \in SUBSET E : s \in P
  BY <1>1, SubsetInduct
<1> QED  BY <1>2 DEF P

\* A sum depends on what is added alone.
LEMMA SumUnique ==
  ASSUME NEW D, NEW E, IsFiniteSet(E), NEW G, NEW H,
         \A x \in E : G[x] = H[x],
         NEW F1, Summing(F1, G, D), NEW F2, Summing(F2, H, E),
         E \subseteq D
  PROVE  \A s \in SUBSET E : F1[s] = F2[s]
<1> DEFINE P == {s \in SUBSET E : F1[s] = F2[s]}
<1>1. ASSUME NEW s \in SUBSET E, \A t \in SUBSET s : t # s => t \in P
      PROVE  s \in P
  <2>0. s \in SUBSET D
    OBVIOUS
  <2>1. CASE s = {}
    BY <2>0, <2>1, SummingStep
  <2>2. CASE s # {}
    <3>1. PICK x \in s : /\ x = CHOOSE y \in s : TRUE
                         /\ F1[s] = F1[s \ {x}] + G[x]
      BY <2>0, <2>2, SummingStep
    <3>2. F2[s] = F2[s \ {x}] + H[x]
      <4>1. PICK z \in s : /\ z = CHOOSE y \in s : TRUE
                           /\ F2[s] = F2[s \ {z}] + H[z]
        BY <2>2, SummingStep
      <4> QED  BY <3>1, <4>1
    <3>3. s \ {x} \in P
      BY <1>1
    <3> QED  BY <3>1, <3>2, <3>3
  <2> QED  BY <2>1, <2>2
<1> HIDE DEF P
<1>2. \A s \in SUBSET E : s \in P
  BY <1>1, SubsetInduct
<1> QED  BY <1>2 DEF P

\* The recursion of FoldSet has a solution on every finite set.
LEMMA SumExists ==
  ASSUME NEW E, IsFiniteSet(E), NEW G
  PROVE  \E F : Summing(F, G, E)
<1> DEFINE Small(n) == {s \in SUBSET E : Cardinality(s) <= n}
           Body(F, s) == IF s = {} THEN 0
                         ELSE F[s \ {CHOOSE x \in s : TRUE}]
                              + G[CHOOSE x \in s : TRUE]
           N == {n \in Nat : \E F : F = [s \in Small(n) |-> Body(F, s)]}
<1>1. \A s \in SUBSET E : IsFiniteSet(s) /\ Cardinality(s) \in Nat
  BY FS_Subset, FS_CardinalityType
<1>2. ASSUME NEW s \in SUBSET E, s # {}
      PROVE  /\ s \ {CHOOSE x \in s : TRUE} \in SUBSET E
             /\ Cardinality(s \ {CHOOSE x \in s : TRUE}) = Cardinality(s) - 1
  <2>1. (CHOOSE x \in s : TRUE) \in s
    BY <1>2
  <2>2. IsFiniteSet(s)
    BY <1>1
  <2> DEFINE c == CHOOSE x \in s : TRUE
  <2> HIDE DEF c
  <2>3. c \in s
    BY <2>1 DEF c
  <2>4. Cardinality(s \ {c}) = Cardinality(s) - 1
    BY <2>2, <2>3, FS_RemoveElement
  <2> QED  BY <2>4 DEF c
<1>3. 0 \in N
  <2> DEFINE F == [s \in Small(0) |-> 0]
  <2>1. \A s \in Small(0) : s = {}
    BY <1>1, FS_EmptySet
  <2>2. F = [s \in Small(0) |-> Body(F, s)]
    BY <2>1
  <2> QED  BY <2>2
<1>4. ASSUME NEW n \in Nat, n \in N  PROVE n + 1 \in N
  <2>1. PICK F : F = [s \in Small(n) |-> Body(F, s)]
    BY <1>4
  <2> DEFINE H == [s \in Small(n + 1) |-> Body(F, s)]
  <2>2. \A s \in Small(n) : s \in Small(n + 1) /\ H[s] = F[s]
    <3>1. ASSUME NEW s \in Small(n)
          PROVE  s \in Small(n + 1) /\ F[s] = Body(F, s)
      <4>1. F[s] = Body(F, s)
        <5> HIDE DEF Body, Small
        <5> QED  BY <2>1
      <4>2. s \in SUBSET E /\ Cardinality(s) <= n
        OBVIOUS
      <4>3. Cardinality(s) <= n + 1
        BY <1>1, <4>2
      <4> QED  BY <4>1, <4>2, <4>3
    <3> HIDE DEF Body, Small
    <3> QED  BY <3>1
  <2>3. \A s \in Small(n + 1) : s # {} =>
          s \ {CHOOSE x \in s : TRUE} \in Small(n)
    <3> SUFFICES ASSUME NEW s \in Small(n + 1), s # {}
                 PROVE  s \ {CHOOSE x \in s : TRUE} \in Small(n)
      OBVIOUS
    <3>1. s \in SUBSET E /\ Cardinality(s) <= n + 1 /\ Cardinality(s) \in Nat
      BY <1>1
    <3>2. /\ s \ {CHOOSE x \in s : TRUE} \in SUBSET E
          /\ Cardinality(s \ {CHOOSE x \in s : TRUE}) = Cardinality(s) - 1
      BY <1>2, <3>1
    <3>3. Cardinality(s) - 1 <= n
      BY <3>1
    <3> QED  BY <3>2, <3>3
  <2>4. \A s \in Small(n + 1) : Body(H, s) = Body(F, s)
    <3> SUFFICES ASSUME NEW s \in Small(n + 1)  PROVE Body(H, s) = Body(F, s)
      OBVIOUS
    <3>1. s # {} => H[s \ {CHOOSE x \in s : TRUE}] =
                    F[s \ {CHOOSE x \in s : TRUE}]
      <4> HIDE DEF H, Small
      <4> QED  BY <2>2, <2>3
    <3> HIDE DEF H, Small
    <3> QED  BY <3>1
  <2>5. H = [s \in Small(n + 1) |-> Body(H, s)]
    <3> HIDE DEF Body, Small
    <3> QED  BY <2>4
  <2>6. \E J : J = [s \in Small(n + 1) |-> Body(J, s)]
    <3> HIDE DEF Body, Small, H
    <3> QED  BY <2>5
  <2> HIDE DEF Body, Small
  <2> QED  BY <2>6
<1>5. Cardinality(E) \in N
  <2> HIDE DEF N
  <2>1. \A n \in Nat : n \in N
    BY <1>3, <1>4, NatInduct
  <2> QED  BY <1>1, <2>1
<1>6. Small(Cardinality(E)) = SUBSET E
  BY FS_Subset, <1>1
<1>7. PICK F : F = [s \in Small(Cardinality(E)) |-> Body(F, s)]
  BY <1>5
<1>8. F = [s \in SUBSET E |-> Body(F, s)]
  <2> HIDE DEF Small, Body
  <2> QED  BY <1>6, <1>7
<1> QED  BY <1>8 DEF Summing

\* F adds up G element by element, in whatever order they are taken.
AddsUp(F, G, E) == \A s \in SUBSET E : \A x \in s : F[s] = F[s \ {x}] + G[x]

\* The order in which FoldSet takes the elements does not matter.
LEMMA SumAdds ==
  ASSUME NEW E, IsFiniteSet(E), NEW G, \A x \in E : G[x] \in Int,
         NEW F, Summing(F, G, E)
  PROVE  AddsUp(F, G, E)
<1> DEFINE P == {s \in SUBSET E : \A x \in s : F[s] = F[s \ {x}] + G[x]}
<1>1. ASSUME NEW s \in SUBSET E, \A t \in SUBSET s : t # s => t \in P
      PROVE  s \in P
  <2> SUFFICES ASSUME NEW x \in s  PROVE F[s] = F[s \ {x}] + G[x]
    OBVIOUS
  <2>1. PICK c \in s : F[s] = F[s \ {c}] + G[c]
    BY SummingStep
  <2>2. CASE c = x
    BY <2>1, <2>2
  <2>3. CASE c # x
    <3>1. s \ {c} \in P /\ s \ {x} \in P
      BY <1>1
    <3>2. F[s \ {c}] = F[(s \ {c}) \ {x}] + G[x]
      BY <2>3, <3>1
    <3>3. F[s \ {x}] = F[(s \ {x}) \ {c}] + G[c]
      BY <2>3, <3>1
    <3>4. (s \ {c}) \ {x} = (s \ {x}) \ {c}
      OBVIOUS
    <3>5. F[(s \ {c}) \ {x}] \in Int /\ G[x] \in Int /\ G[c] \in Int
      BY SumType
    <3> DEFINE a == F[(s \ {c}) \ {x}]
    <3>6. F[s] = (a + G[x]) + G[c]
      BY <2>1, <3>2
    <3>7. F[s \ {x}] = a + G[c]
      BY <3>3, <3>4
    <3> HIDE DEF a
    <3>8. (a + G[x]) + G[c] = (a + G[c]) + G[x]
      BY <3>5 DEF a
    <3> QED  BY <3>6, <3>7, <3>8
  <2> QED  BY <2>2, <2>3
<1> HIDE DEF P
<1>2. \A s \in SUBSET E : s \in P
  BY <1>1, SubsetInduct
<1> QED  BY <1>2 DEF P, AddsUp

----------------------------------------------------------------------------
(* Finite sets in the order of a relation *)

\* q lists the elements of S in the order R.
Lists(q, S, R) ==
  /\ q \in [1..Cardinality(S) -> S]
  /\ \A x \in S : \E i \in DOMAIN q : q[i] = x
  /\ \A i, j \in DOMAIN q : <<q[i], q[j]>> \in R <=> i < j

\* Every strict total order on a finite set lists it.
LEMMA ListExists ==
  ASSUME NEW S, IsFiniteSet(S), NEW R,
         \A x \in S : <<x, x>> \notin R,
         \A x, y, z \in S : <<x, y>> \in R /\ <<y, z>> \in R => <<x, z>> \in R,
         \A x, y \in S : x # y => <<x, y>> \in R \/ <<y, x>> \in R
  PROVE  \E q : Lists(q, S, R)
<1> DEFINE P == {T \in SUBSET S : \E q : Lists(q, T, R)}
<1>0. \A T \in SUBSET S : T # {} => \E x \in T : \A y \in T : <<x, y>> \notin R
  BY FiniteMaximal
<1>1. ASSUME NEW T \in SUBSET S, \A U \in SUBSET T : U # T => U \in P
      PROVE  T \in P
  <2>1. IsFiniteSet(T) /\ Cardinality(T) \in Nat
    BY FS_Subset, FS_CardinalityType
  <2>2. CASE T = {}
    <3>1. Cardinality(T) = 0
      BY <2>2, FS_EmptySet
    <3>2. Lists([i \in 1..0 |-> 0], T, R)
      BY <2>2, <3>1 DEF Lists
    <3> QED  BY <3>2
  <2>3. CASE T # {}
    <3>1. PICK x \in T : \A y \in T : <<x, y>> \notin R
      BY <1>0, <2>3
    <3>2. T \ {x} \in P
      BY <1>1
    <3>3. PICK q : Lists(q, T \ {x}, R)
      BY <3>2
    <3> DEFINE n == Cardinality(T)
               r == [i \in 1..n |-> IF i = n THEN x ELSE q[i]]
    <3>4. n \in Nat /\ Cardinality(T \ {x}) = n - 1 /\ n - 1 \in Nat
      BY <2>1, FS_RemoveElement, FS_Subset, FS_CardinalityType
    <3> HIDE DEF n
    <3>5. /\ q \in [1..(n - 1) -> T \ {x}]
          /\ \A y \in T \ {x} : \E i \in DOMAIN q : q[i] = y
          /\ \A i, j \in DOMAIN q : <<q[i], q[j]>> \in R <=> i < j
      BY <3>3, <3>4 DEF Lists
    <3>6. \A i \in 1..n : i = n \/ i \in 1..(n - 1)
      BY <3>4
    <3>7. /\ r \in [1..n -> T] /\ r[n] = x
          /\ \A i \in 1..(n - 1) : r[i] = q[i] /\ q[i] \in T /\ q[i] # x /\ i < n
      BY <3>4, <3>5, <3>6
    <3> HIDE DEF r
    <3>8. \A y \in T : \E i \in DOMAIN r : r[i] = y
      <4> SUFFICES ASSUME NEW y \in T  PROVE \E i \in DOMAIN r : r[i] = y
        OBVIOUS
      <4>1. CASE y = x
        <5>1. n \in 1..n
          <6>1. n # 0
            BY <2>1, <2>3, FS_EmptySet DEF n
          <6> QED  BY <3>4, <6>1
        <5> QED  BY <3>7, <4>1, <5>1
      <4>2. CASE y # x
        <5>1. PICK i \in 1..(n - 1) : q[i] = y
          BY <3>5, <4>2
        <5>2. i \in 1..n
          BY <3>4
        <5> QED  BY <3>7, <5>1, <5>2
      <4> QED  BY <4>1, <4>2
    <3>9. \A i, j \in DOMAIN r : <<r[i], r[j]>> \in R <=> i < j
      <4> SUFFICES ASSUME NEW i \in 1..n, NEW j \in 1..n
                   PROVE  <<r[i], r[j]>> \in R <=> i < j
        BY <3>7
      <4>1. CASE i = n
        <5>1. <<r[i], r[j]>> \notin R
          BY <3>1, <3>7, <4>1
        <5> QED  BY <3>4, <4>1, <5>1
      <4>2. CASE i # n /\ j = n
        <5>1. r[i] \in T /\ r[i] # x /\ r[j] = x /\ i < j
          BY <3>4, <3>6, <3>7, <4>2
        <5>2. <<x, r[i]>> \notin R /\ r[i] \in S /\ x \in S
          BY <3>1, <5>1
        <5>3. <<r[i], x>> \in R
          BY <5>1, <5>2
        <5> QED  BY <5>1, <5>3
      <4>3. CASE i # n /\ j # n
        BY <3>5, <3>6, <3>7, <4>3
      <4> QED  BY <4>1, <4>2, <4>3
    <3>10. Lists(r, T, R)
      BY <3>7, <3>8, <3>9 DEF Lists, n
    <3> QED  BY <3>10
  <2> QED  BY <2>2, <2>3
<1> HIDE DEF P
<1>2. \A T \in SUBSET S : T \in P
  BY <1>1, SubsetInduct
<1>3. S \in P
  BY <1>2
<1> QED  BY <1>3 DEF P

\* q takes each element of S once.
Enumerates(q, n, S) ==
  /\ q \in [1..n -> S]
  /\ \A x \in S : \E i \in 1..n : q[i] = x
  /\ \A i, j \in 1..n : i < j => q[i] # q[j]

\* A set has as many elements as a list of them.
LEMMA EnumeratedSize ==
  ASSUME NEW S, NEW n \in Nat, NEW q, Enumerates(q, n, S)
  PROVE  IsFiniteSet(S) /\ Cardinality(S) = n
<1>0. /\ q \in [1..n -> S]
      /\ \A x \in S : \E i \in 1..n : q[i] = x
      /\ \A i, j \in 1..n : i < j => q[i] # q[j]
  BY DEF Enumerates
<1>1. \A i, j \in 1..n : q[i] = q[j] => i = j
  <2> SUFFICES ASSUME NEW i \in 1..n, NEW j \in 1..n, q[i] = q[j]
               PROVE  i = j
    OBVIOUS
  <2>1. ~ (i < j) /\ ~ (j < i)
    BY <1>0
  <2> QED  BY <2>1
<1>2. q \in Bijection(1..n, S)
  BY <1>0, <1>1 DEF Bijection, Injection, Surjection, IsInjective
<1>3. ExistsBijection(1..n, S)
  BY <1>2 DEF ExistsBijection
<1>4. IsFiniteSet(1..n) /\ Cardinality(1..n) = n
  BY FS_Interval
<1> QED  BY <1>3, <1>4, FS_Bijection

\* q lists n elements, all of S, in the order R.
InSequence(q, n, S, R) ==
  /\ q \in [1..n -> S]
  /\ \A x \in S : \E i \in 1..n : q[i] = x
  /\ \A i, j \in 1..n : <<q[i], q[j]>> \in R <=> i < j

\* The element with i - 1 elements below it is the i-th of the list.
Ranked(q, n, S, below) ==
  /\ Cardinality(S) = n
  /\ \A i \in 1..n : \A x \in S : Cardinality(below[x]) = i - 1 <=> x = q[i]

LEMMA ListRanks ==
  ASSUME NEW S, NEW R, NEW n \in Nat, NEW q, InSequence(q, n, S, R),
         NEW below, \A x \in S : below[x] = {y \in S : <<y, x>> \in R}
  PROVE  Ranked(q, n, S, below)
<1>0. /\ q \in [1..n -> S]
      /\ \A x \in S : \E i \in 1..n : q[i] = x
      /\ \A i, j \in 1..n : <<q[i], q[j]>> \in R <=> i < j
  BY DEF InSequence
<1>1. \A i, j \in 1..n : i < j => q[i] # q[j]
  <2> SUFFICES ASSUME NEW i \in 1..n, NEW j \in 1..n, i < j, q[i] = q[j]
               PROVE  FALSE
    OBVIOUS
  <2>1. <<q[i], q[j]>> \in R /\ <<q[i], q[j]>> = <<q[j], q[j]>> /\ ~ (j < j)
    BY <1>0
  <2> QED  BY <1>0, <2>1
<1>2. Cardinality(S) = n
  <2>1. Enumerates(q, n, S)
    BY <1>0, <1>1 DEF Enumerates
  <2> QED  BY <2>1, EnumeratedSize
<1>3. ASSUME NEW k \in 1..n  PROVE Cardinality(below[q[k]]) = k - 1
  <2> DEFINE p == [j \in 1..(k - 1) |-> q[j]]
  <2>1. k - 1 \in Nat /\ \A j \in 1..(k - 1) : j \in 1..n /\ j < k
    OBVIOUS
  <2>2. below[q[k]] = {y \in S : <<y, q[k]>> \in R}
    BY <1>0
  <2>3. \A j \in 1..(k - 1) : q[j] \in below[q[k]]
    BY <1>0, <2>1, <2>2
  <2>4. p \in [1..(k - 1) -> below[q[k]]]
    BY <2>3
  <2>5. \A y \in below[q[k]] : \E j \in 1..(k - 1) : p[j] = y
    <3> SUFFICES ASSUME NEW y \in S, <<y, q[k]>> \in R
                 PROVE  \E j \in 1..(k - 1) : p[j] = y
      BY <2>2
    <3>1. PICK j \in 1..n : q[j] = y
      BY <1>0
    <3>2. j < k
      BY <1>0, <3>1
    <3>3. j \in 1..(k - 1)
      BY <3>2
    <3> QED  BY <3>1, <3>3
  <2>6. \A i, j \in 1..(k - 1) : i < j => p[i] # p[j]
    BY <1>1, <2>1
  <2> HIDE DEF p
  <2>7. Enumerates(p, k - 1, below[q[k]])
    BY <2>4, <2>5, <2>6 DEF Enumerates
  <2> QED  BY <2>1, <2>7, EnumeratedSize
<1>4. ASSUME NEW i \in 1..n, NEW x \in S, Cardinality(below[x]) = i - 1
      PROVE  x = q[i]
  <2>1. PICK k \in 1..n : q[k] = x
    BY <1>0
  <2>2. k - 1 = i - 1
    BY <1>3, <1>4, <2>1
  <2>3. k = i
    BY <2>2
  <2> QED  BY <2>1, <2>3
<1>5. \A i \in 1..n : \A x \in S : Cardinality(below[x]) = i - 1 <=> x = q[i]
  BY <1>3, <1>4
<1> QED  BY <1>2, <1>5 DEF Ranked

----------------------------------------------------------------------------
(* Growing sets *)

\* The values of a recursive function on the naturals.
Iterates(f, R, a, step) ==
  f \in [Nat -> R] /\ f[0] = a /\ \A n \in Nat : f[n + 1] = step[n][f[n]]

\* There is one.
LEMMA IteratesExist ==
  ASSUME NEW R, NEW a \in R, NEW step, \A n \in Nat : \A r \in R : step[n][r] \in R
  PROVE  \E f : Iterates(f, R, a, step)
<1> DEFINE Good(f, m) == /\ f \in [0..m -> R] /\ f[0] = a
                         /\ \A i \in 1..m : f[i] = step[i - 1][f[i - 1]]
           S == {m \in Nat : \E f : Good(f, m)}
           pick == [m \in Nat |-> CHOOSE f : Good(f, m)]
           g == [m \in Nat |-> pick[m][m]]
<1>1. 0 \in S
  <2> DEFINE f == [i \in 0..0 |-> a]
  <2>1. Good(f, 0)
    OBVIOUS
  <2> QED  BY <2>1
<1>2. ASSUME NEW m \in Nat, m \in S  PROVE m + 1 \in S
  <2>1. PICK f : Good(f, m)
    BY <1>2
  <2> DEFINE r == step[m][f[m]]
             h == [i \in 0..(m + 1) |-> IF i = m + 1 THEN r ELSE f[i]]
  <2>2. f[m] \in R /\ r \in R
    BY <2>1
  <2> HIDE DEF r
  <2>3. h \in [0..(m + 1) -> R] /\ h[0] = a
    BY <2>1, <2>2
  <2>4. ASSUME NEW i \in 1..(m + 1)  PROVE h[i] = step[i - 1][h[i - 1]]
    <3>1. i - 1 \in 0..m /\ h[i - 1] = f[i - 1]
      OBVIOUS
    <3>2. CASE i = m + 1
      BY <2>2, <3>1, <3>2 DEF r
    <3>3. CASE i # m + 1
      <4>1. i \in 1..m /\ h[i] = f[i]
        BY <3>3
      <4> QED  BY <2>1, <3>1, <4>1
    <3> QED  BY <3>2, <3>3
  <2>5. Good(h, m + 1)
    BY <2>3, <2>4
  <2> HIDE DEF h, Good
  <2>6. \E x : Good(x, m + 1)
    BY <2>5
  <2> QED  BY <2>6
<1> HIDE DEF S
<1>3. \A m \in Nat : m \in S
  BY <1>1, <1>2, NatInduct
<1>4. \A m \in Nat : Good(pick[m], m)
  BY <1>3 DEF S
<1> HIDE DEF pick
<1>5. ASSUME NEW m \in Nat
      PROVE  \A i \in Nat : i <= m => pick[m + 1][i] = pick[m][i]
  <2> DEFINE T == {i \in Nat : i <= m => pick[m + 1][i] = pick[m][i]}
  <2>1. Good(pick[m], m) /\ Good(pick[m + 1], m + 1)
    BY <1>4
  <2>2. 0 \in T
    BY <2>1
  <2>3. ASSUME NEW i \in Nat, i \in T  PROVE i + 1 \in T
    <3> SUFFICES ASSUME i + 1 <= m  PROVE pick[m + 1][i + 1] = pick[m][i + 1]
      OBVIOUS
    <3>1. i + 1 \in 1..m /\ i + 1 \in 1..(m + 1) /\ (i + 1) - 1 = i /\ i <= m
      OBVIOUS
    <3>2. pick[m][i + 1] = step[(i + 1) - 1][pick[m][(i + 1) - 1]]
      BY <2>1, <3>1
    <3>3. pick[m + 1][i + 1] = step[(i + 1) - 1][pick[m + 1][(i + 1) - 1]]
      BY <2>1, <3>1
    <3>4. pick[m + 1][i] = pick[m][i]
      BY <2>3, <3>1
    <3> QED  BY <3>1, <3>2, <3>3, <3>4
  <2> HIDE DEF T
  <2>4. \A i \in Nat : i \in T
    BY <2>2, <2>3, NatInduct
  <2> QED  BY <2>4 DEF T
<1>6. g \in [Nat -> R] /\ g[0] = a
  <2>1. \A m \in Nat : g[m] = pick[m][m] /\ m \in 0..m
    OBVIOUS
  <2> QED  BY <1>4, <2>1
<1>7. ASSUME NEW m \in Nat  PROVE g[m + 1] = step[m][g[m]]
  <2>1. Good(pick[m + 1], m + 1) /\ m + 1 \in 1..(m + 1) /\ (m + 1) - 1 = m
    BY <1>4
  <2>2. pick[m + 1][m + 1] = step[m][pick[m + 1][m]]
    BY <2>1
  <2>3. pick[m + 1][m] = pick[m][m]
    BY <1>5
  <2> QED  BY <2>2, <2>3
<1> HIDE DEF g
<1> QED  BY <1>6, <1>7 DEF Iterates

\* Sets that grow within D and C, and no more once they have not.
Grows(f, D, C) ==
  /\ f[0] = D
  /\ \A n \in Nat : f[n] \subseteq D \cup C /\ f[n] \subseteq f[n + 1]
  /\ \A n \in Nat : f[n] = f[n + 1] => f[n + 1] = f[(n + 1) + 1]

\* They have grown up after as many steps as there is room.
LEMMA GrownUp ==
  ASSUME NEW C, IsFiniteSet(C), NEW D, NEW f, Grows(f, D, C),
         NEW n, n = Cardinality(C)
  PROVE  n \in Nat /\ f[n] = f[n + 1]
<1> DEFINE S == {m \in Nat : f[m] = f[m + 1] \/ Cardinality(f[m] \ D) >= m}
<1>0. \A m \in Nat : /\ f[m] \ D \subseteq C /\ IsFiniteSet(f[m] \ D)
                     /\ Cardinality(f[m] \ D) \in Nat
  <2>1. \A m \in Nat : f[m] \ D \subseteq C
    BY DEF Grows
  <2>2. \A m \in Nat : IsFiniteSet(f[m] \ D)
    BY <2>1, FS_Subset
  <2> QED  BY <2>1, <2>2, FS_CardinalityType
<1>1. 0 \in S
  BY <1>0
<1>2. ASSUME NEW m \in Nat, m \in S  PROVE m + 1 \in S
  <2>1. CASE f[m] = f[m + 1]
    BY <2>1 DEF Grows
  <2>2. CASE f[m] # f[m + 1]
    <3>1. Cardinality(f[m] \ D) >= m
      BY <1>2, <2>2
    <3>2. f[m] \subseteq f[m + 1] /\ D \subseteq f[m]
      <4> DEFINE T == {i \in Nat : D \subseteq f[i]}
      <4>1. 0 \in T
        BY DEF Grows
      <4>2. \A i \in Nat : i \in T => i + 1 \in T
        BY DEF Grows
      <4> HIDE DEF T
      <4>3. m \in T
        BY <4>1, <4>2, NatInduct
      <4> QED  BY <4>3 DEF Grows, T
    <3>3. f[m] \ D \subseteq f[m + 1] \ D /\ f[m] \ D # f[m + 1] \ D
      BY <2>2, <3>2
    <3>4. Cardinality(f[m] \ D) < Cardinality(f[m + 1] \ D)
      <4> DEFINE A == f[m] \ D
                 B == f[m + 1] \ D
      <4>1. IsFiniteSet(B) /\ A \in SUBSET B /\ A # B
        <5>1. m + 1 \in Nat
          OBVIOUS
        <5> QED  BY <1>0, <3>3, <5>1
      <4> HIDE DEF A, B
      <4>2. /\ Cardinality(A) <= Cardinality(B) /\ IsFiniteSet(A)
            /\ Cardinality(B) = Cardinality(A) => B = A
        BY <4>1, FS_Subset
      <4>3. Cardinality(A) \in Nat /\ Cardinality(B) \in Nat
        BY <4>1, <4>2, FS_CardinalityType
      <4>4. Cardinality(A) < Cardinality(B)
        BY <4>1, <4>2, <4>3
      <4> QED  BY <4>4 DEF A, B
    <3>5. Cardinality(f[m + 1] \ D) \in Nat /\ Cardinality(f[m] \ D) \in Nat
      <4>1. m + 1 \in Nat
        OBVIOUS
      <4> QED  BY <1>0, <4>1
    <3>6. Cardinality(f[m + 1] \ D) >= m + 1
      BY <3>1, <3>4, <3>5
    <3> QED  BY <3>6
  <2> QED  BY <2>1, <2>2
<1>3. n \in Nat
  BY FS_CardinalityType
<1> HIDE DEF S
<1>4. n \in S
  BY <1>1, <1>2, <1>3, NatInduct
<1>5. CASE Cardinality(f[n] \ D) >= n
  <2> DEFINE A == f[n] \ D
  <2>1. A \subseteq C /\ Cardinality(A) >= n /\ Cardinality(A) \in Nat
    BY <1>0, <1>3, <1>5
  <2> HIDE DEF A
  <2>2. A = C
    BY <1>3, <2>1, FS_Subset
  <2>3. f[n] \subseteq f[n + 1] /\ f[n + 1] \subseteq D \cup C
    BY <1>3 DEF Grows
  <2>4. D \subseteq f[n]
    <3> DEFINE T == {i \in Nat : D \subseteq f[i]}
    <3>1. 0 \in T
      BY DEF Grows
    <3>2. \A i \in Nat : i \in T => i + 1 \in T
      BY DEF Grows
    <3> HIDE DEF T
    <3>3. n \in T
      BY <1>3, <3>1, <3>2, NatInduct
    <3> QED  BY <3>3 DEF T
  <2> QED  BY <1>3, <2>2, <2>3, <2>4 DEF A
<1> QED  BY <1>3, <1>4, <1>5 DEF S
=============================================================================
