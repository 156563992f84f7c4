---------------------------- MODULE GraphProofs ----------------------------
(***************************************************************************)
(* Proofs about the checks of a request for memberships (GraphValidation), *)
(* for any sets, accounts and requests: that what is accepted leaves the   *)
(* graph valid, and that a verdict is the one that is due.                 *)
(*                                                                         *)
(* The graph is looked at as routes, chains of containment from the bottom *)
(* up, of which the reference (Chains) and the traversals (Up, Down,       *)
(* Ordered, ReachesTwice) are both shown to speak.                         *)
(***************************************************************************)
EXTENDS GraphValidation, Induction


----------------------------------------------------------------------------
(* Walks *)

\* X is what R leads to from D.
IsClosure(X, D, R) ==
  /\ D \subseteq X
  /\ \A p \in R : p[1] \in X => p[2] \in X
  /\ \A Y : D \subseteq Y /\ (\A p \in R : p[1] \in Y => p[2] \in Y) => X \subseteq Y

\* The recursion of Up and Down along R.
Spreads(f, D, R) ==
  f = [n \in Nat |->
         IF n = 0 THEN D
         ELSE f[n - 1] \cup {p[2] : p \in {q \in R : q[1] \in f[n - 1]}}]

\* There is one.
LEMMA SpreadExists ==
  ASSUME NEW D, NEW R
  PROVE  \E f : Spreads(f, D, R)
<1> DEFINE All == SUBSET (D \cup {p[2] : p \in R})
           once == [X \in All |-> X \cup {p[2] : p \in {q \in R : q[1] \in X}}]
           step == [n \in Nat |-> once]
<1>1. D \in All /\ \A n \in Nat : \A X \in All : step[n][X] \in All
  OBVIOUS
<1> HIDE DEF step
<1>2. PICK f : Iterates(f, All, D, step)
  <2> HIDE DEF All
  <2> QED  BY <1>1, IteratesExist
<1>3. \A n \in Nat : step[n] = once
  BY DEF step
<1>4. /\ f \in [Nat -> All] /\ f[0] = D
      /\ \A n \in Nat : f[n + 1] = once[f[n]]
  BY <1>2, <1>3 DEF Iterates
<1>5. ASSUME NEW n \in Nat
      PROVE  f[n] = IF n = 0 THEN D
                    ELSE f[n - 1] \cup {p[2] : p \in {q \in R : q[1] \in f[n - 1]}}
  <2>1. CASE n = 0
    BY <1>4, <2>1
  <2>2. CASE n # 0
    <3>1. n - 1 \in Nat /\ (n - 1) + 1 = n
      BY <2>2
    <3>2. f[n - 1] \in All /\ f[n] = once[f[n - 1]]
      BY <1>4, <3>1
    <3> QED  BY <2>2, <3>2
  <2> QED  BY <2>1, <2>2
<1> HIDE DEF All, once
<1>6. f = [n \in Nat |->
             IF n = 0 THEN D
             ELSE f[n - 1] \cup {p[2] : p \in {q \in R : q[1] \in f[n - 1]}}]
  BY <1>4, <1>5
<1> QED  BY <1>6 DEF Spreads

\* Up and Down end with all that is reached, after as many rounds as there
\* are nodes.
LEMMA SpreadCloses ==
  ASSUME NEW D, NEW R, NEW C, IsFiniteSet(C), \A p \in R : p[2] \in C,
         NEW f, Spreads(f, D, R)
  PROVE  IsClosure(f[Cardinality(C)], D, R)
<1> DEFINE next(X) == X \cup {p[2] : p \in {q \in R : q[1] \in X}}
           k == Cardinality(C)
<1>1. f[0] = D /\ \A n \in Nat : f[n + 1] = next(f[n])
  <2>1. \A n \in Nat : f[n] = IF n = 0 THEN D ELSE next(f[n - 1])
    BY DEF Spreads
  <2>2. \A n \in Nat : n + 1 \in Nat /\ n + 1 # 0 /\ (n + 1) - 1 = n
    OBVIOUS
  <2> HIDE DEF next
  <2> QED  BY <2>1, <2>2
<1>2. ASSUME NEW P, D \in P, \A X \in P : next(X) \in P
      PROVE  \A n \in Nat : f[n] \in P
  <2> DEFINE S == {n \in Nat : f[n] \in P}
  <2>1. 0 \in S
    BY <1>1, <1>2
  <2>2. ASSUME NEW n \in Nat, n \in S  PROVE n + 1 \in S
    <3> HIDE DEF next
    <3>1. f[n + 1] = next(f[n]) /\ f[n] \in P
      BY <1>1, <2>2
    <3> QED  BY <1>2, <3>1
  <2> HIDE DEF S
  <2>3. \A n \in Nat : n \in S
    BY <2>1, <2>2, NatInduct
  <2> QED  BY <2>3 DEF S
<1>3. \A n \in Nat : f[n] \subseteq D \cup C
  <2> DEFINE P == SUBSET (D \cup C)
  <2>1. D \in P /\ \A X \in P : next(X) \in P
    OBVIOUS
  <2> HIDE DEF P, next
  <2>2. \A n \in Nat : f[n] \in P
    BY <1>2, <2>1
  <2> QED  BY <2>2 DEF P
<1>4. Grows(f, D, C)
  <2>1. \A n \in Nat : f[n] \subseteq f[n + 1]
    BY <1>1
  <2>2. ASSUME NEW n \in Nat, f[n] = f[n + 1]
        PROVE  f[n + 1] = f[(n + 1) + 1]
    <3>1. n + 1 \in Nat
      OBVIOUS
    <3> HIDE DEF next
    <3>2. f[(n + 1) + 1] = next(f[n + 1]) /\ f[n + 1] = next(f[n])
      BY <1>1, <3>1
    <3> QED  BY <2>2, <3>2
  <2> QED  BY <1>1, <1>3, <2>1, <2>2 DEF Grows
<1>5. k \in Nat /\ f[k] = f[k + 1]
  BY <1>4, GrownUp
<1>6. D \subseteq f[k]
  <2> DEFINE P == {X \in SUBSET (D \cup C) : D \subseteq X}
  <2>1. D \in P /\ \A X \in P : next(X) \in P
    OBVIOUS
  <2> HIDE DEF P, next
  <2>2. \A n \in Nat : f[n] \in P
    BY <1>2, <2>1
  <2> QED  BY <1>5, <2>2 DEF P
<1>7. \A p \in R : p[1] \in f[k] => p[2] \in f[k]
  BY <1>1, <1>5
<1>8. ASSUME NEW Y, D \subseteq Y, \A p \in R : p[1] \in Y => p[2] \in Y
      PROVE  f[k] \subseteq Y
  <2> DEFINE P == SUBSET Y
  <2>1. D \in P /\ \A X \in P : next(X) \in P
    BY <1>8
  <2> HIDE DEF P, next
  <2>2. \A n \in Nat : f[n] \in P
    BY <1>2, <2>1
  <2> QED  BY <1>5, <2>2 DEF P
<1> HIDE DEF k
<1>9. IsClosure(f[k], D, R)
  BY <1>6, <1>7, <1>8 DEF IsClosure
<1> QED  BY <1>9 DEF k

\* X is D and all that contains it, or all it contains, over the edges S.
IsUp(X, D, S) ==
  /\ D \subseteq X
  /\ \A e \in S : e[2] \in X => e[1] \in X
  /\ \A Y : D \subseteq Y /\ (\A e \in S : e[2] \in Y => e[1] \in Y) => X \subseteq Y

IsDown(X, D, S) ==
  /\ D \subseteq X
  /\ \A e \in S : e[1] \in X => e[2] \in X
  /\ \A Y : D \subseteq Y /\ (\A e \in S : e[1] \in Y => e[2] \in Y) => X \subseteq Y

LEMMA NodesFinite ==
  ASSUME NEW S, IsFiniteSet(S)
  PROVE  IsFiniteSet(Nodes(S))
<1> DEFINE f == [e \in S |-> e[1]]
           g == [e \in S |-> e[2]]
           T == {e[1] : e \in S}
           U == {e[2] : e \in S}
<1>1. f \in Surjection(S, T) /\ g \in Surjection(S, U)
  BY DEF Surjection
<1> HIDE DEF f, g, T, U
<1>2. IsFiniteSet(T) /\ IsFiniteSet(U)
  BY <1>1, FS_Surjection
<1>3. IsFiniteSet(T \cup U)
  BY <1>2, FS_Union
<1> QED  BY <1>3 DEF Nodes, T, U

\* Up is what contains its start, directly or not (the recursive walks of the
\* sets above).
LEMMA UpIs ==
  ASSUME NEW D, NEW S, IsFiniteSet(S)
  PROVE  IsUp(Up(D, S), D, S)
<1> DEFINE R == {<<e[2], e[1]>> : e \in S}
           C == Nodes(S)
           Rec(f) == f = [n \in Nat |->
                            IF n = 0 THEN D
                            ELSE f[n - 1] \cup {e[1] : e \in {g \in S : g[2] \in f[n - 1]}}]
<1>0. /\ \A e \in S : \E p \in R : p[1] = e[2] /\ p[2] = e[1]
      /\ \A p \in R : \E e \in S : p[1] = e[2] /\ p[2] = e[1]
  <2>1. \A e \in S : <<e[2], e[1]>> \in R
    OBVIOUS
  <2> HIDE DEF R
  <2>2. \A e \in S : \E p \in R : p[1] = e[2] /\ p[2] = e[1]
    BY <2>1
  <2> QED  BY <2>2 DEF R
<1>1. \A f : Rec(f) <=> Spreads(f, D, R)
  <2> HIDE DEF R
  <2>1. ASSUME NEW X
        PROVE  {p[2] : p \in {q \in R : q[1] \in X}}
                 = {e[1] : e \in {g \in S : g[2] \in X}}
    BY <1>0
  <2> HIDE DEF R
  <2> QED  BY <2>1 DEF Spreads
<1>2. \E f : Rec(f)
  <2> HIDE DEF R, Rec
  <2> QED  BY <1>1, SpreadExists
<1>3. \E f : Rec(f) /\ Up(D, S) = f[Cardinality(C)]
  BY <1>2 DEF Up
<1>4. PICK f : Spreads(f, D, R) /\ Up(D, S) = f[Cardinality(C)]
  <2> HIDE DEF R, Rec, C
  <2> QED  BY <1>1, <1>3
<1>5. IsFiniteSet(C) /\ \A p \in R : p[2] \in C
  BY NodesFinite DEF Nodes
<1>6. IsClosure(f[Cardinality(C)], D, R)
  <2> HIDE DEF R, C
  <2> QED  BY <1>4, <1>5, SpreadCloses
<1> DEFINE X == Up(D, S)
<1>7. IsClosure(X, D, R)
  BY <1>4, <1>6
<1> HIDE DEF X
<1>8. \A Z : (\A p \in R : p[1] \in Z => p[2] \in Z)
             <=> (\A e \in S : e[2] \in Z => e[1] \in Z)
  <2> HIDE DEF R
  <2> QED  BY <1>0
<1> HIDE DEF R
<1>9. IsUp(X, D, S)
  BY <1>7, <1>8 DEF IsClosure, IsUp
<1> QED  BY <1>9 DEF X

\* Down is what its start contains, directly or not.
LEMMA DownIs ==
  ASSUME NEW D, NEW S, IsFiniteSet(S)
  PROVE  IsDown(Down(D, S), D, S)
<1> DEFINE R == {<<e[1], e[2]>> : e \in S}
           C == Nodes(S)
           Rec(f) == f = [n \in Nat |->
                            IF n = 0 THEN D
                            ELSE f[n - 1] \cup {e[2] : e \in {g \in S : g[1] \in f[n - 1]}}]
<1>0. /\ \A e \in S : \E p \in R : p[1] = e[1] /\ p[2] = e[2]
      /\ \A p \in R : \E e \in S : p[1] = e[1] /\ p[2] = e[2]
  <2>1. \A e \in S : <<e[1], e[2]>> \in R
    OBVIOUS
  <2> HIDE DEF R
  <2>2. \A e \in S : \E p \in R : p[1] = e[1] /\ p[2] = e[2]
    BY <2>1
  <2> QED  BY <2>2 DEF R
<1>1. \A f : Rec(f) <=> Spreads(f, D, R)
  <2> HIDE DEF R
  <2>1. ASSUME NEW X
        PROVE  {p[2] : p \in {q \in R : q[1] \in X}}
                 = {e[2] : e \in {g \in S : g[1] \in X}}
    BY <1>0
  <2> HIDE DEF R
  <2> QED  BY <2>1 DEF Spreads
<1>2. \E f : Rec(f)
  <2> HIDE DEF R, Rec
  <2> QED  BY <1>1, SpreadExists
<1>3. \E f : Rec(f) /\ Down(D, S) = f[Cardinality(C)]
  BY <1>2 DEF Down
<1>4. PICK f : Spreads(f, D, R) /\ Down(D, S) = f[Cardinality(C)]
  <2> HIDE DEF R, Rec, C
  <2> QED  BY <1>1, <1>3
<1>5. IsFiniteSet(C) /\ \A p \in R : p[2] \in C
  BY NodesFinite DEF Nodes
<1>6. IsClosure(f[Cardinality(C)], D, R)
  <2> HIDE DEF R, C
  <2> QED  BY <1>4, <1>5, SpreadCloses
<1> DEFINE X == Down(D, S)
<1>7. IsClosure(X, D, R)
  BY <1>4, <1>6
<1> HIDE DEF X
<1>8. \A Z : (\A p \in R : p[1] \in Z => p[2] \in Z)
             <=> (\A e \in S : e[1] \in Z => e[2] \in Z)
  <2> HIDE DEF R
  <2> QED  BY <1>0
<1> HIDE DEF R
<1>9. IsDown(X, D, S)
  BY <1>7, <1>8 DEF IsClosure, IsDown
<1> QED  BY <1>9 DEF X

----------------------------------------------------------------------------
(* Chains of containment, and routes: the edges of one from the bottom up *)

\* A chain of containment over O.
IsChain(c, O) ==
  /\ c \in Seq(O) /\ c # << >>
  /\ \A i \in 1..(Len(c) - 1) : c[i][2][2] = c[i + 1][2][1]

\* The recursion of Chains.
Lengthens(f, O) ==
  f = [n \in Nat |->
         IF n = 0 THEN {<<o>> : o \in O}
         ELSE f[n - 1] \cup
                {Append(p[1], p[2]) : p \in
                   {q \in f[n - 1] \X O :
                      Len(q[1]) = n /\ Last(q[1])[2][2] = q[2][2][1]}}]

\* There is one.
LEMMA LengthensExists ==
  ASSUME NEW O
  PROVE  \E f : Lengthens(f, O)
<1> DEFINE All == SUBSET Seq(O)
           more(n, X) == X \cup {Append(p[1], p[2]) : p \in
                           {q \in X \X O :
                              Len(q[1]) = n /\ Last(q[1])[2][2] = q[2][2][1]}}
           a == {<<o>> : o \in O}
           step == [n \in Nat |-> [X \in All |-> more(n + 1, X)]]
<1>1. a \in All
  OBVIOUS
<1>2. ASSUME NEW n \in Nat, NEW X \in All  PROVE more(n, X) \in All
  <2> SUFFICES ASSUME NEW p \in X \X O  PROVE Append(p[1], p[2]) \in Seq(O)
    OBVIOUS
  <2>1. p[1] \in Seq(O) /\ p[2] \in O
    OBVIOUS
  <2> QED  BY <2>1
<1> HIDE DEF a, more, All
<1>3. \A n \in Nat : \A X \in All : step[n][X] = more(n + 1, X) /\ n + 1 \in Nat
  OBVIOUS
<1> HIDE DEF step
<1>4. \A n \in Nat : \A X \in All : step[n][X] \in All
  BY <1>2, <1>3
<1>5. PICK f : Iterates(f, All, a, step)
  BY <1>1, <1>4, IteratesExist
<1>6. /\ f \in [Nat -> All] /\ f[0] = a
      /\ \A n \in Nat : f[n + 1] = more(n + 1, f[n])
  BY <1>3, <1>5 DEF Iterates
<1>7. ASSUME NEW n \in Nat
      PROVE  f[n] = IF n = 0 THEN a ELSE more(n, f[n - 1])
  <2>1. CASE n = 0
    BY <1>6, <2>1
  <2>2. CASE n # 0
    <3>1. n - 1 \in Nat /\ (n - 1) + 1 = n
      BY <2>2
    <3>2. f[(n - 1) + 1] = more((n - 1) + 1, f[n - 1])
      BY <1>6, <3>1
    <3> QED  BY <2>2, <3>1, <3>2
  <2> QED  BY <2>1, <2>2
<1>8. f = [n \in Nat |-> IF n = 0 THEN a ELSE more(n, f[n - 1])]
  BY <1>6, <1>7
<1>9. Lengthens(f, O)
  BY <1>8 DEF Lengthens, a, more
<1> QED  BY <1>9

\* After m rounds it has the chains of up to m + 1 edges.
LEMMA ChainsOfLength ==
  ASSUME NEW O, NEW f, Lengthens(f, O), NEW m \in Nat
  PROVE  f[m] = {c \in Seq(O) : IsChain(c, O) /\ Len(c) <= m + 1}
<1> DEFINE of(n) == {c \in Seq(O) : IsChain(c, O) /\ Len(c) <= n + 1}
           S == {n \in Nat : f[n] = of(n)}
<1>1. f[0] = {<<o>> : o \in O}
  BY DEF Lengthens
<1>2. 0 \in S
  <2>1. \A o \in O : <<o>> \in of(0)
    BY DEF IsChain
  <2>2. ASSUME NEW c \in of(0)  PROVE c = <<c[1]>> /\ c[1] \in O
    <3>9. c \in Seq(O) /\ IsChain(c, O) /\ Len(c) <= 1
      OBVIOUS
    <3> HIDE DEF of
    <3>0. \A d \in Seq(O) : d # << >> => Len(d) \in Nat \ {0}
      OBVIOUS
    <3>1. c \in Seq(O) /\ Len(c) \in Nat \ {0} /\ Len(c) <= 1
      BY <3>0, <3>9 DEF IsChain
    <3>2. Len(c) = 1
      <4>1. \A k \in Nat \ {0} : k <= 1 => k = 1
        OBVIOUS
      <4> QED  BY <3>1, <4>1
    <3> QED  BY <3>1, <3>2
  <2> QED  BY <1>1, <2>1, <2>2
<1>3. ASSUME NEW n \in Nat, n \in S  PROVE n + 1 \in S
  <2> DEFINE longer == {Append(p[1], p[2]) : p \in
                          {q \in of(n) \X O :
                             Len(q[1]) = n + 1 /\ Last(q[1])[2][2] = q[2][2][1]}}
  <2>1. f[n + 1] = of(n) \cup longer
    <3>1. n + 1 \in Nat /\ n + 1 # 0 /\ (n + 1) - 1 = n
      OBVIOUS
    <3>2. f[n] = of(n)
      BY <1>3
    <3> HIDE DEF of
    <3>3. f[n + 1] = f[(n + 1) - 1] \cup
                {Append(p[1], p[2]) : p \in
                   {q \in f[(n + 1) - 1] \X O :
                      Len(q[1]) = n + 1 /\ Last(q[1])[2][2] = q[2][2][1]}}
      BY <3>1 DEF Lengthens
    <3> QED  BY <3>1, <3>2, <3>3
  <2>2. of(n) \subseteq of(n + 1)
    OBVIOUS
  <2>3. ASSUME NEW c \in of(n), NEW o \in O, Len(c) = n + 1,
               Last(c)[2][2] = o[2][1]
        PROVE  Append(c, o) \in of(n + 1)
    <3> DEFINE d == Append(c, o)
    <3>1. /\ d \in Seq(O) /\ d # << >> /\ Len(d) = n + 2
          /\ \A i \in 1..(n + 1) : d[i] = c[i]
          /\ d[n + 2] = o
      BY <2>3
    <3>2. ASSUME NEW i \in 1..(Len(d) - 1)  PROVE d[i][2][2] = d[i + 1][2][1]
      <4>1. CASE i = n + 1
        BY <2>3, <3>1, <4>1 DEF Last
      <4>2. CASE i # n + 1
        <5>1. i \in 1..(Len(c) - 1) /\ i \in 1..(n + 1) /\ i + 1 \in 1..(n + 1)
          BY <2>3, <3>1, <4>2
        <5> QED  BY <2>3, <3>1, <5>1 DEF IsChain
      <4> QED  BY <4>1, <4>2
    <3> HIDE DEF d
    <3>3. d \in of(n + 1)
      BY <3>1, <3>2 DEF IsChain
    <3> QED  BY <3>3 DEF d
  <2>4. ASSUME NEW c \in of(n + 1), c \notin of(n)  PROVE c \in longer
    <3>1. /\ c \in Seq(O) /\ Len(c) = n + 2
          /\ \A i \in 1..(n + 1) : c[i][2][2] = c[i + 1][2][1]
      BY <2>4 DEF IsChain
    <3> DEFINE b == SubSeq(c, 1, n + 1)
               o == c[n + 2]
    <3>2. /\ b \in Seq(O) /\ Len(b) = n + 1
          /\ \A i \in 1..(n + 1) : b[i] = c[i]
          /\ o \in O
      BY <3>1
    <3>3. c = Append(b, o)
      BY <3>1, <3>2
    <3>4. Last(b)[2][2] = o[2][1]
      <4>1. n + 1 \in 1..(n + 1) /\ (n + 1) + 1 = n + 2
        OBVIOUS
      <4> QED  BY <3>1, <3>2, <4>1 DEF Last
    <3>5. b \in of(n)
      <4>1. \A i \in 1..(Len(b) - 1) : b[i][2][2] = b[i + 1][2][1]
        BY <3>1, <3>2
      <4> HIDE DEF b
      <4>2. b # << >> /\ Len(b) <= n + 1
        BY <3>2
      <4> QED  BY <3>2, <4>1, <4>2 DEF IsChain
    <3> HIDE DEF b, o, of
    <3>6. /\ <<b, o>> \in of(n) \X O
          /\ Len(<<b, o>>[1]) = n + 1 /\ Last(<<b, o>>[1])[2][2] = <<b, o>>[2][2][1]
          /\ Append(<<b, o>>[1], <<b, o>>[2]) = c
      BY <3>2, <3>3, <3>4, <3>5
    <3> QED  BY <3>6
  <2>5. longer \subseteq of(n + 1)
    <3> HIDE DEF of
    <3> SUFFICES ASSUME NEW q \in of(n) \X O, Len(q[1]) = n + 1,
                        Last(q[1])[2][2] = q[2][2][1]
                 PROVE  Append(q[1], q[2]) \in of(n + 1)
      OBVIOUS
    <3>1. q[1] \in of(n) /\ q[2] \in O
      OBVIOUS
    <3> QED  BY <2>3, <3>1
  <2> HIDE DEF of, longer
  <2>6. f[n + 1] = of(n + 1)
    BY <2>1, <2>2, <2>4, <2>5
  <2> QED  BY <2>6
<1> HIDE DEF S
<1>4. m \in S
  BY <1>2, <1>3, NatInduct
<1> QED  BY <1>4 DEF S

\* Chains has the chains of up to one edge more than there are sets.
LEMMA ChainsAre ==
  ASSUME NEW O, NEW k, k = Cardinality(Sets) + 1
  PROVE  /\ k \in Nat \ {0}
         /\ Chains(O) = {c \in Seq(O) : IsChain(c, O) /\ Len(c) <= k}
<1>1. Cardinality(Sets) \in Nat
  BY GraphAssumption, FS_CardinalityType
<1>2. \E f : Lengthens(f, O) /\ Chains(O) = f[Cardinality(Sets)]
  BY LengthensExists DEF Chains, Lengthens
<1> QED  BY <1>1, <1>2, ChainsOfLength

\* Edges of G, each of which has the container of the one before for its member.
IsRoute(p, G) ==
  /\ p \in Seq(G) /\ p # << >>
  /\ \A i \in 1..(Len(p) - 1) : p[i][1] = p[i + 1][2]

From(p) == p[1][2]
To(p) == p[Len(p)][1]

\* The longest chain that the reference looks at.
Longest == Cardinality(Sets) + 1

\* What Sound says, of routes.
Valid(G) ==
  \A p : IsRoute(p, G) /\ Len(p) <= Longest =>
    /\ From(p) # To(p)
    /\ From(p) \in Sets => Len(p) <= MAX_MEMBERSHIP_DEPTH
    /\ \A q : IsRoute(q, G) /\ Len(q) <= Longest =>
         (From(p) = From(q) /\ To(p) = To(q) => p = q)

\* A chain as a route.
RouteOf(c) == [i \in 1..Len(c) |-> c[Len(c) + 1 - i][2]]

\* The memberships of a request are finitely many.
LEMMA RequestIsFinite ==
  ASSUME NEW E, NEW P \in Seq(E)
  PROVE  /\ IsFiniteSet(ToSet(P)) /\ ToSet(P) \subseteq E
         /\ DOMAIN P = 1..Len(P)
         /\ \A i \in DOMAIN P : P[i] \in ToSet(P) /\ i # 0
         /\ \A e \in ToSet(P) : \E i \in DOMAIN P : P[i] = e
<1> DEFINE f == [i \in 1..Len(P) |-> P[i]]
<1>1. Len(P) \in Nat /\ DOMAIN P = 1..Len(P)
  OBVIOUS
<1>2. f \in Surjection(1..Len(P), ToSet(P))
  BY <1>1 DEF Surjection, ToSet
<1>3. IsFiniteSet(1..Len(P))
  BY <1>1, FS_Interval
<1> HIDE DEF f
<1>4. IsFiniteSet(ToSet(P))
  BY <1>2, <1>3, FS_Surjection
<1> QED  BY <1>1, <1>4 DEF ToSet

\* The edges of a chain, from the bottom up.
LEMMA ChainHasRoute ==
  ASSUME NEW O, NEW G, \A o \in O : o[2] \in G, NEW c, IsChain(c, O)
  PROVE  /\ IsRoute(RouteOf(c), G) /\ Len(RouteOf(c)) = Len(c) /\ Len(c) \in Nat \ {0}
         /\ Top(c) = To(RouteOf(c)) /\ Bottom(c) = From(RouteOf(c))
         /\ \A i \in 1..Len(c) : RouteOf(c)[i] = c[Len(c) + 1 - i][2]
<1> DEFINE p == RouteOf(c)
           n == Len(c)
<1>1. n \in Nat \ {0} /\ c \in Seq(O) /\ \A i \in 1..n : c[i][2] \in G
  <2>1. n \in Nat \ {0} /\ c \in Seq(O) /\ \A i \in 1..n : c[i] \in O
    BY DEF IsChain
  <2> QED  BY <2>1
<1>2. \A i \in 1..n : n + 1 - i \in 1..n
  BY <1>1
<1>3. p = [i \in 1..n |-> c[n + 1 - i][2]]
  BY DEF RouteOf
<1> HIDE DEF p
<1>4. p \in Seq(G) /\ Len(p) = n
  <2>1. \A i \in 1..n : c[n + 1 - i][2] \in G
    BY <1>1, <1>2
  <2> QED  BY <1>1, <1>3, <2>1
<1>5. \A i \in 1..n : p[i] = c[n + 1 - i][2]
  BY <1>3
<1>6. ASSUME NEW i \in 1..(Len(p) - 1)  PROVE p[i][1] = p[i + 1][2]
  <2>1. /\ i \in 1..n /\ i + 1 \in 1..n /\ n - i \in 1..(n - 1)
        /\ (n - i) + 1 = n + 1 - i /\ n + 1 - (i + 1) = n - i
    BY <1>1, <1>4
  <2>2. c[n - i][2][2] = c[(n - i) + 1][2][1]
    BY <2>1 DEF IsChain
  <2> QED  BY <1>5, <2>1, <2>2
<1>7. IsRoute(p, G)
  BY <1>1, <1>4, <1>6 DEF IsRoute
<1>8. Top(c) = To(p) /\ Bottom(c) = From(p)
  <2>1. 1 \in 1..n /\ n \in 1..n /\ n + 1 - 1 = n /\ n + 1 - n = 1
    BY <1>1
  <2> QED  BY <1>4, <1>5, <2>1 DEF Top, Bottom, From, To, Last
<1> QED  BY <1>1, <1>4, <1>5, <1>7, <1>8 DEF p

\* A route as a chain that ends with a given occurrence of its first edge.
LEMMA RouteHasChain ==
  ASSUME NEW O, NEW G, \A e \in G : \E o \in O : o[2] = e,
         NEW p, IsRoute(p, G), NEW u \in O, u[2] = p[1]
  PROVE  \E c : /\ IsChain(c, O) /\ Len(c) = Len(p) /\ RouteOf(c) = p
                /\ Top(c) = To(p) /\ Bottom(c) = From(p) /\ Last(c) = u
<1> DEFINE n == Len(p)
           some(e) == CHOOSE o \in O : o[2] = e
           c == [i \in 1..n |-> IF i = n THEN u ELSE some(p[n + 1 - i])]
<1>1. n \in Nat \ {0} /\ p \in Seq(G) /\ \A i \in 1..n : p[i] \in G
  BY DEF IsRoute
<1>2. \A e \in G : some(e) \in O /\ some(e)[2] = e
  OBVIOUS
<1> HIDE DEF some
<1>3. ASSUME NEW i \in 1..n  PROVE c[i] \in O /\ c[i][2] = p[n + 1 - i]
  <2>1. n + 1 - i \in 1..n /\ n + 1 - n = 1
    BY <1>1
  <2>2. p[n + 1 - i] \in G
    BY <1>1, <2>1
  <2>3. CASE i = n
    BY <2>1, <2>3
  <2>4. CASE i # n
    BY <1>2, <2>2, <2>4
  <2> QED  BY <2>3, <2>4
<1>4. c[n] = u
  BY <1>1
<1>5. c \in Seq(O) /\ Len(c) = n
  <2>1. c \in [1..n -> O]
    BY <1>3
  <2> HIDE DEF c
  <2> QED  BY <1>1, <2>1
<1> HIDE DEF c
<1>6. ASSUME NEW i \in 1..(Len(c) - 1)  PROVE c[i][2][2] = c[i + 1][2][1]
  <2>1. /\ i \in 1..n /\ i + 1 \in 1..n /\ n - i \in 1..(n - 1)
        /\ (n - i) + 1 = n + 1 - i /\ n + 1 - (i + 1) = n - i
    BY <1>1, <1>5
  <2>2. p[n - i][1] = p[(n - i) + 1][2]
    BY <2>1 DEF IsRoute
  <2> QED  BY <1>3, <2>1, <2>2
<1>7. IsChain(c, O)
  <2>1. c # << >>
    BY <1>1, <1>5
  <2> QED  BY <1>5, <1>6, <2>1 DEF IsChain
<1>8. Top(c) = To(p) /\ Bottom(c) = From(p) /\ Last(c) = u
  <2>1. 1 \in 1..n /\ n \in 1..n /\ n + 1 - 1 = n /\ n + 1 - n = 1
    BY <1>1
  <2> QED  BY <1>3, <1>4, <1>5, <2>1 DEF Top, Bottom, From, To, Last
<1>9. RouteOf(c) = p
  <2>1. RouteOf(c) = [i \in 1..n |-> c[n + 1 - i][2]]
    BY <1>5 DEF RouteOf
  <2>2. ASSUME NEW i \in 1..n  PROVE c[n + 1 - i][2] = p[i]
    <3>1. n + 1 - i \in 1..n /\ n + 1 - (n + 1 - i) = i
      BY <1>1
    <3>2. c[n + 1 - i][2] = p[n + 1 - (n + 1 - i)]
      BY <1>3, <3>1
    <3> QED  BY <3>1, <3>2
  <2>3. p = [i \in 1..n |-> p[i]]
    BY <1>1
  <2> QED  BY <2>1, <2>2, <2>3
<1> QED  BY <1>5, <1>7, <1>8, <1>9

\* The faults of a graph, in its routes.
Looped(G) == \E p : IsRoute(p, G) /\ Len(p) <= Longest /\ From(p) = To(p)
Twofold(G) ==
  \E p, q : /\ IsRoute(p, G) /\ Len(p) <= Longest
            /\ IsRoute(q, G) /\ Len(q) <= Longest
            /\ p # q /\ From(p) = From(q) /\ To(p) = To(q)
Deep(G) ==
  \E p : /\ IsRoute(p, G) /\ Len(p) <= Longest
         /\ From(p) \in Sets /\ Len(p) > MAX_MEMBERSHIP_DEPTH

\* A request has an edge that is there, or one twice.
Repeats(P, G) ==
  \/ \E i \in DOMAIN P : P[i] \in G
  \/ \E i, j \in DOMAIN P : i # j /\ P[i] = P[j]

\* The occurrences of edges.
LEMMA OccursOnce ==
  ASSUME NEW E, NEW P \in Seq(E), NEW G
  PROVE  /\ \A o \in Occurrences(P, G) : o[2] \in G \cup ToSet(P)
         /\ \A e \in G \cup ToSet(P) : \E o \in Occurrences(P, G) : o[2] = e
         /\ \A i \in DOMAIN P : <<i, P[i]>> \in Occurrences(P, G)
         /\ Repeats(P, G) <=>
              \E o, u \in Occurrences(P, G) : o # u /\ o[2] = u[2]
<1> DEFINE O == Occurrences(P, G)
<1>1. \A i \in DOMAIN P : P[i] \in ToSet(P) /\ i # 0 /\ <<i, P[i]>> \in O
  BY RequestIsFinite DEF Occurrences
<1>2. \A e \in G : <<0, e>> \in O
  BY DEF Occurrences
<1>3. ASSUME NEW o \in O
      PROVE  \/ o[1] = 0 /\ o[2] \in G /\ o = <<0, o[2]>>
             \/ o[1] \in DOMAIN P /\ o[2] = P[o[1]] /\ o = <<o[1], P[o[1]]>>
  BY DEF Occurrences
<1> HIDE DEF O
<1>4. \A e \in ToSet(P) : \E i \in DOMAIN P : P[i] = e
  BY RequestIsFinite
<1>5. ASSUME Repeats(P, G)  PROVE \E o, u \in O : o # u /\ o[2] = u[2]
  <2>1. CASE \E i \in DOMAIN P : P[i] \in G
    <3>1. PICK i \in DOMAIN P : P[i] \in G
      BY <2>1
    <3>2. <<0, P[i]>> \in O /\ <<i, P[i]>> \in O /\ <<0, P[i]>> # <<i, P[i]>>
      BY <1>1, <1>2, <3>1
    <3> QED  BY <3>2
  <2>2. CASE \E i, j \in DOMAIN P : i # j /\ P[i] = P[j]
    <3>1. PICK i \in DOMAIN P, j \in DOMAIN P : i # j /\ P[i] = P[j]
      BY <2>2
    <3>2. <<i, P[i]>> \in O /\ <<j, P[j]>> \in O /\ <<i, P[i]>> # <<j, P[j]>>
      BY <1>1, <3>1
    <3> QED  BY <3>1, <3>2
  <2> QED  BY <1>5, <2>1, <2>2 DEF Repeats
<1>6. ASSUME NEW o \in O, NEW u \in O, o # u, o[2] = u[2]
      PROVE  Repeats(P, G)
  <2>1. /\ \/ o[1] = 0 /\ o[2] \in G /\ o = <<0, o[2]>>
           \/ o[1] \in DOMAIN P /\ o[2] = P[o[1]] /\ o = <<o[1], P[o[1]]>>
        /\ \/ u[1] = 0 /\ u[2] \in G /\ u = <<0, u[2]>>
           \/ u[1] \in DOMAIN P /\ u[2] = P[u[1]] /\ u = <<u[1], P[u[1]]>>
    BY <1>3
  <2>2. CASE o[1] \in DOMAIN P /\ u[1] \in DOMAIN P /\ o[2] = P[o[1]] /\ u[2] = P[u[1]]
             /\ o = <<o[1], P[o[1]]>> /\ u = <<u[1], P[u[1]]>>
    <3>1. o[1] # u[1] /\ P[o[1]] = P[u[1]]
      BY <1>6, <2>2
    <3> QED  BY <2>2, <3>1 DEF Repeats
  <2>3. CASE o[1] \in DOMAIN P /\ o[2] = P[o[1]] /\ u[2] \in G
    BY <1>6, <2>3 DEF Repeats
  <2>4. CASE u[1] \in DOMAIN P /\ u[2] = P[u[1]] /\ o[2] \in G
    BY <1>6, <2>4 DEF Repeats
  <2>5. ~ (o = <<0, o[2]>> /\ u = <<0, u[2]>>)
    BY <1>6
  <2> QED  BY <2>1, <2>2, <2>3, <2>4, <2>5
<1> QED  BY <1>1, <1>2, <1>3, <1>4, <1>5, <1>6 DEF O

\* What the reference counts in chains, in routes.
LEMMA FaultsOfChains ==
  ASSUME NEW E, NEW P \in Seq(E), NEW G, NEW H, H = G \cup ToSet(P),
         NEW C, C = Chains(Occurrences(P, G))
  PROVE  /\ Cyclic(C) <=> Looped(H)
         /\ ContainedTwice(C) <=> Twofold(H) \/ Repeats(P, G)
         /\ TooDeep(C) <=> Deep(H)
<1> DEFINE O == Occurrences(P, G)
<1>1. /\ \A o \in O : o[2] \in H
      /\ \A e \in H : \E o \in O : o[2] = e
      /\ Repeats(P, G) <=> \E o, u \in O : o # u /\ o[2] = u[2]
  BY OccursOnce
<1>2. \A c : c \in C <=> IsChain(c, O) /\ Len(c) <= Longest
  BY ChainsAre DEF IsChain, Longest
<1> HIDE DEF O
<1>3. ASSUME NEW p, IsRoute(p, H), Len(p) <= Longest
      PROVE  \E c \in C : /\ Len(c) = Len(p) /\ RouteOf(c) = p
                          /\ Top(c) = To(p) /\ Bottom(c) = From(p)
  <2>1. p[1] \in H
    BY <1>3 DEF IsRoute
  <2>2. PICK u \in O : u[2] = p[1]
    BY <1>1, <2>1
  <2>3. PICK c : /\ IsChain(c, O) /\ Len(c) = Len(p) /\ RouteOf(c) = p
                 /\ Top(c) = To(p) /\ Bottom(c) = From(p)
    BY <1>1, <1>3, <2>2, RouteHasChain
  <2> QED  BY <1>2, <1>3, <2>3
<1>4. ASSUME NEW c \in C
      PROVE  /\ IsRoute(RouteOf(c), H) /\ Len(RouteOf(c)) = Len(c)
             /\ Len(c) <= Longest /\ Len(c) \in Nat \ {0} /\ c \in Seq(O)
             /\ Top(c) = To(RouteOf(c)) /\ Bottom(c) = From(RouteOf(c))
             /\ \A i \in 1..Len(c) : RouteOf(c)[i] = c[Len(c) + 1 - i][2]
  <2>1. IsChain(c, O) /\ Len(c) <= Longest
    BY <1>2
  <2>2. c \in Seq(O)
    BY <2>1 DEF IsChain
  <2>3. \A o \in O : o[2] \in H
    BY <1>1
  <2>4. /\ IsRoute(RouteOf(c), H) /\ Len(RouteOf(c)) = Len(c) /\ Len(c) \in Nat \ {0}
        /\ Top(c) = To(RouteOf(c)) /\ Bottom(c) = From(RouteOf(c))
        /\ \A i \in 1..Len(c) : RouteOf(c)[i] = c[Len(c) + 1 - i][2]
    BY <2>1, <2>3, ChainHasRoute
  <2> QED  BY <2>1, <2>2, <2>4
<1>5. Cyclic(C) <=> Looped(H)
  <2>1. ASSUME Cyclic(C)  PROVE Looped(H)
    <3>1. PICK c \in C : Top(c) = Bottom(c)
      BY <2>1 DEF Cyclic
    <3>2. /\ IsRoute(RouteOf(c), H) /\ Len(RouteOf(c)) <= Longest
          /\ From(RouteOf(c)) = To(RouteOf(c))
      BY <1>4, <3>1
    <3> QED  BY <3>2 DEF Looped
  <2>2. ASSUME Looped(H)  PROVE Cyclic(C)
    <3>1. PICK p : IsRoute(p, H) /\ Len(p) <= Longest /\ From(p) = To(p)
      BY <2>2 DEF Looped
    <3>2. PICK c \in C : Top(c) = To(p) /\ Bottom(c) = From(p)
      BY <1>3, <3>1
    <3> QED  BY <3>1, <3>2 DEF Cyclic
  <2> QED  BY <2>1, <2>2
<1>6. TooDeep(C) <=> Deep(H)
  <2>1. ASSUME TooDeep(C)  PROVE Deep(H)
    <3>1. PICK c \in C : Bottom(c) \in Sets /\ Len(c) > MAX_MEMBERSHIP_DEPTH
      BY <2>1 DEF TooDeep
    <3> QED  BY <1>4, <3>1 DEF Deep
  <2>2. ASSUME Deep(H)  PROVE TooDeep(C)
    <3>1. PICK p : /\ IsRoute(p, H) /\ Len(p) <= Longest
                   /\ From(p) \in Sets /\ Len(p) > MAX_MEMBERSHIP_DEPTH
      BY <2>2 DEF Deep
    <3>2. PICK c \in C : Len(c) = Len(p) /\ Bottom(c) = From(p)
      BY <1>3, <3>1
    <3> QED  BY <3>1, <3>2 DEF TooDeep
  <2> QED  BY <2>1, <2>2
<1>7. ASSUME Twofold(H)  PROVE ContainedTwice(C)
  <2>1. PICK p, q : /\ IsRoute(p, H) /\ Len(p) <= Longest
                    /\ IsRoute(q, H) /\ Len(q) <= Longest
                    /\ p # q /\ From(p) = From(q) /\ To(p) = To(q)
    BY <1>7 DEF Twofold
  <2>2. PICK c \in C : RouteOf(c) = p /\ Top(c) = To(p) /\ Bottom(c) = From(p)
    BY <1>3, <2>1
  <2>3. PICK d \in C : RouteOf(d) = q /\ Top(d) = To(q) /\ Bottom(d) = From(q)
    BY <1>3, <2>1
  <2> QED  BY <2>1, <2>2, <2>3 DEF ContainedTwice
<1>8. ASSUME Repeats(P, G)  PROVE ContainedTwice(C)
  <2>1. PICK o \in O, u \in O : o # u /\ o[2] = u[2]
    BY <1>1, <1>8
  <2>2. 1 <= Longest
    BY GraphAssumption, FS_CardinalityType DEF Longest
  <2>3. \A x \in O : /\ <<x>> \in C /\ Top(<<x>>) = x[2][1] /\ Bottom(<<x>>) = x[2][2]
    <3> SUFFICES ASSUME NEW x \in O
                 PROVE  /\ <<x>> \in C /\ Top(<<x>>) = x[2][1]
                        /\ Bottom(<<x>>) = x[2][2]
      OBVIOUS
    <3>1. IsChain(<<x>>, O) /\ Len(<<x>>) = 1
      BY DEF IsChain
    <3>2. Top(<<x>>) = x[2][1] /\ Bottom(<<x>>) = x[2][2]
      BY DEF Top, Bottom, Last
    <3> QED  BY <1>2, <2>2, <3>1, <3>2
  <2>4. PICK c, d : c = <<o>> /\ d = <<u>>
    OBVIOUS
  <2>5. c # d
    BY <2>1, <2>4
  <2>6. c \in C /\ d \in C /\ Top(c) = Top(d) /\ Bottom(c) = Bottom(d)
    BY <2>1, <2>3, <2>4
  <2> QED  BY <2>5, <2>6 DEF ContainedTwice
<1>9. ASSUME ContainedTwice(C), ~Twofold(H)  PROVE Repeats(P, G)
  <2>1. PICK c \in C, d \in C : c # d /\ Top(c) = Top(d) /\ Bottom(c) = Bottom(d)
    BY <1>9 DEF ContainedTwice
  <2>2. RouteOf(c) = RouteOf(d)
    BY <1>4, <1>9, <2>1 DEF Twofold
  <2> DEFINE n == Len(c)
  <2>3. /\ n \in Nat \ {0} /\ Len(d) = n /\ c \in Seq(O) /\ d \in Seq(O)
        /\ \A i \in 1..n : c[n + 1 - i][2] = d[n + 1 - i][2]
    <3>1. Len(RouteOf(c)) = Len(c) /\ Len(RouteOf(d)) = Len(d)
          /\ Len(c) \in Nat \ {0} /\ c \in Seq(O) /\ d \in Seq(O)
      BY <1>4
    <3>2. Len(d) = n
      BY <2>2, <3>1
    <3>3. /\ \A i \in 1..n : RouteOf(c)[i] = c[n + 1 - i][2]
          /\ \A i \in 1..n : RouteOf(d)[i] = d[n + 1 - i][2]
      BY <1>4, <3>2
    <3> QED  BY <2>2, <3>1, <3>2, <3>3
  <2>4. PICK k \in 1..n : c[k] # d[k]
    <3>1. c = [i \in 1..n |-> c[i]] /\ d = [i \in 1..n |-> d[i]]
      BY <2>3
    <3> HIDE DEF n
    <3> QED  BY <2>1, <3>1
  <2>5. c[k][2] = d[k][2]
    <3>1. n + 1 - k \in 1..n /\ n + 1 - (n + 1 - k) = k
      BY <2>3
    <3>2. c[n + 1 - (n + 1 - k)][2] = d[n + 1 - (n + 1 - k)][2]
      BY <2>3, <3>1
    <3> QED  BY <3>1, <3>2
  <2>6. c[k] \in O /\ d[k] \in O
    BY <2>3
  <2> QED  BY <1>1, <2>4, <2>5, <2>6
<1> QED  BY <1>5, <1>6, <1>7, <1>8, <1>9

LEMMA ValidIs ==
  ASSUME NEW G
  PROVE  Valid(G) <=> ~Looped(G) /\ ~Twofold(G) /\ ~Deep(G)
<1>1. \A p : IsRoute(p, G) => Len(p) \in Nat
  BY DEF IsRoute
<1>2. MAX_MEMBERSHIP_DEPTH \in Nat
  BY GraphAssumption
<1>3. \A k \in Nat : k <= MAX_MEMBERSHIP_DEPTH <=> ~ (k > MAX_MEMBERSHIP_DEPTH)
  BY <1>2
<1>4. ASSUME Valid(G)  PROVE ~Looped(G) /\ ~Twofold(G) /\ ~Deep(G)
  <2>1. ~Deep(G)
    BY <1>1, <1>3, <1>4 DEF Valid, Deep
  <2> QED  BY <1>4, <2>1 DEF Valid, Looped, Twofold
<1>5. ASSUME ~Looped(G), ~Twofold(G), ~Deep(G)  PROVE Valid(G)
  <2>1. ASSUME NEW p, IsRoute(p, G), Len(p) <= Longest, From(p) \in Sets
        PROVE  Len(p) <= MAX_MEMBERSHIP_DEPTH
    BY <1>1, <1>3, <1>5, <2>1 DEF Deep
  <2> QED  BY <1>5, <2>1 DEF Valid, Looped, Twofold
<1> QED  BY <1>4, <1>5

\* The reference finds no fault in a graph just if its routes are as in Valid.
LEMMA SoundIsValid ==
  ASSUME NEW G
  PROVE  Sound(G) <=> Valid(G)
<1> DEFINE C == Chains(Occurrences(<< >>, G))
           P == << >>
<1>1. P \in Seq({}) /\ G = G \cup ToSet(P) /\ DOMAIN P = {}
  BY DEF ToSet
<1>2. C = Chains(Occurrences(P, G))
  OBVIOUS
<1> HIDE DEF P, C
<1>3. /\ Cyclic(C) <=> Looped(G)
      /\ ContainedTwice(C) <=> Twofold(G) \/ Repeats(P, G)
      /\ TooDeep(C) <=> Deep(G)
  BY <1>1, <1>2, FaultsOfChains
<1>4. ~Repeats(P, G)
  BY <1>1 DEF Repeats
<1>5. Sound(G) <=> ~Cyclic(C) /\ ~ContainedTwice(C) /\ ~TooDeep(C)
  BY DEF Sound, DueError, C
<1> QED  BY <1>3, <1>4, <1>5, ValidIs

----------------------------------------------------------------------------
(* Routes *)

\* What is left of a route from its i-th edge on.
Rest(p, i) == [k \in 1..(Len(p) - i + 1) |-> p[k + i - 1]]

LEMMA RestIsRoute ==
  ASSUME NEW G, NEW p, IsRoute(p, G), NEW i \in 1..Len(p)
  PROVE  /\ IsRoute(Rest(p, i), G) /\ Len(Rest(p, i)) = Len(p) - i + 1
         /\ From(Rest(p, i)) = p[i][2] /\ To(Rest(p, i)) = To(p)
         /\ \A k \in 1..Len(Rest(p, i)) : Rest(p, i)[k] = p[k + i - 1]
<1> DEFINE r == Rest(p, i)
           n == Len(p)
           m == n - i + 1
<1>1. n \in Nat \ {0} /\ p \in Seq(G) /\ \A k \in 1..n : p[k] \in G
  BY DEF IsRoute
<1>2. m \in Nat \ {0} /\ \A k \in 1..m : k + i - 1 \in 1..n
  BY <1>1
<1>3. r = [k \in 1..m |-> p[k + i - 1]]
  BY DEF Rest
<1> HIDE DEF r
<1>4. r \in Seq(G) /\ Len(r) = m
  <2>1. \A k \in 1..m : p[k + i - 1] \in G
    BY <1>1, <1>2
  <2> HIDE DEF m
  <2> QED  BY <1>2, <1>3, <2>1
<1>5. \A k \in 1..m : r[k] = p[k + i - 1]
  BY <1>3
<1>6. ASSUME NEW k \in 1..(Len(r) - 1)  PROVE r[k][1] = r[k + 1][2]
  <2>1. /\ k \in 1..m /\ k + 1 \in 1..m /\ k + i - 1 \in 1..(n - 1)
        /\ (k + 1) + i - 1 = (k + i - 1) + 1
    BY <1>1, <1>4
  <2>2. p[k + i - 1][1] = p[(k + i - 1) + 1][2]
    BY <2>1 DEF IsRoute
  <2> QED  BY <1>5, <2>1, <2>2
<1>7. IsRoute(r, G)
  <2>1. r # << >>
    BY <1>2, <1>4
  <2> QED  BY <1>4, <1>6, <2>1 DEF IsRoute
<1>8. From(r) = p[i][2] /\ To(r) = To(p)
  <2>1. 1 \in 1..m /\ m \in 1..m /\ 1 + i - 1 = i /\ m + i - 1 = n
    BY <1>1, <1>2
  <2>2. r[1] = p[i] /\ r[m] = p[n]
    BY <1>5, <2>1
  <2> QED  BY <1>4, <2>2 DEF From, To
<1> QED  BY <1>4, <1>5, <1>7, <1>8 DEF r

\* A set closed under containers has the rest of a route with one of its nodes.
LEMMA Ascends ==
  ASSUME NEW G, NEW p, IsRoute(p, G), NEW X, NEW i \in 1..Len(p), p[i][2] \in X,
         \A e \in G : e[2] \in X => e[1] \in X
  PROVE  \A j \in i..Len(p) : p[j][1] \in X /\ p[j][2] \in X
<1> DEFINE S == {k \in Nat : i + k <= Len(p) => p[i + k][1] \in X /\ p[i + k][2] \in X}
<1>1. Len(p) \in Nat /\ \A k \in 1..Len(p) : p[k] \in G
  BY DEF IsRoute
<1>2. 0 \in S
  BY <1>1
<1>3. ASSUME NEW k \in Nat, k \in S  PROVE k + 1 \in S
  <2> SUFFICES ASSUME i + (k + 1) <= Len(p)
               PROVE  p[i + (k + 1)][1] \in X /\ p[i + (k + 1)][2] \in X
    OBVIOUS
  <2>1. /\ i + k \in 1..(Len(p) - 1) /\ (i + k) + 1 = i + (k + 1)
        /\ i + (k + 1) \in 1..Len(p) /\ i + k <= Len(p)
    BY <1>1
  <2>2. p[i + k][1] \in X
    BY <1>3, <2>1
  <2>3. p[i + (k + 1)][2] \in X
    BY <2>1, <2>2 DEF IsRoute
  <2> QED  BY <1>1, <2>1, <2>3
<1> HIDE DEF S
<1>4. \A k \in Nat : k \in S
  BY <1>2, <1>3, NatInduct
<1> SUFFICES ASSUME NEW j \in i..Len(p)  PROVE p[j][1] \in X /\ p[j][2] \in X
  OBVIOUS
<1>5. j - i \in Nat /\ i + (j - i) = j /\ j <= Len(p)
  BY <1>1
<1>6. j - i \in S
  BY <1>4, <1>5
<1> QED  BY <1>5, <1>6 DEF S

\* One closed under members has what comes before.
LEMMA Descends ==
  ASSUME NEW G, NEW p, IsRoute(p, G), NEW X, NEW i \in 1..Len(p), p[i][1] \in X,
         \A e \in G : e[1] \in X => e[2] \in X
  PROVE  \A j \in 1..i : p[j][1] \in X /\ p[j][2] \in X
<1> DEFINE S == {k \in Nat : k < i => p[i - k][1] \in X /\ p[i - k][2] \in X}
<1>1. Len(p) \in Nat /\ \A k \in 1..Len(p) : p[k] \in G
  BY DEF IsRoute
<1>2. 0 \in S
  BY <1>1
<1>3. ASSUME NEW k \in Nat, k \in S  PROVE k + 1 \in S
  <2> SUFFICES ASSUME k + 1 < i
               PROVE  p[i - (k + 1)][1] \in X /\ p[i - (k + 1)][2] \in X
    OBVIOUS
  <2>1. /\ i - (k + 1) \in 1..(Len(p) - 1) /\ (i - (k + 1)) + 1 = i - k
        /\ i - (k + 1) \in 1..Len(p) /\ k < i
    BY <1>1
  <2>2. p[i - k][2] \in X
    BY <1>3, <2>1
  <2>3. p[i - (k + 1)][1] \in X
    BY <2>1, <2>2 DEF IsRoute
  <2> QED  BY <1>1, <2>1, <2>3
<1> HIDE DEF S
<1>4. \A k \in Nat : k \in S
  BY <1>2, <1>3, NatInduct
<1> SUFFICES ASSUME NEW j \in 1..i  PROVE p[j][1] \in X /\ p[j][2] \in X
  OBVIOUS
<1>5. i - j \in Nat /\ i - (i - j) = j /\ i - j < i
  BY <1>1
<1>6. i - j \in S
  BY <1>4, <1>5
<1> QED  BY <1>5, <1>6 DEF S

\* A route over edges of H alone is one over H.
LEMMA RouteWithin ==
  ASSUME NEW G, NEW p, IsRoute(p, G), NEW H, \A i \in 1..Len(p) : p[i] \in H
  PROVE  IsRoute(p, H)
<1>1. p \in Seq(H)
  <2>1. Len(p) \in Nat /\ p = [i \in 1..Len(p) |-> p[i]]
    BY DEF IsRoute
  <2> QED  BY <2>1
<1> QED  BY <1>1 DEF IsRoute

\* The top of a route is above each of its containers.
LEMMA TopIsAbove ==
  ASSUME NEW G, NEW p, IsRoute(p, G), NEW i \in 1..Len(p),
         NEW H, IsFiniteSet(H), \A j \in (i + 1)..Len(p) : p[j] \in H
  PROVE  To(p) \in Up({p[i][1]}, H)
<1> DEFINE X == Up({p[i][1]}, H)
<1>1. Len(p) \in Nat \ {0}
  BY DEF IsRoute
<1>2. p[i][1] \in X /\ \A e \in H : e[2] \in X => e[1] \in X
  BY UpIs DEF IsUp
<1> HIDE DEF X
<1>3. CASE i = Len(p)
  BY <1>2, <1>3 DEF To, X
<1>4. CASE i # Len(p)
  <2>1. i + 1 \in 1..Len(p) /\ p[i + 1][2] = p[i][1]
    BY <1>1, <1>4 DEF IsRoute
  <2> DEFINE r == Rest(p, i + 1)
  <2>2. /\ IsRoute(r, G) /\ Len(r) = Len(p) - (i + 1) + 1
        /\ From(r) = p[i + 1][2] /\ To(r) = To(p)
        /\ \A k \in 1..Len(r) : r[k] = p[k + (i + 1) - 1]
    <3>1. PICK j : j = i + 1
      OBVIOUS
    <3>2. IsRoute(p, G) /\ j \in 1..Len(p)
      BY <2>1, <3>1
    <3>3. /\ IsRoute(Rest(p, j), G) /\ Len(Rest(p, j)) = Len(p) - j + 1
          /\ From(Rest(p, j)) = p[j][2] /\ To(Rest(p, j)) = To(p)
          /\ \A k \in 1..Len(Rest(p, j)) : Rest(p, j)[k] = p[k + j - 1]
      BY ONLY <3>2, RestIsRoute
    <3> QED  BY <3>1, <3>3
  <2> HIDE DEF r
  <2>3. \A k \in 1..Len(r) : r[k] \in H
    <3>1. \A k \in 1..Len(r) : k + (i + 1) - 1 \in (i + 1)..Len(p)
      BY <1>1, <2>2
    <3> QED  BY <2>2, <3>1
  <2>4. IsRoute(r, H)
    BY <2>2, <2>3, RouteWithin
  <2>5. 1 \in 1..Len(r) /\ Len(r) \in 1..Len(r) /\ r[1][2] \in X
    BY <1>1, <1>2, <2>1, <2>2 DEF From
  <2>6. \A j \in 1..Len(r) : r[j][1] \in X
    BY <1>2, <2>4, <2>5, Ascends
  <2> QED  BY <2>2, <2>5, <2>6 DEF To, X
<1> QED  BY <1>3, <1>4

\* No route leads back to where it began.
NoCycle(G) == \A r : IsRoute(r, G) /\ Len(r) <= Longest => From(r) # To(r)

LEMMA NoCycleIs ==
  ASSUME NEW G
  PROVE  NoCycle(G) <=> ~Looped(G)
BY DEF NoCycle, Looped

\* Without a cycle, no route goes on from the end of another with the same ends.
LEMMA NoLonger ==
  ASSUME NEW G, NoCycle(G), NEW p, IsRoute(p, G), NEW q, IsRoute(q, G),
         To(p) = To(q), Len(p) < Len(q), Len(q) <= Longest
  PROVE  p[Len(p)] # q[Len(p)]
<1> SUFFICES ASSUME p[Len(p)] = q[Len(p)]  PROVE FALSE
  OBVIOUS
<1>1. Len(p) \in Nat \ {0} /\ Len(q) \in Nat \ {0}
  BY DEF IsRoute
<1>2. Len(p) + 1 \in 1..Len(q) /\ Len(p) \in 1..(Len(q) - 1)
  BY <1>1
<1>3. q[Len(p) + 1][2] = q[Len(p)][1]
  BY <1>2 DEF IsRoute
<1> DEFINE r == Rest(q, Len(p) + 1)
<1>4. /\ IsRoute(r, G) /\ From(r) = q[Len(p) + 1][2] /\ To(r) = To(q)
      /\ Len(r) = Len(q) - (Len(p) + 1) + 1
  BY <1>2, RestIsRoute
<1> HIDE DEF r
<1>5. Longest \in Nat /\ Len(r) <= Longest
  <2>1. Longest \in Nat
    BY GraphAssumption, FS_CardinalityType DEF Longest
  <2> QED  BY <1>1, <1>4, <2>1
<1> QED  BY <1>3, <1>4, <1>5 DEF NoCycle, To

\* Two routes with the same ends part at some member, without a cycle.
LEMMA RoutesPart ==
  ASSUME NEW G, NoCycle(G), NEW p, IsRoute(p, G), NEW q, IsRoute(q, G),
         From(p) = From(q), To(p) = To(q), p # q,
         Len(p) <= Longest, Len(q) <= Longest
  PROVE  \E i \in 1..Len(p) : /\ i \in 1..Len(q) /\ p[i] # q[i] /\ p[i][2] = q[i][2]
                              /\ \A j \in 1..(i - 1) : p[j] = q[j]
<1> DEFINE D == {i \in Nat : i \in 1..Len(p) /\ i \in 1..Len(q) /\ p[i] # q[i]}
<1>1. Len(p) \in Nat \ {0} /\ Len(q) \in Nat \ {0}
  BY DEF IsRoute
<1>2. D # {}
  <2>1. CASE Len(p) < Len(q)
    <3>1. Len(p) \in D
      BY <1>1, <2>1, NoLonger
    <3> QED  BY <3>1
  <2>2. CASE Len(q) < Len(p)
    <3>1. Len(q) \in D
      BY <1>1, <2>2, NoLonger
    <3> QED  BY <3>1
  <2>3. CASE Len(p) = Len(q)
    <3>1. /\ p = [i \in 1..Len(p) |-> p[i]] /\ q = [i \in 1..Len(p) |-> q[i]]
      BY <2>3 DEF IsRoute
    <3>2. \E i \in 1..Len(p) : p[i] # q[i]
      BY <3>1
    <3> QED  BY <1>1, <2>3, <3>2
  <2> QED  BY <1>1, <2>1, <2>2, <2>3
<1>3. PICK i \in D : \A k \in D : i <= k
  <2>1. D \in SUBSET Nat
    OBVIOUS
  <2> HIDE DEF D
  <2> QED  BY <1>2, <2>1, LeastNat
<1>4. \A j \in 1..(i - 1) : p[j] = q[j]
  <2> SUFFICES ASSUME NEW j \in 1..(i - 1), p[j] # q[j]  PROVE FALSE
    OBVIOUS
  <2>1. j \in D /\ ~ (i <= j)
    BY <1>1, <1>3
  <2> QED  BY <1>3, <2>1
<1>5. p[i][2] = q[i][2]
  <2>1. CASE i = 1
    BY <2>1 DEF From
  <2>2. CASE i # 1
    <3>1. /\ i - 1 \in 1..(i - 1) /\ i - 1 \in 1..(Len(p) - 1)
          /\ i - 1 \in 1..(Len(q) - 1) /\ (i - 1) + 1 = i
      BY <1>1, <1>3, <2>2
    <3>2. p[i - 1] = q[i - 1]
      BY <1>4, <3>1
    <3>3. p[i - 1][1] = p[(i - 1) + 1][2] /\ q[i - 1][1] = q[(i - 1) + 1][2]
      BY <3>1 DEF IsRoute
    <3> QED  BY <3>1, <3>2, <3>3
  <2> QED  BY <2>1, <2>2
<1> QED  BY <1>3, <1>4, <1>5

----------------------------------------------------------------------------
(* Routes cut and joined *)

\* r is the way from s to t, which may be none.
Leads(s, r, t, S) ==
  \/ r = << >> /\ t = s
  \/ IsRoute(r, S) /\ From(r) = s /\ To(r) = t

\* The edges of a route from its i-th to its j-th.
Piece(p, i, j) == [k \in 1..(j - i + 1) |-> p[k + i - 1]]

LEMMA PieceIsRoute ==
  ASSUME NEW G, NEW p, IsRoute(p, G), NEW i \in 1..Len(p), NEW j \in i..Len(p)
  PROVE  /\ IsRoute(Piece(p, i, j), G) /\ Len(Piece(p, i, j)) = j - i + 1
         /\ From(Piece(p, i, j)) = p[i][2] /\ To(Piece(p, i, j)) = p[j][1]
<1> DEFINE r == Piece(p, i, j)
           n == Len(p)
           m == j - i + 1
<1>1. n \in Nat \ {0} /\ p \in Seq(G) /\ \A k \in 1..n : p[k] \in G
  BY DEF IsRoute
<1>2. m \in Nat \ {0} /\ \A k \in 1..m : k + i - 1 \in 1..n
  BY <1>1
<1>3. r = [k \in 1..m |-> p[k + i - 1]]
  BY DEF Piece
<1> HIDE DEF r
<1>4. r \in Seq(G) /\ Len(r) = m
  <2>1. \A k \in 1..m : p[k + i - 1] \in G
    BY <1>1, <1>2
  <2> HIDE DEF m
  <2> QED  BY <1>2, <1>3, <2>1
<1>5. \A k \in 1..m : r[k] = p[k + i - 1]
  BY <1>3
<1>6. ASSUME NEW k \in 1..(Len(r) - 1)  PROVE r[k][1] = r[k + 1][2]
  <2>1. /\ k \in 1..m /\ k + 1 \in 1..m /\ k + i - 1 \in 1..(n - 1)
        /\ (k + 1) + i - 1 = (k + i - 1) + 1
    BY <1>1, <1>4
  <2>2. p[k + i - 1][1] = p[(k + i - 1) + 1][2]
    BY <2>1 DEF IsRoute
  <2> QED  BY <1>5, <2>1, <2>2
<1>7. IsRoute(r, G)
  <2>1. r # << >>
    BY <1>2, <1>4
  <2> QED  BY <1>4, <1>6, <2>1 DEF IsRoute
<1>8. From(r) = p[i][2] /\ To(r) = p[j][1]
  <2>1. 1 \in 1..m /\ m \in 1..m /\ 1 + i - 1 = i /\ m + i - 1 = j
    BY <1>1, <1>2
  <2>2. r[1] = p[i] /\ r[m] = p[j]
    BY <1>5, <2>1
  <2> QED  BY <1>4, <2>2 DEF From, To
<1> QED  BY <1>4, <1>7, <1>8 DEF r

\* A way goes on with another.
LEMMA WaysJoin ==
  ASSUME NEW G, NEW s, NEW r, NEW t, NEW q, NEW u,
         Leads(s, r, t, G), Leads(t, q, u, G)
  PROVE  /\ Leads(s, r \o q, u, G) /\ r \in Seq(G) /\ q \in Seq(G)
         /\ Len(r) \in Nat /\ Len(q) \in Nat
         /\ Len(r \o q) = Len(r) + Len(q)
<1>0. ~IsRoute(<< >>, G)
  BY DEF IsRoute
<1>1. r \in Seq(G) /\ q \in Seq(G)
  <2>1. \A x, y, z : Leads(x, z, y, G) => z = << >> \/ z \in Seq(G)
    BY DEF Leads, IsRoute
  <2>2. << >> \in Seq(G)
    OBVIOUS
  <2>3. r = << >> \/ r \in Seq(G)
    BY <2>1
  <2>4. q = << >> \/ q \in Seq(G)
    BY <2>1
  <2> QED  BY <2>2, <2>3, <2>4
<1>2. /\ Len(r) \in Nat /\ Len(q) \in Nat /\ Len(r \o q) = Len(r) + Len(q)
      /\ r \o q \in Seq(G)
      /\ \A k \in 1..Len(r) : (r \o q)[k] = r[k]
      /\ \A k \in 1..Len(q) : (r \o q)[Len(r) + k] = q[k]
  BY <1>1
<1>3. CASE r = << >>
  <2>1. t = s
    BY <1>0, <1>3 DEF Leads
  <2>2. r \o q = q
    BY <1>1, <1>3
  <2> QED  BY <1>1, <1>2, <2>1, <2>2
<1>4. CASE q = << >>
  <2>1. t = u
    BY <1>0, <1>4 DEF Leads
  <2>2. r \o q = r
    BY <1>1, <1>4
  <2> QED  BY <1>1, <1>2, <2>1, <2>2
<1>5. CASE r # << >> /\ q # << >>
  <2> DEFINE p == r \o q
             m == Len(r)
             n == Len(q)
  <2>1. IsRoute(r, G) /\ From(r) = s /\ To(r) = t /\ IsRoute(q, G) /\ From(q) = t /\ To(q) = u
    BY <1>5 DEF Leads
  <2>2. m \in Nat \ {0} /\ n \in Nat \ {0}
    BY <1>1, <1>5
  <2>3. /\ p \in Seq(G) /\ Len(p) = m + n
        /\ \A k \in 1..m : p[k] = r[k]
        /\ \A k \in 1..n : p[m + k] = q[k]
    BY <1>2
  <2> HIDE DEF p
  <2>4. ASSUME NEW k \in 1..(Len(p) - 1)  PROVE p[k][1] = p[k + 1][2]
    <3>1. CASE k < m
      <4>1. k \in 1..(Len(r) - 1) /\ k \in 1..m /\ k + 1 \in 1..m
        BY <2>2, <3>1
      <4>2. r[k][1] = r[k + 1][2]
        BY <2>1, <4>1 DEF IsRoute
      <4> QED  BY <2>3, <4>1, <4>2
    <3>2. CASE k = m
      <4>1. m \in 1..m /\ 1 \in 1..n
        BY <2>2
      <4>2. p[m] = r[m] /\ p[m + 1] = q[1]
        BY <2>3, <4>1
      <4> QED  BY <2>1, <3>2, <4>2 DEF From, To
    <3>3. CASE k > m
      <4>1. /\ k - m \in 1..(Len(q) - 1) /\ k - m \in 1..n /\ (k - m) + 1 \in 1..n
            /\ m + (k - m) = k /\ m + ((k - m) + 1) = k + 1
        BY <2>2, <2>3, <3>3
      <4>2. q[k - m][1] = q[(k - m) + 1][2]
        BY <2>1, <4>1 DEF IsRoute
      <4>3. p[m + (k - m)] = q[k - m] /\ p[m + ((k - m) + 1)] = q[(k - m) + 1]
        BY <2>3, <4>1
      <4> QED  BY <4>1, <4>2, <4>3
    <3> QED  BY <2>2, <2>3, <3>1, <3>2, <3>3
  <2>5. IsRoute(p, G)
    <3>1. p # << >>
      BY <2>2, <2>3
    <3> QED  BY <2>3, <2>4, <3>1 DEF IsRoute
  <2>6. From(p) = s /\ To(p) = u
    <3>1. 1 \in 1..m /\ n \in 1..n
      BY <2>2
    <3>2. p[1] = r[1] /\ p[m + n] = q[n]
      BY <2>3, <3>1
    <3> QED  BY <2>1, <2>3, <3>2 DEF From, To
  <2> QED  BY <1>1, <1>2, <2>5, <2>6 DEF Leads, p
<1> QED  BY <1>3, <1>4, <1>5

\* An edge is a way, and one with a way from its container is a route.
LEMMA EdgeLeads ==
  ASSUME NEW G, NEW e \in G
  PROVE  Leads(e[2], <<e>>, e[1], G)
BY DEF Leads, IsRoute, From, To

\* A route that starts with an edge and goes on as a way does.
OnTop(p, e, r, t, G) ==
  /\ IsRoute(p, G) /\ From(p) = e[2] /\ To(p) = t
  /\ p[1] = e /\ Tail(p) = r
  /\ Len(r) \in Nat /\ Len(p) = Len(r) + 1

\* An edge before a way from its upper end is such a route.
LEMMA EdgeOn ==
  ASSUME NEW G, NEW e, e \in G, NEW r, NEW t, Leads(e[1], r, t, G),
         NEW p, p = <<e>> \o r
  PROVE  OnTop(p, e, r, t, G)
<1>1. /\ Leads(e[2], <<e>> \o r, t, G) /\ r \in Seq(G) /\ Len(r) \in Nat
      /\ Len(<<e>> \o r) = Len(<<e>>) + Len(r)
  BY EdgeLeads, WaysJoin
<1>2. Len(<<e>>) = 1 /\ Len(r) + 1 # 0
  BY <1>1
<1>3. <<e>> \o r # << >>
  BY <1>1
<1>4. (<<e>> \o r)[1] = e /\ Tail(<<e>> \o r) = r
  BY <1>1
<1>5. Leads(e[2], p, t, G) /\ p # << >>
  BY <1>1, <1>3
<1>6. p[1] = e /\ Tail(p) = r /\ Len(r) \in Nat /\ Len(p) = Len(r) + 1
  BY <1>1, <1>2, <1>4
<1>7. IsRoute(p, G) /\ From(p) = e[2] /\ To(p) = t
  BY <1>5 DEF Leads
<1> QED  BY <1>6, <1>7 DEF OnTop

\* What is above a node is at the end of a way up from it.
LEMMA AboveByWay ==
  ASSUME NEW S, IsFiniteSet(S), NEW s, NEW t \in Up({s}, S)
  PROVE  \E r : Leads(s, r, t, S)
<1> DEFINE X == Up({s}, S)
           Y == {x \in X : \E r : Leads(s, r, x, S)}
<1>1. IsUp(X, {s}, S)
  BY UpIs
<1> HIDE DEF X
<1>2. s \in X /\ Leads(s, << >>, s, S)
  BY <1>1 DEF IsUp, Leads
<1>3. ASSUME NEW e \in S, e[2] \in Y  PROVE e[1] \in Y
  <2>1. PICK r : Leads(s, r, e[2], S)
    BY <1>3
  <2>2. Leads(s, r \o <<e>>, e[1], S)
    BY <2>1, EdgeLeads, WaysJoin
  <2> QED  BY <1>1, <1>3, <2>2 DEF IsUp
<1>4. {s} \subseteq Y
  BY <1>2
<1> HIDE DEF Y
<1>5. X \subseteq Y
  BY <1>1, <1>3, <1>4 DEF IsUp
<1> QED  BY <1>5 DEF X, Y

\* What is below it is at the foot of one.
LEMMA BelowByWay ==
  ASSUME NEW S, IsFiniteSet(S), NEW s, NEW t \in Down({s}, S)
  PROVE  \E r : Leads(t, r, s, S)
<1> DEFINE X == Down({s}, S)
           Y == {x \in X : \E r : Leads(x, r, s, S)}
<1>1. IsDown(X, {s}, S)
  BY DownIs
<1> HIDE DEF X
<1>2. s \in X /\ Leads(s, << >>, s, S)
  BY <1>1 DEF IsDown, Leads
<1>3. ASSUME NEW e \in S, e[1] \in Y  PROVE e[2] \in Y
  <2>1. PICK r : Leads(e[1], r, s, S)
    BY <1>3
  <2>2. Leads(e[2], <<e>> \o r, s, S)
    BY <2>1, EdgeLeads, WaysJoin
  <2> QED  BY <1>1, <1>3, <2>2 DEF IsDown
<1>4. {s} \subseteq Y
  BY <1>2
<1> HIDE DEF Y
<1>5. X \subseteq Y
  BY <1>1, <1>3, <1>4 DEF IsDown
<1> QED  BY <1>5 DEF X, Y

\* A route of more edges than there are sets comes back to one.
LEMMA LongRoutesReturn ==
  ASSUME NEW S \in SUBSET (Sets \X Sets), NEW p, IsRoute(p, S),
         NEW k, k = Cardinality(Sets), k < Len(p)
  PROVE  /\ k \in Nat
         /\ \E i \in 1..Len(p) : \E j \in (i + 1)..(k + 1) :
              p[i][2] = p[j][2] /\ j \in 1..Len(p)
<1>1. k \in Nat /\ Len(p) \in Nat \ {0} /\ \A i \in 1..Len(p) : p[i] \in S
  BY GraphAssumption, FS_CardinalityType DEF IsRoute
<1> DEFINE m == k + 1
           f == [i \in 1..m |-> p[i][2]]
<1>2. m \in Nat /\ m <= Len(p) /\ m > k
  BY <1>1
<1>3. f \in [1..m -> Sets]
  <2>1. \A i \in 1..m : p[i][2] \in Sets
    BY <1>1, <1>2
  <2> QED  BY <2>1
<1>4. f \notin Injection(1..m, Sets)
  <2> SUFFICES ASSUME f \in Injection(1..m, Sets)  PROVE FALSE
    OBVIOUS
  <2> HIDE DEF f
  <2>1. IsFiniteSet(1..m) /\ Cardinality(1..m) = m
    <3>1. IF 1 > m THEN m = 0 ELSE m - 1 + 1 = m
      BY <1>2
    <3> HIDE DEF m
    <3> QED  BY <1>2, <3>1, FS_Interval
  <2>2. Cardinality(1..m) <= Cardinality(Sets)
    BY <2>1, GraphAssumption, FS_Injection
  <2> QED  BY <1>1, <1>2, <2>1, <2>2
<1>5. PICK a \in 1..m, b \in 1..m : a # b /\ f[a] = f[b]
  <2> HIDE DEF f, m
  <2> QED  BY <1>3, <1>4 DEF Injection, IsInjective
<1>6. p[a][2] = p[b][2]
  BY <1>5
<1>7. CASE a < b
  <2>1. a \in 1..Len(p) /\ b \in (a + 1)..(k + 1) /\ b \in 1..Len(p)
    BY <1>1, <1>2, <1>7
  <2> QED  BY <1>1, <1>6, <2>1
<1>8. CASE b < a
  <2>1. b \in 1..Len(p) /\ a \in (b + 1)..(k + 1) /\ a \in 1..Len(p)
    BY <1>1, <1>2, <1>8
  <2> QED  BY <1>1, <1>6, <2>1
<1> QED  BY <1>5, <1>7, <1>8

\* So without a cycle there is none.
LEMMA RoutesAreShort ==
  ASSUME NEW S \in SUBSET (Sets \X Sets), NEW p, IsRoute(p, S), NoCycle(S)
  PROVE  Len(p) \in Nat /\ Cardinality(Sets) \in Nat /\ Len(p) <= Cardinality(Sets)
<1> DEFINE k == Cardinality(Sets)
<1>1. k \in Nat /\ Len(p) \in Nat \ {0}
  BY GraphAssumption, FS_CardinalityType DEF IsRoute
<1> HIDE DEF k
<1>2. ASSUME k < Len(p)  PROVE FALSE
  <2>1. PICK i \in 1..Len(p) : \E j \in (i + 1)..(k + 1) :
              p[i][2] = p[j][2] /\ j \in 1..Len(p)
    BY <1>2, LongRoutesReturn DEF k
  <2>2. PICK j \in (i + 1)..(k + 1) : p[i][2] = p[j][2] /\ j \in 1..Len(p)
    BY <2>1
  <2>3. /\ j - 1 \in i..Len(p) /\ j - 1 \in 1..(Len(p) - 1) /\ (j - 1) + 1 = j
        /\ (j - 1) - i + 1 <= k + 1
    BY <1>1, <2>2
  <2> DEFINE r == Piece(p, i, j - 1)
  <2>4. /\ IsRoute(r, S) /\ Len(r) = (j - 1) - i + 1
        /\ From(r) = p[i][2] /\ To(r) = p[j - 1][1]
    <3>1. PICK m : m = j - 1
      OBVIOUS
    <3>2. IsRoute(p, S) /\ i \in 1..Len(p) /\ m \in i..Len(p)
      BY <2>3, <3>1
    <3>3. /\ IsRoute(Piece(p, i, m), S) /\ Len(Piece(p, i, m)) = m - i + 1
          /\ From(Piece(p, i, m)) = p[i][2] /\ To(Piece(p, i, m)) = p[m][1]
      BY ONLY <3>2, PieceIsRoute
    <3> QED  BY <3>1, <3>3
  <2>5. p[j - 1][1] = p[(j - 1) + 1][2]
    BY <2>3 DEF IsRoute
  <2> HIDE DEF r
  <2>6. Len(r) <= Longest
    BY <2>3, <2>4 DEF Longest, k
  <2> QED  BY <2>2, <2>3, <2>4, <2>5, <2>6 DEF NoCycle
<1> QED  BY <1>1, <1>2 DEF k

\* A way there is, is one of no more edges than there are sets.
LEMMA ShortWay ==
  ASSUME NEW S \in SUBSET (Sets \X Sets), NEW s, NEW t, \E r : Leads(s, r, t, S)
  PROVE  \E r : Leads(s, r, t, S) /\ Len(r) \in Nat /\ Len(r) <= Cardinality(Sets)
<1> DEFINE k == Cardinality(Sets)
           L == {n \in Nat : \E r : Leads(s, r, t, S) /\ Len(r) = n}
<1>1. k \in Nat
  BY GraphAssumption, FS_CardinalityType
<1>2. \A r, x, y : Leads(x, r, y, S) => Len(r) \in Nat
  BY DEF Leads, IsRoute
<1>3. L # {} /\ L \in SUBSET Nat
  BY <1>2
<1>4. PICK n \in L : \A m \in L : n <= m
  <2> HIDE DEF L
  <2> QED  BY <1>3, LeastNat
<1>5. PICK p : Leads(s, p, t, S) /\ Len(p) = n
  BY <1>4
<1>6. ASSUME k < n  PROVE FALSE
  <2>1. p # << >>
    BY <1>1, <1>5, <1>6
  <2>2. IsRoute(p, S) /\ From(p) = s /\ To(p) = t /\ Len(p) = n /\ n \in Nat \ {0}
    BY <1>1, <1>4, <1>5, <1>6, <2>1 DEF Leads
  <2>3. PICK i \in 1..n : \E j \in (i + 1)..(k + 1) : p[i][2] = p[j][2] /\ j \in 1..n
    BY <1>6, <2>2, LongRoutesReturn
  <2>4. PICK j \in (i + 1)..(k + 1) : p[i][2] = p[j][2] /\ j \in 1..n
    BY <2>3
  <2> DEFINE q == Piece(p, j, n)
  <2>5. Leads(p[j][2], q, t, S) /\ Len(q) = n - j + 1
    <3>1. n \in j..Len(p) /\ j \in 1..Len(p)
      BY <2>2, <2>4
    <3>2. IsRoute(q, S) /\ Len(q) = n - j + 1 /\ From(q) = p[j][2] /\ To(q) = p[n][1]
      BY <2>2, <3>1, PieceIsRoute
    <3> HIDE DEF q
    <3> QED  BY <2>2, <3>2 DEF Leads, To
  <2> HIDE DEF q
  <2>6. \E a : Leads(s, a, p[i][2], S) /\ Len(a) = i - 1
    <3>1. CASE i = 1
      <4>1. Leads(s, << >>, p[i][2], S) /\ Len(<< >>) = i - 1
        BY <2>2, <3>1 DEF Leads, From
      <4> QED  BY <4>1
    <3>2. CASE i # 1
      <4>1. /\ i - 1 \in 1..Len(p) /\ 1 \in 1..Len(p) /\ i - 1 \in 1..(Len(p) - 1)
            /\ (i - 1) + 1 = i /\ (i - 1) - 1 + 1 = i - 1
        BY <2>2, <3>2
      <4> DEFINE a == Piece(p, 1, i - 1)
      <4>2. IsRoute(a, S) /\ Len(a) = i - 1 /\ From(a) = p[1][2] /\ To(a) = p[i - 1][1]
        BY <2>2, <4>1, PieceIsRoute
      <4>3. p[i - 1][1] = p[i][2]
        BY <2>2, <4>1 DEF IsRoute
      <4> HIDE DEF a
      <4>4. Leads(s, a, p[i][2], S)
        BY <2>2, <4>2, <4>3 DEF Leads, From
      <4> QED  BY <4>2, <4>4
    <3> QED  BY <3>1, <3>2
  <2>7. PICK a : Leads(s, a, p[i][2], S) /\ Len(a) = i - 1
    BY <2>6
  <2>8. Leads(s, a \o q, t, S) /\ Len(a \o q) = (i - 1) + (n - j + 1)
    BY <2>4, <2>5, <2>7, WaysJoin
  <2>9. (i - 1) + (n - j + 1) \in Nat /\ (i - 1) + (n - j + 1) < n
    BY <2>2, <2>4
  <2>10. Len(a \o q) \in L
    BY <2>8, <2>9
  <2> QED  BY <1>4, <2>2, <2>8, <2>9, <2>10
<1> QED  BY <1>1, <1>2, <1>4, <1>5, <1>6

----------------------------------------------------------------------------
(* The topological order and the depth *)

\* The recursion of Ordered.
Rounds(f, S) ==
  f = [n \in Nat |->
         IF n = 0 THEN {}
         ELSE {x \in Nodes(S) : \A e \in S : e[2] = x => e[1] \in f[n - 1]}]

\* There is one.
LEMMA RoundsExist ==
  ASSUME NEW S
  PROVE  \E f : Rounds(f, S)
<1> DEFINE All == SUBSET Nodes(S)
           next(X) == {x \in Nodes(S) : \A e \in S : e[2] = x => e[1] \in X}
           step == [n \in Nat |-> [X \in All |-> next(X)]]
<1>1. {} \in All /\ \A n \in Nat : \A X \in All : step[n][X] \in All
  OBVIOUS
<1>2. \A n \in Nat : \A X \in All : step[n][X] = next(X)
  OBVIOUS
<1> HIDE DEF step, All, next
<1>3. PICK f : Iterates(f, All, {}, step)
  BY <1>1, IteratesExist
<1>4. /\ f \in [Nat -> All] /\ f[0] = {}
      /\ \A n \in Nat : f[n + 1] = next(f[n])
  BY <1>2, <1>3 DEF Iterates
<1>5. ASSUME NEW n \in Nat
      PROVE  f[n] = IF n = 0 THEN {} ELSE next(f[n - 1])
  <2>1. CASE n = 0
    BY <1>4, <2>1
  <2>2. CASE n # 0
    <3>1. n - 1 \in Nat /\ (n - 1) + 1 = n
      BY <2>2
    <3>2. f[(n - 1) + 1] = next(f[n - 1])
      BY <1>4, <3>1
    <3> QED  BY <2>2, <3>1, <3>2
  <2> QED  BY <2>1, <2>2
<1>6. f = [n \in Nat |-> IF n = 0 THEN {} ELSE next(f[n - 1])]
  BY <1>4, <1>5
<1>7. Rounds(f, S)
  BY <1>6 DEF Rounds, next
<1> QED  BY <1>7

\* What is ordered in a round (Kahn's algorithm).
LEMMA OrderedIs ==
  ASSUME NEW S
  PROVE  /\ Ordered(S, 0) = {}
         /\ \A n \in Nat : Ordered(S, n + 1) =
              {x \in Nodes(S) : \A e \in S : e[2] = x => e[1] \in Ordered(S, n)}
<1> DEFINE Rec(g) == g = [n \in Nat |->
         IF n = 0 THEN {}
         ELSE {x \in Nodes(S) : \A e \in S : e[2] = x => e[1] \in g[n - 1]}]
           f == CHOOSE g : Rec(g)
<1>1. \E g : Rec(g)
  <2>1. PICK g : Rounds(g, S)
    BY RoundsExist
  <2>2. Rec(g)
    BY <2>1 DEF Rounds
  <2> HIDE DEF Rec
  <2> QED  BY <2>2
<1>2. Rec(f)
  <2> HIDE DEF Rec
  <2> QED  BY <1>1
<1>3. \A n : Ordered(S, n) = f[n]
  BY DEF Ordered
<1> HIDE DEF f
<1>4. f[0] = {}
  BY <1>2
<1>5. ASSUME NEW n \in Nat
      PROVE  f[n + 1] = {x \in Nodes(S) : \A e \in S : e[2] = x => e[1] \in f[n]}
  <2>1. n + 1 \in Nat /\ n + 1 # 0 /\ (n + 1) - 1 = n
    OBVIOUS
  <2>2. f[n + 1] = {x \in Nodes(S) : \A e \in S : e[2] = x => e[1] \in f[(n + 1) - 1]}
    BY <1>2, <2>1
  <2> QED  BY <2>1, <2>2
<1> QED  BY <1>3, <1>4, <1>5

\* What is ordered stays so.
LEMMA OrderedGrows ==
  ASSUME NEW S, NEW n \in Nat, NEW m \in Nat, n <= m
  PROVE  Ordered(S, n) \subseteq Ordered(S, m)
<1> DEFINE N == {k \in Nat : Ordered(S, k) \subseteq Ordered(S, k + 1)}
           K == {k \in Nat : Ordered(S, n) \subseteq Ordered(S, n + k)}
<1>1. 0 \in N
  BY OrderedIs
<1>2. ASSUME NEW k \in Nat, k \in N  PROVE k + 1 \in N
  <2>1. k + 1 \in Nat
    OBVIOUS
  <2>2. /\ Ordered(S, k + 1) =
              {x \in Nodes(S) : \A e \in S : e[2] = x => e[1] \in Ordered(S, k)}
        /\ Ordered(S, (k + 1) + 1) =
              {x \in Nodes(S) : \A e \in S : e[2] = x => e[1] \in Ordered(S, k + 1)}
    BY <2>1, OrderedIs
  <2>3. Ordered(S, k + 1) \subseteq Ordered(S, (k + 1) + 1)
    BY <1>2, <2>2
  <2> QED  BY <2>1, <2>3
<1> HIDE DEF N
<1>3. \A k \in Nat : k \in N
  BY <1>1, <1>2, NatInduct
<1>4. 0 \in K
  OBVIOUS
<1>5. ASSUME NEW k \in Nat, k \in K  PROVE k + 1 \in K
  <2>1. n + k \in N /\ (n + k) + 1 = n + (k + 1)
    BY <1>3
  <2>2. Ordered(S, n + k) \subseteq Ordered(S, n + (k + 1))
    BY <2>1 DEF N
  <2> QED  BY <1>5, <2>2
<1> HIDE DEF K
<1>6. m - n \in K
  <2>1. m - n \in Nat
    OBVIOUS
  <2> QED  BY <1>4, <1>5, <2>1, NatInduct
<1>7. n + (m - n) = m
  OBVIOUS
<1> QED  BY <1>6, <1>7 DEF K

\* Nothing is ordered any more once nothing was.
LEMMA OrderedStops ==
  ASSUME NEW S, NEW n \in Nat, Ordered(S, n) = Ordered(S, n + 1),
         NEW m \in Nat
  PROVE  Ordered(S, m) \subseteq Ordered(S, n)
<1> DEFINE K == {k \in Nat : Ordered(S, n + k) = Ordered(S, n)}
<1>1. 0 \in K
  OBVIOUS
<1>2. ASSUME NEW k \in Nat, k \in K  PROVE k + 1 \in K
  <2>1. n + k \in Nat /\ (n + k) + 1 = n + (k + 1)
    OBVIOUS
  <2>2. \A i \in Nat : Ordered(S, i + 1) =
             {x \in Nodes(S) : \A e \in S : e[2] = x => e[1] \in Ordered(S, i)}
    BY OrderedIs
  <2>3. Ordered(S, (n + k) + 1) =
             {x \in Nodes(S) : \A e \in S : e[2] = x => e[1] \in Ordered(S, n + k)}
    BY <2>1, <2>2
  <2>4. Ordered(S, n + 1) =
             {x \in Nodes(S) : \A e \in S : e[2] = x => e[1] \in Ordered(S, n)}
    BY <2>2
  <2>5. Ordered(S, n + (k + 1)) = Ordered(S, n)
    BY <1>2, <2>1, <2>3, <2>4
  <2> QED  BY <2>5
<1> HIDE DEF K
<1>3. CASE n <= m
  <2>1. m - n \in Nat /\ n + (m - n) = m
    BY <1>3
  <2>2. m - n \in K
    BY <1>1, <1>2, <2>1, NatInduct
  <2> QED  BY <2>1, <2>2 DEF K
<1>4. CASE m <= n
  BY <1>4, OrderedGrows
<1> QED  BY <1>3, <1>4

\* Each container on a route is ordered before its member.
LEMMA RouteOrdered ==
  ASSUME NEW S, NEW p, IsRoute(p, S), NEW n \in Nat, From(p) \in Ordered(S, n)
  PROVE  Len(p) + 1 <= n /\ To(p) \in Ordered(S, n - Len(p))
<1> DEFINE K == {k \in Nat : k < Len(p) =>
                   n - k >= 1 /\ p[k + 1][2] \in Ordered(S, n - k)}
<1>1. Len(p) \in Nat \ {0} /\ \A i \in 1..Len(p) : p[i] \in S
  BY DEF IsRoute
<1>2. ASSUME NEW e \in S, NEW k \in Nat, e[2] \in Ordered(S, k)
      PROVE  /\ k - 1 \in Nat /\ e[1] \in Ordered(S, k - 1)
             /\ k - 2 \in Nat
  <2>1. k # 0 /\ k - 1 \in Nat /\ (k - 1) + 1 = k
    BY <1>2, OrderedIs
  <2>2. e[1] \in Ordered(S, k - 1)
    BY <1>2, <2>1, OrderedIs
  <2>3. k - 1 # 0
    BY <2>2, OrderedIs
  <2> QED  BY <2>1, <2>2, <2>3
<1>3. 0 \in K
  <2>1. p[1] \in S /\ p[1][2] \in Ordered(S, n)
    BY <1>1 DEF From
  <2>2. n - 1 \in Nat /\ n - 0 = n /\ 0 + 1 = 1
    BY <1>2, <2>1
  <2> QED  BY <2>1, <2>2
<1>4. ASSUME NEW k \in Nat, k \in K  PROVE k + 1 \in K
  <2> SUFFICES ASSUME k + 1 < Len(p)
               PROVE  n - (k + 1) >= 1 /\ p[(k + 1) + 1][2] \in Ordered(S, n - (k + 1))
    OBVIOUS
  <2>1. /\ k < Len(p) /\ k + 1 \in 1..(Len(p) - 1) /\ k + 1 \in 1..Len(p)
        /\ (k + 1) + 1 \in 1..Len(p)
    BY <1>1
  <2>2. n - k \in Nat /\ p[k + 1][2] \in Ordered(S, n - k)
    BY <1>4, <2>1
  <2>3. p[k + 1] \in S /\ p[k + 1][1] = p[(k + 1) + 1][2]
    BY <1>1, <2>1 DEF IsRoute
  <2>4. (n - k) - 1 \in Nat /\ (n - k) - 2 \in Nat /\ p[k + 1][1] \in Ordered(S, (n - k) - 1)
    BY <1>2, <2>2, <2>3
  <2>5. (n - k) - 1 = n - (k + 1)
    BY <1>1
  <2> QED  BY <1>1, <2>3, <2>4, <2>5
<1> HIDE DEF K
<1>5. Len(p) - 1 \in K /\ Len(p) - 1 \in Nat
  <2>1. \A k \in Nat : k \in K
    BY <1>3, <1>4, NatInduct
  <2>2. Len(p) - 1 \in Nat
    BY <1>1
  <2> QED  BY <2>1, <2>2
<1> DEFINE k == Len(p) - 1
<1>6. k \in Nat /\ k < Len(p) /\ k + 1 = Len(p) /\ Len(p) \in 1..Len(p)
  BY <1>1
<1>7. n - k >= 1 /\ p[Len(p)][2] \in Ordered(S, n - k)
  <2> HIDE DEF k
  <2>1. k \in K
    BY <1>5 DEF k
  <2> QED  BY <1>6, <2>1 DEF K
<1>8. n - k \in Nat
  BY <1>6, <1>7
<1>9. /\ (n - k) - 1 \in Nat /\ (n - k) - 2 \in Nat
      /\ p[Len(p)][1] \in Ordered(S, (n - k) - 1)
  BY <1>1, <1>2, <1>6, <1>7, <1>8
<1>10. (n - k) - 1 = n - Len(p) /\ Len(p) + 1 <= n
  BY <1>1, <1>9
<1> QED  BY <1>9, <1>10 DEF To

\* All is ordered when no route is a cycle, and none is longer than the depth.
LEMMA OrderBounds ==
  ASSUME NEW S, IsFiniteSet(S), TopologicalOrder(S) = Nodes(S),
         NEW p, IsRoute(p, S)
  PROVE  From(p) # To(p) /\ Len(p) <= MaxDepth(S)
<1> DEFINE N == Cardinality(Nodes(S))
           L == Len(p)
           rounds == {n \in 1..N : Ordered(S, n) # Ordered(S, n - 1)}
<1>1. N \in Nat /\ L \in Nat \ {0}
  BY NodesFinite, FS_CardinalityType DEF IsRoute
<1>2. From(p) \in Ordered(S, N)
  <2>1. p[1] \in S
    BY <1>1 DEF IsRoute
  <2> QED  BY <2>1 DEF From, Nodes, TopologicalOrder
<1>3. From(p) # To(p)
  <2> SUFFICES ASSUME From(p) = To(p)  PROVE FALSE
    OBVIOUS
  <2> DEFINE D == {n \in Nat : From(p) \in Ordered(S, n)}
  <2>1. D \in SUBSET Nat /\ D # {}
    BY <1>1, <1>2
  <2>2. PICK n \in D : \A k \in D : n <= k
    <3> HIDE DEF D
    <3> QED  BY <2>1, LeastNat
  <2>3. L + 1 <= n /\ To(p) \in Ordered(S, n - L)
    BY <2>2, RouteOrdered
  <2>4. n - L \in D /\ ~ (n <= n - L)
    BY <1>1, <2>2, <2>3
  <2> QED  BY <2>2, <2>4
<1>4. L + 1 <= N
  BY <1>1, <1>2, RouteOrdered
<1>5. ASSUME NEW n \in 1..(L + 1)  PROVE n \in rounds
  <2>1. n \in 1..N /\ n - 1 \in Nat /\ (n - 1) + 1 = n
    BY <1>1, <1>4
  <2> SUFFICES ASSUME Ordered(S, n) = Ordered(S, n - 1)  PROVE FALSE
    BY <2>1
  <2>2. Ordered(S, N) \subseteq Ordered(S, n - 1)
    BY <1>1, <2>1, OrderedStops
  <2>3. L + 1 <= n - 1
    BY <1>2, <2>1, <2>2, RouteOrdered
  <2> QED  BY <1>1, <2>3
<1>6. /\ IsFiniteSet(rounds) /\ Cardinality(rounds) \in Nat
      /\ L + 1 <= Cardinality(rounds)
  <2>1. IsFiniteSet(1..N) /\ rounds \in SUBSET (1..N)
    BY <1>1, FS_Interval
  <2>2. 1..(L + 1) \in SUBSET rounds /\ IsFiniteSet(1..(L + 1))
        /\ Cardinality(1..(L + 1)) = L + 1
    <3>1. L + 1 \in Int /\ ~ (1 > L + 1) /\ (L + 1) - 1 + 1 = L + 1
      BY <1>1
    <3>2. IsFiniteSet(1..(L + 1)) /\ Cardinality(1..(L + 1)) = (L + 1) - 1 + 1
      BY <3>1, FS_Interval
    <3> HIDE DEF rounds
    <3> QED  BY <1>5, <3>1, <3>2
  <2> HIDE DEF rounds
  <2>3. IsFiniteSet(rounds)
    BY <2>1, FS_Subset
  <2> QED  BY <2>2, <2>3, FS_Subset, FS_CardinalityType
<1>7. 1 \in rounds
  BY <1>1, <1>5
<1>8. MaxDepth(S) = Cardinality(rounds) - 1
  BY <1>7 DEF MaxDepth
<1> HIDE DEF rounds
<1> QED  BY <1>1, <1>3, <1>6, <1>8

----------------------------------------------------------------------------
(* What the order and the depth say of the routes *)

\* The rounds of Ordered are enough.
LEMMA OrderedSettles ==
  ASSUME NEW S, IsFiniteSet(S), NEW k, k = Cardinality(Nodes(S))
  PROVE  k \in Nat /\ Ordered(S, k) = Ordered(S, k + 1)
<1> DEFINE f == [n \in Nat |-> Ordered(S, n)]
<1>1. IsFiniteSet(Nodes(S))
  BY NodesFinite
<1>2. \A n \in Nat : f[n] = Ordered(S, n) /\ f[n + 1] = Ordered(S, n + 1)
                     /\ f[(n + 1) + 1] = Ordered(S, (n + 1) + 1)
  OBVIOUS
<1>3. f[0] = {}
  BY OrderedIs
<1> HIDE DEF f
<1>4. ASSUME NEW n \in Nat  PROVE f[n] \subseteq {} \cup Nodes(S) /\ f[n] \subseteq f[n + 1]
  <2>1. Ordered(S, n) \subseteq Ordered(S, n + 1)
    <3>1. n + 1 \in Nat /\ n <= n + 1
      OBVIOUS
    <3> QED  BY <3>1, OrderedGrows
  <2>2. Ordered(S, n + 1) \subseteq Nodes(S)
    BY OrderedIs
  <2> QED  BY <1>2, <2>1, <2>2
<1>5. ASSUME NEW n \in Nat, f[n] = f[n + 1]  PROVE f[n + 1] = f[(n + 1) + 1]
  <2>1. PICK m : m = n + 1
    OBVIOUS
  <2>2. m \in Nat
    BY <2>1
  <2>3. Ordered(S, n + 1) =
          {x \in Nodes(S) : \A e \in S : e[2] = x => e[1] \in Ordered(S, n)}
    BY OrderedIs
  <2>4. Ordered(S, m + 1) =
          {x \in Nodes(S) : \A e \in S : e[2] = x => e[1] \in Ordered(S, m)}
    BY <2>2, OrderedIs
  <2>5. Ordered(S, n) = Ordered(S, m)
    BY <1>2, <1>5, <2>1
  <2>6. Ordered(S, n + 1) = Ordered(S, m + 1)
    BY <2>3, <2>4, <2>5
  <2> QED  BY <1>2, <2>1, <2>6
<1>6. Grows(f, {}, Nodes(S))
  BY <1>3, <1>4, <1>5 DEF Grows
<1>7. k \in Nat /\ f[k] = f[k + 1]
  BY <1>1, <1>6, GrownUp
<1> QED  BY <1>2, <1>7

\* What is not ordered leads round: all is ordered just if nothing does.
LEMMA OrderedIsAcyclic ==
  ASSUME NEW S \in SUBSET (Sets \X Sets), IsFiniteSet(S)
  PROVE  TopologicalOrder(S) = Nodes(S) <=> NoCycle(S)
<1> DEFINE k == Cardinality(Nodes(S))
           U == Nodes(S) \ Ordered(S, k)
<1>1. k \in Nat /\ Ordered(S, k) = Ordered(S, k + 1)
  BY OrderedSettles
<1>2. Ordered(S, k + 1) = {x \in Nodes(S) : \A e \in S : e[2] = x => e[1] \in Ordered(S, k)}
  BY <1>1, OrderedIs
<1>3. TopologicalOrder(S) = Ordered(S, k)
  BY DEF TopologicalOrder
<1>4. ASSUME NEW x \in U  PROVE \E e \in S : e[2] = x /\ e[1] \in U
  <2>1. PICK e \in S : e[2] = x /\ e[1] \notin Ordered(S, k)
    BY <1>1, <1>2
  <2> QED  BY <2>1 DEF Nodes
<1>5. ASSUME NoCycle(S), TopologicalOrder(S) # Nodes(S)  PROVE FALSE
  <2> DEFINE L == {n \in Nat : \E r, s, t : Leads(s, r, t, S) /\ t \in U /\ Len(r) = n}
             m == Cardinality(Sets)
  <2>1. U # {}
    BY <1>1, <1>2, <1>3, <1>5
  <2> HIDE DEF U, k
  <2>2. 0 \in L
    <3>1. PICK x \in U : TRUE
      BY <2>1
    <3>2. Leads(x, << >>, x, S) /\ Len(<< >>) = 0
      BY DEF Leads
    <3> QED  BY <3>1, <3>2
  <2>3. ASSUME NEW n \in Nat, n \in L  PROVE n + 1 \in L
    <3>1. PICK r, s, t : Leads(s, r, t, S) /\ t \in U /\ Len(r) = n
      BY <2>3
    <3>2. PICK e \in S : e[2] = t /\ e[1] \in U
      BY <1>4, <3>1
    <3>3. Leads(t, <<e>>, e[1], S) /\ Len(<<e>>) = 1
      BY <3>2, EdgeLeads
    <3>4. Leads(s, r \o <<e>>, e[1], S) /\ Len(r \o <<e>>) = n + 1
      BY <3>1, <3>3, WaysJoin
    <3>5. n + 1 \in Nat
      OBVIOUS
    <3> QED  BY <3>2, <3>4, <3>5
  <2> HIDE DEF L
  <2>4. m \in Nat /\ m + 1 \in Nat
    BY GraphAssumption, FS_CardinalityType
  <2>5. m + 1 \in L
    BY <2>2, <2>3, <2>4, NatInduct
  <2>6. PICK r, s, t : Leads(s, r, t, S) /\ Len(r) = m + 1
    BY <2>5 DEF L
  <2>7. r # << >>
    BY <2>4, <2>6
  <2>8. IsRoute(r, S)
    BY <2>6, <2>7 DEF Leads
  <2>9. Len(r) <= m
    BY <1>5, <2>8, RoutesAreShort
  <2> QED  BY <2>4, <2>6, <2>9
<1>6. ASSUME TopologicalOrder(S) = Nodes(S)  PROVE NoCycle(S)
  BY <1>6, OrderBounds DEF NoCycle
<1> QED  BY <1>5, <1>6

\* What a round orders is at the foot of a way through the rounds before.
LEMMA RoundsAreWays ==
  ASSUME NEW S, NEW n \in Nat, NEW x \in Ordered(S, n + 1), x \notin Ordered(S, n)
  PROVE  \E r, t : Leads(x, r, t, S) /\ Len(r) = n
<1> DEFINE new(k) == Ordered(S, k + 1) \ Ordered(S, k)
           N == {k \in Nat : \A y \in new(k) :
                   \E r, t : Leads(y, r, t, S) /\ Len(r) = k}
<1>1. 0 \in N
  <2>1. \A y : Leads(y, << >>, y, S) /\ Len(<< >>) = 0
    BY DEF Leads
  <2> QED  BY <2>1
<1>2. ASSUME NEW k \in Nat, k \in N  PROVE k + 1 \in N
  <2> SUFFICES ASSUME NEW y \in new(k + 1)
               PROVE  \E r, t : Leads(y, r, t, S) /\ Len(r) = k + 1
    OBVIOUS
  <2>1. /\ Ordered(S, k + 1) =
              {z \in Nodes(S) : \A e \in S : e[2] = z => e[1] \in Ordered(S, k)}
        /\ Ordered(S, (k + 1) + 1) =
              {z \in Nodes(S) : \A e \in S : e[2] = z => e[1] \in Ordered(S, k + 1)}
    <3>1. k + 1 \in Nat
      OBVIOUS
    <3>2. \A i \in Nat : Ordered(S, i + 1) =
              {z \in Nodes(S) : \A e \in S : e[2] = z => e[1] \in Ordered(S, i)}
      BY OrderedIs
    <3> HIDE DEF new
    <3> QED  BY <3>1, <3>2
  <2>2. PICK e \in S : e[2] = y /\ e[1] \in new(k)
    BY <2>1
  <2>3. PICK r, t : Leads(e[1], r, t, S) /\ Len(r) = k
    BY <1>2, <2>2
  <2>4. Leads(y, <<e>>, e[1], S) /\ Len(<<e>>) = 1
    BY <2>2, EdgeLeads
  <2>5. Leads(y, <<e>> \o r, t, S) /\ Len(<<e>> \o r) = k + 1
    BY <2>3, <2>4, WaysJoin
  <2> QED  BY <2>5
<1> HIDE DEF N
<1>3. n \in N
  BY <1>1, <1>2, NatInduct
<1> QED  BY <1>3 DEF N

\* There is a route as long as the depth.
LEMMA DepthIsReached ==
  ASSUME NEW S, IsFiniteSet(S)
  PROVE  /\ MaxDepth(S) \in Nat
         /\ MaxDepth(S) > 0 =>
              \E p : IsRoute(p, S) /\ Len(p) >= MaxDepth(S)
<1> DEFINE N == Cardinality(Nodes(S))
           rounds == {n \in 1..N : Ordered(S, n) # Ordered(S, n - 1)}
<1>1. N \in Nat /\ IsFiniteSet(1..N) /\ rounds \in SUBSET (1..N)
  <2>1. N \in Nat
    BY NodesFinite, FS_CardinalityType
  <2> HIDE DEF N
  <2> QED  BY <2>1, FS_Interval
<1>2. MaxDepth(S) = IF rounds = {} THEN 0 ELSE Cardinality(rounds) - 1
  BY DEF MaxDepth
<1>3. ASSUME NEW n \in rounds
      PROVE  n \in Nat \ {0} /\ \E r, s, t : Leads(s, r, t, S) /\ Len(r) = n - 1
  <2>1. n \in 1..N /\ n - 1 \in Nat /\ (n - 1) + 1 = n /\ n \in Nat /\ n - 1 <= n
    BY <1>1
  <2>2. Ordered(S, n - 1) \subseteq Ordered(S, n)
    BY <2>1, OrderedGrows
  <2>3. PICK x \in Ordered(S, (n - 1) + 1) : x \notin Ordered(S, n - 1)
    BY <1>3, <2>1, <2>2
  <2> QED  BY <2>1, <2>3, RoundsAreWays
<1> HIDE DEF rounds, N
<1>4. IsFiniteSet(rounds) /\ Cardinality(rounds) \in Nat
  BY <1>1, FS_Subset, FS_CardinalityType
<1>5. CASE rounds = {}
  BY <1>2, <1>5
<1>6. CASE rounds # {}
  <2>1. Cardinality(rounds) # 0
    BY <1>4, <1>6, FS_EmptySet
  <2>2. MaxDepth(S) = Cardinality(rounds) - 1 /\ MaxDepth(S) \in Nat
    BY <1>2, <1>4, <1>6, <2>1
  <2>3. PICK m \in rounds : \A n \in rounds : n <= m
    <3>1. rounds \in SUBSET Nat /\ \A n \in rounds : n <= N
      BY <1>1
    <3> QED  BY <1>1, <1>6, <3>1, GreatestNat
  <2>4. m \in Nat \ {0} /\ rounds \in SUBSET (1..m)
    <3>1. m \in Nat \ {0} /\ \A n \in rounds : n \in Nat \ {0}
      BY <1>3
    <3> QED  BY <2>3, <3>1
  <2>5. Cardinality(rounds) <= m
    <3>1. IF 1 > m THEN m = 0 ELSE m - 1 + 1 = m
      BY <2>4
    <3>2. IsFiniteSet(1..m) /\ Cardinality(1..m) = m
      BY <2>4, <3>1, FS_Interval
    <3> QED  BY <2>4, <3>2, FS_Subset
  <2>6. PICK r, s, t : Leads(s, r, t, S) /\ Len(r) = m - 1
    BY <1>3
  <2>7. ASSUME MaxDepth(S) > 0  PROVE IsRoute(r, S) /\ Len(r) >= MaxDepth(S)
    <3>1. Len(r) >= MaxDepth(S) /\ Len(r) # 0
      BY <1>4, <2>2, <2>4, <2>5, <2>6, <2>7
    <3>2. r # << >>
      BY <3>1
    <3> QED  BY <2>6, <3>1, <3>2 DEF Leads
  <2> QED  BY <2>2, <2>7
<1> QED  BY <1>5, <1>6

----------------------------------------------------------------------------
(* A request for set memberships *)

\* N is a part of the graph with the request, and existing the edges in it.
IsNear(N, existing, S, P) ==
  /\ N \subseteq Sets
  /\ existing = {e \in S : e[1] \in N}
  /\ \A e \in S \cup ToSet(P) : e[1] \in N <=> e[2] \in N
  /\ \A e \in ToSet(P) : e[1] \in N /\ e[2] \in N

\* Both reads of the existing edges, from the cache and from the table, are
\* of such a part.
LEMMA NearExists ==
  ASSUME NEW S \in SUBSET (Sets \X Sets), IsFiniteSet(S),
         NEW P \in Seq(Sets \X Sets),
         NEW existing \in {EdgesConnectedTo(P, S), S}
  PROVE  \E N : IsNear(N, existing, S, P)
<1>1. ToSet(P) \subseteq Sets \X Sets /\ IsFiniteSet(ToSet(P))
  BY RequestIsFinite
<1>2. CASE existing = S
  <2>1. IsNear(Sets, existing, S, P)
    BY <1>1, <1>2 DEF IsNear
  <2> QED  BY <2>1
<1>3. CASE existing = EdgesConnectedTo(P, S)
  <2> DEFINE back == {<<e[2], e[1]>> : e \in S}
             N == Down(Nodes(ToSet(P)), S \cup back)
  <2>1. IsFiniteSet(S \cup back)
    <3> DEFINE f == [e \in S |-> <<e[2], e[1]>>]
    <3>1. f \in Surjection(S, back)
      BY DEF Surjection
    <3> HIDE DEF f, back
    <3>2. IsFiniteSet(back)
      BY <3>1, FS_Surjection
    <3> QED  BY <3>2, FS_Union
  <2>2. /\ Nodes(ToSet(P)) \subseteq N
        /\ \A e \in S \cup back : e[1] \in N => e[2] \in N
        /\ \A Y : /\ Nodes(ToSet(P)) \subseteq Y
                  /\ \A e \in S \cup back : e[1] \in Y => e[2] \in Y
                  => N \subseteq Y
    <3> HIDE DEF back
    <3>1. IsDown(N, Nodes(ToSet(P)), S \cup back)
      BY <2>1, DownIs
    <3> QED  BY <3>1 DEF IsDown
  <2>3. existing = {e \in S : e[1] \in N}
    BY <1>3 DEF EdgesConnectedTo
  <2> HIDE DEF N
  <2>4. N \subseteq Sets
    <3>1. \A e \in S \cup back : e[2] \in Sets
      OBVIOUS
    <3>2. Nodes(ToSet(P)) \subseteq Sets
      BY <1>1 DEF Nodes
    <3> HIDE DEF back
    <3> QED  BY <2>2, <3>1, <3>2
  <2>5. \A e \in S : e[1] \in N <=> e[2] \in N
    <3> SUFFICES ASSUME NEW e \in S  PROVE e[1] \in N <=> e[2] \in N
      OBVIOUS
    <3>1. <<e[2], e[1]>> \in back
      OBVIOUS
    <3> HIDE DEF back
    <3>2. <<e[2], e[1]>>[1] \in N => <<e[2], e[1]>>[2] \in N
      BY <2>2, <3>1
    <3> QED  BY <2>2, <3>2
  <2>6. \A e \in ToSet(P) : e[1] \in N /\ e[2] \in N
    BY <2>2 DEF Nodes
  <2>7. IsNear(N, existing, S, P)
    BY <2>3, <2>4, <2>5, <2>6 DEF IsNear
  <2> QED  BY <2>7
<1> QED  BY <1>2, <1>3

\* A request P for set memberships, over the set memberships S and the account
\* memberships M, and a part N of the graph with what is read of it.
IsRequest(P, S, M, N, existing) ==
  /\ S \in SUBSET (Sets \X Sets) /\ IsFiniteSet(S)
  /\ M \in SUBSET (Sets \X Accounts)
  /\ P \in Seq(Sets \X Sets)
  /\ IsNear(N, existing, S, P)
  /\ Valid(S \cup M)

\* G is what it would make of the graph, with the set memberships T, of which
\* the request and what is read are all; and where G differs from what was.
IsRequested(P, S, M, N, all, T, G) ==
  /\ T \subseteq Sets \X Sets /\ IsFiniteSet(T) /\ N \subseteq Sets
  /\ all \subseteq T /\ IsFiniteSet(all)
  /\ \A e \in T : e[1] \in N <=> e[2] \in N
  /\ \A e \in ToSet(P) : e[1] \in N /\ e[2] \in N
  /\ \A e \in T : e[1] \in N => e \in all
  /\ \A e \in G : /\ e[1] \in Sets
                  /\ e[2] \in Sets <=> e \in T
                  /\ e[2] \in Accounts <=> e \in M
                  /\ ~ (e[2] \in Sets /\ e[2] \in Accounts)
                  /\ e[2] \in Sets \/ e[2] \in Accounts
  /\ \A p : IsRoute(p, G) =>
       /\ Len(p) \in Nat \ {0} /\ From(p) = p[1][2] /\ To(p) \in Sets
       /\ \A i \in 1..Len(p) : p[i] \in G /\ (i # 1 => p[i] \in T)
       /\ (\A i \in 1..Len(p) : p[i] \notin ToSet(P)) => IsRoute(p, S \cup M)
       /\ To(p) \in N =>
            \A i \in 1..Len(p) : p[i][1] \in N /\ (p[i] \in T => p[i] \in all)
       /\ To(p) \in N /\ From(p) \in Sets => IsRoute(p, all)
       /\ To(p) \notin N => IsRoute(p, S \cup M)
  /\ \A p : IsRoute(p, all) => IsRoute(p, G)

LEMMA RequestedGraph ==
  ASSUME NEW P, NEW S, NEW M, NEW N, NEW existing,
         IsRequest(P, S, M, N, existing),
         NEW all, all = existing \cup ToSet(P),
         NEW T, T = S \cup ToSet(P), NEW G, G = T \cup M
  PROVE  IsRequested(P, S, M, N, all, T, G)
<1>1. /\ N \subseteq Sets
      /\ existing = {e \in S : e[1] \in N}
      /\ \A e \in T : e[1] \in N <=> e[2] \in N
      /\ \A e \in ToSet(P) : e[1] \in N /\ e[2] \in N
  BY DEF IsRequest, IsNear
<1>2. /\ S \in SUBSET (Sets \X Sets) /\ IsFiniteSet(S) /\ M \in SUBSET (Sets \X Accounts)
      /\ P \in Seq(Sets \X Sets)
  BY DEF IsRequest
<1>3. T \subseteq Sets \X Sets /\ IsFiniteSet(all) /\ all \subseteq T /\ IsFiniteSet(T)
  <2>1. IsFiniteSet(existing) /\ IsFiniteSet(ToSet(P))
        /\ ToSet(P) \subseteq Sets \X Sets
    BY <1>1, <1>2, FS_Subset, RequestIsFinite
  <2>2. IsFiniteSet(all) /\ IsFiniteSet(T)
    BY <1>2, <2>1, FS_Union
  <2> QED  BY <1>1, <1>2, <2>1, <2>2
<1>4. \A x \in Sets : x \notin Accounts
  BY GraphAssumption
<1>5. \A e \in T : e[1] \in N => e \in all
  BY <1>1
<1>6. \A e \in G : /\ e[1] \in Sets
                   /\ e[2] \in Sets <=> e \in T
                   /\ e[2] \in Accounts <=> e \in M
                   /\ ~ (e[2] \in Sets /\ e[2] \in Accounts)
                   /\ e[2] \in Sets \/ e[2] \in Accounts
  <2>1. \A e \in T : e[1] \in Sets /\ e[2] \in Sets
    BY <1>3
  <2>2. \A e \in M : e[1] \in Sets /\ e[2] \in Accounts
    BY <1>2
  <2> QED  BY <1>4, <2>1, <2>2
<1>7. ASSUME NEW p, IsRoute(p, G)
      PROVE  /\ Len(p) \in Nat \ {0}
             /\ \A i \in 1..Len(p) : p[i] \in G /\ (i # 1 => p[i] \in T)
             /\ To(p) \in Sets
  <2>1. Len(p) \in Nat \ {0} /\ \A i \in 1..Len(p) : p[i] \in G
    BY <1>7 DEF IsRoute
  <2>2. ASSUME NEW i \in 1..Len(p), i # 1  PROVE p[i] \in T
    <3>1. i - 1 \in 1..(Len(p) - 1) /\ i - 1 \in 1..Len(p) /\ (i - 1) + 1 = i
      BY <2>1, <2>2
    <3>2. p[i - 1][1] = p[(i - 1) + 1][2] /\ p[i - 1][1] \in Sets
      BY <1>6, <1>7, <2>1, <3>1 DEF IsRoute
    <3> QED  BY <1>6, <2>1, <3>1, <3>2
  <2>3. Len(p) \in 1..Len(p)
    BY <2>1
  <2> QED  BY <1>6, <2>1, <2>2, <2>3 DEF To
\* Around the request, all is read.
<1>8. ASSUME NEW p, IsRoute(p, G), To(p) \in N
      PROVE  \A i \in 1..Len(p) : p[i][1] \in N /\ (p[i] \in T => p[i] \in all)
  <2> DEFINE X == N \cup Accounts
  <2>1. \A e \in G : e[1] \in X => e[2] \in X
    BY <1>1, <1>4, <1>6
  <2>2. Len(p) \in 1..Len(p) /\ p[Len(p)][1] \in X
    BY <1>7, <1>8 DEF To
  <2> HIDE DEF X
  <2>3. \A i \in 1..Len(p) : p[i][1] \in X
    BY <1>8, <2>1, <2>2, Descends
  <2>4. \A i \in 1..Len(p) : p[i][1] \in N
    BY <1>4, <1>6, <1>7, <1>8, <2>3 DEF X
  <2> QED  BY <1>5, <2>4
\* Elsewhere, all is as before.
<1>9. ASSUME NEW p, IsRoute(p, G), \A i \in 1..Len(p) : p[i] \notin ToSet(P)
      PROVE  IsRoute(p, S \cup M)
  <2>1. \A i \in 1..Len(p) : p[i] \in S \cup M
    BY <1>7, <1>9
  <2> QED  BY <1>9, <2>1, RouteWithin
<1>10. ASSUME NEW p, IsRoute(p, G), To(p) \notin N
       PROVE  IsRoute(p, S \cup M)
  <2> SUFFICES ASSUME NEW i \in 1..Len(p), p[i] \in ToSet(P)  PROVE FALSE
    BY <1>9, <1>10
  <2>1. p[i][2] \in N /\ \A e \in G : e[2] \in N => e[1] \in N
    BY <1>1, <1>4, <1>6
  <2>2. \A j \in i..Len(p) : p[j][1] \in N
    BY <1>10, <2>1, Ascends
  <2>3. Len(p) \in i..Len(p)
    BY <1>7, <1>10
  <2> QED  BY <1>10, <2>2, <2>3 DEF To
<1>11. ASSUME NEW p, IsRoute(p, G), To(p) \in N, From(p) \in Sets
       PROVE  IsRoute(p, all)
  <2>1. 1 \in 1..Len(p) /\ p[1] \in T
    BY <1>6, <1>7, <1>11 DEF From
  <2>2. \A i \in 1..Len(p) : p[i] \in all
    BY <1>7, <1>8, <1>11, <2>1
  <2> QED  BY <1>11, <2>2, RouteWithin
<1>12. ASSUME NEW p, IsRoute(p, all)  PROVE IsRoute(p, G)
  <2>1. \A i \in 1..Len(p) : p[i] \in G
    BY <1>3, <1>12 DEF IsRoute
  <2> QED  BY <1>12, <2>1, RouteWithin
<1> QED  BY <1>1, <1>3, <1>5, <1>6, <1>7, <1>8, <1>9, <1>10, <1>11, <1>12
         DEF From, IsRequested

\* The order is that of all nodes just if the request makes no cycle.
LEMMA CycleIsSeen ==
  ASSUME NEW P, NEW S, NEW M, NEW N, NEW existing,
         IsRequest(P, S, M, N, existing),
         NEW all, all = existing \cup ToSet(P),
         NEW G, G = (S \cup ToSet(P)) \cup M
  PROVE  NoCycle(G) <=> TopologicalOrder(all) = Nodes(all)
<1>0. PICK T : IsRequested(P, S, M, N, all, T, G)
  BY RequestedGraph
<1>1. /\ all \in SUBSET (Sets \X Sets) /\ IsFiniteSet(all)
      /\ \A p : IsRoute(p, all) => IsRoute(p, G)
      /\ \A p : IsRoute(p, G) =>
           /\ To(p) \in Sets
           /\ To(p) \in N /\ From(p) \in Sets => IsRoute(p, all)
           /\ To(p) \notin N => IsRoute(p, S \cup M)
  <2>1. T \subseteq Sets \X Sets /\ all \subseteq T /\ IsFiniteSet(all)
    BY <1>0 DEF IsRequested
  <2>2. \A p : IsRoute(p, all) => IsRoute(p, G)
    BY <1>0 DEF IsRequested
  <2>3. \A p : IsRoute(p, G) =>
           /\ Len(p) \in Nat \ {0} /\ To(p) \in Sets
           /\ To(p) \in N /\ From(p) \in Sets => IsRoute(p, all)
           /\ To(p) \notin N => IsRoute(p, S \cup M)
    BY <1>0 DEF IsRequested
  <2> QED  BY <2>1, <2>2, <2>3
<1>2. ASSUME NoCycle(G)  PROVE TopologicalOrder(all) = Nodes(all)
  <2>1. NoCycle(all)
    BY <1>1, <1>2 DEF NoCycle
  <2> QED  BY <1>1, <2>1, OrderedIsAcyclic
<1>3. ASSUME TopologicalOrder(all) = Nodes(all)  PROVE NoCycle(G)
  <2> SUFFICES ASSUME NEW p, IsRoute(p, G), Len(p) <= Longest
               PROVE  From(p) # To(p)
    BY DEF NoCycle
  <2>1. CASE From(p) \notin Sets
    BY <1>1, <2>1
  <2>2. CASE From(p) \in Sets /\ To(p) \in N
    BY <1>1, <1>3, <2>2, OrderBounds
  <2>3. CASE To(p) \notin N
    <3>1. IsRoute(p, S \cup M) /\ Valid(S \cup M)
      BY <1>1, <2>3 DEF IsRequest
    <3> QED  BY <3>1 DEF Valid
  <2> QED  BY <2>1, <2>2, <2>3
<1> QED  BY <1>2, <1>3

\* The depth is too much just if that of the graph would be.
LEMMA DepthIsSeen ==
  ASSUME NEW P, NEW S, NEW M, NEW N, NEW existing,
         IsRequest(P, S, M, N, existing),
         NEW all, all = existing \cup ToSet(P),
         NEW G, G = (S \cup ToSet(P)) \cup M, NoCycle(G)
  PROVE  Deep(G) <=> MaxDepth(all) > MAX_MEMBERSHIP_DEPTH
<1>0. PICK T : IsRequested(P, S, M, N, all, T, G)
  BY RequestedGraph
<1>1. /\ all \in SUBSET (Sets \X Sets) /\ IsFiniteSet(all)
      /\ \A p : IsRoute(p, all) => IsRoute(p, G)
      /\ \A p : IsRoute(p, G) =>
           /\ Len(p) \in Nat \ {0}
           /\ To(p) \in N /\ From(p) \in Sets => IsRoute(p, all)
           /\ To(p) \notin N => IsRoute(p, S \cup M)
  <2>1. T \subseteq Sets \X Sets /\ all \subseteq T /\ IsFiniteSet(all)
    BY <1>0 DEF IsRequested
  <2>2. \A p : IsRoute(p, all) => IsRoute(p, G)
    BY <1>0 DEF IsRequested
  <2>3. \A p : IsRoute(p, G) =>
           /\ Len(p) \in Nat \ {0} /\ To(p) \in Sets
           /\ To(p) \in N /\ From(p) \in Sets => IsRoute(p, all)
           /\ To(p) \notin N => IsRoute(p, S \cup M)
    BY <1>0 DEF IsRequested
  <2> QED  BY <2>1, <2>2, <2>3
<1>2. MAX_MEMBERSHIP_DEPTH \in Nat /\ MaxDepth(all) \in Nat
  BY <1>1, GraphAssumption, DepthIsReached
<1>3. TopologicalOrder(all) = Nodes(all) /\ NoCycle(all)
  <2>1. NoCycle(all)
    BY <1>1 DEF NoCycle
  <2> QED  BY <1>1, <2>1, OrderedIsAcyclic
<1>4. ASSUME Deep(G)  PROVE MaxDepth(all) > MAX_MEMBERSHIP_DEPTH
  <2>1. PICK p : /\ IsRoute(p, G) /\ Len(p) <= Longest
                 /\ From(p) \in Sets /\ Len(p) > MAX_MEMBERSHIP_DEPTH
    BY <1>4 DEF Deep
  <2>2. Len(p) \in Nat
    BY <1>1, <2>1
  <2>3. CASE To(p) \in N
    <3>1. Len(p) <= MaxDepth(all)
      BY <1>1, <1>3, <2>1, <2>3, OrderBounds
    <3> QED  BY <1>2, <2>1, <2>2, <3>1
  <2>4. CASE To(p) \notin N
    <3>1. IsRoute(p, S \cup M) /\ Valid(S \cup M)
      BY <1>1, <2>1, <2>4 DEF IsRequest
    <3>2. Len(p) <= MAX_MEMBERSHIP_DEPTH
      BY <2>1, <3>1 DEF Valid
    <3> QED  BY <1>2, <2>1, <2>2, <3>2
  <2> QED  BY <2>3, <2>4
<1>5. ASSUME MaxDepth(all) > MAX_MEMBERSHIP_DEPTH  PROVE Deep(G)
  <2>1. PICK p : IsRoute(p, all) /\ Len(p) >= MaxDepth(all)
    <3>1. MaxDepth(all) > 0
      BY <1>2, <1>5
    <3> QED  BY <1>1, <3>1, DepthIsReached
  <2>2. Len(p) \in Nat /\ Cardinality(Sets) \in Nat /\ Len(p) <= Cardinality(Sets)
    BY <1>1, <1>3, <2>1, RoutesAreShort
  <2>3. Len(p) <= Longest /\ Len(p) > MAX_MEMBERSHIP_DEPTH
    BY <1>2, <1>5, <2>1, <2>2 DEF Longest
  <2>4. From(p) \in Sets
    BY <1>1, <2>1 DEF IsRoute, From
  <2> QED  BY <1>1, <2>1, <2>3, <2>4 DEF Deep
<1> QED  BY <1>4, <1>5

\* Either of the two finds a member or an account contained twice just if
\* there would be one, or the request repeats an edge.
LEMMA DoubleIsSeen ==
  ASSUME NEW P, NEW S, NEW M, NEW N, NEW existing,
         IsRequest(P, S, M, N, existing),
         NEW all, all = existing \cup ToSet(P),
         NEW G, G = (S \cup ToSet(P)) \cup M, NoCycle(G),
         NEW affected, affected = AffectedAccountMemberships(P, existing, M)
  PROVE  Twofold(G) \/ Repeats(P, S \cup M)
           <=> MeetingAncestors(P, existing) \/ RepeatedContainment(affected, all)
<1> DEFINE T == S \cup ToSet(P)
           O == Occurrences(P, existing)
<1>0. /\ IsRequested(P, S, M, N, all, T, G)
      /\ G = T \cup M /\ P \in Seq(Sets \X Sets)
  BY RequestedGraph DEF IsRequest
<1> HIDE DEF T
<1>1. /\ T \subseteq Sets \X Sets /\ N \subseteq Sets
      /\ all \subseteq T /\ IsFiniteSet(all)
      /\ \A e \in T : e[1] \in N <=> e[2] \in N
      /\ \A e \in ToSet(P) : e[1] \in N /\ e[2] \in N
      /\ \A e \in T : e[1] \in N => e \in all
      /\ \A e \in G : /\ e[1] \in Sets
                      /\ e[2] \in Sets <=> e \in T
                      /\ e[2] \in Accounts <=> e \in M
                      /\ ~ (e[2] \in Sets /\ e[2] \in Accounts)
                      /\ e[2] \in Sets \/ e[2] \in Accounts
  <2>1. /\ T \subseteq Sets \X Sets /\ N \subseteq Sets
        /\ all \subseteq T /\ IsFiniteSet(all)
        /\ \A e \in T : e[1] \in N <=> e[2] \in N
        /\ \A e \in ToSet(P) : e[1] \in N /\ e[2] \in N
        /\ \A e \in T : e[1] \in N => e \in all
    BY <1>0 DEF IsRequested
  <2>2. \A e \in G : /\ e[1] \in Sets
                     /\ e[2] \in Sets <=> e \in T
                     /\ e[2] \in Accounts <=> e \in M
                     /\ ~ (e[2] \in Sets /\ e[2] \in Accounts)
                     /\ e[2] \in Sets \/ e[2] \in Accounts
    BY <1>0 DEF IsRequested
  <2> QED  BY <2>1, <2>2
<1>2. /\ \A p : IsRoute(p, all) => IsRoute(p, G)
      /\ \A p : IsRoute(p, G) =>
           /\ Len(p) \in Nat \ {0} /\ From(p) = p[1][2] /\ To(p) \in Sets
           /\ \A i \in 1..Len(p) : p[i] \in G /\ (i # 1 => p[i] \in T)
           /\ (\A i \in 1..Len(p) : p[i] \notin ToSet(P)) => IsRoute(p, S \cup M)
           /\ To(p) \in N =>
                \A i \in 1..Len(p) : p[i][1] \in N /\ (p[i] \in T => p[i] \in all)
           /\ To(p) \notin N => IsRoute(p, S \cup M)
  BY <1>0 DEF IsRequested
<1>3. /\ \A o \in O : o[2] \in all
      /\ \A e \in all : \E o \in O : o[2] = e
      /\ Repeats(P, existing) <=> \E o, u \in O : o # u /\ o[2] = u[2]
  BY <1>0, OccursOnce
<1>4. existing = {e \in S : e[1] \in N}
  BY DEF IsRequest, IsNear
<1>5. Repeats(P, S \cup M) <=> Repeats(P, existing)
  <2>1. ASSUME NEW i \in DOMAIN P  PROVE P[i] \in S \cup M <=> P[i] \in existing
    <3>1. P[i] \in ToSet(P) /\ P[i] \in T /\ P[i] \in G
      BY <1>0, RequestIsFinite DEF T
    <3>2. P[i] \notin M /\ P[i][1] \in N
      BY <1>1, <3>1
    <3> QED  BY <1>4, <3>2
  <2> QED  BY <2>1 DEF Repeats
<1> HIDE DEF O
<1>6. ASSUME Repeats(P, S \cup M)  PROVE MeetingAncestors(P, existing)
  <2>1. PICK o \in O, u \in O : o # u /\ o[2] = u[2]
    BY <1>3, <1>5, <1>6
  <2>2. o[2][1] \in Up({o[2][1]}, all)
    BY <1>1, UpIs DEF IsUp
  <2>3. Up({o[2][1]}, all) \cap Up({u[2][1]}, all) # {}
    BY <2>1, <2>2
  <2> QED  BY <2>1, <2>3 DEF MeetingAncestors, O
<1>7. NoCycle(all)
  BY <1>2 DEF NoCycle
\* A way over what is read is short, also with an edge before it.
<1>8. ASSUME NEW e \in G, NEW z \in Up({e[1]}, all)
      PROVE  \E p : /\ IsRoute(p, G) /\ Len(p) <= Longest
                    /\ From(p) = e[2] /\ To(p) = z /\ p[1] = e
  <2>1. PICK r : Leads(e[1], r, z, all)
    BY <1>1, AboveByWay
  <2>2. Leads(e[1], r, z, G)
    BY <1>2, <2>1 DEF Leads
  <2>3. /\ IsRoute(<<e>> \o r, G) /\ From(<<e>> \o r) = e[2] /\ To(<<e>> \o r) = z
        /\ (<<e>> \o r)[1] = e /\ Tail(<<e>> \o r) = r
        /\ Len(r) \in Nat /\ Len(<<e>> \o r) = Len(r) + 1
    <3>1. e \in G
      OBVIOUS
    <3>2. PICK p : p = <<e>> \o r
      OBVIOUS
    <3>3. OnTop(p, e, r, z, G)
      BY ONLY <2>2, <3>1, <3>2, EdgeOn
    <3> QED  BY ONLY <3>2, <3>3 DEF OnTop
  <2>4. Cardinality(Sets) \in Nat /\ Len(r) <= Cardinality(Sets)
    <3>1. Cardinality(Sets) \in Nat
      BY GraphAssumption, FS_CardinalityType
    <3>2. CASE r = << >>
      BY <3>1, <3>2
    <3>3. CASE IsRoute(r, all)
      <4>1. all \in SUBSET (Sets \X Sets)
        BY <1>1
      <4> QED  BY <1>7, <3>3, <4>1, RoutesAreShort
    <3> QED  BY <2>1, <3>1, <3>2, <3>3 DEF Leads
  <2>5. Len(<<e>> \o r) <= Longest
    BY <2>3, <2>4 DEF Longest
  <2> QED  BY <2>3, <2>5
<1>9. ASSUME NEW e \in G, NEW f \in G, e # f, e[2] = f[2],
             Up({e[1]}, all) \cap Up({f[1]}, all) # {}
      PROVE  Twofold(G)
  <2>1. PICK z : z \in Up({e[1]}, all) /\ z \in Up({f[1]}, all)
    BY <1>9
  <2>2. PICK p : /\ IsRoute(p, G) /\ Len(p) <= Longest
                 /\ From(p) = e[2] /\ To(p) = z /\ p[1] = e
    BY <1>8, <2>1
  <2>3. PICK q : /\ IsRoute(q, G) /\ Len(q) <= Longest
                 /\ From(q) = f[2] /\ To(q) = z /\ q[1] = f
    BY <1>8, <2>1
  <2>4. p # q /\ From(p) = From(q) /\ To(p) = To(q)
    BY <1>9, <2>2, <2>3
  <2> QED  BY <2>2, <2>3, <2>4 DEF Twofold
<1>10. ASSUME MeetingAncestors(P, existing)  PROVE Twofold(G) \/ Repeats(P, S \cup M)
  <2>1. PICK o \in O, u \in O : /\ o # u /\ o[2][2] = u[2][2]
                                /\ Up({o[2][1]}, all) \cap Up({u[2][1]}, all) # {}
    BY <1>10 DEF MeetingAncestors, O
  <2>2. CASE o[2] = u[2]
    BY <1>3, <1>5, <2>1, <2>2
  <2>3. CASE o[2] # u[2]
    <3>1. o[2] \in G /\ u[2] \in G
      BY <1>0, <1>1, <1>3
    <3> QED  BY <1>9, <2>1, <2>3, <3>1
  <2> QED  BY <2>2, <2>3
<1>11. ASSUME RepeatedContainment(affected, all)  PROVE Twofold(G)
  <2>1. PICK m \in affected, k \in affected :
          m # k /\ m[2] = k[2] /\ Up({m[1]}, all) \cap Up({k[1]}, all) # {}
    BY <1>11 DEF RepeatedContainment
  <2>2. m \in G /\ k \in G
    BY <1>0 DEF AffectedAccountMemberships
  <2> QED  BY <1>9, <2>1, <2>2
<1>12. ASSUME NEW p, IsRoute(p, G), Len(p) <= Longest,
              NEW q, IsRoute(q, G), Len(q) <= Longest,
              From(p) = From(q), To(p) = To(q), p # q,
              ~MeetingAncestors(P, existing), ~RepeatedContainment(affected, all)
       PROVE  FALSE
  <2>0. Valid(S \cup M)
    BY DEF IsRequest
  <2>1. To(p) \in N
    BY <1>2, <1>12, <2>0 DEF Valid
  <2>2. PICK i \in 1..Len(p) : /\ i \in 1..Len(q) /\ p[i] # q[i] /\ p[i][2] = q[i][2]
                               /\ \A j \in 1..(i - 1) : p[j] = q[j]
    BY <1>12, RoutesPart
  <2>3. ASSUME NEW r, IsRoute(r, G), To(r) = To(p), i \in 1..Len(r)
        PROVE  To(p) \in Up({r[i][1]}, all)
    <3>1. \A j \in (i + 1)..Len(r) : j \in 1..Len(r) /\ j # 1
      BY <1>2, <2>3
    <3>2. \A j \in (i + 1)..Len(r) : r[j] \in all
      BY <1>2, <2>1, <2>3, <3>1
    <3> QED  BY <1>1, <2>3, <3>2, TopIsAbove
  <2>4. To(p) \in Up({p[i][1]}, all) /\ To(p) \in Up({q[i][1]}, all)
    BY <1>12, <2>2, <2>3
  <2>5. p[i] \in G /\ q[i] \in G
    BY <1>2, <1>12, <2>2
  <2>6. CASE p[i][2] \in Sets
    <3>1. p[i] \in all /\ q[i] \in all
      BY <1>1, <1>2, <1>12, <2>1, <2>2, <2>5, <2>6
    <3>2. PICK o \in O : o[2] = p[i]
      BY <1>3, <3>1
    <3>3. PICK u \in O : u[2] = q[i]
      BY <1>3, <3>1
    <3>4. /\ o # u /\ o[2][2] = u[2][2]
          /\ Up({o[2][1]}, all) \cap Up({u[2][1]}, all) # {}
      BY <2>2, <2>4, <3>2, <3>3
    <3>5. MeetingAncestors(P, existing)
      BY <3>4 DEF MeetingAncestors, O
    <3> QED  BY <1>12, <3>5
  <2>7. CASE p[i][2] \in Accounts
    <3>1. p[i] \in M /\ q[i] \in M
      BY <1>1, <2>2, <2>5, <2>7
    <3>2. i = 1
      BY <1>1, <1>2, <1>12, <2>2, <2>5, <2>7
    <3>3. ASSUME NEW r, IsRoute(r, G), To(r) \in N, r[1] \in M,
                 NEW j \in 1..Len(r), r[j] \in ToSet(P)
          PROVE  \A m \in M : m[2] = r[1][2] => m \in affected
      <4> DEFINE below == Down({e[2] : e \in ToSet(P)}, all)
                 X == below \cup ((Sets \cup Accounts) \ N)
      <4>1. /\ {e[2] : e \in ToSet(P)} \subseteq below
            /\ \A e \in all : e[1] \in below => e[2] \in below
        <5>1. IsDown(below, {e[2] : e \in ToSet(P)}, all)
          BY <1>1, DownIs
        <5> QED  BY <5>1 DEF IsDown
      <4>2. affected = {m \in M : m[2] \in {w[2] : w \in {k \in M : k[1] \in below}}}
        BY DEF AffectedAccountMemberships
      <4> HIDE DEF below
      <4>3. \A e \in G : e[1] \in X => e[2] \in X
        <5> SUFFICES ASSUME NEW e \in G, e[1] \in X  PROVE e[2] \in X
          OBVIOUS
        <5>1. CASE e \in M
          BY <1>1, <5>1
        <5>2. CASE e \in T /\ e[1] \in N
          BY <1>1, <4>1, <5>2
        <5>3. CASE e \in T /\ e[1] \notin N
          BY <1>1, <5>3
        <5> QED  BY <1>1, <5>1, <5>2, <5>3
      <4>4. j # 1
        <5>1. r[j] \in T /\ r[1] \in G
          BY <1>2, <3>3 DEF T
        <5> QED  BY <1>1, <3>3, <5>1
      <4>5. /\ j - 1 \in 1..(Len(r) - 1) /\ j - 1 \in 1..Len(r) /\ (j - 1) + 1 = j
            /\ 1 \in 1..(j - 1) /\ 1 \in 1..Len(r)
        BY <1>2, <3>3, <4>4
      <4>6. r[j - 1][1] = r[j][2] /\ r[j][2] \in below
        BY <3>3, <4>1, <4>5 DEF IsRoute
      <4>7. r[1][1] \in X
        <5>1. r[j - 1][1] \in X
          BY <4>6
        <5> HIDE DEF X
        <5> QED  BY <3>3, <4>3, <4>5, <5>1, Descends
      <4>8. r[1][1] \in N
        BY <1>2, <3>3, <4>5
      <4>9. r[1][1] \in below
        BY <4>7, <4>8
      <4> QED  BY <3>3, <4>2, <4>9
    <3>4. CASE \E j \in 1..Len(p) : p[j] \in ToSet(P)
      <4>1. p[1] \in affected /\ q[1] \in affected
        BY <1>12, <2>1, <2>2, <3>1, <3>2, <3>3, <3>4
      <4>2. RepeatedContainment(affected, all)
        BY <2>2, <2>4, <3>2, <4>1 DEF RepeatedContainment
      <4> QED  BY <1>12, <4>2
    <3>5. CASE \E j \in 1..Len(q) : q[j] \in ToSet(P)
      <4>1. p[1] \in affected /\ q[1] \in affected
        BY <1>12, <2>1, <2>2, <3>1, <3>2, <3>3, <3>5
      <4>2. RepeatedContainment(affected, all)
        BY <2>2, <2>4, <3>2, <4>1 DEF RepeatedContainment
      <4> QED  BY <1>12, <4>2
    <3>6. CASE /\ \A j \in 1..Len(p) : p[j] \notin ToSet(P)
               /\ \A j \in 1..Len(q) : q[j] \notin ToSet(P)
      <4>1. IsRoute(p, S \cup M) /\ IsRoute(q, S \cup M)
        BY <1>2, <1>12, <3>6
      <4> QED  BY <1>12, <2>0, <4>1 DEF Valid
    <3> QED  BY <3>4, <3>5, <3>6
  <2> QED  BY <1>1, <2>5, <2>6, <2>7
<1>13. ASSUME Twofold(G)
       PROVE  MeetingAncestors(P, existing) \/ RepeatedContainment(affected, all)
  BY <1>12, <1>13 DEF Twofold
<1> QED  BY <1>6, <1>10, <1>11, <1>13

\* The verdict on a request for set memberships is the one that is due.
LEMMA SetVerdictIsDue ==
  ASSUME NEW P, NEW S, NEW M, NEW N, NEW existing,
         IsRequest(P, S, M, N, existing)
  PROVE  SetVerdict(P, existing, M).error = DueError(P, S \cup M)
<1> DEFINE G == (S \cup ToSet(P)) \cup M
           all == existing \cup ToSet(P)
           affected == AffectedAccountMemberships(P, existing, M)
           C == Chains(Occurrences(P, S \cup M))
<1>1. P \in Seq(Sets \X Sets)
  BY DEF IsRequest
<1>2. IsRequest(P, S, M, N, existing)
  OBVIOUS
<1>3. G = (S \cup M) \cup ToSet(P)
  OBVIOUS
<1> HIDE DEF G, C
<1>4. /\ Cyclic(C) <=> Looped(G)
      /\ ContainedTwice(C) <=> Twofold(G) \/ Repeats(P, S \cup M)
      /\ TooDeep(C) <=> Deep(G)
  BY <1>1, <1>3, FaultsOfChains DEF C
<1>5. NoCycle(G) <=> ~Looped(G)
  BY NoCycleIs
<1>6. DueError(P, S \cup M) =
        IF Cyclic(C) THEN "MembershipCycleDetected"
        ELSE IF ContainedTwice(C) THEN "MemberAlreadyAdded"
        ELSE IF TooDeep(C) THEN "MembershipDepthExceeded" ELSE "none"
  BY DEF DueError, C
<1> HIDE DEF all, affected
<1>7. SetVerdict(P, existing, M).error =
        IF TopologicalOrder(all) # Nodes(all) THEN "MembershipCycleDetected"
        ELSE IF MeetingAncestors(P, existing) \/ RepeatedContainment(affected, all)
        THEN "MemberAlreadyAdded"
        ELSE IF MaxDepth(all) > MAX_MEMBERSHIP_DEPTH THEN "MembershipDepthExceeded"
        ELSE "none"
  BY DEF SetVerdict, ValidateSetMemberships, Ok, MemberAlreadyAdded,
         MembershipCycleDetected, MembershipDepthExceeded, all, affected
<1>8. NoCycle(G) <=> TopologicalOrder(all) = Nodes(all)
  BY <1>2, CycleIsSeen DEF G, all
<1>9. CASE Looped(G)
  BY <1>4, <1>5, <1>6, <1>7, <1>8, <1>9
<1>10. CASE ~Looped(G)
  <2>1. NoCycle(G)
    BY <1>5, <1>10
  <2>2. Twofold(G) \/ Repeats(P, S \cup M)
          <=> MeetingAncestors(P, existing) \/ RepeatedContainment(affected, all)
    BY <1>2, <2>1, DoubleIsSeen DEF G, all, affected
  <2>3. Deep(G) <=> MaxDepth(all) > MAX_MEMBERSHIP_DEPTH
    BY <1>2, <2>1, DepthIsSeen DEF G, all
  <2> QED  BY <1>4, <1>5, <1>6, <1>7, <1>8, <1>10, <2>1, <2>2, <2>3
<1> QED  BY <1>9, <1>10

\* An accepted request leaves the graph valid and repeats nothing.
LEMMA DueNone ==
  ASSUME NEW E, NEW P \in Seq(E), NEW G, DueError(P, G) = "none"
  PROVE  Valid(G \cup ToSet(P)) /\ ~Repeats(P, G)
<1> DEFINE H == G \cup ToSet(P)
           C == Chains(Occurrences(P, G))
<1>1. /\ Cyclic(C) <=> Looped(H)
      /\ ContainedTwice(C) <=> Twofold(H) \/ Repeats(P, G)
      /\ TooDeep(C) <=> Deep(H)
  BY FaultsOfChains
<1>2. ~Cyclic(C) /\ ~ContainedTwice(C) /\ ~TooDeep(C)
  BY DEF DueError
<1> QED  BY <1>1, <1>2, ValidIs

\* A graph stays valid with the memberships that are accepted, none of which
\* exists.
LEMMA SetsStayValid ==
  ASSUME NEW S \in SUBSET (Sets \X Sets), IsFiniteSet(S),
         NEW M \in SUBSET (Sets \X Accounts),
         NEW P \in Seq(Sets \X Sets),
         NEW existing \in {EdgesConnectedTo(P, S), S},
         SetVerdict(P, existing, M) = Ok,
         Valid(S \cup M)
  PROVE  /\ Valid((S \cup ToSet(P)) \cup M)
         /\ \A e \in ToSet(P) : e \notin S
<1>1. DueError(P, S \cup M) = "none"
  <2>1. PICK N : IsNear(N, existing, S, P)
    BY NearExists
  <2>2. IsRequest(P, S, M, N, existing)
    BY <2>1 DEF IsRequest
  <2>3. SetVerdict(P, existing, M).error = DueError(P, S \cup M)
    BY <2>2, SetVerdictIsDue
  <2> QED  BY <2>3 DEF Ok
<1>2. Valid((S \cup M) \cup ToSet(P)) /\ ~Repeats(P, S \cup M)
  BY <1>1, DueNone
<1>3. (S \cup M) \cup ToSet(P) = (S \cup ToSet(P)) \cup M
  OBVIOUS
<1>4. \A e \in ToSet(P) : e \notin S
  BY <1>2, RequestIsFinite DEF Repeats
<1> QED  BY <1>2, <1>3, <1>4

----------------------------------------------------------------------------
(* A request for account memberships *)

\* A way is its first edge and the way from there.
LEMMA WayOn ==
  ASSUME NEW S, NEW r, IsRoute(r, S)
  PROVE  /\ r[1] \in S /\ r[1][2] = From(r)
         /\ Len(r) \in Nat \ {0} /\ Len(Tail(r)) = Len(r) - 1
         /\ Leads(r[1][1], Tail(r), To(r), S)
<1>1. /\ Len(r) \in Nat \ {0} /\ r \in Seq(S) /\ r # << >>
      /\ \A k \in 1..Len(r) : r[k] \in S
  BY DEF IsRoute
<1>2. /\ Tail(r) \in Seq(S) /\ Len(Tail(r)) = Len(r) - 1
      /\ \A k \in 1..(Len(r) - 1) : Tail(r)[k] = r[k + 1]
  BY <1>1
<1>3. r[1] \in S /\ r[1][2] = From(r)
  BY <1>1 DEF From
<1>4. CASE Len(r) = 1
  <2>1. Tail(r) = << >>
    <3>1. \A s \in Seq(S) : Len(s) = 0 => s = << >>
      OBVIOUS
    <3>2. Len(Tail(r)) = 0
      BY <1>2, <1>4
    <3> QED  BY <1>2, <3>1, <3>2
  <2> QED  BY <1>1, <1>2, <1>3, <1>4, <2>1 DEF Leads, To
<1>5. CASE Len(r) # 1
  <2> DEFINE q == Tail(r)
             n == Len(r) - 1
  <2>1. n \in Nat \ {0} /\ q \in Seq(S) /\ Len(q) = n
        /\ \A k \in 1..n : q[k] = r[k + 1]
    BY <1>1, <1>2, <1>5
  <2> HIDE DEF q
  <2>2. ASSUME NEW k \in 1..(Len(q) - 1)  PROVE q[k][1] = q[k + 1][2]
    <3>1. k \in 1..n /\ k + 1 \in 1..n /\ k + 1 \in 1..(Len(r) - 1)
      BY <1>1, <2>1
    <3>2. r[k + 1][1] = r[(k + 1) + 1][2]
      BY <3>1 DEF IsRoute
    <3> QED  BY <2>1, <3>1, <3>2
  <2>3. q # << >>
    BY <2>1
  <2>4. IsRoute(q, S)
    BY <2>1, <2>2, <2>3 DEF IsRoute
  <2>5. From(q) = r[1][1] /\ To(q) = To(r)
    <3>1. 1 \in 1..n /\ n \in 1..n /\ 1 \in 1..(Len(r) - 1) /\ n + 1 = Len(r)
          /\ 1 + 1 = 2
      BY <1>1, <2>1
    <3>2. q[1] = r[2] /\ q[n] = r[Len(r)] /\ r[1][1] = r[2][2]
      BY <2>1, <3>1 DEF IsRoute
    <3> QED  BY <2>1, <3>2 DEF From, To
  <2> QED  BY <1>1, <1>2, <1>3, <2>4, <2>5 DEF Leads, q
<1> QED  BY <1>4, <1>5

\* Ways with the same first edge and the same rest are one.
LEMMA SameWay ==
  ASSUME NEW S, NEW r, IsRoute(r, S), NEW q, IsRoute(q, S),
         r[1] = q[1], Tail(r) = Tail(q)
  PROVE  r = q
<1>1. /\ Len(r) \in Nat \ {0} /\ Len(q) \in Nat \ {0} /\ r \in Seq(S) /\ q \in Seq(S)
      /\ r # << >> /\ q # << >>
  BY DEF IsRoute
<1>2. Len(Tail(r)) = Len(r) - 1 /\ Len(Tail(q)) = Len(q) - 1
  BY <1>1
<1>3. Len(r) = Len(q)
  <2>1. \A m, n \in Nat : m - 1 = n - 1 => m = n
    OBVIOUS
  <2>2. Len(r) - 1 = Len(q) - 1
    BY <1>2
  <2> QED  BY <1>1, <2>1, <2>2
<1>4. \A k \in 1..(Len(r) - 1) : Tail(r)[k] = r[k + 1] /\ Tail(q)[k] = q[k + 1]
  BY <1>1, <1>3
<1>5. ASSUME NEW k \in 1..Len(r)  PROVE r[k] = q[k]
  <2>1. CASE k = 1
    BY <2>1
  <2>2. CASE k # 1
    <3>1. k - 1 \in 1..(Len(r) - 1) /\ (k - 1) + 1 = k
      BY <1>1, <2>2
    <3>2. Tail(r)[k - 1] = r[(k - 1) + 1] /\ Tail(q)[k - 1] = q[(k - 1) + 1]
      BY <1>4, <3>1
    <3> QED  BY <3>1, <3>2
  <2> QED  BY <2>1, <2>2
<1>6. r = [k \in 1..Len(r) |-> r[k]] /\ q = [k \in 1..Len(r) |-> q[k]]
  BY <1>1, <1>3
<1> QED  BY <1>5, <1>6

\* s has each member of T once.
ListsOnce(s, T) ==
  /\ s \in Seq(T)
  /\ \A x \in T : \E i \in 1..Len(s) : s[i] = x
  /\ \A i, j \in 1..Len(s) : s[i] = s[j] => i = j

LEMMA SetToSeqIs ==
  ASSUME NEW T, IsFiniteSet(T)
  PROVE  ListsOnce(SetToSeq(T), T)
<1> DEFINE n == Cardinality(T)
           Good(f) == f \in [1..n -> T] /\ IsInjective(f)
           s == SetToSeq(T)
<1>1. n \in Nat /\ ExistsBijection(1..n, T)
  BY FS_CardinalityType
<1>2. \E f \in [1..n -> T] : IsInjective(f)
  <2>1. PICK f : f \in Bijection(1..n, T)
    BY <1>1 DEF ExistsBijection
  <2>2. f \in [1..n -> T] /\ IsInjective(f)
    BY <2>1 DEF Bijection, Injection, IsInjective
  <2> QED  BY <2>2
<1>3. s \in [1..n -> T] /\ IsInjective(s)
  <2> HIDE DEF n
  <2>1. SetToSeq(T) = CHOOSE f \in [1..n -> T] : IsInjective(f)
    BY DEF SetToSeq, n
  <2> QED  BY <1>2, <2>1
<1> HIDE DEF s
<1>4. s \in Seq(T) /\ Len(s) = n
  BY <1>1, <1>3
<1>5. s \in Surjection(1..n, T)
  <2>1. s \in Injection(1..n, T)
    BY <1>3 DEF Injection, IsInjective
  <2>2. Cardinality(1..n) = n
    <3>1. IF 1 > n THEN n = 0 ELSE n - 1 + 1 = n
      BY <1>1
    <3> HIDE DEF n
    <3> QED  BY <1>1, <3>1, FS_Interval
  <2>3. Cardinality(1..n) = Cardinality(T)
    BY <2>2
  <2> HIDE DEF n
  <2> QED  BY <2>1, <2>3, FS_Injection
<1>6. \A x \in T : \E i \in 1..n : s[i] = x
  BY <1>5 DEF Surjection
<1>7. \A i, j \in 1..n : s[i] = s[j] => i = j
  <2> HIDE DEF n
  <2>1. DOMAIN s = 1..n
    BY <1>3
  <2> QED  BY <1>3, <2>1 DEF IsInjective
<1>8. ListsOnce(s, T)
  BY <1>4, <1>6, <1>7 DEF ListsOnce
<1> QED  BY <1>8 DEF s

\* The recursion of ReachesTwice.
Walks(w, S) ==
  w = [v \in Seq(Sets) \X SUBSET Sets |->
        /\ v[1] # << >>
        /\ \/ Head(v[1]) \in v[2]
           \/ w[<<Tail(v[1]) \o SetToSeq(Containers(Head(v[1]), S)),
                  v[2] \cup {Head(v[1])}>>]]

\* The queue and the visited sets after a step.
NextWalk(v, S) == <<Tail(v[1]) \o SetToSeq(Containers(Head(v[1]), S)),
                    v[2] \cup {Head(v[1])}>>

\* The containers of a set, as the walk lists them.
LEMMA ContainersAre ==
  ASSUME NEW S \in SUBSET (Sets \X Sets), NEW s
  PROVE  /\ Containers(s, S) \subseteq Sets /\ IsFiniteSet(Containers(s, S))
         /\ SetToSeq(Containers(s, S)) \in Seq(Sets)
         /\ \A e \in S : e[2] = s =>
              \E i \in 1..Len(SetToSeq(Containers(s, S))) :
                SetToSeq(Containers(s, S))[i] = e[1]
<1> DEFINE C == Containers(s, S)
<1>1. C \in SUBSET Sets /\ \A e \in S : e[2] = s => e[1] \in C
  BY DEF Containers
<1> HIDE DEF C
<1>2. IsFiniteSet(C)
  BY <1>1, GraphAssumption, FS_Subset
<1>3. SetToSeq(C) \in Seq(C) /\ \A x \in C : \E i \in 1..Len(SetToSeq(C)) : SetToSeq(C)[i] = x
  BY <1>2, SetToSeqIs DEF ListsOnce
<1>4. SetToSeq(C) \in Seq(Sets)
  BY <1>1, <1>3
<1> QED  BY <1>1, <1>2, <1>3, <1>4 DEF C

LEMMA ListedContainers ==
  ASSUME NEW S \in SUBSET (Sets \X Sets), NEW s,
         NEW c, c = SetToSeq(Containers(s, S))
  PROVE  c \in Seq(Sets) /\ \A e \in S : e[2] = s => \E i \in 1..Len(c) : c[i] = e[1]
BY ContainersAre

\* There is one: what the walk finds in some number of steps.
LEMMA WalksExist ==
  ASSUME NEW S \in SUBSET (Sets \X Sets)
  PROVE  \E w : Walks(w, S)
<1> DEFINE D == Seq(Sets) \X SUBSET Sets
           R == [D -> BOOLEAN]
           next(v) == NextWalk(v, S)
           ends(v) == Head(v[1]) \in v[2]
           body(X, v) == v[1] # << >> /\ (ends(v) \/ X[next(v)])
           a == [v \in D |-> FALSE]
           more(X) == [v \in D |-> body(X, v)]
           step == [n \in Nat |-> [X \in R |-> more(X)]]
<1>1. a \in R /\ \A X \in R : more(X) \in R
  OBVIOUS
<1> HIDE DEF R, a, more
<1>2. \A n \in Nat : \A X \in R : step[n][X] = more(X)
  OBVIOUS
<1>3. \A n \in Nat : \A X \in R : step[n][X] \in R
  BY <1>1, <1>2
<1> HIDE DEF step
<1>4. PICK f : Iterates(f, R, a, step)
  BY <1>1, <1>3, IteratesExist
<1>5. f \in [Nat -> R] /\ f[0] = a /\ \A n \in Nat : f[n + 1] = more(f[n])
  BY <1>2, <1>4 DEF Iterates
<1>6. \A n \in Nat : \A v \in D : f[n + 1][v] = body(f[n], v)
  <2> HIDE DEF body
  <2> QED  BY <1>5 DEF more
<1>7. \A v \in D : f[0][v] = FALSE
  BY <1>5 DEF a
<1> DEFINE w == [v \in D |-> \E n \in Nat : f[n][v]]
<1>8. ASSUME NEW v \in D, v[1] # << >>  PROVE next(v) \in D
  <2>1. v[1] \in Seq(Sets) /\ v[2] \in SUBSET Sets
    OBVIOUS
  <2>2. Head(v[1]) \in Sets /\ Tail(v[1]) \in Seq(Sets)
    BY <1>8, <2>1
  <2>3. SetToSeq(Containers(Head(v[1]), S)) \in Seq(Sets)
    BY ContainersAre
  <2>4. Tail(v[1]) \o SetToSeq(Containers(Head(v[1]), S)) \in Seq(Sets)
    BY <2>2, <2>3
  <2> QED  BY <2>1, <2>2, <2>4 DEF NextWalk
<1> HIDE DEF D
<1>9. ASSUME NEW v \in D
      PROVE  (\E n \in Nat : f[n][v])
             <=> (v[1] # << >> /\ (ends(v) \/ w[next(v)]))
  <2> HIDE DEF ends, next
  <2>1. ASSUME NEW n \in Nat, f[n][v]
        PROVE  v[1] # << >> /\ (ends(v) \/ w[next(v)])
    <3>1. n # 0
      BY <1>7, <2>1
    <3>2. n - 1 \in Nat /\ (n - 1) + 1 = n
      BY <3>1
    <3>3. body(f[n - 1], v)
      BY <1>6, <2>1, <3>2
    <3> QED  BY <1>8, <3>2, <3>3
  <2>2. ASSUME v[1] # << >>, ends(v)  PROVE \E n \in Nat : f[n][v]
    <3>1. body(f[0], v)
      BY <2>2
    <3>2. f[0 + 1][v]
      BY <1>6, <3>1
    <3> QED  BY <3>2
  <2>3. ASSUME v[1] # << >>, w[next(v)]  PROVE \E n \in Nat : f[n][v]
    <3>1. PICK n \in Nat : f[n][next(v)]
      BY <1>8, <2>3
    <3>2. body(f[n], v)
      BY <2>3, <3>1
    <3>3. f[n + 1][v]
      BY <1>6, <3>2
    <3> QED  BY <3>3
  <2> QED  BY <2>1, <2>2, <2>3
<1>10. w = [v \in D |-> v[1] # << >> /\ (ends(v) \/ w[next(v)])]
  <2> HIDE DEF ends, next
  <2>1. \A v \in D : (\E n \in Nat : f[n][v])
                     = (v[1] # << >> /\ (ends(v) \/ w[next(v)]))
    BY <1>9
  <2> DEFINE u == [v \in D |-> v[1] # << >> /\ (ends(v) \/ w[next(v)])]
  <2>2. \A v \in D : w[v] = u[v]
    <3> SUFFICES ASSUME NEW v \in D  PROVE w[v] = u[v]
      OBVIOUS
    <3>1. w[v] = (\E n \in Nat : f[n][v])
      OBVIOUS
    <3>2. u[v] = (v[1] # << >> /\ (ends(v) \/ w[next(v)]))
      OBVIOUS
    <3> HIDE DEF w, u
    <3> QED  BY <2>1, <3>1, <3>2
  <2>3. DOMAIN w = D /\ DOMAIN u = D /\ w = [v \in D |-> w[v]] /\ u = [v \in D |-> u[v]]
    OBVIOUS
  <2> HIDE DEF w, u
  <2>4. w = u
    BY <2>2, <2>3
  <2> QED  BY <2>4 DEF u
<1> HIDE DEF w
<1>11. Walks(w, S)
  BY <1>10 DEF Walks, NextWalk, D
<1> QED  BY <1>11

\* What the walk from queue q must find, having visited v: a way to a set
\* visited, or two ways to one set.
Doubled(q, v, S) ==
  \/ \E i \in 1..Len(q) : \E t \in v : \E r : Leads(q[i], r, t, S)
  \/ \E i, j \in 1..Len(q) : \E r, u, t :
       Leads(q[i], r, t, S) /\ Leads(q[j], u, t, S) /\ (i # j \/ r # u)

LEMMA SameEdge ==
  ASSUME NEW S \in SUBSET (Sets \X Sets)
  PROVE  \A e, f \in S : e[1] = f[1] /\ e[2] = f[2] => e = f
<1> SUFFICES ASSUME NEW e \in S, NEW f \in S, e[1] = f[1], e[2] = f[2]
             PROVE  e = f
  OBVIOUS
<1>1. e \in Sets \X Sets /\ f \in Sets \X Sets
  OBVIOUS
<1> QED  BY <1>1

\* A step of the walk leaves that to be found.
LEMMA StepFinds ==
  ASSUME NEW S \in SUBSET (Sets \X Sets),
         NEW q \in Seq(Sets), q # << >>, NEW v \in SUBSET Sets,
         Head(q) \notin v, Doubled(q, v, S),
         NEW h, h = Head(q), NEW c, c = SetToSeq(Containers(h, S)),
         NEW q2, q2 = Tail(q) \o c
  PROVE  Doubled(q2, v \cup {h}, S)
<1>1. /\ Len(q) \in Nat \ {0} /\ Tail(q) \in Seq(Sets) /\ Len(Tail(q)) = Len(q) - 1
      /\ \A k \in 1..(Len(q) - 1) : Tail(q)[k] = q[k + 1]
      /\ q[1] = h
  OBVIOUS
<1>2. c \in Seq(Sets) /\ Len(c) \in Nat
      /\ \A e \in S : e[2] = h => \E i \in 1..Len(c) : c[i] = e[1]
  <2>1. c \in Seq(Sets) /\ \A e \in S : e[2] = h => \E i \in 1..Len(c) : c[i] = e[1]
    BY ListedContainers
  <2> QED  BY <2>1
<1>3. /\ Len(q2) = (Len(q) - 1) + Len(c)
      /\ \A k \in 1..(Len(q) - 1) : q2[k] = Tail(q)[k]
      /\ \A k \in 1..Len(c) : q2[(Len(q) - 1) + k] = c[k]
  BY <1>1, <1>2
\* What is behind the first moves up one place.
<1>4. ASSUME NEW i \in 1..Len(q), i # 1
      PROVE  i - 1 \in 1..Len(q2) /\ i - 1 <= Len(q) - 1 /\ q2[i - 1] = q[i]
  <2>1. i - 1 \in 1..(Len(q) - 1) /\ (i - 1) + 1 = i
    BY <1>1, <1>4
  <2>2. i - 1 \in 1..Len(q2)
    BY <1>1, <1>2, <1>3, <2>1
  <2>3. q2[i - 1] = q[(i - 1) + 1]
    BY <1>1, <1>3, <2>1
  <2> QED  BY <2>1, <2>2, <2>3
\* A way from the first goes on from one of its containers.
<1>5. ASSUME NEW r, NEW t, Leads(h, r, t, S), r # << >>
      PROVE  /\ IsRoute(r, S) /\ r[1] \in S /\ r[1][2] = h
             /\ \E k \in 1..Len(q2) : /\ k > Len(q) - 1 /\ q2[k] = r[1][1]
                                      /\ Leads(q2[k], Tail(r), t, S)
  <2>1. IsRoute(r, S) /\ From(r) = h /\ To(r) = t
    BY <1>5 DEF Leads
  <2>2. r[1] \in S /\ r[1][2] = h /\ Leads(r[1][1], Tail(r), t, S)
    BY <2>1, WayOn
  <2>3. PICK i \in 1..Len(c) : c[i] = r[1][1]
    BY <1>2, <2>2
  <2> DEFINE k == (Len(q) - 1) + i
  <2>4. k \in 1..Len(q2) /\ k > Len(q) - 1
    BY <1>1, <1>2, <1>3, <2>3
  <2>5. q2[k] = r[1][1]
    BY <1>3, <2>3
  <2> HIDE DEF k
  <2> QED  BY <2>1, <2>2, <2>4, <2>5
<1>6. \A t : Leads(h, << >>, t, S) => t = h
  <2>1. ~IsRoute(<< >>, S)
    BY DEF IsRoute
  <2> QED  BY <2>1 DEF Leads
<1>7. ASSUME NEW i \in 1..Len(q), NEW t \in v \cup {h}, NEW r, Leads(q[i], r, t, S),
             i # 1 \/ r # << >>
      PROVE  \E k \in 1..Len(q2) : \E u : Leads(q2[k], u, t, S)
  <2>1. CASE i = 1
    <3>1. r # << >> /\ Leads(h, r, t, S)
      BY <1>1, <1>7, <2>1
    <3>2. PICK k \in 1..Len(q2) : Leads(q2[k], Tail(r), t, S)
      BY <1>5, <3>1
    <3> QED  BY <3>2
  <2>2. CASE i # 1
    BY <1>4, <1>7, <2>2
  <2> QED  BY <2>1, <2>2
<1>8. ASSUME NEW i \in 1..Len(q), NEW t \in v, NEW r, Leads(q[i], r, t, S)
      PROVE  Doubled(q2, v \cup {h}, S)
  <2>1. i # 1 \/ r # << >>
    BY <1>1, <1>6, <1>8
  <2>2. \E k \in 1..Len(q2) : \E u : Leads(q2[k], u, t, S)
    BY <1>7, <1>8, <2>1
  <2> QED  BY <2>2 DEF Doubled
<1>9. ASSUME NEW i \in 1..Len(q), NEW j \in 1..Len(q), NEW r, NEW u, NEW t,
             Leads(q[i], r, t, S), Leads(q[j], u, t, S), i # j \/ r # u
      PROVE  Doubled(q2, v \cup {h}, S)
  <2>1. CASE i = 1 /\ r = << >>
    <3>1. t = h /\ t \in v \cup {h} /\ (j # 1 \/ u # << >>)
      BY <1>1, <1>6, <1>9, <2>1
    <3>2. \E k \in 1..Len(q2) : \E x : Leads(q2[k], x, t, S)
      BY <1>7, <1>9, <3>1
    <3> QED  BY <3>1, <3>2 DEF Doubled
  <2>2. CASE j = 1 /\ u = << >>
    <3>1. t = h /\ t \in v \cup {h} /\ (i # 1 \/ r # << >>)
      BY <1>1, <1>6, <1>9, <2>2
    <3>2. \E k \in 1..Len(q2) : \E x : Leads(q2[k], x, t, S)
      BY <1>7, <1>9, <3>1
    <3> QED  BY <3>1, <3>2 DEF Doubled
  <2>3. CASE i # 1 /\ j # 1
    <3>1. i - 1 \in 1..Len(q2) /\ j - 1 \in 1..Len(q2)
          /\ q2[i - 1] = q[i] /\ q2[j - 1] = q[j]
      BY <1>4, <2>3
    <3> DEFINE k == i - 1
               l == j - 1
    <3>2. k # l \/ r # u
      BY <1>9
    <3>3. k \in 1..Len(q2) /\ l \in 1..Len(q2)
          /\ Leads(q2[k], r, t, S) /\ Leads(q2[l], u, t, S)
      BY <1>9, <3>1
    <3> HIDE DEF k, l
    <3> QED  BY <3>2, <3>3 DEF Doubled
  <2>4. CASE i = 1 /\ r # << >> /\ j # 1
    <3>1. PICK k \in 1..Len(q2) : k > Len(q) - 1 /\ Leads(q2[k], Tail(r), t, S)
      BY <1>1, <1>5, <1>9, <2>4
    <3>2. j - 1 \in 1..Len(q2) /\ j - 1 <= Len(q) - 1 /\ q2[j - 1] = q[j]
      BY <1>4, <2>4
    <3>3. k # j - 1 /\ Leads(q2[j - 1], u, t, S)
      BY <1>1, <1>9, <3>1, <3>2
    <3> QED  BY <3>1, <3>2, <3>3 DEF Doubled
  <2>5. CASE j = 1 /\ u # << >> /\ i # 1
    <3>1. PICK k \in 1..Len(q2) : k > Len(q) - 1 /\ Leads(q2[k], Tail(u), t, S)
      BY <1>1, <1>5, <1>9, <2>5
    <3>2. i - 1 \in 1..Len(q2) /\ i - 1 <= Len(q) - 1 /\ q2[i - 1] = q[i]
      BY <1>4, <2>5
    <3>3. k # i - 1 /\ Leads(q2[i - 1], r, t, S)
      BY <1>1, <1>9, <3>1, <3>2
    <3> QED  BY <3>1, <3>2, <3>3 DEF Doubled
  <2>6. CASE i = 1 /\ r # << >> /\ j = 1 /\ u # << >>
    <3>1. /\ IsRoute(r, S) /\ r[1] \in S /\ r[1][2] = h
          /\ \E k \in 1..Len(q2) : /\ k > Len(q) - 1 /\ q2[k] = r[1][1]
                                   /\ Leads(q2[k], Tail(r), t, S)
      BY <1>1, <1>5, <1>9, <2>6
    <3>2. /\ IsRoute(u, S) /\ u[1] \in S /\ u[1][2] = h
          /\ \E k \in 1..Len(q2) : /\ k > Len(q) - 1 /\ q2[k] = u[1][1]
                                   /\ Leads(q2[k], Tail(u), t, S)
      BY <1>1, <1>5, <1>9, <2>6
    <3>3. PICK k \in 1..Len(q2) : q2[k] = r[1][1] /\ Leads(q2[k], Tail(r), t, S)
      BY <3>1
    <3>4. PICK l \in 1..Len(q2) : q2[l] = u[1][1] /\ Leads(q2[l], Tail(u), t, S)
      BY <3>2
    <3>5. k # l \/ Tail(r) # Tail(u)
      <4> SUFFICES ASSUME k = l, Tail(r) = Tail(u)  PROVE FALSE
        OBVIOUS
      <4>1. r[1] = u[1]
        <5>1. r[1][1] = u[1][1] /\ r[1][2] = u[1][2]
          BY <3>1, <3>2, <3>3, <3>4
        <5>2. \A e, f \in S : e[1] = f[1] /\ e[2] = f[2] => e = f
          BY SameEdge
        <5>3. r[1] \in S /\ u[1] \in S
          BY <3>1, <3>2
        <5> QED  BY <5>1, <5>2, <5>3
      <4>2. r = u
        BY <3>1, <3>2, <4>1, SameWay
      <4> QED  BY <1>9, <2>6, <4>2
    <3> QED  BY <3>3, <3>4, <3>5 DEF Doubled
  <2> QED  BY <2>1, <2>2, <2>3, <2>4, <2>5, <2>6
<1>10. CASE \E i \in 1..Len(q) : \E t \in v : \E r : Leads(q[i], r, t, S)
  BY <1>8, <1>10
<1>11. CASE \E i, j \in 1..Len(q) : \E r, u, t :
              Leads(q[i], r, t, S) /\ Leads(q[j], u, t, S) /\ (i # j \/ r # u)
  <2>1. PICK i \in 1..Len(q), j \in 1..Len(q) : \E r, u, t :
              Leads(q[i], r, t, S) /\ Leads(q[j], u, t, S) /\ (i # j \/ r # u)
    BY <1>11
  <2> QED  BY <1>9, <2>1
<1>12. \/ \E i \in 1..Len(q) : \E t \in v : \E r : Leads(q[i], r, t, S)
       \/ \E i, j \in 1..Len(q) : \E r, u, t :
            Leads(q[i], r, t, S) /\ Leads(q[j], u, t, S) /\ (i # j \/ r # u)
  BY DEF Doubled
<1> QED  BY <1>10, <1>11, <1>12

\* The walk finds it: at every step there is a set more that was visited.
LEMMA WalkFinds ==
  ASSUME NEW S \in SUBSET (Sets \X Sets), NEW w, Walks(w, S),
         NEW q \in Seq(Sets), NEW v \in SUBSET Sets, Doubled(q, v, S)
  PROVE  w[<<q, v>>] = TRUE
<1> DEFINE N == {n \in Nat : \A p \in Seq(Sets) : \A u \in SUBSET Sets :
                   Cardinality(Sets \ u) <= n /\ Doubled(p, u, S) => w[<<p, u>>] = TRUE}
<1>1. ASSUME NEW p \in Seq(Sets), NEW u \in SUBSET Sets
      PROVE  w[<<p, u>>] = (/\ p # << >>
                            /\ \/ Head(p) \in u
                               \/ w[<<Tail(p) \o SetToSeq(Containers(Head(p), S)),
                                      u \cup {Head(p)}>>])
  BY DEF Walks
<1>2. ASSUME NEW p \in Seq(Sets), NEW u, Doubled(p, u, S)
      PROVE  p # << >> /\ Head(p) \in Sets
  <2>1. \E i \in 1..Len(p) : TRUE
    BY <1>2 DEF Doubled
  <2>2. p # << >>
    BY <2>1
  <2> QED  BY <2>2
<1>3. \A u \in SUBSET Sets : IsFiniteSet(Sets \ u) /\ Cardinality(Sets \ u) \in Nat
  <2> SUFFICES ASSUME NEW u \in SUBSET Sets
               PROVE  IsFiniteSet(Sets \ u) /\ Cardinality(Sets \ u) \in Nat
    OBVIOUS
  <2>1. Sets \ u \in SUBSET Sets
    OBVIOUS
  <2> QED  BY <2>1, GraphAssumption, FS_Subset, FS_CardinalityType
<1>4. 0 \in N
  <2> SUFFICES ASSUME NEW p \in Seq(Sets), NEW u \in SUBSET Sets,
                      Cardinality(Sets \ u) <= 0, Doubled(p, u, S)
               PROVE  w[<<p, u>>] = TRUE
    OBVIOUS
  <2>1. Cardinality(Sets \ u) = 0
    <3>1. \A k \in Nat : k <= 0 => k = 0
      OBVIOUS
    <3> QED  BY <1>3, <3>1
  <2>2. Sets \ u = {}
    BY <1>3, <2>1, FS_EmptySet
  <2>3. p # << >> /\ Head(p) \in u
    BY <1>2, <2>2
  <2> QED  BY <1>1, <2>3
<1>5. ASSUME NEW n \in Nat, n \in N  PROVE n + 1 \in N
  <2> SUFFICES ASSUME NEW p \in Seq(Sets), NEW u \in SUBSET Sets,
                      Cardinality(Sets \ u) <= n + 1, Doubled(p, u, S)
               PROVE  w[<<p, u>>] = TRUE
    <3>1. n + 1 \in Nat
      OBVIOUS
    <3> QED  BY <3>1
  <2>1. p # << >> /\ Head(p) \in Sets
    BY <1>2
  <2>2. CASE Head(p) \in u
    BY <1>1, <2>1, <2>2
  <2>3. CASE Head(p) \notin u
    <3> DEFINE h == Head(p)
               c == SetToSeq(Containers(h, S))
               p2 == Tail(p) \o c
               u2 == u \cup {h}
    <3>1. p2 \in Seq(Sets) /\ u2 \in SUBSET Sets
      <4> HIDE DEF h
      <4>1. c \in Seq(Sets)
        BY ContainersAre
      <4>2. Tail(p) \in Seq(Sets) /\ h \in Sets
        BY <2>1 DEF h
      <4> HIDE DEF c
      <4> QED  BY <4>1, <4>2
    <3>2. Doubled(p2, u2, S)
      <4> HIDE DEF c
      <4>1. c = SetToSeq(Containers(h, S))
        BY DEF c
      <4> QED  BY <2>1, <2>3, <4>1, StepFinds
    <3>3. Cardinality(Sets \ u2) <= n
      <4>1. Sets \ u2 = (Sets \ u) \ {h} /\ h \in Sets \ u
        BY <2>1, <2>3
      <4>2. Cardinality((Sets \ u) \ {h}) = Cardinality(Sets \ u) - 1
        BY <1>3, <4>1, FS_RemoveElement
      <4>3. Cardinality(Sets \ u) \in Nat
        BY <1>3
      <4>4. \A a \in Nat : a <= n + 1 => a - 1 <= n
        OBVIOUS
      <4>5. Cardinality(Sets \ u) - 1 <= n
        BY <4>3, <4>4
      <4> HIDE DEF h, u2
      <4>6. Cardinality(Sets \ u2) = Cardinality(Sets \ u) - 1
        BY <4>1, <4>2
      <4> QED  BY <4>5, <4>6
    <3>4. w[<<p2, u2>>] = TRUE
      <4> HIDE DEF p2, u2
      <4> QED  BY <1>5, <3>1, <3>2, <3>3
    <3> QED  BY <1>1, <2>1, <3>4
  <2> QED  BY <2>2, <2>3
<1> HIDE DEF N
<1>6. \A n \in Nat : n \in N
  BY <1>4, <1>5, NatInduct
<1>7. Cardinality(Sets \ v) \in N
  BY <1>3, <1>6
<1>8. Cardinality(Sets \ v) <= Cardinality(Sets \ v)
  <2>1. \A k \in Nat : k <= k
    OBVIOUS
  <2> QED  BY <1>3, <2>1
<1> QED  BY <1>7, <1>8 DEF N

\* A step of the walk finds nothing that was not to be found.
LEMMA StepIsFair ==
  ASSUME NEW S \in SUBSET (Sets \X Sets),
         NEW q \in Seq(Sets), q # << >>, NEW v \in SUBSET Sets,
         NEW h, h = Head(q), NEW c, c = SetToSeq(Containers(h, S)),
         NEW q2, q2 = Tail(q) \o c, Doubled(q2, v \cup {h}, S)
  PROVE  Doubled(q, v, S)
<1>1. /\ Len(q) \in Nat \ {0} /\ Tail(q) \in Seq(Sets) /\ Len(Tail(q)) = Len(q) - 1
      /\ \A k \in 1..(Len(q) - 1) : Tail(q)[k] = q[k + 1]
      /\ q[1] = h /\ 1 \in 1..Len(q)
  OBVIOUS
<1>2. /\ c \in Seq(Sets) /\ Len(c) \in Nat
      /\ \A i \in 1..Len(c) : <<c[i], h>> \in S
      /\ \A i, j \in 1..Len(c) : c[i] = c[j] => i = j
  <2> DEFINE C == Containers(h, S)
  <2>1. C \subseteq Sets /\ IsFiniteSet(C) /\ c \in Seq(Sets)
    BY ContainersAre
  <2>2. \A x \in C : <<x, h>> \in S
    <3> SUFFICES ASSUME NEW x \in C  PROVE <<x, h>> \in S
      OBVIOUS
    <3>1. PICK e \in S : e[2] = h /\ x = e[1]
      BY DEF Containers
    <3>2. e \in Sets \X Sets
      OBVIOUS
    <3>3. e = <<x, h>>
      BY <3>1, <3>2
    <3> QED  BY <3>3
  <2> HIDE DEF C
  <2>3. c = SetToSeq(C)
    BY DEF C
  <2>4. c \in Seq(C) /\ \A i, j \in 1..Len(c) : c[i] = c[j] => i = j
    <3>1. ListsOnce(c, C)
      BY <2>1, <2>3, SetToSeqIs
    <3> QED  BY <3>1 DEF ListsOnce
  <2>5. \A i \in 1..Len(c) : c[i] \in C
    BY <2>4
  <2> QED  BY <2>1, <2>2, <2>4, <2>5
<1>3. /\ Len(q2) = (Len(q) - 1) + Len(c)
      /\ \A k \in 1..(Len(q) - 1) : q2[k] = q[k + 1]
      /\ \A k \in 1..Len(c) : q2[(Len(q) - 1) + k] = c[k]
  BY <1>1, <1>2
<1> DEFINE m == Len(q) - 1
           edge(k) == <<q2[k], h>>
           \* Where a way from the k-th of the queue began a step before.
           place(k) == IF k <= m THEN k + 1 ELSE 1
           way(k, r) == IF k <= m THEN r ELSE <<edge(k)>> \o r
<1>4. ASSUME NEW k \in 1..Len(q2), k <= m
      PROVE  k \in 1..m /\ k + 1 \in 1..Len(q) /\ k + 1 # 1 /\ q2[k] = q[k + 1]
  <2>1. k \in 1..m
    BY <1>1, <1>4
  <2> QED  BY <1>1, <1>3, <2>1
<1>5. ASSUME NEW k \in 1..Len(q2), ~ (k <= m)
      PROVE  k - m \in 1..Len(c) /\ q2[k] = c[k - m] /\ edge(k) \in S
  <2>1. k - m \in 1..Len(c) /\ m + (k - m) = k
    BY <1>1, <1>2, <1>3, <1>5
  <2>2. q2[k] = c[k - m]
    BY <1>3, <2>1
  <2> QED  BY <1>2, <2>1, <2>2
<1>6. ASSUME NEW k \in 1..Len(q2), NEW r, NEW t, Leads(q2[k], r, t, S)
      PROVE  /\ place(k) \in 1..Len(q) /\ Leads(q[place(k)], way(k, r), t, S)
             /\ place(k) = 1 => way(k, r) # << >> /\ way(k, r)[1] = edge(k)
                                /\ Tail(way(k, r)) = r /\ ~ (k <= m)
             /\ place(k) # 1 => way(k, r) = r /\ k <= m /\ place(k) = k + 1
  <2>1. CASE k <= m
    BY <1>4, <1>6, <2>1
  <2>2. CASE ~ (k <= m)
    <3> HIDE DEF edge
    <3>1. edge(k) \in S /\ edge(k)[1] = q2[k] /\ edge(k)[2] = h
      BY <1>5, <2>2 DEF edge
    <3>2. /\ IsRoute(<<edge(k)>> \o r, S) /\ From(<<edge(k)>> \o r) = h
          /\ To(<<edge(k)>> \o r) = t
          /\ (<<edge(k)>> \o r)[1] = edge(k) /\ Tail(<<edge(k)>> \o r) = r
      <4>1. PICK d : d = edge(k)
        OBVIOUS
      <4>2. d \in S /\ d[2] = h /\ Leads(d[1], r, t, S)
        BY <1>6, <3>1, <4>1
      <4>3. /\ IsRoute(<<d>> \o r, S) /\ From(<<d>> \o r) = d[2] /\ To(<<d>> \o r) = t
            /\ (<<d>> \o r)[1] = d /\ Tail(<<d>> \o r) = r
            /\ Len(r) \in Nat /\ Len(<<d>> \o r) = Len(r) + 1
        <5>1. PICK p : p = <<d>> \o r
          OBVIOUS
        <5>2. OnTop(p, d, r, t, S)
          BY ONLY <4>2, <5>1, EdgeOn
        <5> QED  BY ONLY <5>1, <5>2 DEF OnTop
      <4> QED  BY <4>1, <4>2, <4>3
    <3>3. ~IsRoute(<< >>, S)
      BY DEF IsRoute
    <3> QED  BY <1>1, <2>2, <3>2, <3>3 DEF Leads
  <2> QED  BY <2>1, <2>2
<1> HIDE DEF m, place, way
<1>7. ASSUME NEW k \in 1..Len(q2), NEW t \in v \cup {h}, NEW r, Leads(q2[k], r, t, S)
      PROVE  Doubled(q, v, S)
  <2>1. place(k) \in 1..Len(q) /\ Leads(q[place(k)], way(k, r), t, S)
        /\ (place(k) = 1 => way(k, r) # << >>)
    BY <1>6, <1>7
  <2>2. CASE t \in v
    BY <2>1, <2>2 DEF Doubled
  <2>3. CASE t = h
    <3>1. Leads(q[1], << >>, t, S)
      BY <1>1, <2>3 DEF Leads
    <3> DEFINE i == place(k)
               x == way(k, r)
    <3>2. /\ 1 \in 1..Len(q) /\ i \in 1..Len(q) /\ Leads(q[i], x, t, S)
          /\ 1 # i \/ << >> # x
      BY <1>1, <2>1
    <3> HIDE DEF i, x
    <3>3. \E a, b \in 1..Len(q) : \E y, u, z :
            Leads(q[a], y, z, S) /\ Leads(q[b], u, z, S) /\ (a # b \/ y # u)
      BY ONLY <3>1, <3>2
    <3> QED  BY <3>3 DEF Doubled
  <2> QED  BY <2>2, <2>3
<1>8. ASSUME NEW i \in 1..Len(q2), NEW j \in 1..Len(q2), NEW r, NEW u, NEW t,
             Leads(q2[i], r, t, S), Leads(q2[j], u, t, S), i # j \/ r # u
      PROVE  Doubled(q, v, S)
  <2>1. /\ place(i) \in 1..Len(q) /\ Leads(q[place(i)], way(i, r), t, S)
        /\ place(i) = 1 => way(i, r)[1] = edge(i)
                           /\ Tail(way(i, r)) = r /\ ~ (i <= m)
        /\ place(i) # 1 => way(i, r) = r /\ i <= m /\ place(i) = i + 1
    BY <1>6, <1>8
  <2>2. /\ place(j) \in 1..Len(q) /\ Leads(q[place(j)], way(j, u), t, S)
        /\ place(j) = 1 => way(j, u)[1] = edge(j)
                           /\ Tail(way(j, u)) = u /\ ~ (j <= m)
        /\ place(j) # 1 => way(j, u) = u /\ j <= m /\ place(j) = j + 1
    BY <1>6, <1>8
  <2>3. place(i) # place(j) \/ way(i, r) # way(j, u)
    <3> SUFFICES ASSUME place(i) = place(j), way(i, r) = way(j, u)  PROVE FALSE
      OBVIOUS
    <3>1. CASE place(i) = 1
      <4>1. edge(i) = edge(j) /\ r = u
        BY <2>1, <2>2, <3>1
      <4>2. q2[i] = q2[j]
        BY <4>1
      <4>3. i - m \in 1..Len(c) /\ q2[i] = c[i - m]
            /\ j - m \in 1..Len(c) /\ q2[j] = c[j - m]
        BY <1>5, <2>1, <2>2, <3>1
      <4>4. i - m = j - m
        BY <1>2, <4>2, <4>3
      <4>5. i = j
        BY <1>1, <4>4 DEF m
      <4> QED  BY <1>8, <4>1, <4>5
    <3>2. CASE place(i) # 1
      <4>1. i + 1 = j + 1 /\ r = u
        BY <2>1, <2>2, <3>2
      <4>2. i = j
        BY <4>1
      <4> QED  BY <1>8, <4>1, <4>2
    <3> QED  BY <3>1, <3>2
  <2> DEFINE a == place(i)
             b == place(j)
             x == way(i, r)
             y == way(j, u)
  <2>4. /\ a \in 1..Len(q) /\ b \in 1..Len(q)
        /\ Leads(q[a], x, t, S) /\ Leads(q[b], y, t, S) /\ (a # b \/ x # y)
    BY <2>1, <2>2, <2>3
  <2> HIDE DEF a, b, x, y
  <2> QED  BY <2>4 DEF Doubled
<1>9. CASE \E i \in 1..Len(q2) : \E t \in v \cup {h} : \E r : Leads(q2[i], r, t, S)
  BY <1>7, <1>9
<1>10. CASE \E i, j \in 1..Len(q2) : \E r, u, t :
              Leads(q2[i], r, t, S) /\ Leads(q2[j], u, t, S) /\ (i # j \/ r # u)
  <2>1. PICK i \in 1..Len(q2), j \in 1..Len(q2) : \E r, u, t :
              Leads(q2[i], r, t, S) /\ Leads(q2[j], u, t, S) /\ (i # j \/ r # u)
    BY <1>10
  <2> QED  BY <1>8, <2>1
<1> QED  BY <1>9, <1>10 DEF Doubled

\* The walk finds nothing that was not to be found.
LEMMA WalkIsFair ==
  ASSUME NEW S \in SUBSET (Sets \X Sets), NEW w, Walks(w, S),
         NEW q \in Seq(Sets), NEW v \in SUBSET Sets, w[<<q, v>>]
  PROVE  Doubled(q, v, S)
<1> DEFINE N == {n \in Nat : \A p \in Seq(Sets) : \A u \in SUBSET Sets :
                   Cardinality(Sets \ u) <= n /\ w[<<p, u>>] => Doubled(p, u, S)}
<1>1. ASSUME NEW p \in Seq(Sets), NEW u \in SUBSET Sets
      PROVE  w[<<p, u>>] = (/\ p # << >>
                            /\ \/ Head(p) \in u
                               \/ w[<<Tail(p) \o SetToSeq(Containers(Head(p), S)),
                                      u \cup {Head(p)}>>])
  BY DEF Walks
<1>2. ASSUME NEW p \in Seq(Sets), NEW u, p # << >>, Head(p) \in u
      PROVE  Doubled(p, u, S)
  <2>1. 1 \in 1..Len(p) /\ p[1] = Head(p)
    BY <1>2
  <2>2. Leads(p[1], << >>, p[1], S)
    BY DEF Leads
  <2>3. \E i \in 1..Len(p) : \E t \in u : \E r : Leads(p[i], r, t, S)
    BY <1>2, <2>1, <2>2
  <2> QED  BY <2>3 DEF Doubled
<1>3. \A u \in SUBSET Sets : IsFiniteSet(Sets \ u) /\ Cardinality(Sets \ u) \in Nat
  <2> SUFFICES ASSUME NEW u \in SUBSET Sets
               PROVE  IsFiniteSet(Sets \ u) /\ Cardinality(Sets \ u) \in Nat
    OBVIOUS
  <2>1. Sets \ u \in SUBSET Sets
    OBVIOUS
  <2> QED  BY <2>1, GraphAssumption, FS_Subset, FS_CardinalityType
<1>4. 0 \in N
  <2> SUFFICES ASSUME NEW p \in Seq(Sets), NEW u \in SUBSET Sets,
                      Cardinality(Sets \ u) <= 0, w[<<p, u>>]
               PROVE  Doubled(p, u, S)
    OBVIOUS
  <2>1. Cardinality(Sets \ u) = 0
    <3>1. \A k \in Nat : k <= 0 => k = 0
      OBVIOUS
    <3> QED  BY <1>3, <3>1
  <2>2. Sets \ u = {}
    BY <1>3, <2>1, FS_EmptySet
  <2>3. p # << >>
    BY <1>1
  <2>4. Head(p) \in Sets
    BY <2>3
  <2> QED  BY <1>2, <2>2, <2>3, <2>4
<1>5. ASSUME NEW n \in Nat, n \in N  PROVE n + 1 \in N
  <2> SUFFICES ASSUME NEW p \in Seq(Sets), NEW u \in SUBSET Sets,
                      Cardinality(Sets \ u) <= n + 1, w[<<p, u>>]
               PROVE  Doubled(p, u, S)
    <3>1. n + 1 \in Nat
      OBVIOUS
    <3> QED  BY <3>1
  <2>1. p # << >> /\ Head(p) \in Sets
    <3>1. p # << >>
      BY <1>1
    <3> QED  BY <3>1
  <2>2. CASE Head(p) \in u
    BY <1>2, <2>1, <2>2
  <2>3. CASE Head(p) \notin u
    <3> DEFINE h == Head(p)
               c == SetToSeq(Containers(h, S))
               p2 == Tail(p) \o c
               u2 == u \cup {h}
    <3>1. p2 \in Seq(Sets) /\ u2 \in SUBSET Sets
      <4> HIDE DEF h
      <4>1. c \in Seq(Sets)
        BY ContainersAre
      <4>2. Tail(p) \in Seq(Sets) /\ h \in Sets
        BY <2>1 DEF h
      <4> HIDE DEF c
      <4> QED  BY <4>1, <4>2
    <3>2. w[<<p2, u2>>]
      BY <1>1, <2>3
    <3>3. Cardinality(Sets \ u2) <= n
      <4>1. Sets \ u2 = (Sets \ u) \ {h} /\ h \in Sets \ u
        BY <2>1, <2>3
      <4>2. Cardinality((Sets \ u) \ {h}) = Cardinality(Sets \ u) - 1
        BY <1>3, <4>1, FS_RemoveElement
      <4>3. Cardinality(Sets \ u) \in Nat
        BY <1>3
      <4>4. \A a \in Nat : a <= n + 1 => a - 1 <= n
        OBVIOUS
      <4>5. Cardinality(Sets \ u) - 1 <= n
        BY <4>3, <4>4
      <4> HIDE DEF h, u2
      <4>6. Cardinality(Sets \ u2) = Cardinality(Sets \ u) - 1
        BY <4>1, <4>2
      <4> QED  BY <4>5, <4>6
    <3>4. Doubled(p2, u2, S)
      <4> HIDE DEF p2, u2
      <4> QED  BY <1>5, <3>1, <3>2, <3>3
    <3>5. Doubled(p, u, S)
      <4> HIDE DEF c
      <4>1. c = SetToSeq(Containers(h, S))
        BY DEF c
      <4> QED  BY <2>1, <3>4, <4>1, StepIsFair
    <3> QED  BY <3>5
  <2> QED  BY <2>2, <2>3
<1> HIDE DEF N
<1>6. \A n \in Nat : n \in N
  BY <1>4, <1>5, NatInduct
<1>7. Cardinality(Sets \ v) \in N
  BY <1>3, <1>6
<1>8. Cardinality(Sets \ v) <= Cardinality(Sets \ v)
  <2>1. \A k \in Nat : k <= k
    OBVIOUS
  <2> QED  BY <1>3, <2>1
<1> QED  BY <1>7, <1>8 DEF N

LEMMA OccurrencesAre ==
  ASSUME NEW M \in SUBSET (Sets \X Accounts), IsFiniteSet(M),
         NEW Q \in Seq(Sets \X Accounts)
  PROVE  /\ IsFiniteSet(Occurrences(Q, M))
         /\ \A o \in Occurrences(Q, M) : o[2] \in Sets \X Accounts
         /\ \A e \in M : <<0, e>> \in Occurrences(Q, M)
         /\ \A i \in DOMAIN Q : <<i, Q[i]>> \in Occurrences(Q, M)
<1> DEFINE A == {<<0, e>> : e \in M}
           B == {<<i, Q[i]>> : i \in DOMAIN Q}
<1>1. IsFiniteSet(A)
  <2> DEFINE f == [e \in M |-> <<0, e>>]
  <2>1. f \in Surjection(M, A)
    BY DEF Surjection
  <2> HIDE DEF f, A
  <2> QED  BY <2>1, FS_Surjection
<1>2. IsFiniteSet(B)
  <2> DEFINE f == [i \in DOMAIN Q |-> <<i, Q[i]>>]
  <2>1. f \in Surjection(DOMAIN Q, B)
    BY DEF Surjection
  <2>2. IsFiniteSet(DOMAIN Q)
    <3>1. Len(Q) \in Nat /\ DOMAIN Q = 1..Len(Q)
      OBVIOUS
    <3> QED  BY <3>1, FS_Interval
  <2> HIDE DEF f, B
  <2> QED  BY <2>1, <2>2, FS_Surjection
<1>3. Occurrences(Q, M) = A \cup B
  BY DEF Occurrences
<1>4. \A i \in DOMAIN Q : Q[i] \in Sets \X Accounts
  OBVIOUS
<1>5. \A o \in A \cup B : o[2] \in Sets \X Accounts
  BY <1>4
<1>6. IsFiniteSet(A \cup B)
  <2> HIDE DEF A, B
  <2> QED  BY <1>1, <1>2, FS_Union
<1>7. /\ \A e \in M : <<0, e>> \in A \cup B
      /\ \A i \in DOMAIN Q : <<i, Q[i]>> \in A \cup B
  OBVIOUS
<1> HIDE DEF A, B
<1> QED  BY <1>3, <1>5, <1>6, <1>7

\* The queue q lists the containers in O, as s does the whole of it.
Seeding(s, q, O) ==
  /\ q \in Seq(Sets) /\ Len(q) = Len(s) /\ Len(s) \in Nat
  /\ \A i \in 1..Len(s) : s[i] \in O /\ q[i] = s[i][2][1]
  /\ \A i, j \in 1..Len(s) : s[i] = s[j] => i = j
  /\ \A o \in O : \E i \in 1..Len(s) : s[i] = o

\* The queue a walk begins with, and the occurrences it stands for.
LEMMA SeedsAre ==
  ASSUME NEW M \in SUBSET (Sets \X Accounts), IsFiniteSet(M),
         NEW Q \in Seq(Sets \X Accounts), NEW x,
         NEW O, O = {o \in Occurrences(Q, M) : o[2][2] = x},
         NEW q, q = Seeds(x, Q, M)
  PROVE  \E s : Seeding(s, q, O)
<1> DEFINE s == SetToSeq(O)
<1>1. /\ IsFiniteSet(Occurrences(Q, M))
      /\ \A k \in Occurrences(Q, M) : k[2] \in Sets \X Accounts
  BY OccurrencesAre
<1>2. IsFiniteSet(O) /\ \A k \in O : k[2][1] \in Sets
  <2>1. O \in SUBSET Occurrences(Q, M)
    OBVIOUS
  <2>2. IsFiniteSet(O)
    BY <1>1, <2>1, FS_Subset
  <2>3. \A k \in O : k[2][1] \in Sets
    BY <1>1
  <2> QED  BY <2>2, <2>3
<1>3. q = [i \in DOMAIN s |-> s[i][2][1]]
  BY DEF Seeds
<1>4. /\ s \in Seq(O) /\ \A o \in O : \E i \in 1..Len(s) : s[i] = o
      /\ \A i, j \in 1..Len(s) : s[i] = s[j] => i = j
  <2>1. ListsOnce(s, O)
    BY <1>2, SetToSeqIs
  <2> QED  BY <2>1 DEF ListsOnce
<1> HIDE DEF s
<1>5. Len(s) \in Nat /\ DOMAIN s = 1..Len(s) /\ \A i \in 1..Len(s) : s[i] \in O
  BY <1>4
<1>6. q \in Seq(Sets) /\ Len(q) = Len(s)
      /\ \A i \in 1..Len(s) : q[i] = s[i][2][1]
  <2>1. q \in [1..Len(s) -> Sets]
    BY <1>2, <1>3, <1>5
  <2>2. \A i \in 1..Len(s) : q[i] = s[i][2][1]
    BY <1>3, <1>5
  <2> QED  BY <1>5, <2>1, <2>2
<1>7. Seeding(s, q, O)
  BY <1>4, <1>5, <1>6 DEF Seeding
<1> QED  BY <1>7

\* Of the edges with x for a member, one leads to a set, and in one way.
Once(x, O, S) ==
  \A o, u \in O : o[2][2] = x /\ u[2][2] = x =>
    \A r, s, t : Leads(o[2][1], r, t, S) /\ Leads(u[2][1], s, t, S) => o = u /\ r = s

\* So it is for an account whose walk comes to no set twice.
LEMMA ReachesOnce ==
  ASSUME NEW S \in SUBSET (Sets \X Sets),
         NEW M \in SUBSET (Sets \X Accounts), IsFiniteSet(M),
         NEW Q \in Seq(Sets \X Accounts), NEW x, ~ReachesTwice(x, Q, S, M)
  PROVE  Once(x, Occurrences(Q, M), S)
<1> SUFFICES ASSUME NEW o \in Occurrences(Q, M), o[2][2] = x,
                    NEW u \in Occurrences(Q, M), u[2][2] = x,
                    NEW r, NEW p, NEW t,
                    Leads(o[2][1], r, t, S), Leads(u[2][1], p, t, S),
                    o # u \/ r # p
             PROVE  FALSE
  BY DEF Once
<1> DEFINE O == {k \in Occurrences(Q, M) : k[2][2] = x}
           q == Seeds(x, Q, M)
<1>1. PICK s : Seeding(s, q, O)
  BY SeedsAre
<1>2. o \in O /\ u \in O
  OBVIOUS
<1>3. PICK w : Walks(w, S) /\ ReachesTwice(x, Q, S, M) = w[<<q, {}>>]
  BY WalksExist DEF ReachesTwice, Walks
<1> HIDE DEF O, q
<1>4. PICK i \in 1..Len(s) : s[i] = o
  BY <1>1, <1>2 DEF Seeding
<1>5. PICK j \in 1..Len(s) : s[j] = u
  BY <1>1, <1>2 DEF Seeding
<1>6. /\ i \in 1..Len(q) /\ j \in 1..Len(q)
      /\ Leads(q[i], r, t, S) /\ Leads(q[j], p, t, S) /\ (i # j \/ r # p)
  BY <1>1, <1>4, <1>5 DEF Seeding
<1>7. Doubled(q, {}, S)
  BY <1>6 DEF Doubled
<1>8. w[<<q, {}>>] = TRUE
  <2>1. {} \in SUBSET Sets /\ q \in Seq(Sets)
    BY <1>1 DEF Seeding
  <2> QED  BY <1>3, <1>7, <2>1, WalkFinds
<1> QED  BY <1>3, <1>8

\* An account whose walk comes to a set twice is contained in it twice.
LEMMA ReachesTwiceIs ==
  ASSUME NEW S \in SUBSET (Sets \X Sets),
         NEW M \in SUBSET (Sets \X Accounts), IsFiniteSet(M),
         NEW Q \in Seq(Sets \X Accounts), NEW x, ReachesTwice(x, Q, S, M)
  PROVE  ~Once(x, Occurrences(Q, M), S)
<1> DEFINE O == {o \in Occurrences(Q, M) : o[2][2] = x}
           q == Seeds(x, Q, M)
<1>1. PICK s : Seeding(s, q, O)
  BY SeedsAre
<1>2. PICK w : Walks(w, S) /\ ReachesTwice(x, Q, S, M) = w[<<q, {}>>]
  BY WalksExist DEF ReachesTwice, Walks
<1> HIDE DEF q
<1>3. Doubled(q, {}, S)
  <2>1. {} \in SUBSET Sets
    OBVIOUS
  <2> QED  BY <1>1, <1>2, <2>1, WalkIsFair DEF Seeding
<1>4. PICK i \in 1..Len(q), j \in 1..Len(q) : \E r, u, t :
        Leads(q[i], r, t, S) /\ Leads(q[j], u, t, S) /\ (i # j \/ r # u)
  BY <1>3 DEF Doubled
<1>5. PICK r, u, t :
        Leads(q[i], r, t, S) /\ Leads(q[j], u, t, S) /\ (i # j \/ r # u)
  BY <1>4
<1>6. s[i] \in O /\ s[j] \in O /\ q[i] = s[i][2][1] /\ q[j] = s[j][2][1]
      /\ (i # j => s[i] # s[j])
  BY <1>1 DEF Seeding
<1>7. /\ s[i] \in Occurrences(Q, M) /\ s[i][2][2] = x
      /\ s[j] \in Occurrences(Q, M) /\ s[j][2][2] = x
  BY <1>6
<1>8. Leads(s[i][2][1], r, t, S) /\ Leads(s[j][2][1], u, t, S)
  BY <1>5, <1>6
<1> HIDE DEF O
<1>s. SUFFICES ASSUME Once(x, Occurrences(Q, M), S)  PROVE FALSE
  OBVIOUS
<1>9. s[i] = s[j] /\ r = u
  <2>1. PICK o, d : o = s[i] /\ d = s[j]
    OBVIOUS
  <2>2. /\ o \in Occurrences(Q, M) /\ o[2][2] = x
        /\ d \in Occurrences(Q, M) /\ d[2][2] = x
        /\ Leads(o[2][1], r, t, S) /\ Leads(d[2][1], u, t, S)
    BY <1>7, <1>8, <2>1
  <2>3. o = d /\ r = u
    BY ONLY <1>s, <2>2 DEF Once
  <2> QED  BY ONLY <2>1, <2>3
<1> QED  BY <1>5, <1>6, <1>9

\* What assert_no_double_membership has found of a request it accepts.
LEMMA AccountVerdictOk ==
  ASSUME NEW Q, NEW S, NEW M, AccountVerdict(Q, S, M) = Ok
  PROVE  \A i \in DOMAIN Q : ~ReachesTwice(Q[i][2], Q, S, M)
BY DEF AccountVerdict, Ok, MemberAlreadyAdded

\* No membership is proposed that exists.
LEMMA MembersAreNew ==
  ASSUME NEW S \in SUBSET (Sets \X Sets),
         NEW M \in SUBSET (Sets \X Accounts), IsFiniteSet(M),
         NEW Q \in Seq(Sets \X Accounts), AccountVerdict(Q, S, M) = Ok
  PROVE  \A e \in ToSet(Q) : e \notin M
<1> SUFFICES ASSUME NEW e \in ToSet(Q), e \in M  PROVE FALSE
  OBVIOUS
<1>1. PICK i \in DOMAIN Q : Q[i] = e /\ i # 0
  BY RequestIsFinite
<1> DEFINE o == <<0, e>>
           u == <<i, Q[i]>>
<1>2. o \in Occurrences(Q, M) /\ u \in Occurrences(Q, M)
  BY OccurrencesAre
<1>3. /\ o[2][2] = e[2] /\ u[2][2] = e[2] /\ o # u
      /\ o[2][1] = e[1] /\ u[2][1] = e[1]
  BY <1>1
<1> HIDE DEF o, u
<1>4. Leads(o[2][1], << >>, e[1], S) /\ Leads(u[2][1], << >>, e[1], S)
  BY <1>3 DEF Leads
<1>5. ~ReachesTwice(e[2], Q, S, M)
  BY <1>1, AccountVerdictOk
<1>6. o = u
  <2>1. Once(e[2], Occurrences(Q, M), S)
    BY <1>5, ReachesOnce
  <2> QED  BY <1>2, <1>3, <1>4, <2>1 DEF Once
<1> QED  BY <1>3, <1>6

----------------------------------------------------------------------------
(* Valid graphs with other edges of accounts, or fewer *)

\* Only the first edge of a route is one of an account.
LEMMA RouteParts ==
  ASSUME NEW S \in SUBSET (Sets \X Sets), NEW A \in SUBSET (Sets \X Accounts),
         NEW p, IsRoute(p, S \cup A)
  PROVE  /\ Len(p) \in Nat \ {0} /\ To(p) \in Sets
         /\ From(p) \in Sets => IsRoute(p, S)
         /\ From(p) \notin Sets =>
              /\ From(p) \in Accounts /\ p[1] \in A /\ p[1][2] = From(p)
              /\ Leads(p[1][1], Tail(p), To(p), S)
              /\ \A i \in 1..Len(p) : i # 1 => p[i] \in S
<1> DEFINE G == S \cup A
<1>1. \A x \in Sets : x \notin Accounts
  BY GraphAssumption
<1>2. \A e \in G : /\ e[1] \in Sets
                   /\ e[2] \in Sets => e \in S
                   /\ e[2] \notin Sets => e[2] \in Accounts /\ e \in A
  BY <1>1
<1> HIDE DEF G
<1>3. ASSUME NEW q, IsRoute(q, G)
      PROVE  /\ Len(q) \in Nat \ {0} /\ To(q) \in Sets
             /\ \A i \in 1..Len(q) : i # 1 => q[i] \in S
             /\ From(q) \in Sets => IsRoute(q, S)
  <2>1. Len(q) \in Nat \ {0} /\ \A i \in 1..Len(q) : q[i] \in G
    BY <1>3 DEF IsRoute
  <2>2. ASSUME NEW i \in 1..Len(q), i # 1  PROVE q[i] \in S
    <3>1. i - 1 \in 1..(Len(q) - 1) /\ i - 1 \in 1..Len(q) /\ (i - 1) + 1 = i
      BY <2>1, <2>2
    <3>2. q[i - 1][1] = q[(i - 1) + 1][2] /\ q[i - 1][1] \in Sets
      BY <1>2, <1>3, <2>1, <3>1 DEF IsRoute
    <3> QED  BY <1>2, <2>1, <3>1, <3>2
  <2>3. Len(q) \in 1..Len(q) /\ 1 \in 1..Len(q)
    BY <2>1
  <2>4. ASSUME From(q) \in Sets  PROVE IsRoute(q, S)
    <3>1. q[1] \in S
      BY <1>2, <2>1, <2>3, <2>4 DEF From
    <3>2. \A i \in 1..Len(q) : q[i] \in S
      BY <2>2, <3>1
    <3> QED  BY <1>3, <3>2, RouteWithin
  <2> QED  BY <1>2, <2>1, <2>2, <2>3, <2>4 DEF To
<1>4. IsRoute(p, G)
  BY DEF G
<1>5. /\ p[1] \in G /\ p[1][2] = From(p)
      /\ Leads(p[1][1], Tail(p), To(p), G)
  BY <1>4, WayOn
<1>6. Leads(p[1][1], Tail(p), To(p), S)
  <2>1. CASE Tail(p) = << >> /\ To(p) = p[1][1]
    BY <2>1 DEF Leads
  <2>2. CASE IsRoute(Tail(p), G) /\ From(Tail(p)) = p[1][1] /\ To(Tail(p)) = To(p)
    <3>1. From(Tail(p)) \in Sets
      BY <1>2, <1>5, <2>2
    <3>2. IsRoute(Tail(p), S)
      BY <1>3, <2>2, <3>1
    <3> QED  BY <2>2, <3>2 DEF Leads
  <2> QED  BY <1>5, <2>1, <2>2 DEF Leads
<1> QED  BY <1>2, <1>3, <1>4, <1>5, <1>6

\* Other edges of accounts leave a graph valid that double no way.
LEMMA OtherAccounts ==
  ASSUME NEW S \in SUBSET (Sets \X Sets), NEW M, Valid(S \cup M),
         NEW A \in SUBSET (Sets \X Accounts),
         NEW G, G = S \cup A,
         \A p, q : /\ IsRoute(p, G) /\ Len(p) <= Longest
                   /\ IsRoute(q, G) /\ Len(q) <= Longest
                   /\ From(p) = From(q) /\ To(p) = To(q) /\ From(p) \notin Sets
                   => p = q
  PROVE  Valid(G)
<1>1. ASSUME NEW p, IsRoute(p, S)  PROVE IsRoute(p, S \cup M)
  <2>1. \A i \in 1..Len(p) : p[i] \in S \cup M
    BY <1>1 DEF IsRoute
  <2> QED  BY <1>1, <2>1, RouteWithin
<1>2. ASSUME NEW p, IsRoute(p, G)
      PROVE  /\ From(p) \in Sets => IsRoute(p, S \cup M)
             /\ From(p) \notin Sets => From(p) # To(p)
  <2>1. IsRoute(p, S \cup A)
    BY <1>2
  <2>2. To(p) \in Sets /\ (From(p) \in Sets => IsRoute(p, S))
    BY <2>1, RouteParts
  <2> QED  BY <1>1, <2>2
<1>3. ASSUME NEW p, IsRoute(p, G), Len(p) <= Longest
      PROVE  From(p) # To(p) /\ (From(p) \in Sets => Len(p) <= MAX_MEMBERSHIP_DEPTH)
  BY <1>2, <1>3 DEF Valid
<1>4. ASSUME NEW p, IsRoute(p, G), Len(p) <= Longest,
             NEW q, IsRoute(q, G), Len(q) <= Longest,
             From(p) = From(q), To(p) = To(q)
      PROVE  p = q
  <2>1. CASE From(p) \in Sets
    BY <1>2, <1>4, <2>1 DEF Valid
  <2>2. CASE From(p) \notin Sets
    BY <1>4, <2>2
  <2> QED  BY <2>1, <2>2
<1> QED  BY <1>3, <1>4 DEF Valid

\* A graph stays valid with the account memberships that are accepted.
LEMMA MembersStayValid ==
  ASSUME NEW S \in SUBSET (Sets \X Sets),
         NEW M \in SUBSET (Sets \X Accounts), IsFiniteSet(M),
         NEW Q \in Seq(Sets \X Accounts), AccountVerdict(Q, S, M) = Ok,
         Valid(S \cup M)
  PROVE  Valid(S \cup (M \cup ToSet(Q)))
<1> DEFINE A == M \cup ToSet(Q)
           G == S \cup A
<1>1. A \in SUBSET (Sets \X Accounts)
  <2>1. ToSet(Q) \subseteq Sets \X Accounts
    BY RequestIsFinite
  <2> QED  BY <2>1
<1>2. \A e \in A : \E o \in Occurrences(Q, M) : o[2] = e
  <2> SUFFICES ASSUME NEW e \in A  PROVE \E o \in Occurrences(Q, M) : o[2] = e
    OBVIOUS
  <2>1. CASE e \in M
    <3>1. <<0, e>> \in Occurrences(Q, M) /\ <<0, e>>[2] = e
      BY <2>1, OccurrencesAre
    <3> QED  BY <3>1
  <2>2. CASE e \in ToSet(Q)
    <3>1. PICK k \in DOMAIN Q : Q[k] = e
      BY <2>2, RequestIsFinite
    <3>2. <<k, Q[k]>> \in Occurrences(Q, M) /\ <<k, Q[k]>>[2] = e
      BY <3>1, OccurrencesAre
    <3> QED  BY <3>2
  <2> QED  BY <2>1, <2>2
<1>3. \A e \in ToSet(Q) : ~ReachesTwice(e[2], Q, S, M)
  <2> SUFFICES ASSUME NEW e \in ToSet(Q)  PROVE ~ReachesTwice(e[2], Q, S, M)
    OBVIOUS
  <2>1. PICK k \in DOMAIN Q : Q[k] = e
    BY RequestIsFinite
  <2> QED  BY <2>1, AccountVerdictOk
<1>4. \A e \in A : e \in M \/ e \in ToSet(Q)
  OBVIOUS
<1> HIDE DEF A
<1>5. ASSUME NEW p, IsRoute(p, G), Len(p) <= Longest,
             NEW q, IsRoute(q, G), Len(q) <= Longest,
             From(p) = From(q), To(p) = To(q), From(p) \notin Sets
      PROVE  p = q
  <2>1. /\ p[1] \in A /\ p[1][2] = From(p) /\ Len(p) \in Nat \ {0}
        /\ Leads(p[1][1], Tail(p), To(p), S)
        /\ \A i \in 1..Len(p) : i # 1 => p[i] \in S
    BY <1>1, <1>5, RouteParts
  <2>2. /\ q[1] \in A /\ q[1][2] = From(p) /\ Len(q) \in Nat \ {0}
        /\ Leads(q[1][1], Tail(q), To(p), S)
        /\ \A i \in 1..Len(q) : i # 1 => q[i] \in S
    BY <1>1, <1>5, RouteParts
  <2>3. CASE p[1] \in ToSet(Q) \/ q[1] \in ToSet(Q)
    <3>1. ~ReachesTwice(From(p), Q, S, M)
      BY <1>3, <2>1, <2>2, <2>3
    <3>2. PICK o \in Occurrences(Q, M) : o[2] = p[1]
      BY <1>2, <2>1
    <3>3. PICK u \in Occurrences(Q, M) : u[2] = q[1]
      BY <1>2, <2>2
    <3>4. o = u /\ Tail(p) = Tail(q)
      <4>1. /\ o[2][2] = From(p) /\ u[2][2] = From(p)
            /\ Leads(o[2][1], Tail(p), To(p), S) /\ Leads(u[2][1], Tail(q), To(p), S)
        BY <2>1, <2>2, <3>2, <3>3
      <4>2. Once(From(p), Occurrences(Q, M), S)
        BY <3>1, ReachesOnce
      <4> QED  BY <4>1, <4>2 DEF Once
    <3>5. p[1] = q[1]
      BY <3>2, <3>3, <3>4
    <3> QED  BY <1>5, <3>4, <3>5, SameWay
  <2>4. CASE p[1] \in M /\ q[1] \in M
    <3>1. /\ \A i \in 1..Len(p) : p[i] \in S \cup M
          /\ \A i \in 1..Len(q) : q[i] \in S \cup M
      BY <2>1, <2>2, <2>4
    <3>2. IsRoute(p, S \cup M) /\ IsRoute(q, S \cup M)
      BY <1>5, <3>1, RouteWithin
    <3> QED  BY <1>5, <3>2 DEF Valid
  <2> QED  BY <1>4, <2>1, <2>2, <2>3, <2>4
<1>6. Valid(G)
  <2>1. G = S \cup A
    OBVIOUS
  <2> HIDE DEF G
  <2> QED  BY <1>1, <1>5, <2>1, OtherAccounts
<1> QED  BY <1>6 DEF A

\* The verdict on a request for account memberships is the one that is due.
LEMMA AccountVerdictIsDue ==
  ASSUME NEW S \in SUBSET (Sets \X Sets),
         NEW M \in SUBSET (Sets \X Accounts), IsFiniteSet(M),
         NEW Q \in Seq(Sets \X Accounts), Valid(S \cup M)
  PROVE  AccountVerdict(Q, S, M).error = DueError(Q, S \cup M)
<1> DEFINE A == M \cup ToSet(Q)
           G == S \cup A
           C == Chains(Occurrences(Q, S \cup M))
<1>1. A \in SUBSET (Sets \X Accounts) /\ ToSet(Q) \subseteq Sets \X Accounts
  <2>1. ToSet(Q) \subseteq Sets \X Accounts
    BY RequestIsFinite
  <2> QED  BY <2>1
<1>2. G = (S \cup M) \cup ToSet(Q)
  OBVIOUS
<1>3. /\ Cyclic(C) <=> Looped(G)
      /\ ContainedTwice(C) <=> Twofold(G) \/ Repeats(Q, S \cup M)
      /\ TooDeep(C) <=> Deep(G)
  <2> HIDE DEF G
  <2> QED  BY <1>2, FaultsOfChains
<1> HIDE DEF A
<1>4. ASSUME NEW p, IsRoute(p, S)  PROVE IsRoute(p, S \cup M) /\ IsRoute(p, G)
  <2>1. \A i \in 1..Len(p) : p[i] \in S \cup M /\ p[i] \in G
    BY <1>4 DEF IsRoute
  <2> QED  BY <1>4, <2>1, RouteWithin
<1>5. ASSUME NEW p, IsRoute(p, G)
      PROVE  /\ From(p) \in Sets => IsRoute(p, S \cup M)
             /\ From(p) \notin Sets => From(p) # To(p)
             /\ Len(p) \in Nat
  <2> HIDE DEF G
  <2>1. /\ Len(p) \in Nat \ {0} /\ To(p) \in Sets
        /\ From(p) \in Sets => IsRoute(p, S)
    BY <1>1, <1>5, RouteParts DEF G
  <2> QED  BY <1>4, <2>1
<1>6. ~Looped(G)
  BY <1>5 DEF Looped, Valid
<1>7. ~Deep(G)
  <2>1. Valid(S \cup M) => ~Deep(S \cup M)
    BY ValidIs
  <2> QED  BY <1>5, <2>1 DEF Deep
<1>8. DueError(Q, S \cup M) =
        IF Twofold(G) \/ Repeats(Q, S \cup M) THEN "MemberAlreadyAdded" ELSE "none"
  <2> HIDE DEF C, G
  <2>1. DueError(Q, S \cup M) =
          IF Cyclic(C) THEN "MembershipCycleDetected"
          ELSE IF ContainedTwice(C) THEN "MemberAlreadyAdded"
          ELSE IF TooDeep(C) THEN "MembershipDepthExceeded" ELSE "none"
    BY DEF DueError, C
  <2> QED  BY <1>3, <1>6, <1>7, <2>1
<1>9. /\ \A o \in Occurrences(Q, M) : o[2] \in A
      /\ Repeats(Q, M) <=> \E o, u \in Occurrences(Q, M) : o # u /\ o[2] = u[2]
  BY OccursOnce DEF A
<1>10. Repeats(Q, M) <=> Repeats(Q, S \cup M)
  <2>1. ASSUME NEW i \in DOMAIN Q  PROVE Q[i] \in S \cup M <=> Q[i] \in M
    <3>1. Q[i] \in Sets \X Accounts
      OBVIOUS
    <3>2. \A e \in S : e[2] \notin Accounts
      BY GraphAssumption
    <3> QED  BY <3>1, <3>2
  <2> QED  BY <2>1 DEF Repeats
<1>11. NoCycle(S)
  BY <1>4, <1>6 DEF NoCycle, Looped
<1>12. ASSUME NEW e \in A, NEW r, NEW t, Leads(e[1], r, t, S)
       PROVE  /\ IsRoute(<<e>> \o r, G) /\ Len(<<e>> \o r) <= Longest
              /\ From(<<e>> \o r) = e[2] /\ To(<<e>> \o r) = t
              /\ (<<e>> \o r)[1] = e /\ Tail(<<e>> \o r) = r
  <2>1. Leads(e[1], r, t, G) /\ e \in G
    BY <1>4, <1>12 DEF Leads
  <2> HIDE DEF G
  <2>2. /\ IsRoute(<<e>> \o r, G) /\ From(<<e>> \o r) = e[2] /\ To(<<e>> \o r) = t
        /\ (<<e>> \o r)[1] = e /\ Tail(<<e>> \o r) = r
        /\ Len(r) \in Nat /\ Len(<<e>> \o r) = Len(r) + 1
    <3>1. PICK p : p = <<e>> \o r
      OBVIOUS
    <3>2. OnTop(p, e, r, t, G)
      BY ONLY <2>1, <3>1, EdgeOn
    <3> QED  BY ONLY <3>1, <3>2 DEF OnTop
  <2>3. Cardinality(Sets) \in Nat /\ Len(r) <= Cardinality(Sets)
    <3>1. Cardinality(Sets) \in Nat
      BY GraphAssumption, FS_CardinalityType
    <3>2. CASE r = << >>
      BY <3>1, <3>2
    <3>3. CASE IsRoute(r, S)
      BY <1>11, <3>3, RoutesAreShort
    <3> QED  BY <1>12, <3>1, <3>2, <3>3 DEF Leads
  <2>4. Len(<<e>> \o r) <= Longest
    BY <2>2, <2>3 DEF Longest
  <2> QED  BY <2>2, <2>4
<1>13. ASSUME NEW i \in DOMAIN Q, ReachesTwice(Q[i][2], Q, S, M), ~Twofold(G)
       PROVE  Repeats(Q, M)
  <2>1. PICK o \in Occurrences(Q, M), u \in Occurrences(Q, M) : \E r, p, t :
           /\ o[2][2] = u[2][2] /\ (o # u \/ r # p)
           /\ Leads(o[2][1], r, t, S) /\ Leads(u[2][1], p, t, S)
    <3> DEFINE x == Q[i][2]
    <3>1. ReachesTwice(x, Q, S, M)
      BY <1>13
    <3> HIDE DEF x
    <3>2. ~Once(x, Occurrences(Q, M), S)
      BY <3>1, ReachesTwiceIs
    <3> QED  BY <3>2 DEF Once
  <2>2. PICK r, p, t :
           /\ o[2][2] = u[2][2] /\ (o # u \/ r # p)
           /\ Leads(o[2][1], r, t, S) /\ Leads(u[2][1], p, t, S)
    BY <2>1
  <2> DEFINE e == o[2]
             f == u[2]
  <2>3. e \in A /\ f \in A /\ e[2] = f[2] /\ Leads(e[1], r, t, S) /\ Leads(f[1], p, t, S)
    BY <1>9, <2>2
  <2> HIDE DEF e, f, G
  <2>4. /\ IsRoute(<<e>> \o r, G) /\ Len(<<e>> \o r) <= Longest
        /\ From(<<e>> \o r) = e[2] /\ To(<<e>> \o r) = t
        /\ (<<e>> \o r)[1] = e /\ Tail(<<e>> \o r) = r
    BY <1>12, <2>3
  <2>5. /\ IsRoute(<<f>> \o p, G) /\ Len(<<f>> \o p) <= Longest
        /\ From(<<f>> \o p) = f[2] /\ To(<<f>> \o p) = t
        /\ (<<f>> \o p)[1] = f /\ Tail(<<f>> \o p) = p
    BY <1>12, <2>3
  <2>6. <<e>> \o r = <<f>> \o p
    BY <1>13, <2>3, <2>4, <2>5 DEF Twofold
  <2>7. e = f /\ r = p
    BY <2>4, <2>5, <2>6
  <2>8. o # u /\ o[2] = u[2]
    BY <2>2, <2>7 DEF e, f
  <2> QED  BY <1>9, <2>8
<1>14. ASSUME AccountVerdict(Q, S, M) = Ok
       PROVE  ~Twofold(G) /\ ~Repeats(Q, M)
  <2>1. Valid(G)
    BY <1>14, MembersStayValid DEF A
  <2>2. ~Twofold(G)
    BY <2>1, ValidIs
  <2>3. ~Repeats(Q, M)
    <3> SUFFICES ASSUME Repeats(Q, M)  PROVE FALSE
      OBVIOUS
    <3>1. PICK k \in DOMAIN Q, o \in Occurrences(Q, M), u \in Occurrences(Q, M) :
            o # u /\ o[2] = Q[k] /\ u[2] = Q[k]
      <4>1. CASE \E i \in DOMAIN Q : Q[i] \in M
        <5>1. PICK i \in DOMAIN Q : Q[i] \in M
          BY <4>1
        <5>2. /\ <<0, Q[i]>> \in Occurrences(Q, M) /\ <<i, Q[i]>> \in Occurrences(Q, M)
              /\ <<0, Q[i]>> # <<i, Q[i]>>
          BY <5>1, OccurrencesAre, RequestIsFinite
        <5> QED  BY <5>2
      <4>2. CASE \E i, j \in DOMAIN Q : i # j /\ Q[i] = Q[j]
        <5>1. PICK i \in DOMAIN Q, j \in DOMAIN Q : i # j /\ Q[i] = Q[j]
          BY <4>2
        <5>2. /\ <<i, Q[i]>> \in Occurrences(Q, M) /\ <<j, Q[j]>> \in Occurrences(Q, M)
              /\ <<i, Q[i]>> # <<j, Q[j]>>
          BY <5>1, OccurrencesAre
        <5> QED  BY <5>1, <5>2
      <4> QED  BY <4>1, <4>2 DEF Repeats
    <3>2. ~ReachesTwice(Q[k][2], Q, S, M)
      BY <1>14, AccountVerdictOk
    <3>3. Once(Q[k][2], Occurrences(Q, M), S)
      BY <3>2, ReachesOnce
    <3>4. Leads(o[2][1], << >>, Q[k][1], S) /\ Leads(u[2][1], << >>, Q[k][1], S)
      BY <3>1 DEF Leads
    <3>5. o = u
      BY <3>1, <3>3, <3>4 DEF Once
    <3> QED  BY <3>1, <3>5
  <2> QED  BY <2>2, <2>3
<1> HIDE DEF G
<1>15. CASE \E i \in DOMAIN Q : ReachesTwice(Q[i][2], Q, S, M)
  <2>1. AccountVerdict(Q, S, M).error = "MemberAlreadyAdded"
    BY <1>15 DEF AccountVerdict, MemberAlreadyAdded
  <2>2. Twofold(G) \/ Repeats(Q, M)
    BY <1>13, <1>15
  <2> QED  BY <1>8, <1>10, <2>1, <2>2
<1>16. CASE ~ \E i \in DOMAIN Q : ReachesTwice(Q[i][2], Q, S, M)
  <2>1. AccountVerdict(Q, S, M) = Ok
    BY <1>16 DEF AccountVerdict
  <2>2. ~Twofold(G) /\ ~Repeats(Q, M)
    BY <1>14, <2>1
  <2> QED  BY <1>8, <1>10, <2>1, <2>2 DEF Ok
<1> QED  BY <1>15, <1>16

\* It stays valid with an account in one set that was in none.
LEMMA NewAccountStaysValid ==
  ASSUME NEW S \in SUBSET (Sets \X Sets), NEW M \in SUBSET (Sets \X Accounts),
         NEW x \in Accounts, \A e \in M : e[2] # x,
         NEW R \in SUBSET (Sets \X {x}), \A e, f \in R : e = f,
         Valid(S \cup M)
  PROVE  Valid(S \cup (M \cup R))
<1> DEFINE A == M \cup R
           G == S \cup A
<1>1. A \in SUBSET (Sets \X Accounts)
  OBVIOUS
<1>2. \A e \in A : /\ e[2] # x => e \in M
                   /\ e[2] = x => e \in R
  OBVIOUS
<1> HIDE DEF A
<1>3. ASSUME NEW p, IsRoute(p, S)  PROVE IsRoute(p, S \cup M)
  <2>1. \A i \in 1..Len(p) : p[i] \in S \cup M
    BY <1>3 DEF IsRoute
  <2> QED  BY <1>3, <2>1, RouteWithin
<1>4. ASSUME NEW p, IsRoute(p, G), Len(p) <= Longest,
             NEW q, IsRoute(q, G), Len(q) <= Longest,
             From(p) = From(q), To(p) = To(q), From(p) \notin Sets
      PROVE  p = q
  <2>1. /\ p[1] \in A /\ p[1][2] = From(p) /\ Len(p) \in Nat \ {0}
        /\ Leads(p[1][1], Tail(p), To(p), S)
        /\ \A i \in 1..Len(p) : i # 1 => p[i] \in S
    BY <1>1, <1>4, RouteParts
  <2>2. /\ q[1] \in A /\ q[1][2] = From(p) /\ Len(q) \in Nat \ {0}
        /\ Leads(q[1][1], Tail(q), To(p), S)
        /\ \A i \in 1..Len(q) : i # 1 => q[i] \in S
    BY <1>1, <1>4, RouteParts
  <2>3. CASE From(p) = x
    <3>1. p[1] = q[1]
      BY <1>2, <2>1, <2>2, <2>3
    <3>2. Len(Tail(p)) <= Longest /\ Len(Tail(q)) <= Longest
      <4>1. Longest \in Nat
        BY GraphAssumption, FS_CardinalityType DEF Longest
      <4>2. Len(Tail(p)) = Len(p) - 1 /\ Len(Tail(q)) = Len(q) - 1
        BY <1>4, WayOn
      <4>3. \A k, l \in Nat : k <= l => k - 1 <= l
        OBVIOUS
      <4> QED  BY <1>4, <2>1, <2>2, <4>1, <4>2, <4>3
    <3>3. Tail(p) = Tail(q)
      <4>1. \A r : IsRoute(r, S) /\ Len(r) <= Longest => From(r) # To(r)
        BY <1>3 DEF Valid
      <4>2. ASSUME NEW r, IsRoute(r, S), Len(r) <= Longest,
                   NEW s, IsRoute(s, S), Len(s) <= Longest,
                   From(r) = From(s), To(r) = To(s)
            PROVE  r = s
        <5>1. IsRoute(r, S \cup M) /\ IsRoute(s, S \cup M)
          BY <1>3, <4>2
        <5> QED  BY <4>2, <5>1 DEF Valid
      <4> DEFINE a == Tail(p)
                 b == Tail(q)
                 y == p[1][1]
                 z == To(p)
      <4>3. /\ (a = << >> /\ z = y) \/ (IsRoute(a, S) /\ From(a) = y /\ To(a) = z)
            /\ (b = << >> /\ z = y) \/ (IsRoute(b, S) /\ From(b) = y /\ To(b) = z)
            /\ Len(a) <= Longest /\ Len(b) <= Longest
        BY <2>1, <2>2, <3>1, <3>2 DEF Leads
      <4> HIDE DEF a, b, y, z
      <4>4. a = b
        BY <4>1, <4>2, <4>3
      <4> QED  BY <4>4 DEF a, b
    <3> QED  BY <1>4, <3>1, <3>3, SameWay
  <2>4. CASE From(p) # x
    <3>1. p[1] \in M /\ q[1] \in M
      BY <1>2, <2>1, <2>2, <2>4
    <3>2. /\ \A i \in 1..Len(p) : p[i] \in S \cup M
          /\ \A i \in 1..Len(q) : q[i] \in S \cup M
      BY <2>1, <2>2, <3>1
    <3>3. IsRoute(p, S \cup M) /\ IsRoute(q, S \cup M)
      BY <1>4, <3>2, RouteWithin
    <3> QED  BY <1>4, <3>3 DEF Valid
  <2> QED  BY <2>3, <2>4
<1>5. Valid(G)
  <2>1. G = S \cup A
    OBVIOUS
  <2> HIDE DEF G
  <2> QED  BY <1>1, <1>4, <2>1, OtherAccounts
<1> QED  BY <1>5 DEF A

\* It stays valid with fewer edges.
LEMMA FewerStayValid ==
  ASSUME NEW G, NEW H \in SUBSET G, Valid(G)
  PROVE  Valid(H)
<1>1. ASSUME NEW p, IsRoute(p, H)  PROVE IsRoute(p, G)
  <2>1. \A i \in 1..Len(p) : p[i] \in G
    BY <1>1 DEF IsRoute
  <2> QED  BY <1>1, <2>1, RouteWithin
<1> QED  BY <1>1 DEF Valid

----------------------------------------------------------------------------
(* The edge an error names *)

\* The recursion of FirstDepthOverflow, where deep says which prefixes are too
\* deep.
Bisects(w, deep) ==
  w = [b \in Nat \X Nat |->
         IF b[1] >= b[2] THEN b[1]
         ELSE IF deep[(b[1] + b[2]) \div 2] THEN w[<<b[1], (b[1] + b[2]) \div 2>>]
         ELSE w[<<(b[1] + b[2]) \div 2 + 1, b[2]>>]]

\* The middle is between the two.
LEMMA Middle ==
  ASSUME NEW low \in Nat, NEW high \in Nat, low < high,
         NEW m, m = (low + high) \div 2
  PROVE  /\ m \in Nat /\ low <= m /\ m < high
         /\ m + 1 \in Nat /\ m + 1 <= high
         /\ \A n \in Nat : high - low <= n + 1 => m - low <= n /\ high - (m + 1) <= n
OBVIOUS

\* There is one: what is found in as many steps as there are edges between.
LEMMA BisectsExist ==
  ASSUME NEW deep
  PROVE  \E w : Bisects(w, deep)
<1> DEFINE D == Nat \X Nat
           R == [D -> Nat]
           body(g, b) == IF b[1] >= b[2] THEN b[1]
                         ELSE IF deep[(b[1] + b[2]) \div 2]
                              THEN g[<<b[1], (b[1] + b[2]) \div 2>>]
                              ELSE g[<<(b[1] + b[2]) \div 2 + 1, b[2]>>]
           a == [b \in D |-> b[1]]
           more(g) == [b \in D |-> body(g, b)]
           step == [n \in Nat |-> [g \in R |-> more(g)]]
<1>0. ASSUME NEW b \in D, ~ (b[1] >= b[2])
      PROVE  /\ b[1] \in Nat /\ b[2] \in Nat
             /\ <<b[1], (b[1] + b[2]) \div 2>> \in D
             /\ <<(b[1] + b[2]) \div 2 + 1, b[2]>> \in D
             /\ b[2] - b[1] \in Nat \ {0}
             /\ \A n \in Nat : b[2] - b[1] <= n + 1 =>
                  /\ <<b[1], (b[1] + b[2]) \div 2>>[2] - <<b[1], (b[1] + b[2]) \div 2>>[1] <= n
                  /\ <<(b[1] + b[2]) \div 2 + 1, b[2]>>[2]
                       - <<(b[1] + b[2]) \div 2 + 1, b[2]>>[1] <= n
  <2>1. b[1] \in Nat /\ b[2] \in Nat /\ b[1] < b[2]
    BY <1>0
  <2> DEFINE l == b[1]
             h == b[2]
             m == (l + h) \div 2
  <2>2. l \in Nat /\ h \in Nat /\ l < h
    BY <2>1
  <2> HIDE DEF l, h
  <2>3. /\ m \in Nat /\ m + 1 \in Nat
        /\ \A n \in Nat : h - l <= n + 1 => m - l <= n /\ h - (m + 1) <= n
    BY <2>2, Middle
  <2> HIDE DEF m
  <2>4. /\ <<l, m>> \in D /\ <<m + 1, h>> \in D
        /\ h - l \in Nat \ {0}
        /\ \A n \in Nat : h - l <= n + 1 =>
             /\ <<l, m>>[2] - <<l, m>>[1] <= n
             /\ <<m + 1, h>>[2] - <<m + 1, h>>[1] <= n
    BY <2>2, <2>3
  <2> QED  BY <2>2, <2>4 DEF l, h, m
<1>1. a \in R /\ \A g \in R : more(g) \in R
  <2>1. a \in R
    OBVIOUS
  <2>2. ASSUME NEW g \in R, NEW b \in D  PROVE body(g, b) \in Nat
    <3>1. CASE b[1] >= b[2]
      BY <3>1
    <3>2. CASE ~ (b[1] >= b[2])
      <4>1. /\ g[<<b[1], (b[1] + b[2]) \div 2>>] \in Nat
            /\ g[<<(b[1] + b[2]) \div 2 + 1, b[2]>>] \in Nat
        BY <1>0, <3>2
      <4> QED  BY <3>2, <4>1
    <3> QED  BY <3>1, <3>2
  <2> HIDE DEF body
  <2> QED  BY <2>1, <2>2
<1> HIDE DEF R, a, more
<1>2. \A n \in Nat : \A g \in R : step[n][g] = more(g)
  OBVIOUS
<1>3. \A n \in Nat : \A g \in R : step[n][g] \in R
  BY <1>1, <1>2
<1> HIDE DEF step
<1>4. PICK f : Iterates(f, R, a, step)
  BY <1>1, <1>3, IteratesExist
<1>5. f \in [Nat -> R] /\ f[0] = a /\ \A n \in Nat : f[n + 1] = more(f[n])
  BY <1>2, <1>4 DEF Iterates
<1>6. \A n \in Nat : \A b \in D : f[n + 1][b] = body(f[n], b)
  <2> HIDE DEF body
  <2> QED  BY <1>5 DEF more
<1>7. \A b \in D : f[0][b] = b[1]
  BY <1>5 DEF a
\* More steps than edges between find no other.
<1> DEFINE N == {n \in Nat : \A b \in D : b[2] - b[1] <= n => f[n + 1][b] = f[n][b]}
<1>8. 0 \in N
  <2> SUFFICES ASSUME NEW b \in D, b[2] - b[1] <= 0  PROVE f[0 + 1][b] = f[0][b]
    OBVIOUS
  <2>1. b[1] >= b[2]
    OBVIOUS
  <2>2. f[0 + 1][b] = body(f[0], b)
    BY <1>6
  <2> QED  BY <1>7, <2>1, <2>2
<1>9. ASSUME NEW n \in Nat, n \in N  PROVE n + 1 \in N
  <2> SUFFICES ASSUME NEW b \in D, b[2] - b[1] <= n + 1
               PROVE  f[(n + 1) + 1][b] = f[n + 1][b]
    <3>1. n + 1 \in Nat
      OBVIOUS
    <3> QED  BY <3>1
  <2>1. f[(n + 1) + 1][b] = body(f[n + 1], b) /\ f[n + 1][b] = body(f[n], b)
    <3>1. n + 1 \in Nat
      OBVIOUS
    <3> HIDE DEF body
    <3> QED  BY <1>6, <3>1
  <2>2. CASE b[1] >= b[2]
    BY <2>1, <2>2
  <2>3. CASE ~ (b[1] >= b[2])
    <3>1. /\ f[n + 1][<<b[1], (b[1] + b[2]) \div 2>>] = f[n][<<b[1], (b[1] + b[2]) \div 2>>]
          /\ f[n + 1][<<(b[1] + b[2]) \div 2 + 1, b[2]>>]
               = f[n][<<(b[1] + b[2]) \div 2 + 1, b[2]>>]
      BY <1>0, <1>9, <2>3
    <3> QED  BY <2>1, <2>3, <3>1
  <2> QED  BY <2>2, <2>3
<1> HIDE DEF N
<1>10. \A n \in Nat : n \in N
  BY <1>8, <1>9, NatInduct
<1>11. ASSUME NEW b \in D, NEW n \in Nat, b[2] - b[1] <= n
       PROVE  \A k \in Nat : f[n + k][b] = f[n][b]
  <2> DEFINE K == {k \in Nat : f[n + k][b] = f[n][b]}
  <2>1. 0 \in K
    OBVIOUS
  <2>2. ASSUME NEW k \in Nat, k \in K  PROVE k + 1 \in K
    <3>1. n + k \in Nat /\ k + 1 \in Nat /\ n + (k + 1) = (n + k) + 1
      OBVIOUS
    <3>2. b[2] - b[1] <= n + k
      BY <1>11
    <3>3. f[(n + k) + 1][b] = f[n + k][b]
      BY <1>10, <3>1, <3>2 DEF N
    <3> QED  BY <2>2, <3>1, <3>3
  <2> HIDE DEF K
  <2>3. \A k \in Nat : k \in K
    BY <2>1, <2>2, NatInduct
  <2> QED  BY <2>3 DEF K
<1> DEFINE need(b) == IF b[1] >= b[2] THEN 0 ELSE b[2] - b[1]
           w == [b \in D |-> f[need(b)][b]]
<1>12. ASSUME NEW b \in D, NEW n \in Nat, b[2] - b[1] <= n
       PROVE  w[b] = f[n][b]
  <2>1. need(b) \in Nat /\ b[2] - b[1] <= need(b) /\ n - need(b) \in Nat
        /\ need(b) + (n - need(b)) = n
    BY <1>12
  <2>2. w[b] = f[need(b)][b]
    OBVIOUS
  <2> HIDE DEF need, w
  <2>3. f[need(b) + (n - need(b))][b] = f[need(b)][b]
    BY <1>11, <2>1
  <2> QED  BY <2>1, <2>2, <2>3
<1>13. ASSUME NEW b \in D  PROVE w[b] = body(w, b)
  <2>1. CASE b[1] >= b[2]
    <3>1. w[b] = f[0][b]
      BY <1>12, <2>1
    <3> QED  BY <1>7, <2>1, <3>1
  <2>2. CASE ~ (b[1] >= b[2])
    <3> DEFINE n == b[2] - b[1] - 1
    <3>1. n \in Nat /\ n + 1 = b[2] - b[1] /\ n + 1 \in Nat /\ b[2] - b[1] <= n + 1
      BY <1>0, <2>2
    <3> HIDE DEF n, w
    <3>2. w[b] = body(f[n], b)
      <4> HIDE DEF body
      <4>1. w[b] = f[n + 1][b]
        BY <1>12, <3>1
      <4> QED  BY <1>6, <3>1, <4>1
    <3>3. /\ w[<<b[1], (b[1] + b[2]) \div 2>>] = f[n][<<b[1], (b[1] + b[2]) \div 2>>]
          /\ w[<<(b[1] + b[2]) \div 2 + 1, b[2]>>]
               = f[n][<<(b[1] + b[2]) \div 2 + 1, b[2]>>]
      BY <1>0, <1>12, <2>2, <3>1
    <3> QED  BY <2>2, <3>2, <3>3
  <2> QED  BY <2>1, <2>2
<1>14. w = [b \in D |-> body(w, b)]
  <2> DEFINE u == [b \in D |-> body(w, b)]
  <2>1. DOMAIN w = D /\ w = [b \in D |-> w[b]]
    OBVIOUS
  <2>2. \A b \in D : w[b] = body(w, b)
    BY <1>13
  <2> HIDE DEF w, body
  <2> QED  BY <2>1, <2>2
<1> HIDE DEF w
<1>15. Bisects(w, deep)
  BY <1>14 DEF Bisects
<1> QED  BY <1>15

\* If a longer prefix is no less deep, it finds the first that is too deep.
LEMMA BisectsToFirst ==
  ASSUME NEW deep, NEW w, Bisects(w, deep), NEW L \in Nat,
         \A m, n \in 1..L : m <= n /\ deep[m] => deep[n],
         L >= 1, deep[L]
  PROVE  LET r == w[<<1, L>>]
         IN  r \in 1..L /\ deep[r] /\ \A j \in 1..(r - 1) : ~deep[j]
<1> DEFINE First(l, h, r) == r \in l..h /\ deep[r] /\ \A j \in l..(r - 1) : ~deep[j]
           N == {d \in Nat : \A l, h \in Nat :
                   (1 <= l /\ l <= h /\ h <= L /\ h - l <= d /\ deep[h])
                     => First(l, h, w[<<l, h>>])}
<1>1. ASSUME NEW l \in Nat, NEW h \in Nat
      PROVE  w[<<l, h>>] = IF l >= h THEN l
                           ELSE IF deep[(l + h) \div 2] THEN w[<<l, (l + h) \div 2>>]
                           ELSE w[<<(l + h) \div 2 + 1, h>>]
  BY DEF Bisects
<1>2. 0 \in N
  <2> SUFFICES ASSUME NEW l \in Nat, NEW h \in Nat, 1 <= l, l <= h, h <= L,
                      h - l <= 0, deep[h]
               PROVE  First(l, h, w[<<l, h>>])
    OBVIOUS
  <2>1. l = h
    OBVIOUS
  <2>2. w[<<l, h>>] = l
    BY <1>1, <2>1
  <2> QED  BY <2>1, <2>2
<1>3. ASSUME NEW d \in Nat, d \in N  PROVE d + 1 \in N
  <2> SUFFICES ASSUME NEW l \in Nat, NEW h \in Nat, 1 <= l, l <= h, h <= L,
                      h - l <= d + 1, deep[h]
               PROVE  First(l, h, w[<<l, h>>])
    <3>1. d + 1 \in Nat
      OBVIOUS
    <3> QED  BY <3>1
  <2>1. CASE l = h
    <3>1. w[<<l, h>>] = l
      BY <1>1, <2>1
    <3> QED  BY <2>1, <3>1
  <2>2. CASE l # h
    <3> DEFINE m == (l + h) \div 2
    <3>1. l < h
      BY <2>2
    <3>2. /\ m \in Nat /\ l <= m /\ m < h /\ m + 1 \in Nat /\ m + 1 <= h
          /\ m - l <= d /\ h - (m + 1) <= d
      <4>1. /\ m \in Nat /\ l <= m /\ m < h
            /\ m + 1 \in Nat /\ m + 1 <= h
            /\ \A n \in Nat : h - l <= n + 1 => m - l <= n /\ h - (m + 1) <= n
        BY <3>1, Middle
      <4> QED  BY <4>1
    <3>3. w[<<l, h>>] = IF deep[m] THEN w[<<l, m>>] ELSE w[<<m + 1, h>>]
      BY <1>1, <3>1
    <3> HIDE DEF m
    <3>4. CASE deep[m]
      <4>1. First(l, m, w[<<l, m>>])
        <5>1. m <= L
          BY <3>2
        <5> QED  BY <1>3, <3>2, <3>4, <5>1
      <4>2. w[<<l, h>>] = w[<<l, m>>]
        BY <3>3, <3>4
      <4> QED  BY <3>2, <4>1, <4>2
    <3>5. CASE ~deep[m]
      <4>1. First(m + 1, h, w[<<m + 1, h>>])
        <5>1. 1 <= m + 1
          BY <3>2
        <5> QED  BY <1>3, <3>2, <5>1
      <4>2. w[<<l, h>>] = w[<<m + 1, h>>]
        BY <3>3, <3>5
      <4> DEFINE r == w[<<m + 1, h>>]
      <4>3. r \in (m + 1)..h /\ deep[r] /\ \A j \in (m + 1)..(r - 1) : ~deep[j]
        BY <4>1
      <4> HIDE DEF r
      <4>4. ASSUME NEW j \in l..(r - 1)  PROVE ~deep[j]
        <5>1. CASE j <= m
          <6>1. j \in 1..L /\ m \in 1..L
            BY <3>2, <5>1
          <6> QED  BY <3>5, <5>1, <6>1
        <5>2. CASE ~ (j <= m)
          <6>1. j \in (m + 1)..(r - 1)
            BY <3>2, <5>2
          <6> QED  BY <4>3, <6>1
        <5> QED  BY <5>1, <5>2
      <4>5. r \in l..h
        BY <3>2, <4>3
      <4> QED  BY <4>2, <4>3, <4>4, <4>5 DEF r
    <3> QED  BY <3>4, <3>5
  <2> QED  BY <2>1, <2>2
<1> HIDE DEF N
<1>4. L - 1 \in N
  <2>1. L - 1 \in Nat
    OBVIOUS
  <2> QED  BY <1>2, <1>3, <2>1, NatInduct
<1>5. First(1, L, w[<<1, L>>])
  BY <1>4 DEF N
<1> QED  BY <1>5

\* The search of FirstDepthOverflow is one.
LEMMA OverflowIsFound ==
  ASSUME NEW P, NEW S,
         NEW deep, deep = [n \in Nat |-> PrefixDepth(P, n, S) > MAX_MEMBERSHIP_DEPTH]
  PROVE  \E w : Bisects(w, deep) /\ FirstDepthOverflow(P, S) = w[<<1, Len(P)>>]
<1> DEFINE Good(w) ==
      w = [b \in Nat \X Nat |->
             LET middle == (b[1] + b[2]) \div 2
             IN  IF b[1] >= b[2] THEN b[1]
                 ELSE IF PrefixDepth(P, middle, S) > MAX_MEMBERSHIP_DEPTH
                      THEN w[<<b[1], middle>>]
                      ELSE w[<<middle + 1, b[2]>>]]
<1>1. PICK u : Bisects(u, deep)
  BY BisectsExist
<1>0. \A b \in Nat \X Nat : /\ b[1] \in Nat /\ b[2] \in Nat
                            /\ deep[(b[1] + b[2]) \div 2]
                                 = (PrefixDepth(P, (b[1] + b[2]) \div 2, S) > MAX_MEMBERSHIP_DEPTH)
  OBVIOUS
<1>2. ASSUME NEW w  PROVE Good(w) <=> Bisects(w, deep)
  <2> DEFINE A == [b \in Nat \X Nat |->
                     LET middle == (b[1] + b[2]) \div 2
                     IN  IF b[1] >= b[2] THEN b[1]
                         ELSE IF PrefixDepth(P, middle, S) > MAX_MEMBERSHIP_DEPTH
                              THEN w[<<b[1], middle>>]
                              ELSE w[<<middle + 1, b[2]>>]]
             B == [b \in Nat \X Nat |->
                     LET middle == (b[1] + b[2]) \div 2
                     IN  IF b[1] >= b[2] THEN b[1]
                         ELSE IF deep[middle] THEN w[<<b[1], middle>>]
                              ELSE w[<<middle + 1, b[2]>>]]
  <2>1. A = B
    <3>1. \A b \in Nat \X Nat : A[b] = B[b]
      BY <1>0
    <3> QED  BY <3>1
  <2>2. Good(w) <=> w = A
    OBVIOUS
  <2>3. Bisects(w, deep) <=> w = B
    BY DEF Bisects
  <2> HIDE DEF A, B, Good
  <2> QED  BY <2>1, <2>2, <2>3
<1>3. Good(CHOOSE w : Good(w))
  BY <1>1, <1>2
<1>4. FirstDepthOverflow(P, S) = (CHOOSE w : Good(w))[<<1, Len(P)>>]
  BY DEF FirstDepthOverflow
<1> HIDE DEF Good
<1> QED  BY <1>2, <1>3, <1>4

\* What holds of a graph holds of fewer edges, and what is too deep stays so.
LEMMA FewerEdges ==
  ASSUME NEW H, NEW G, G \subseteq H
  PROVE  /\ NoCycle(H) => NoCycle(G)
         /\ Deep(G) => Deep(H)
<1>1. ASSUME NEW p, IsRoute(p, G)  PROVE IsRoute(p, H)
  BY <1>1 DEF IsRoute
<1> QED  BY <1>1 DEF NoCycle, Deep

\* A prefix of a request is a request.
Begins(Q, n, P, E) ==
  /\ Q \in Seq(E) /\ Len(Q) = n
  /\ \A i \in 1..n : Q[i] = P[i]
  /\ ToSet(Q) = {P[i] : i \in 1..n}
  /\ ToSet(Q) \subseteq ToSet(P)
  /\ n = Len(P) => Q = P

LEMMA PrefixIs ==
  ASSUME NEW E, NEW P \in Seq(E), NEW n \in 0..Len(P)
  PROVE  Begins(SubSeq(P, 1, n), n, P, E)
<1> DEFINE Q == SubSeq(P, 1, n)
<1>1. Q \in Seq(E) /\ Len(Q) = n /\ \A i \in 1..n : Q[i] = P[i]
  OBVIOUS
<1>2. DOMAIN Q = 1..n /\ DOMAIN P = 1..Len(P) /\ n \in Nat /\ Len(P) \in Nat
  BY <1>1
<1> HIDE DEF Q
<1>3. ToSet(Q) = {P[i] : i \in 1..n}
  BY <1>1, <1>2 DEF ToSet
<1>4. ToSet(Q) \subseteq ToSet(P)
  BY <1>2, <1>3 DEF ToSet
<1>5. ASSUME n = Len(P)  PROVE Q = P
  BY <1>1, <1>2, <1>5
<1>6. Begins(Q, n, P, E)
  BY <1>1, <1>3, <1>4, <1>5 DEF Begins
<1> QED  BY <1>6 DEF Q

LEMMA PrefixIsRequest ==
  ASSUME NEW P, NEW S, NEW M, NEW N, NEW existing,
         IsRequest(P, S, M, N, existing),
         NEW n \in 0..Len(P), NEW Q, Q = SubSeq(P, 1, n)
  PROVE  IsRequest(Q, S, M, N, existing)
<1>1. P \in Seq(Sets \X Sets)
  BY DEF IsRequest
<1>2. Q \in Seq(Sets \X Sets) /\ ToSet(Q) \subseteq ToSet(P)
  <2>1. Begins(Q, n, P, Sets \X Sets)
    BY <1>1, PrefixIs
  <2> QED  BY <2>1 DEF Begins
<1>3. IsNear(N, existing, S, Q)
  <2>1. IsNear(N, existing, S, P)
    BY DEF IsRequest
  <2> QED  BY <1>2, <2>1 DEF IsNear
<1> QED  BY <1>2, <1>3 DEF IsRequest

\* The search finds the first edge with which the graph is too deep.
LEMMA OverflowIsFirst ==
  ASSUME NEW P, NEW S, NEW N, NEW existing,
         IsRequest(P, S, {}, N, existing),
         NoCycle(S \cup ToSet(P)), Deep(S \cup ToSet(P)),
         NEW r, r = FirstDepthOverflow(P, existing)
  PROVE  /\ r \in 1..Len(P) /\ Deep(S \cup ToSet(SubSeq(P, 1, r)))
         /\ \A j \in 1..(r - 1) : ~Deep(S \cup ToSet(SubSeq(P, 1, j)))
<1> DEFINE upto(n) == S \cup ToSet(SubSeq(P, 1, n))
           deep == [n \in Nat |-> PrefixDepth(P, n, existing) > MAX_MEMBERSHIP_DEPTH]
           L == Len(P)
<1>1. P \in Seq(Sets \X Sets) /\ L \in Nat /\ Valid(S)
  <2>1. P \in Seq(Sets \X Sets) /\ Valid(S \cup {}) /\ S \cup {} = S
    BY DEF IsRequest
  <2> QED  BY <2>1
<1>2. ASSUME NEW n \in 1..L  PROVE deep[n] <=> Deep(upto(n))
  <2> DEFINE Q == SubSeq(P, 1, n)
             all == existing \cup ToSet(Q)
             G == (S \cup ToSet(Q)) \cup {}
  <2>0. n \in 0..Len(P)
    OBVIOUS
  <2>1. IsRequest(Q, S, {}, N, existing)
    BY <2>0, PrefixIsRequest
  <2>2. G = upto(n) /\ G \subseteq S \cup ToSet(P)
    <3>1. Begins(Q, n, P, Sets \X Sets)
      BY <1>1, <2>0, PrefixIs
    <3> QED  BY <3>1 DEF Begins
  <2>3. deep[n] = (MaxDepth(all) > MAX_MEMBERSHIP_DEPTH)
    BY DEF PrefixDepth
  <2> HIDE DEF upto, deep
  <2>4. NoCycle(G)
    <3> HIDE DEF G
    <3> QED  BY <2>2, FewerEdges
  <2>5. Deep(G) <=> MaxDepth(all) > MAX_MEMBERSHIP_DEPTH
    <3> HIDE DEF Q
    <3> QED  BY <2>1, <2>4, DepthIsSeen
  <2> QED  BY <2>2, <2>3, <2>5
<1>3. ASSUME NEW m \in 1..L, NEW n \in 1..L, m <= n, deep[m]  PROVE deep[n]
  <2>1. m \in 0..Len(P) /\ n \in 0..Len(P) /\ 1..m \subseteq 1..n
    BY <1>1, <1>3
  <2>2. upto(m) \subseteq upto(n)
    <3>1. /\ ToSet(SubSeq(P, 1, m)) = {P[i] : i \in 1..m}
          /\ ToSet(SubSeq(P, 1, n)) = {P[i] : i \in 1..n}
      <4>1. Begins(SubSeq(P, 1, m), m, P, Sets \X Sets)
        BY <1>1, <2>1, PrefixIs
      <4>2. Begins(SubSeq(P, 1, n), n, P, Sets \X Sets)
        BY <1>1, <2>1, PrefixIs
      <4> QED  BY <4>1, <4>2 DEF Begins
    <3> QED  BY <2>1, <3>1
  <2> HIDE DEF upto, deep
  <2>3. Deep(upto(m))
    BY <1>2, <1>3
  <2> QED  BY <1>2, <2>2, <2>3, FewerEdges
<1>4. L >= 1 /\ deep[L]
  <2>1. L \in 0..Len(P)
    BY <1>1
  <2>2. upto(L) = S \cup ToSet(P)
    <3>1. Begins(SubSeq(P, 1, L), L, P, Sets \X Sets)
      BY <1>1, <2>1, PrefixIs
    <3> QED  BY <3>1 DEF Begins
  <2>3. L # 0
    <3> SUFFICES ASSUME L = 0  PROVE FALSE
      OBVIOUS
    <3>1. P = << >>
      BY <1>1
    <3>2. S \cup ToSet(P) = S
      BY <3>1 DEF ToSet
    <3>3. Deep(S)
      BY <3>2
    <3> QED  BY <1>1, <3>3, ValidIs
  <2>4. L \in 1..L
    BY <1>1, <2>3
  <2>5. L >= 1
    BY <1>1, <2>3
  <2> HIDE DEF upto, deep, L
  <2> QED  BY <1>2, <2>2, <2>4, <2>5
<1>5. PICK w : Bisects(w, deep) /\ r = w[<<1, L>>]
  <2> HIDE DEF deep
  <2>1. deep = [n \in Nat |-> PrefixDepth(P, n, existing) > MAX_MEMBERSHIP_DEPTH]
    BY DEF deep
  <2> QED  BY <2>1, OverflowIsFound
<1>6. r \in 1..L /\ deep[r] /\ \A j \in 1..(r - 1) : ~deep[j]
  <2> HIDE DEF deep, L
  <2>1. \A m, n \in 1..L : m <= n /\ deep[m] => deep[n]
    BY <1>3
  <2> QED  BY <1>1, <1>4, <1>5, <2>1, BisectsToFirst
<1> HIDE DEF deep
<1>7. Deep(upto(r))
  <2> HIDE DEF upto
  <2> QED  BY <1>2, <1>6
<1>8. ASSUME NEW j \in 1..(r - 1)  PROVE ~Deep(upto(j))
  <2>1. j \in 1..L
    BY <1>1, <1>6
  <2> HIDE DEF upto
  <2> QED  BY <1>2, <1>6, <2>1
<1> QED  BY <1>6, <1>7, <1>8

\* A route that returns, over edge e.
LoopOver(p, e, G) ==
  /\ IsRoute(p, G) /\ Len(p) <= Longest /\ From(p) = To(p)
  /\ \E k \in 1..Len(p) : p[k] = e

\* An edge leads back to its own container if it is on a route that returns.
LEMMA LoopIsBelow ==
  ASSUME NEW S \in SUBSET (Sets \X Sets), IsFiniteSet(S), NEW e,
         NEW p, LoopOver(p, e, S)
  PROVE  e[1] \in Down({e[2]}, S)
<1> DEFINE X == Down({e[2]}, S)
           n == Len(p)
<1>1. e[2] \in X /\ \A f \in S : f[1] \in X => f[2] \in X
  <2>1. IsDown(X, {e[2]}, S)
    BY DownIs
  <2> QED  BY <2>1 DEF IsDown
<1>2. IsRoute(p, S) /\ From(p) = To(p) /\ n \in Nat \ {0}
  BY DEF LoopOver, IsRoute
<1>3. PICK k \in 1..n : p[k] = e
  BY DEF LoopOver
<1> HIDE DEF X
<1>4. p[1][2] \in X
  <2>1. CASE k = 1
    BY <1>1, <1>3, <2>1
  <2>2. CASE k # 1
    <3>1. k - 1 \in 1..Len(p) /\ 1 \in 1..(k - 1) /\ k - 1 \in 1..(Len(p) - 1)
      BY <1>2, <1>3, <2>2
    <3>2. p[k - 1][1] = p[(k - 1) + 1][2]
      BY <1>2, <3>1 DEF IsRoute
    <3>3. p[k - 1][1] \in X
      BY <1>1, <1>3, <3>2
    <3>4. \A j \in 1..(k - 1) : p[j][1] \in X /\ p[j][2] \in X
      BY <1>1, <1>2, <3>1, <3>3, Descends
    <3> QED  BY <3>1, <3>4
  <2> QED  BY <2>1, <2>2
<1>5. n \in 1..Len(p) /\ p[n][1] \in X
  BY <1>2, <1>4 DEF From, To
<1>6. \A j \in 1..n : p[j][1] \in X /\ p[j][2] \in X
  BY <1>1, <1>2, <1>5, Descends
<1> QED  BY <1>3, <1>6 DEF X

LEMMA BelowIsLoop ==
  ASSUME NEW S \in SUBSET (Sets \X Sets), IsFiniteSet(S), NEW e \in S,
         e[1] \in Down({e[2]}, S)
  PROVE  \E p : LoopOver(p, e, S) /\ p[1] = e
<1>1. \E r : Leads(e[1], r, e[2], S)
  BY BelowByWay
<1>2. PICK r : Leads(e[1], r, e[2], S) /\ Len(r) \in Nat /\ Len(r) <= Cardinality(Sets)
  BY <1>1, ShortWay
<1> DEFINE p == <<e>> \o r
<1>3. /\ IsRoute(p, S) /\ From(p) = e[2] /\ To(p) = e[2] /\ p[1] = e
      /\ Len(p) = Len(r) + 1
  <2> DEFINE t == e[2]
  <2>1. Leads(e[1], r, t, S)
    BY <1>2
  <2> HIDE DEF t
  <2>2. /\ IsRoute(<<e>> \o r, S) /\ From(<<e>> \o r) = e[2] /\ To(<<e>> \o r) = t
        /\ (<<e>> \o r)[1] = e /\ Tail(<<e>> \o r) = r
        /\ Len(r) \in Nat /\ Len(<<e>> \o r) = Len(r) + 1
    <3>1. PICK c : c = <<e>> \o r
      OBVIOUS
    <3>2. e \in S
      OBVIOUS
    <3>3. OnTop(c, e, r, t, S)
      BY ONLY <2>1, <3>1, <3>2, EdgeOn
    <3> QED  BY ONLY <3>1, <3>3 DEF OnTop
  <2> QED  BY <2>2 DEF t
<1>4. Cardinality(Sets) \in Nat
  BY GraphAssumption, FS_CardinalityType
<1> HIDE DEF p
<1>5. Len(p) <= Longest /\ 1 \in 1..Len(p)
  BY <1>2, <1>3, <1>4 DEF Longest
<1>6. LoopOver(p, e, S)
  BY <1>3, <1>5 DEF LoopOver
<1> QED  BY <1>3, <1>6

\* The cycles a request would close are among the edges read for it.
SameLoops(P, all, T) ==
  /\ all \in SUBSET (Sets \X Sets) /\ IsFiniteSet(all)
  /\ T \in SUBSET (Sets \X Sets) /\ IsFiniteSet(T)
  /\ \A p, e : LoopOver(p, e, T) <=> LoopOver(p, e, all)
  /\ \A p : IsRoute(p, T) /\ Len(p) <= Longest /\ From(p) = To(p) =>
       \E i \in DOMAIN P : LoopOver(p, P[i], T)

LEMMA LoopsAreRead ==
  ASSUME NEW P, NEW S, NEW N, NEW existing,
         IsRequest(P, S, {}, N, existing),
         NEW all, all = existing \cup ToSet(P),
         NEW T, T = S \cup ToSet(P)
  PROVE  SameLoops(P, all, T)
<1> DEFINE G == T \cup {}
<1>1. IsRequested(P, S, {}, N, all, T, G)
  BY RequestedGraph
<1>2. Valid(S) /\ S \cup {} = S /\ G = T
  <2>1. Valid(S \cup {}) /\ S \cup {} = S
    BY DEF IsRequest
  <2> QED  BY <2>1
<1> HIDE DEF G
<1>3. T \subseteq Sets \X Sets /\ IsFiniteSet(T) /\ all \subseteq T /\ IsFiniteSet(all)
  BY <1>1 DEF IsRequested
<1>4. ASSUME NEW p, IsRoute(p, T), Len(p) <= Longest, From(p) = To(p)
      PROVE  IsRoute(p, all) /\ \E i \in 1..Len(p) : p[i] \in ToSet(P)
  <2>1. ~IsRoute(p, S)
    BY <1>2, <1>4 DEF Valid
  <2>2. /\ To(p) \in Sets
        /\ (\A i \in 1..Len(p) : p[i] \notin ToSet(P)) => IsRoute(p, S)
        /\ To(p) \in N /\ From(p) \in Sets => IsRoute(p, all)
        /\ To(p) \notin N => IsRoute(p, S)
    BY <1>1, <1>2, <1>4 DEF IsRequested
  <2> QED  BY <1>4, <2>1, <2>2
<1>5. \A p : IsRoute(p, all) => IsRoute(p, T)
  BY <1>1, <1>2 DEF IsRequested
<1>6. ASSUME NEW p, NEW e  PROVE LoopOver(p, e, T) <=> LoopOver(p, e, all)
  BY <1>4, <1>5 DEF LoopOver
<1>7. ASSUME NEW p, IsRoute(p, T), Len(p) <= Longest, From(p) = To(p)
      PROVE  \E i \in DOMAIN P : LoopOver(p, P[i], T)
  <2>1. PICK k \in 1..Len(p) : p[k] \in ToSet(P)
    BY <1>4, <1>7
  <2>2. PICK i \in DOMAIN P : P[i] = p[k]
    BY <2>1 DEF ToSet
  <2>3. LoopOver(p, P[i], T)
    BY <1>7, <2>1, <2>2 DEF LoopOver
  <2> QED  BY <2>3
<1> QED  BY <1>3, <1>6, <1>7 DEF SameLoops

\* A proposed edge is on a cycle, in terms of chains.
Closes(i, P, S) ==
  \E c \in Chains(Occurrences(P, S)) :
    Top(c) = Bottom(c) /\ <<i, P[i]>> \in ToSet(c)

LEMMA ClosesIs ==
  ASSUME NEW P, NEW S, NEW N, NEW existing,
         IsRequest(P, S, {}, N, existing), NEW i \in DOMAIN P
  PROVE  Closes(i, P, S)
           <=> P[i][1] \in Down({P[i][2]}, existing \cup ToSet(P))
<1> DEFINE all == existing \cup ToSet(P)
           T == S \cup ToSet(P)
           O == Occurrences(P, S)
           u == <<i, P[i]>>
<1>1. /\ all \in SUBSET (Sets \X Sets) /\ IsFiniteSet(all)
      /\ \A p, e : LoopOver(p, e, T) <=> LoopOver(p, e, all)
  <2>1. SameLoops(P, all, T)
    BY LoopsAreRead
  <2> HIDE DEF all, T
  <2> QED  BY <2>1 DEF SameLoops
<1>2. P \in Seq(Sets \X Sets)
  BY DEF IsRequest
<1>3. /\ \A o \in O : o[2] \in T
      /\ \A e \in T : \E o \in O : o[2] = e
      /\ u \in O
  <2> HIDE DEF all, O, T
  <2> QED  BY <1>2, OccursOnce DEF O, T
<1>4. P[i] \in all /\ u[2] = P[i]
  BY DEF ToSet
<1>5. Chains(O) = {c \in Seq(O) : IsChain(c, O) /\ Len(c) <= Longest}
  <2> HIDE DEF O
  <2> QED  BY ChainsAre DEF Longest
<1> HIDE DEF all, O, T, u
<1>6. ASSUME P[i][1] \in Down({P[i][2]}, all)
      PROVE  \E c \in Chains(O) : Top(c) = Bottom(c) /\ u \in ToSet(c)
  <2>1. PICK p : LoopOver(p, P[i], all) /\ p[1] = P[i]
    BY <1>1, <1>4, <1>6, BelowIsLoop
  <2>2. IsRoute(p, T) /\ Len(p) <= Longest /\ From(p) = To(p)
    BY <1>1, <2>1 DEF LoopOver
  <2>3. PICK c : /\ IsChain(c, O) /\ Len(c) = Len(p) /\ RouteOf(c) = p
                 /\ Top(c) = To(p) /\ Bottom(c) = From(p) /\ Last(c) = u
    BY <1>3, <1>4, <2>1, <2>2, RouteHasChain
  <2>4. c \in Seq(O) /\ Len(c) \in DOMAIN c
    BY <2>3 DEF IsChain
  <2>5. u \in ToSet(c)
    BY <2>3, <2>4 DEF Last, ToSet
  <2> QED  BY <1>5, <2>2, <2>3, <2>4, <2>5
<1>7. ASSUME NEW c \in Chains(O), Top(c) = Bottom(c), u \in ToSet(c)
      PROVE  P[i][1] \in Down({P[i][2]}, all)
  <2>1. IsChain(c, O) /\ Len(c) <= Longest
    BY <1>5
  <2>2. /\ IsRoute(RouteOf(c), T) /\ Len(RouteOf(c)) = Len(c) /\ Len(c) \in Nat \ {0}
        /\ Top(c) = To(RouteOf(c)) /\ Bottom(c) = From(RouteOf(c))
        /\ \A j \in 1..Len(c) : RouteOf(c)[j] = c[Len(c) + 1 - j][2]
    BY <1>3, <2>1, ChainHasRoute
  <2>3. PICK k \in 1..Len(c) : c[k] = u
    <3>1. DOMAIN c = 1..Len(c)
      BY <2>1 DEF IsChain
    <3> QED  BY <1>7, <3>1 DEF ToSet
  <2> DEFINE j == Len(c) + 1 - k
  <2>4. j \in 1..Len(c) /\ Len(c) + 1 - j = k
    BY <2>2
  <2> HIDE DEF j
  <2>5. RouteOf(c)[j] = P[i]
    BY <1>4, <2>2, <2>3, <2>4
  <2>6. LoopOver(RouteOf(c), P[i], T)
    BY <1>7, <2>1, <2>2, <2>4, <2>5 DEF LoopOver
  <2>7. LoopOver(RouteOf(c), P[i], all)
    BY <1>1, <2>6
  <2> QED  BY <1>1, <2>7, LoopIsBelow
<1> QED  BY <1>6, <1>7 DEF Closes, all, O, u

\* The edge named is the first on a cycle.
LEMMA CycleIsFirst ==
  ASSUME NEW P, NEW S, NEW N, NEW existing,
         IsRequest(P, S, {}, N, existing), ~NoCycle(S \cup ToSet(P)),
         NEW r, r = FirstOnCycle(P, existing)
  PROVE  /\ r \in 1..Len(P) /\ Closes(r, P, S)
         /\ \A j \in 1..(r - 1) : ~Closes(j, P, S)
<1> DEFINE T == S \cup ToSet(P)
           all == existing \cup ToSet(P)
           back == {i \in DOMAIN P : P[i][1] \in Down({P[i][2]}, all)}
<1>1. DOMAIN P = 1..Len(P) /\ Len(P) \in Nat
  <2>1. P \in Seq(Sets \X Sets)
    BY DEF IsRequest
  <2> QED  BY <2>1
<1>2. \A i \in DOMAIN P : i \in back <=> Closes(i, P, S)
  <2>1. ASSUME NEW i \in DOMAIN P
        PROVE  Closes(i, P, S) <=> P[i][1] \in Down({P[i][2]}, all)
    BY ClosesIs
  <2> HIDE DEF all
  <2> QED  BY <2>1
<1>3. \E i \in DOMAIN P : i \in back
  <2>1. PICK p : IsRoute(p, T) /\ Len(p) <= Longest /\ From(p) = To(p)
    BY DEF NoCycle
  <2>0. SameLoops(P, all, T)
    BY LoopsAreRead
  <2> HIDE DEF T, all
  <2>2. /\ all \in SUBSET (Sets \X Sets) /\ IsFiniteSet(all)
        /\ \A q, e : LoopOver(q, e, T) <=> LoopOver(q, e, all)
        /\ \E i \in DOMAIN P : LoopOver(p, P[i], T)
    BY <2>0, <2>1 DEF SameLoops
  <2>3. PICK i \in DOMAIN P : LoopOver(p, P[i], all)
    BY <2>2
  <2>4. P[i][1] \in Down({P[i][2]}, all)
    BY <2>2, <2>3, LoopIsBelow
  <2> QED  BY <2>4
<1>4. back \subseteq Nat
  BY <1>1
<1>5. r = CHOOSE i \in back : \A j \in back : i <= j
  BY DEF FirstOnCycle
<1> HIDE DEF back
<1>6. \E i \in back : \A j \in back : i <= j
  BY <1>3, <1>4, LeastNat
<1>7. r \in back /\ \A j \in back : r <= j
  BY <1>5, <1>6
<1>8. r \in 1..Len(P)
  BY <1>1, <1>7 DEF back
<1>9. ASSUME NEW j \in 1..(r - 1)  PROVE ~Closes(j, P, S)
  <2>1. j \in DOMAIN P /\ ~ (r <= j)
    BY <1>1, <1>8
  <2> QED  BY <1>2, <1>7, <2>1
<1> QED  BY <1>1, <1>2, <1>7, <1>8, <1>9

\* The chains of the first n edges of a request, and what an error says of them.
Upto(n, P, S) == Chains(Occurrences(SubSeq(P, 1, n), S))

IsBlamed(verdict, P, S) ==
  /\ verdict.error = "MembershipCycleDetected" =>
       /\ Closes(verdict.edge, P, S)
       /\ \A j \in 1..(verdict.edge - 1) : ~Closes(j, P, S)
  /\ verdict.error = "MembershipDepthExceeded" =>
       /\ TooDeep(Upto(verdict.edge, P, S))
       /\ \A j \in 1..(verdict.edge - 1) : ~TooDeep(Upto(j, P, S))

LEMMA BlameIsFirst ==
  ASSUME NEW P, NEW S, NEW M, NEW N, NEW existing,
         IsRequest(P, S, M, N, existing)
  PROVE  IsBlamed(SetVerdict(P, existing, M), P, S)
<1> DEFINE all == existing \cup ToSet(P)
           T == S \cup ToSet(P)
           verdict == SetVerdict(P, existing, M)
<1>1. IsRequest(P, S, {}, N, existing)
  <2>1. Valid(S)
    <3>1. Valid(S \cup M) /\ S \subseteq S \cup M
      BY DEF IsRequest
    <3> HIDE DEF all, T, verdict
    <3> QED  BY <3>1, FewerStayValid
  <2>2. S \cup {} = S /\ {} \in SUBSET (Sets \X Accounts)
    OBVIOUS
  <2> QED  BY <2>1, <2>2 DEF IsRequest
<1>2. NoCycle(T) <=> TopologicalOrder(all) = Nodes(all)
  <2> DEFINE G == T \cup {}
  <2>1. G = T
    OBVIOUS
  <2>2. G = (S \cup ToSet(P)) \cup {} /\ all = existing \cup ToSet(P)
    OBVIOUS
  <2> HIDE DEF G, all
  <2>3. NoCycle(G) <=> TopologicalOrder(all) = Nodes(all)
    BY <1>1, <2>2, CycleIsSeen
  <2> QED  BY <2>1, <2>3
<1>3. NoCycle(T) => (Deep(T) <=> MaxDepth(all) > MAX_MEMBERSHIP_DEPTH)
  <2> SUFFICES ASSUME NoCycle(T)  PROVE Deep(T) <=> MaxDepth(all) > MAX_MEMBERSHIP_DEPTH
    OBVIOUS
  <2> DEFINE G == T \cup {}
  <2>1. G = T
    OBVIOUS
  <2>2. G = (S \cup ToSet(P)) \cup {} /\ all = existing \cup ToSet(P)
    OBVIOUS
  <2> HIDE DEF G, all
  <2>3. Deep(G) <=> MaxDepth(all) > MAX_MEMBERSHIP_DEPTH
    BY <1>1, <2>1, <2>2, DepthIsSeen
  <2> QED  BY <2>1, <2>3
<1>4. /\ verdict.error = "MembershipCycleDetected" =>
           TopologicalOrder(all) # Nodes(all) /\ verdict.edge = FirstOnCycle(P, existing)
      /\ verdict.error = "MembershipDepthExceeded" =>
           /\ TopologicalOrder(all) = Nodes(all) /\ MaxDepth(all) > MAX_MEMBERSHIP_DEPTH
           /\ verdict.edge = FirstDepthOverflow(P, existing)
  BY DEF SetVerdict, ValidateSetMemberships, MembershipCycleDetected,
         MemberAlreadyAdded, MembershipDepthExceeded, Ok
<1>5. ASSUME NEW j \in 1..Len(P)  PROVE TooDeep(Upto(j, P, S)) <=> Deep(S \cup ToSet(SubSeq(P, 1, j)))
  <2> DEFINE Q == SubSeq(P, 1, j)
             H == S \cup ToSet(Q)
             C == Chains(Occurrences(Q, S))
  <2>1. j \in 0..Len(P)
    OBVIOUS
  <2>2. Q \in Seq(Sets \X Sets)
    <3>1. P \in Seq(Sets \X Sets)
      BY DEF IsRequest
    <3>2. Begins(Q, j, P, Sets \X Sets)
      BY <2>1, <3>1, PrefixIs
    <3> QED  BY <3>2 DEF Begins
  <2>3. C = Upto(j, P, S)
    BY DEF Upto
  <2>4. H = S \cup ToSet(Q) /\ C = Chains(Occurrences(Q, S))
    OBVIOUS
  <2> HIDE DEF Q, H, C
  <2>5. /\ Cyclic(C) <=> Looped(H)
        /\ ContainedTwice(C) <=> Twofold(H) \/ Repeats(Q, S)
        /\ TooDeep(C) <=> Deep(H)
    BY <2>2, <2>4, FaultsOfChains
  <2> QED  BY <2>3, <2>5 DEF H, Q
<1> HIDE DEF verdict, all
<1>6. ASSUME verdict.error = "MembershipCycleDetected"
      PROVE  /\ Closes(verdict.edge, P, S)
             /\ \A j \in 1..(verdict.edge - 1) : ~Closes(j, P, S)
  <2>1. ~NoCycle(S \cup ToSet(P)) /\ verdict.edge = FirstOnCycle(P, existing)
    BY <1>2, <1>4, <1>6
  <2> HIDE DEF T
  <2> QED  BY <1>1, <2>1, CycleIsFirst
<1>7. ASSUME verdict.error = "MembershipDepthExceeded"
      PROVE  /\ TooDeep(Upto(verdict.edge, P, S))
             /\ \A j \in 1..(verdict.edge - 1) : ~TooDeep(Upto(j, P, S))
  <2> DEFINE r == verdict.edge
  <2>1. /\ NoCycle(S \cup ToSet(P)) /\ Deep(S \cup ToSet(P))
        /\ r = FirstDepthOverflow(P, existing)
    BY <1>2, <1>3, <1>4, <1>7
  <2> HIDE DEF T, r
  <2>2. /\ r \in 1..Len(P) /\ Deep(S \cup ToSet(SubSeq(P, 1, r)))
        /\ \A j \in 1..(r - 1) : ~Deep(S \cup ToSet(SubSeq(P, 1, j)))
    BY <1>1, <2>1, OverflowIsFirst
  <2>3. Len(P) \in Nat
    <3>1. P \in Seq(Sets \X Sets)
      BY DEF IsRequest
    <3> QED  BY <3>1
  <2>4. TooDeep(Upto(r, P, S))
    BY <1>5, <2>2
  <2>5. ASSUME NEW j \in 1..(r - 1)  PROVE ~TooDeep(Upto(j, P, S))
    <3>1. j \in 1..Len(P)
      BY <2>2, <2>3
    <3> QED  BY <1>5, <2>2, <3>1
  <2> QED  BY <2>4, <2>5 DEF r
<1>8. IsBlamed(verdict, P, S)
  BY <1>6, <1>7 DEF IsBlamed
<1> QED  BY <1>8 DEF verdict
=============================================================================
