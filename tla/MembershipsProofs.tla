------------------------- MODULE MembershipsProofs -------------------------
(***************************************************************************)
(* Proofs about Memberships, for any sets, accounts, initial tables and    *)
(* requests: what its tables hold, that the requests it accepts leave the  *)
(* graph valid, that the history of a set is that of its members, and that *)
(* a listing is read completely while the tables change.                   *)
(***************************************************************************)
EXTENDS Memberships, GraphProofs

----------------------------------------------------------------------------
(* Rows and edges *)

LEMMA EndsFinite ==
  ASSUME NEW rows, IsFiniteSet(rows)
  PROVE  IsFiniteSet(Ends(rows))
<1> DEFINE f == [r \in rows |-> <<r.set, r.member>>]
           E == Ends(rows)
<1>1. f \in Surjection(rows, E)
  BY DEF Surjection, Ends
<1> HIDE DEF f, E
<1>2. IsFiniteSet(E)
  BY <1>1, FS_Surjection
<1> QED  BY <1>2 DEF E

LEMMA EndsTyped ==
  ASSUME NEW X, NEW t, NEW rows \in SUBSET MembershipRows(X, t)
  PROVE  Ends(rows) \in SUBSET (Sets \X X)
BY DEF Ends, MembershipRows

LEMMA EndsOfBoth ==
  ASSUME NEW rows, NEW more
  PROVE  Ends(rows \cup more) = Ends(rows) \cup Ends(more)
BY DEF Ends

\* The rows written for a request have its edges.
LEMMA EndsOfRows ==
  ASSUME NEW E, NEW P \in Seq(Sets \X E), NEW at
  PROVE  Ends(Rows(P, at)) = ToSet(P)
<1>1. \A i \in DOMAIN P : P[i] = <<P[i][1], P[i][2]>>
  <2> SUFFICES ASSUME NEW i \in DOMAIN P  PROVE P[i] = <<P[i][1], P[i][2]>>
    OBVIOUS
  <2>1. P[i] \in Sets \X E
    OBVIOUS
  <2> QED  BY <2>1
<1> DEFINE row(i) == [set |-> P[i][1], member |-> P[i][2], at |-> at]
<1>2. \A i \in DOMAIN P : <<row(i).set, row(i).member>> = P[i]
  BY <1>1
<1>3. Rows(P, at) = {row(i) : i \in DOMAIN P}
  BY DEF Rows
<1> HIDE DEF row
<1>4. ASSUME NEW e \in Ends(Rows(P, at))  PROVE e \in ToSet(P)
  <2>1. PICK r \in Rows(P, at) : e = <<r.set, r.member>>
    BY <1>4 DEF Ends
  <2>2. PICK i \in DOMAIN P : r = row(i)
    BY <1>3, <2>1
  <2> QED  BY <1>2, <2>1, <2>2 DEF ToSet
<1>5. ASSUME NEW e \in ToSet(P)  PROVE e \in Ends(Rows(P, at))
  <2>1. PICK i \in DOMAIN P : P[i] = e
    BY <1>5 DEF ToSet
  <2>2. row(i) \in Rows(P, at) /\ e = <<row(i).set, row(i).member>>
    BY <1>2, <1>3, <2>1
  <2> QED  BY <2>2 DEF Ends
<1> QED  BY <1>4, <1>5

\* They are finitely many and no two are of one membership.
LEMMA RowsAre ==
  ASSUME NEW E, NEW P \in Seq(Sets \X E), NEW t \in Nat, NEW at \in 1..t,
         NEW X, \A i \in DOMAIN P : P[i][2] \in X
  PROVE  /\ Rows(P, at) \in SUBSET MembershipRows(X, t)
         /\ IsFiniteSet(Rows(P, at))
         /\ \A r, q \in Rows(P, at) : r.set = q.set /\ r.member = q.member => r = q
<1> DEFINE row(i) == [set |-> P[i][1], member |-> P[i][2], at |-> at]
<1>1. Rows(P, at) = {row(i) : i \in DOMAIN P}
  BY DEF Rows
<1>2. \A i \in DOMAIN P : row(i) \in MembershipRows(X, t)
  <2> SUFFICES ASSUME NEW i \in DOMAIN P  PROVE row(i) \in MembershipRows(X, t)
    OBVIOUS
  <2>1. P[i] \in Sets \X E
    OBVIOUS
  <2>2. P[i][1] \in Sets /\ P[i][2] \in X
    BY <2>1
  <2> QED  BY <2>2 DEF MembershipRows
<1>3. \A i, j \in DOMAIN P :
        row(i).set = row(j).set /\ row(i).member = row(j).member => row(i) = row(j)
  OBVIOUS
<1>4. IsFiniteSet({row(i) : i \in DOMAIN P})
  <2> DEFINE f == [i \in DOMAIN P |-> row(i)]
             T == {row(i) : i \in DOMAIN P}
  <2>1. f \in Surjection(DOMAIN P, T)
    BY DEF Surjection
  <2>2. IsFiniteSet(DOMAIN P)
    <3>1. Len(P) \in Nat /\ DOMAIN P = 1..Len(P)
      OBVIOUS
    <3> QED  BY <3>1, FS_Interval
  <2> HIDE DEF f, T
  <2>3. IsFiniteSet(T)
    BY <2>1, <2>2, FS_Surjection
  <2> QED  BY <2>3 DEF T
<1> HIDE DEF row
<1> QED  BY <1>1, <1>2, <1>3, <1>4

LEMMA EndsWithout ==
  ASSUME NEW rows, NEW e
  PROVE  Ends(Without(rows, e)) = Ends(rows) \ {e}
BY DEF Ends, Without

----------------------------------------------------------------------------
(* Histories *)

\* The rows that are the entries of accounts themselves.
Own(H) == {g \in H : g.holder = g.account}

\* Nothing that the rows of an account are folded into is on other edges.
LEMMA SameUp ==
  ASSUME NEW X, NEW t, NEW H \in SUBSET HistoryRows(X, t),
         NEW E, IsFiniteSet(E), \A e \in E : e[1] \in Sets,
         NEW E2, IsFiniteSet(E2),
         Folded(H, E),
         \A e : (e \in E /\ e \notin E2) \/ (e \in E2 /\ e \notin E) =>
                  \A h \in H : h.holder # e[2],
         NEW g \in Own(H)
  PROVE  Up({g.account}, E) = Up({g.account}, E2)
<1> DEFINE a == g.account
           U == Up({a}, E)
           V == Up({a}, E2)
<1>1. g \in H /\ g.holder = a
  BY DEF Own
<1>2. /\ a \in U
      /\ \A e \in E : e[2] \in U => e[1] \in U
      /\ \A Y : {a} \subseteq Y /\ (\A e \in E : e[2] \in Y => e[1] \in Y) => U \subseteq Y
  <2> HIDE DEF a
  <2>1. IsUp(Up({a}, E), {a}, E)
    BY UpIs
  <2> QED  BY <2>1 DEF IsUp
<1>3. /\ a \in V
      /\ \A e \in E2 : e[2] \in V => e[1] \in V
      /\ \A Y : {a} \subseteq Y /\ (\A e \in E2 : e[2] \in Y => e[1] \in Y) => V \subseteq Y
  <2> HIDE DEF a
  <2>1. IsUp(Up({a}, E2), {a}, E2)
    BY UpIs
  <2> QED  BY <2>1 DEF IsUp
<1> HIDE DEF a, U, V
<1>4. U \subseteq {a} \cup Sets
  <2>1. {a} \subseteq {a} \cup Sets /\ \A e \in E : e[1] \in {a} \cup Sets
    OBVIOUS
  <2> QED  BY <1>2, <2>1
<1>5. ASSUME NEW x \in U  PROVE \E h \in H : h.holder = x
  <2>1. CASE x = a
    BY <1>1, <2>1
  <2>2. CASE x \in Sets
    <3> DEFINE r == HeldBy(x, g)
    <3>1. r \in {HeldBy(x, h) : h \in
                   {k \in H : k.holder = k.account /\ x \in Up({k.account}, E)}}
      BY <1>1, <1>5 DEF U, a
    <3>2. r \in H
      <4>1. {h \in H : h.holder = x}
            = {HeldBy(x, h) : h \in
                 {k \in H : k.holder = k.account /\ x \in Up({k.account}, E)}}
        BY <2>2 DEF Folded
      <4> HIDE DEF r
      <4> QED  BY <3>1, <4>1
    <3>3. r.holder = x
      <4>1. g \in HistoryRows(X, t)
        BY <1>1
      <4> QED  BY <4>1 DEF HistoryRows, HeldBy
    <3> QED  BY <3>2, <3>3
  <2> QED  BY <1>4, <2>1, <2>2
<1>6. \A e : e[2] \in U => (e \in E <=> e \in E2)
  BY <1>5
<1>7. V \subseteq U
  BY <1>2, <1>3, <1>6
<1>8. U \subseteq V
  BY <1>2, <1>3, <1>6, <1>7
<1> QED  BY <1>7, <1>8 DEF U, V, a

\* Above an account x is what is above the sets D that it is directly in.
AboveDirect(x, D, S, M) ==
  /\ Up({x}, S \cup M) = {x} \cup Up(D, S)
  /\ D \subseteq Up(D, S) /\ Up(D, S) \subseteq Sets

LEMMA UpFromDirect ==
  ASSUME NEW S \in SUBSET (Sets \X Sets), IsFiniteSet(S),
         NEW M \in SUBSET (Sets \X Accounts), IsFiniteSet(M),
         NEW x \in Accounts, NEW D, D = {e[1] : e \in {f \in M : f[2] = x}}
  PROVE  AboveDirect(x, D, S, M)
<1>1. PICK U, V : U = Up({x}, S \cup M) /\ V = Up(D, S)
  OBVIOUS
<1>2. IsUp(U, {x}, S \cup M) /\ IsUp(V, D, S)
  <2>1. IsFiniteSet(S \cup M)
    BY FS_Union
  <2> QED  BY <1>1, <2>1, UpIs
<1>3. /\ x \in U
      /\ \A e \in S \cup M : e[2] \in U => e[1] \in U
      /\ \A Y : {x} \subseteq Y /\ (\A e \in S \cup M : e[2] \in Y => e[1] \in Y) => U \subseteq Y
      /\ D \subseteq V
      /\ \A e \in S : e[2] \in V => e[1] \in V
      /\ \A Y : D \subseteq Y /\ (\A e \in S : e[2] \in Y => e[1] \in Y) => V \subseteq Y
  BY <1>2 DEF IsUp
<1>4. /\ \A e \in S : e[1] \in Sets /\ e[2] \in Sets
      /\ \A e \in M : e[1] \in Sets /\ e[2] \notin Sets
      /\ x \notin Sets
  BY GraphAssumption
<1>5. /\ \A e \in M : e[2] = x => e[1] \in D
      /\ \A d \in D : \E e \in M : e[2] = x /\ e[1] = d
  OBVIOUS
<1>6. V \subseteq Sets
  <2>1. D \subseteq Sets
    BY <1>4, <1>5
  <2> QED  BY ONLY <1>3, <1>4, <2>1
<1>7. U \subseteq {x} \cup V
  <2>1. ASSUME NEW e \in S \cup M, e[2] \in {x} \cup V  PROVE e[1] \in {x} \cup V
    <3>1. CASE e \in S
      BY ONLY <1>3, <1>4, <2>1, <3>1
    <3>2. CASE e \in M
      BY ONLY <1>3, <1>4, <1>5, <1>6, <2>1, <3>2
    <3> QED  BY <2>1, <3>1, <3>2
  <2> QED  BY ONLY <1>3, <2>1
<1>8. {x} \cup V \subseteq U
  <2>1. D \subseteq U
    BY ONLY <1>3, <1>5
  <2>2. V \subseteq U
    BY ONLY <1>3, <2>1
  <2> QED  BY ONLY <1>3, <2>2
<1>9. U = {x} \cup V
  BY ONLY <1>7, <1>8
<1> QED  BY ONLY <1>1, <1>3, <1>6, <1>9 DEF AboveDirect

\* Edges of members without history leave nothing unfolded.
LEMMA FoldedStays ==
  ASSUME NEW X, NEW t, NEW H \in SUBSET HistoryRows(X, t),
         NEW E, IsFiniteSet(E), \A e \in E : e[1] \in Sets,
         NEW E2, IsFiniteSet(E2),
         Folded(H, E),
         \A e : (e \in E /\ e \notin E2) \/ (e \in E2 /\ e \notin E) =>
                  \A h \in H : h.holder # e[2]
  PROVE  Folded(H, E2)
<1>1. ASSUME NEW g \in Own(H)  PROVE Up({g.account}, E) = Up({g.account}, E2)
  BY SameUp
<1>2. ASSUME NEW s \in Sets
      PROVE  {g \in H : g.holder = g.account /\ s \in Up({g.account}, E)}
             = {g \in H : g.holder = g.account /\ s \in Up({g.account}, E2)}
  BY <1>1 DEF Own
<1>3. ASSUME NEW s \in Sets
      PROVE  {h \in H : h.holder = s}
             = {HeldBy(s, h) : h \in
                  {g \in H : g.holder = g.account /\ s \in Up({g.account}, E2)}}
  <2>1. {h \in H : h.holder = s}
        = {HeldBy(s, h) : h \in
             {g \in H : g.holder = g.account /\ s \in Up({g.account}, E)}}
    BY DEF Folded
  <2> QED  BY <1>2, <2>1
<1> QED  BY <1>3 DEF Folded

\* A row for each of those an entry of account x is folded into.
Entered(row, U, x, n, c, d, at) ==
  \A h \in U : row[h] = [holder |-> h, entry |-> n, account |-> x,
                         currency |-> c, effective |-> d, at |-> at]

EntryRows(row, U) == {row[h] : h \in U}

\* An entry is folded into all that is above its account.
LEMMA FoldedEntry ==
  ASSUME NEW H, NEW E, Folded(H, E),
         NEW x, x \notin Sets, NEW U, U = Up({x}, E), x \in U,
         NEW row, NEW n, NEW c, NEW d, NEW at,
         Entered(row, U, x, n, c, d, at),
         NEW H2, H2 = H \cup EntryRows(row, U)
  PROVE  Folded(H2, E)
<1> DEFINE own(K, s) == {g \in K : g.holder = g.account /\ s \in Up({g.account}, E)}
<1>0. H2 = H \cup {row[h] : h \in U}
  BY DEF EntryRows
<1>1. ASSUME NEW h \in U  PROVE row[h].holder = h /\ row[h].account = x
  <2>1. row[h] = [holder |-> h, entry |-> n, account |-> x,
                  currency |-> c, effective |-> d, at |-> at]
    BY DEF Entered
  <2> QED  BY <2>1
<1>2. ASSUME NEW g \in H2
      PROVE  g \in H \/ \E h \in U : g = row[h] /\ g.holder = h /\ g.account = x
  <2>1. g \in H \/ \E h \in U : g = row[h]
    BY <1>0
  <2> QED  BY <1>1, <2>1
<1>3. ASSUME NEW s \in Sets
      PROVE  {h \in H2 : h.holder = s} = {HeldBy(s, h) : h \in own(H2, s)}
  <2>1. {h \in H : h.holder = s} = {HeldBy(s, h) : h \in own(H, s)}
    BY DEF Folded
  <2>2. CASE s \in U
    <3>1. {h \in H2 : h.holder = s} = {h \in H : h.holder = s} \cup {row[s]}
      <4>1. row[s] \in H2 /\ row[s].holder = s /\ H \subseteq H2
        BY <1>0, <1>1, <2>2
      <4>2. ASSUME NEW h \in H2, h.holder = s  PROVE h \in H \/ h = row[s]
        BY <1>2, <4>2
      <4> QED  BY <4>1, <4>2
    <3>2. own(H2, s) = own(H, s) \cup {row[x]}
      <4>1. ASSUME NEW g \in own(H2, s)  PROVE g \in H \/ g = row[x]
        BY <1>2, <4>1
      <4>2. row[x] \in H2 /\ row[x].holder = row[x].account /\ row[x].account = x
            /\ H \subseteq H2
        BY <1>0, <1>1
      <4>3. s \in Up({row[x].account}, E)
        BY <2>2, <4>2
      <4> QED  BY <4>1, <4>2, <4>3
    <3>3. row[s] = HeldBy(s, row[x])
      <4>1. row[x] = [holder |-> x, entry |-> n, account |-> x,
                      currency |-> c, effective |-> d, at |-> at]
        BY DEF Entered
      <4>2. row[s] = [holder |-> s, entry |-> n, account |-> x,
                      currency |-> c, effective |-> d, at |-> at]
        BY <2>2 DEF Entered
      <4> QED  BY <4>1, <4>2 DEF HeldBy
    <3> DEFINE K == own(H, s)
    <3>4. {HeldBy(s, h) : h \in K \cup {row[x]}}
          = {HeldBy(s, h) : h \in K} \cup {HeldBy(s, row[x])}
      <4> HIDE DEF K
      <4> QED  OBVIOUS
    <3>5. own(H2, s) = K \cup {row[x]} /\ {h \in H : h.holder = s} = {HeldBy(s, h) : h \in K}
      BY <2>1, <3>2
    <3> HIDE DEF own, K
    <3> QED  BY <3>1, <3>3, <3>4, <3>5
  <2>3. CASE s \notin U
    <3>1. {h \in H2 : h.holder = s} = {h \in H : h.holder = s}
      <4>1. ASSUME NEW h \in H2, h.holder = s  PROVE h \in H
        BY <1>2, <2>3, <4>1
      <4>2. H \subseteq H2
        BY <1>0
      <4> QED  BY <4>1, <4>2
    <3>2. own(H2, s) = own(H, s)
      <4>1. ASSUME NEW g \in own(H2, s)  PROVE g \in H
        <5> SUFFICES ASSUME g \notin H  PROVE FALSE
          OBVIOUS
        <5>1. g.account = x /\ s \in Up({g.account}, E)
          BY <1>2, <4>1
        <5>2. s \in Up({x}, E)
          BY <5>1
        <5> QED  BY <2>3, <5>2
      <4> QED  BY <1>0, <4>1
    <3> HIDE DEF own
    <3> QED  BY <2>1, <3>1, <3>2
  <2> QED  BY <2>2, <2>3
<1> QED  BY <1>3 DEF Folded

----------------------------------------------------------------------------
(* The invariant *)

Graph == SetEdges \cup AccountEdges

StateOK ==
  /\ scene \in DOMAIN Menu /\ created \subseteq Accounts
  /\ now \in 1..MaxTime /\ changes \in 0..Menu[scene].changes

\* What a table of memberships holds.
Holds(rows, members, t) ==
  rows \subseteq MembershipRows(members, t) /\ Unique(rows) /\ IsFiniteSet(rows)

RowsOK(rows, members) == Holds(rows, members, now)

\* Entries are numbered without gaps.
HistoryOK ==
  /\ history \subseteq HistoryRows(created, now) /\ IsFiniteSet(history)
  /\ Ids(history) \subseteq 1..Cardinality(Ids(history))
  /\ astray \subseteq Ids(history)

\* A posting in flight knows the sets its account is directly in.
Knows(p) == p.direct = DirectSets(p.account) /\ p.direct \subseteq p.above

PostingsOK == postings \subseteq Postings(created, now) /\ \A p \in postings : Knows(p)

\* Every entry is in the sets its account is directly in.
DirectlyHeld ==
  \A h \in history : h.holder = h.account =>
    \A s \in DirectSets(h.account) : HeldBy(s, h) \in history

\* An account that is inserted and not committed is in at most one set
\* (initial_account_set).
PendingOK ==
  \A p \in pending :
    /\ p.account \in Accounts \ created
    /\ p.rows \subseteq MembershipRows({p.account}, now)
    /\ \A r, q \in p.rows : r = q
    /\ \A q \in pending : q.account = p.account => q = p

WalkOK ==
  walk # NoWalk =>
    /\ DOMAIN walk = {"listing", "first", "cursor", "seen", "throughout", "done"}
    /\ walk.listing \in Range(Menu[scene].listings)
    /\ walk.first \in PageSizes
    /\ walk.done \in BOOLEAN

\* The inductive invariant.
Inv ==
  /\ StateOK
  /\ RowsOK(setMembers, Sets) /\ RowsOK(accountMembers, created)
  /\ HistoryOK
  /\ PendingOK
  /\ PostingsOK
  /\ WalkOK
  /\ Folded(Kept, Graph)
  /\ DirectlyHeld
  /\ Valid(Graph)

LEMMA InvTypeOK == Inv => TypeOK
BY DEF Inv, StateOK, RowsOK, Holds, HistoryOK, PendingOK, PostingsOK, WalkOK, TypeOK

\* What follows from it for the edges.
LEMMA Edges ==
  ASSUME Inv
  PROVE  /\ SetEdges \in SUBSET (Sets \X Sets) /\ IsFiniteSet(SetEdges)
         /\ AccountEdges \in SUBSET (Sets \X Accounts) /\ IsFiniteSet(AccountEdges)
         /\ AccountEdges \in SUBSET (Sets \X created)
         /\ \A e \in Graph : e[1] \in Sets
         /\ IsFiniteSet(Graph)
<1>1. /\ setMembers \in SUBSET MembershipRows(Sets, now) /\ IsFiniteSet(setMembers)
      /\ accountMembers \in SUBSET MembershipRows(created, now)
      /\ IsFiniteSet(accountMembers) /\ created \subseteq Accounts
  BY DEF Inv, RowsOK, Holds, StateOK
<1>2. SetEdges \in SUBSET (Sets \X Sets) /\ AccountEdges \in SUBSET (Sets \X created)
  BY <1>1, EndsTyped DEF SetEdges, AccountEdges
<1>3. IsFiniteSet(SetEdges) /\ IsFiniteSet(AccountEdges)
  BY <1>1, EndsFinite DEF SetEdges, AccountEdges
<1>4. IsFiniteSet(Graph)
  BY <1>3, FS_Union DEF Graph
<1>5. AccountEdges \in SUBSET (Sets \X Accounts)
  BY <1>1, <1>2
<1>6. \A e \in Graph : e[1] \in Sets
  BY <1>2 DEF Graph
<1> QED  BY <1>2, <1>3, <1>4, <1>5, <1>6

\* Edges to members in X that have no row.
Fresh(P, E, X, rows) ==
  /\ P \in Seq(Sets \X E) /\ \A i \in DOMAIN P : P[i][2] \in X
  /\ \A e \in ToSet(P) : e \notin Ends(rows)

\* Rows for fresh edges leave each membership one row.
LEMMA MoreRows ==
  ASSUME NEW t \in Nat, NEW X, NEW rows, Holds(rows, X, t),
         NEW E, NEW P, Fresh(P, E, X, rows), NEW at \in 1..t,
         NEW more, more = rows \cup Rows(P, at)
  PROVE  Holds(more, X, t) /\ Ends(more) = Ends(rows) \cup ToSet(P)
<1>0. /\ P \in Seq(Sets \X E) /\ \A i \in DOMAIN P : P[i][2] \in X
      /\ \A e \in ToSet(P) : e \notin Ends(rows)
      /\ rows \subseteq MembershipRows(X, t) /\ Unique(rows) /\ IsFiniteSet(rows)
  BY DEF Fresh, Holds
<1> DEFINE R == Rows(P, at)
<1>1. /\ R \in SUBSET MembershipRows(X, t) /\ IsFiniteSet(R)
      /\ \A r, q \in R : r.set = q.set /\ r.member = q.member => r = q
  BY <1>0, RowsAre
<1>2. Ends(R) = ToSet(P)
  BY <1>0, EndsOfRows
<1>3. more = rows \cup R
  OBVIOUS
<1> HIDE DEF R
<1>4. Ends(more) = Ends(rows) \cup ToSet(P)
  BY <1>2, <1>3, EndsOfBoth
<1>5. IsFiniteSet(more)
  <2>1. IsFiniteSet(rows \cup R)
    BY <1>0, <1>1, FS_Union
  <2> QED  BY <1>3, <2>1
<1>6. \A r \in rows, q \in R : ~ (r.set = q.set /\ r.member = q.member)
  <2> SUFFICES ASSUME NEW r \in rows, NEW q \in R, r.set = q.set, r.member = q.member
               PROVE  FALSE
    OBVIOUS
  <2>1. <<r.set, r.member>> \in Ends(rows)
    BY DEF Ends
  <2>2. <<q.set, q.member>> \in Ends(R)
    BY DEF Ends
  <2> QED  BY <1>0, <1>2, <2>1, <2>2
<1>7. Unique(more)
  <2> SUFFICES ASSUME NEW r \in more, NEW q \in more, r.set = q.set, r.member = q.member
               PROVE  r = q
    BY DEF Unique
  <2>1. (r \in rows \/ r \in R) /\ (q \in rows \/ q \in R)
    BY <1>3
  <2>2. CASE r \in rows /\ q \in rows
    BY <1>0, <2>2 DEF Unique
  <2> QED  BY <1>1, <1>6, <2>1, <2>2
<1>8. more \subseteq MembershipRows(X, t)
  BY <1>0, <1>1, <1>3
<1> QED  BY <1>4, <1>5, <1>7, <1>8 DEF Holds

\* So does a DELETE.
LEMMA FewerRows ==
  ASSUME NEW t, NEW X, NEW rows, Holds(rows, X, t),
         NEW e, NEW fewer, fewer = Without(rows, e)
  PROVE  Holds(fewer, X, t) /\ Ends(fewer) = Ends(rows) \ {e}
<1>0. rows \subseteq MembershipRows(X, t) /\ Unique(rows) /\ IsFiniteSet(rows)
  BY DEF Holds
<1>1. fewer \in SUBSET rows
  BY DEF Without
<1>2. IsFiniteSet(fewer)
  BY <1>0, <1>1, FS_Subset
<1>3. Unique(fewer)
  BY <1>0, <1>1 DEF Unique
<1> QED  BY <1>0, <1>1, <1>2, <1>3, EndsWithout DEF Holds

\* A row typed for an earlier time or fewer members is typed for more.
LEMMA LaterRows ==
  ASSUME NEW t \in Nat, NEW u \in Nat, t <= u, NEW X, NEW Y, X \subseteq Y
  PROVE  /\ MembershipRows(X, t) \subseteq MembershipRows(Y, u)
         /\ HistoryRows(X, t) \subseteq HistoryRows(Y, u)
         /\ Postings(X, t) \subseteq Postings(Y, u)
<1>1. 1..t \subseteq 1..u
  OBVIOUS
<1>2. MembershipRows(X, t) \subseteq MembershipRows(Y, u)
  BY <1>1 DEF MembershipRows
<1>3. HistoryRows(X, t) \subseteq HistoryRows(Y, u)
  BY <1>1 DEF HistoryRows
<1>4. Postings(X, t) \subseteq Postings(Y, u)
  BY <1>1 DEF Postings
<1> QED  BY <1>2, <1>3, <1>4

\* History stays folded when edges of members without history come and go.
LEMMA HistoryStays ==
  ASSUME Inv, NEW E2, IsFiniteSet(E2),
         \A e : (e \in Graph /\ e \notin E2) \/ (e \in E2 /\ e \notin Graph) =>
                  ~HasHistory(e[2])
  PROVE  Folded(Kept, E2)
<1>1. Kept \in SUBSET HistoryRows(created, now) /\ Folded(Kept, Graph)
  BY DEF Inv, HistoryOK, Kept
<1>2. IsFiniteSet(Graph) /\ \A e \in Graph : e[1] \in Sets
  BY Edges
<1>3. \A e : (e \in Graph /\ e \notin E2) \/ (e \in E2 /\ e \notin Graph) =>
               \A h \in Kept : h.holder # e[2]
  BY DEF HasHistory, Kept
<1> DEFINE H == Kept
<1>4. H \in SUBSET HistoryRows(created, now) /\ Folded(H, Graph)
      /\ \A e : (e \in Graph /\ e \notin E2) \/ (e \in E2 /\ e \notin Graph) =>
                  \A h \in H : h.holder # e[2]
  BY <1>1, <1>3
<1> HIDE DEF H
<1>5. Folded(H, E2)
  BY <1>2, <1>4, FoldedStays
<1> QED  BY <1>5 DEF H

\* What postings in flight know stays while no membership of their account
\* changes, and what entries are directly in while none of theirs does.
LEMMA PostingsStay ==
  ASSUME Inv, postings' \subseteq postings, created \subseteq created',
         now' \in Nat, now <= now',
         \A e : (e \in AccountEdges /\ e \notin AccountEdges')
                \/ (e \in AccountEdges' /\ e \notin AccountEdges) => ~InFlight(e[2])
  PROVE  PostingsOK'
<1>0. PICK X, t : X = created' /\ t = now'
  OBVIOUS
<1>1. now \in Nat
  BY BoundAssumption DEF Inv, StateOK
<1>2. Postings(created, now) \subseteq Postings(created', now')
  <2>1. t \in Nat /\ now <= t /\ created \subseteq X
    BY <1>0
  <2>2. Postings(created, now) \subseteq Postings(X, t)
    BY <1>1, <2>1, LaterRows
  <2> QED  BY <1>0, <2>2
<1>3. ASSUME NEW p \in postings  PROVE DirectSets(p.account)' = DirectSets(p.account)
  <2>1. \A e : e[2] = p.account => (e \in AccountEdges <=> e \in AccountEdges')
    BY DEF InFlight
  <2> QED  BY <2>1 DEF DirectSets
<1>4. postings \subseteq Postings(created, now) /\ \A p \in postings : Knows(p)
  BY DEF Inv, PostingsOK
<1>5. ASSUME NEW p \in postings'  PROVE Knows(p)'
  <2>1. p \in postings /\ Knows(p)
    BY <1>4
  <2> QED  BY <1>3, <2>1 DEF Knows
<1>6. postings' \subseteq Postings(created', now')
  BY <1>2, <1>4
<1> QED  BY <1>5, <1>6 DEF PostingsOK

LEMMA DirectStays ==
  ASSUME Inv, history' = history,
         \A e \in AccountEdges' : e \in AccountEdges \/ ~HasHistory(e[2])
  PROVE  DirectlyHeld'
<1> SUFFICES ASSUME NEW h \in history, h.holder = h.account,
                    NEW s \in DirectSets(h.account)'
             PROVE  HeldBy(s, h) \in history
  BY DEF DirectlyHeld, HeldBy
<1>1. PICK e \in AccountEdges' : e[2] = h.account /\ e[1] = s
  BY DEF DirectSets
<1>2. e \in AccountEdges
  BY <1>1 DEF HasHistory
<1>3. s \in DirectSets(h.account)
  BY <1>1, <1>2 DEF DirectSets
<1> QED  BY <1>3 DEF Inv, DirectlyHeld

LEMMA Initially == Init => Inv
<1> SUFFICES ASSUME Init  PROVE Inv
  OBVIOUS
<1>1. PICK t \in Tables : /\ scene = t.scene /\ setMembers = t.setMembers
                          /\ accountMembers = t.accountMembers
                          /\ created = t.created /\ history = t.history
  BY DEF Init
<1>2. /\ pending = {} /\ postings = {} /\ astray = {}
      /\ now = 1 /\ changes = 0 /\ walk = NoWalk
  BY DEF Init
<1> DEFINE graph == Ends(t.setMembers) \cup Ends(t.accountMembers)
<1>3. /\ t.scene \in DOMAIN Menu
      /\ t.created \subseteq Accounts
      /\ t.setMembers \subseteq MembershipRows(Sets, 1)
      /\ t.accountMembers \subseteq MembershipRows(t.created, 1)
      /\ t.history \subseteq HistoryRows(t.created, 1)
      /\ \A rows \in {t.setMembers, t.accountMembers} :
           IsFiniteSet(rows) /\ Unique(rows)
      /\ IsFiniteSet(t.history)
      /\ Ids(t.history) = 1..Cardinality(Ids(t.history))
      /\ Folded(t.history, graph)
      /\ Sound(graph)
  BY TablesAssumption
<1>4. Graph = graph
  BY <1>1 DEF Graph, SetEdges, AccountEdges
<1> HIDE DEF graph
<1>5. StateOK
  <2>1. Menu[scene].changes \in Nat
    BY <1>1, <1>3, MenuAssumption
  <2> QED  BY <1>1, <1>2, <1>3, <2>1, BoundAssumption DEF StateOK
<1>6. RowsOK(setMembers, Sets) /\ RowsOK(accountMembers, created)
  BY <1>1, <1>2, <1>3 DEF RowsOK, Holds
<1>7. HistoryOK
  BY <1>1, <1>2, <1>3 DEF HistoryOK
<1>8. PendingOK /\ PostingsOK /\ WalkOK
  BY <1>2 DEF PendingOK, PostingsOK, WalkOK
<1>9. Folded(history, Graph) /\ Kept = history
  BY <1>1, <1>2, <1>3, <1>4 DEF Kept
<1>10. DirectlyHeld
  <2> SUFFICES ASSUME NEW h \in history, h.holder = h.account,
                      NEW s \in DirectSets(h.account)
               PROVE  HeldBy(s, h) \in history
    BY DEF DirectlyHeld
  <2>1. PICK e \in AccountEdges : e[2] = h.account /\ e[1] = s
    BY DEF DirectSets
  <2>2. s \in Sets /\ h.account \in Up({h.account}, Graph)
        /\ \A f \in Graph : f[2] \in Up({h.account}, Graph) => f[1] \in Up({h.account}, Graph)
    <3>1. setMembers \in SUBSET MembershipRows(Sets, 1) /\ IsFiniteSet(setMembers)
          /\ accountMembers \in SUBSET MembershipRows(created, 1) /\ IsFiniteSet(accountMembers)
      BY <1>1, <1>3
    <3>2. IsFiniteSet(SetEdges) /\ IsFiniteSet(AccountEdges)
          /\ AccountEdges \in SUBSET (Sets \X created)
      BY <3>1, EndsFinite, EndsTyped DEF SetEdges, AccountEdges
    <3>3. IsFiniteSet(Graph)
      BY <3>2, FS_Union DEF Graph
    <3>4. IsUp(Up({h.account}, Graph), {h.account}, Graph)
      BY <3>3, UpIs
    <3>5. s \in Sets
      BY <2>1, <3>2
    <3> QED  BY <3>4, <3>5 DEF IsUp
  <2>3. s \in Up({h.account}, Graph)
    BY <2>1, <2>2 DEF Graph
  <2>4. HeldBy(s, h) \in {HeldBy(s, g) : g \in
          {g \in history : g.holder = g.account /\ s \in Up({g.account}, Graph)}}
    BY <2>3
  <2>5. {g \in history : g.holder = s}
        = {HeldBy(s, g) : g \in
             {g \in history : g.holder = g.account /\ s \in Up({g.account}, Graph)}}
    BY <1>9, <2>2 DEF Folded
  <2> QED  BY <2>4, <2>5
<1>11. Valid(Graph)
  BY <1>3, <1>4, SoundIsValid
<1> QED  BY <1>5, <1>6, <1>7, <1>8, <1>9, <1>10, <1>11 DEF Inv

\* What a client may ask for.
LEMMA Request ==
  ASSUME Inv
  PROVE  /\ Menu[scene].setRequests \subseteq Seq(Sets \X Sets)
         /\ Menu[scene].accountRequests \subseteq Seq(Sets \X Accounts)
         /\ Menu[scene].creations \subseteq Accounts \X SUBSET Sets
         /\ Menu[scene].removals \subseteq Sets \X (Sets \cup Accounts)
         /\ Menu[scene].postings \subseteq Accounts \X Int \X Int
         /\ Menu[scene].changes \in Nat
         /\ now \in Nat /\ now \in 1..MaxTime
<1>1. scene \in DOMAIN Menu /\ now \in 1..MaxTime
  BY DEF Inv, StateOK
<1> QED  BY <1>1, MenuAssumption, BoundAssumption

LEMMA CommitOK ==
  ASSUME Inv, Commit, created' = created
  PROVE  StateOK' /\ scene' = scene /\ now' = now
<1>1. /\ scene \in DOMAIN Menu /\ created \subseteq Accounts
      /\ now \in 1..MaxTime /\ changes \in 0..Menu[scene].changes
  BY DEF Inv, StateOK
<1>2. Menu[scene].changes \in Nat
  BY Request
<1>3. /\ changes < Menu[scene].changes /\ changes' = changes + 1
      /\ scene' = scene /\ now' = now
  BY DEF Commit, Asking
<1> DEFINE n == Menu[scene].changes
<1> HIDE DEF n
<1>4. n \in Nat /\ changes \in 0..n /\ changes < n
  BY <1>1, <1>2, <1>3 DEF n
<1>5. changes + 1 \in 0..n
  BY <1>4
<1>6. changes' \in 0..Menu[scene].changes
  BY <1>3, <1>5 DEF n
<1> QED  BY <1>1, <1>3, <1>6 DEF StateOK

\* Set memberships that are accepted are of members without history (add_members).
LEMMA AddMemberSetsKeeps ==
  ASSUME Inv, NEW at \in 1..now, NEW P \in Menu[scene].setRequests,
         AddMemberSets(P, at)
  PROVE  Inv'
<1>1. /\ Commit /\ setMembers' = setMembers \cup Rows(P, at)
      /\ \A i \in DOMAIN P : ~HasHistory(P[i][2])
      /\ accountMembers' = accountMembers /\ history' = history
      /\ created' = created /\ pending' = pending /\ walk' = walk
      /\ postings' = postings /\ astray' = astray
  BY DEF AddMemberSets, inflight
<1>2. StateOK' /\ scene' = scene /\ now' = now
  BY <1>1, CommitOK
<1>3. P \in Seq(Sets \X Sets) /\ now \in Nat
  BY Request
<1>4. PICK existing \in {EdgesConnectedTo(P, SetEdges), SetEdges} :
        SetVerdict(P, existing, AccountEdges) = Ok
  BY DEF AddMemberSets, Existing
<1>5. /\ Valid((SetEdges \cup ToSet(P)) \cup AccountEdges)
      /\ \A e \in ToSet(P) : e \notin SetEdges
  <2>1. Valid(SetEdges \cup AccountEdges)
    BY DEF Inv, Graph
  <2> QED  BY <1>3, <1>4, <2>1, Edges, SetsStayValid
<1>6. /\ RowsOK(setMembers, Sets)' /\ SetEdges' = SetEdges \cup ToSet(P)
  <2>1. Holds(setMembers, Sets, now)
    BY DEF Inv, RowsOK
  <2>2. \A i \in DOMAIN P : P[i][2] \in Sets
    <3> SUFFICES ASSUME NEW i \in DOMAIN P  PROVE P[i][2] \in Sets
      OBVIOUS
    <3>1. P[i] \in Sets \X Sets
      BY <1>3
    <3> QED  BY <3>1
  <2>3. \A e \in ToSet(P) : e \notin Ends(setMembers)
    BY <1>5 DEF SetEdges
  <2>4. Fresh(P, Sets, Sets, setMembers)
    BY <1>3, <2>2, <2>3 DEF Fresh
  <2>5. Holds(setMembers', Sets, now) /\ Ends(setMembers') = Ends(setMembers) \cup ToSet(P)
    BY <1>1, <1>3, <2>1, <2>4, MoreRows
  <2> QED  BY <1>2, <2>5 DEF RowsOK, SetEdges
<1>7. AccountEdges' = AccountEdges
  BY <1>1 DEF AccountEdges
<1>8. Graph' = (SetEdges \cup ToSet(P)) \cup AccountEdges
  BY <1>6, <1>7 DEF Graph
<1>9. IsFiniteSet(ToSet(P)) /\ \A e \in ToSet(P) : ~HasHistory(e[2])
  <2>1. \A e \in ToSet(P) : \E i \in DOMAIN P : P[i] = e
    BY <1>3, RequestIsFinite
  <2>2. IsFiniteSet(ToSet(P))
    BY <1>3, RequestIsFinite
  <2> QED  BY <1>1, <2>1, <2>2
<1>10. Folded(Kept, Graph')
  <2> DEFINE E2 == Graph'
  <2>1. IsFiniteSet(E2)
    <3>1. IsFiniteSet(SetEdges \cup ToSet(P)) /\ IsFiniteSet(AccountEdges)
      BY <1>9, Edges, FS_Union
    <3>2. IsFiniteSet((SetEdges \cup ToSet(P)) \cup AccountEdges)
      BY <3>1, FS_Union
    <3> QED  BY <1>8, <3>2
  <2>2. \A e : (e \in Graph /\ e \notin E2) \/ (e \in E2 /\ e \notin Graph) =>
                  ~HasHistory(e[2])
    BY <1>8, <1>9 DEF Graph
  <2> HIDE DEF E2
  <2>3. Folded(Kept, E2)
    BY <2>1, <2>2, HistoryStays
  <2> QED  BY <2>3 DEF E2
<1>11. Folded(Kept', Graph')
  BY <1>1, <1>10 DEF Kept
<1>12. Valid(Graph')
  BY <1>5, <1>8
<1>14. DirectlyHeld' /\ PostingsOK'
  BY <1>1, <1>2, <1>3, <1>7, DirectStays, PostingsStay
<1>13. RowsOK(accountMembers, created)' /\ HistoryOK' /\ PendingOK' /\ WalkOK'
  BY <1>1, <1>2 DEF Inv, RowsOK, HistoryOK, PendingOK, WalkOK
<1> QED  BY <1>2, <1>6, <1>11, <1>12, <1>13, <1>14 DEF Inv

\* So are account memberships.
LEMMA AddMembersKeeps ==
  ASSUME Inv, NEW at \in 1..now, NEW Q \in Menu[scene].accountRequests,
         AddMembers(Q, at)
  PROVE  Inv'
<1>1. /\ Commit /\ accountMembers' = accountMembers \cup Rows(Q, at)
      /\ \A i \in DOMAIN Q : /\ Q[i][2] \in created
                             /\ ~HasHistory(Q[i][2]) /\ ~InFlight(Q[i][2])
      /\ AccountVerdict(Q, SetEdges, AccountEdges) = Ok
      /\ setMembers' = setMembers /\ history' = history
      /\ created' = created /\ pending' = pending /\ walk' = walk
      /\ postings' = postings /\ astray' = astray
  BY DEF AddMembers, inflight
<1>2. StateOK' /\ scene' = scene /\ now' = now
  BY <1>1, CommitOK
<1>3. Q \in Seq(Sets \X Accounts) /\ now \in Nat
  BY Request
<1>4. \A e \in ToSet(Q) : e \notin AccountEdges
  BY <1>1, <1>3, Edges, MembersAreNew
<1>5. /\ RowsOK(accountMembers, created)' /\ AccountEdges' = AccountEdges \cup ToSet(Q)
  <2>1. Holds(accountMembers, created, now)
    BY DEF Inv, RowsOK
  <2>2. \A i \in DOMAIN Q : Q[i][2] \in created
    BY <1>1
  <2>3. \A e \in ToSet(Q) : e \notin Ends(accountMembers)
    BY <1>4 DEF AccountEdges
  <2>4. Fresh(Q, Accounts, created, accountMembers)
    BY <1>3, <2>2, <2>3 DEF Fresh
  <2>5. /\ Holds(accountMembers', created, now)
        /\ Ends(accountMembers') = Ends(accountMembers) \cup ToSet(Q)
    BY <1>1, <1>3, <2>1, <2>4, MoreRows
  <2> QED  BY <1>1, <1>2, <2>5 DEF RowsOK, AccountEdges
<1>6. SetEdges' = SetEdges
  BY <1>1 DEF SetEdges
<1>7. Graph' = SetEdges \cup (AccountEdges \cup ToSet(Q))
  BY <1>5, <1>6 DEF Graph
<1>8. IsFiniteSet(ToSet(Q)) /\ \A e \in ToSet(Q) : ~HasHistory(e[2]) /\ ~InFlight(e[2])
  <2>1. \A e \in ToSet(Q) : \E i \in DOMAIN Q : Q[i] = e
    BY <1>3, RequestIsFinite
  <2>2. IsFiniteSet(ToSet(Q))
    BY <1>3, RequestIsFinite
  <2> QED  BY <1>1, <2>1, <2>2
<1>9. Folded(Kept, Graph')
  <2> DEFINE E2 == Graph'
  <2>1. IsFiniteSet(E2)
    <3>1. IsFiniteSet(AccountEdges \cup ToSet(Q)) /\ IsFiniteSet(SetEdges)
      BY <1>8, Edges, FS_Union
    <3>2. IsFiniteSet(SetEdges \cup (AccountEdges \cup ToSet(Q)))
      BY <3>1, FS_Union
    <3> QED  BY <1>7, <3>2
  <2>2. \A e : (e \in Graph /\ e \notin E2) \/ (e \in E2 /\ e \notin Graph) =>
                  ~HasHistory(e[2])
    BY <1>7, <1>8 DEF Graph
  <2> HIDE DEF E2
  <2>3. Folded(Kept, E2)
    BY <2>1, <2>2, HistoryStays
  <2> QED  BY <2>3 DEF E2
<1>10. Folded(Kept', Graph')
  BY <1>1, <1>9 DEF Kept
<1>13. DirectlyHeld'
  BY <1>1, <1>5, <1>8, DirectStays
<1>14. PostingsOK'
  BY <1>1, <1>2, <1>3, <1>5, <1>8, PostingsStay
<1>11. Valid(Graph')
  <2>1. Valid(SetEdges \cup AccountEdges)
    BY DEF Inv, Graph
  <2>2. Valid(SetEdges \cup (AccountEdges \cup ToSet(Q)))
    BY <1>1, <1>3, <2>1, Edges, MembersStayValid
  <2> QED  BY <1>7, <2>2
<1>12. RowsOK(setMembers, Sets)' /\ HistoryOK' /\ PendingOK' /\ WalkOK'
  BY <1>1, <1>2 DEF Inv, RowsOK, HistoryOK, PendingOK, WalkOK
<1> QED  BY <1>2, <1>5, <1>10, <1>11, <1>12, <1>13, <1>14 DEF Inv

\* A new account is in no more than one set, and not yet seen.
LEMMA InsertAccountKeeps ==
  ASSUME Inv, NEW at \in 1..now, NEW c \in Menu[scene].creations,
         InsertAccount(c[1], c[2], at)
  PROVE  Inv'
<1> DEFINE x == c[1]
           S == c[2]
           rows == {[set |-> s, member |-> x, at |-> at] : s \in S}
           new == [account |-> x, rows |-> rows]
<1>1. /\ Commit /\ x \notin created /\ (\A p \in pending : p.account # x)
      /\ Placeable(S) /\ pending' = pending \cup {new}
      /\ setMembers' = setMembers /\ accountMembers' = accountMembers
      /\ history' = history /\ created' = created /\ walk' = walk
      /\ postings' = postings /\ astray' = astray
  BY DEF InsertAccount, tables
<1>2. StateOK' /\ scene' = scene /\ now' = now
  BY <1>1, CommitOK
<1>3. x \in Accounts /\ S \in SUBSET Sets
  <2>1. c \in Accounts \X SUBSET Sets
    BY Request
  <2> QED  BY <2>1
<1> HIDE DEF x, S
<1>4. \A s, r \in S : s = r
  <2>1. IsFiniteSet(S) /\ Cardinality(S) <= 1
    BY <1>1, <1>3, GraphAssumption, FS_Subset DEF Placeable
  <2> SUFFICES ASSUME NEW s \in S, NEW r \in S, s # r  PROVE FALSE
    OBVIOUS
  <2>2. IsFiniteSet(S \ {s}) /\ Cardinality(S \ {s}) = Cardinality(S) - 1
    BY <2>1, FS_RemoveElement
  <2>3. Cardinality(S \ {s}) = 0
    <3>1. Cardinality(S) \in Nat /\ Cardinality(S \ {s}) \in Nat
      BY <2>1, <2>2, FS_CardinalityType
    <3>2. \A k, l \in Nat : k <= 1 /\ l = k - 1 => l = 0
      OBVIOUS
    <3> QED  BY <2>1, <2>2, <3>1, <3>2
  <2>4. S \ {s} = {}
    BY <2>2, <2>3, FS_EmptySet
  <2> QED  BY <2>4
<1>5. rows \subseteq MembershipRows({x}, now) /\ \A r, q \in rows : r = q
  BY <1>3, <1>4 DEF MembershipRows
<1>6. new.account = x /\ new.rows = rows
  OBVIOUS
<1> HIDE DEF rows, new
<1>7. PendingOK'
  <2> SUFFICES ASSUME NEW p \in pending \cup {new}
               PROVE  /\ p.account \in Accounts \ created
                      /\ p.rows \subseteq MembershipRows({p.account}, now)
                      /\ \A r, q \in p.rows : r = q
                      /\ \A q \in pending \cup {new} : q.account = p.account => q = p
    BY <1>1, <1>2 DEF PendingOK
  <2>1. CASE p = new
    BY <1>1, <1>3, <1>5, <1>6, <2>1
  <2>2. CASE p \in pending
    BY <1>1, <1>6, <2>2 DEF Inv, PendingOK
  <2> QED  BY <2>1, <2>2
<1>8. RowsOK(setMembers, Sets)' /\ RowsOK(accountMembers, created)' /\ HistoryOK' /\ WalkOK'
  BY <1>1, <1>2 DEF Inv, RowsOK, HistoryOK, WalkOK
<1>9. Graph' = Graph /\ AccountEdges' = AccountEdges /\ Kept' = Kept
  BY <1>1 DEF Graph, SetEdges, AccountEdges, Kept
<1>10. DirectlyHeld' /\ PostingsOK'
  <2>1. now \in Nat
    BY Request
  <2> QED  BY <1>1, <1>2, <1>9, <2>1, DirectStays, PostingsStay
<1> QED  BY <1>2, <1>7, <1>8, <1>9, <1>10 DEF Inv

\* When it is seen it has no history and no other membership, whatever was
\* committed meanwhile.
LEMMA CommitAccountKeeps ==
  ASSUME Inv, NEW p \in pending, CommitAccount(p)
  PROVE  Inv'
<1> DEFINE x == p.account
           rows == p.rows
           R == Ends(rows)
<1>1. /\ pending' = pending \ {p} /\ created' = created \cup {x}
      /\ accountMembers' = accountMembers \cup rows
      /\ setMembers' = setMembers /\ history' = history /\ scene' = scene
      /\ now' = now /\ changes' = changes /\ walk' = walk
      /\ postings' = postings /\ astray' = astray
  BY DEF CommitAccount
<1>2. /\ x \in Accounts \ created
      /\ rows \subseteq MembershipRows({x}, now)
      /\ \A r, q \in rows : r = q
      /\ \A q \in pending : q.account = x => q = p
  BY DEF Inv, PendingOK
<1> HIDE DEF x, rows
<1>3. StateOK'
  BY <1>1, <1>2 DEF Inv, StateOK
<1>4. /\ accountMembers \subseteq MembershipRows(created, now) /\ Unique(accountMembers)
      /\ IsFiniteSet(accountMembers) /\ now \in Nat
  BY Request DEF Inv, RowsOK, Holds
<1>5. /\ MembershipRows({x}, now) \subseteq MembershipRows(created', now)
      /\ MembershipRows(created, now) \subseteq MembershipRows(created', now)
      /\ HistoryRows(created, now) \subseteq HistoryRows(created', now)
  <2>1. {x} \subseteq created' /\ created \subseteq created' /\ now <= now
    BY <1>1, <1>4
  <2> QED  BY <1>4, <2>1, LaterRows
<1>6. RowsOK(accountMembers, created)'
  <2>1. accountMembers' \subseteq MembershipRows(created', now)
    BY <1>1, <1>2, <1>4, <1>5
  <2>2. IsFiniteSet(accountMembers')
    <3>1. IsFiniteSet(rows)
      <4>1. CASE rows = {}
        BY <4>1, FS_EmptySet
      <4>2. ASSUME NEW r \in rows  PROVE IsFiniteSet(rows)
        <5>1. rows = {r}
          BY <1>2
        <5> QED  BY <5>1, FS_Singleton
      <4> QED  BY <4>1, <4>2
    <3>2. IsFiniteSet(accountMembers \cup rows)
      BY <1>4, <3>1, FS_Union
    <3> QED  BY <1>1, <3>2
  <2>3. \A r \in accountMembers, q \in rows : r.member # q.member
    <3>1. \A r \in accountMembers : r.member \in created
      BY <1>4 DEF MembershipRows
    <3>2. \A q \in rows : q.member = x
      BY <1>2 DEF MembershipRows
    <3> QED  BY <1>2, <3>1, <3>2
  <2>4. Unique(accountMembers')
    BY <1>1, <1>2, <1>4, <2>3 DEF Unique
  <2> QED  BY <1>1, <2>1, <2>2, <2>4 DEF RowsOK, Holds
<1>7. SetEdges' = SetEdges /\ AccountEdges' = AccountEdges \cup R
  BY <1>1, EndsOfBoth DEF SetEdges, AccountEdges
<1>8. Graph' = SetEdges \cup (AccountEdges \cup R)
  BY <1>7 DEF Graph
<1>9. R \in SUBSET (Sets \X {x}) /\ \A e, f \in R : e = f
  <2>1. R \in SUBSET (Sets \X {x})
    BY <1>2, EndsTyped
  <2>2. \A e, f \in R : e = f
    BY <1>2 DEF Ends
  <2> QED  BY <2>1, <2>2
<1> HIDE DEF R
<1>10. ~HasHistory(x) /\ ~InFlight(x)
  <2>1. \A h \in history : h.holder \in Sets \cup created
    BY DEF Inv, HistoryOK, HistoryRows
  <2>2. x \notin Sets
    BY <1>2, GraphAssumption
  <2>3. \A q \in postings : q.account \in created
    BY DEF Inv, PostingsOK, Postings
  <2> QED  BY <1>2, <2>1, <2>2, <2>3 DEF HasHistory, InFlight
<1>11. Folded(Kept, Graph')
  <2> DEFINE E2 == Graph'
  <2>1. IsFiniteSet(E2)
    <3>1. IsFiniteSet(accountMembers') /\ IsFiniteSet(SetEdges)
      BY <1>6, Edges DEF RowsOK, Holds
    <3>2. IsFiniteSet(AccountEdges')
      BY <3>1, EndsFinite DEF AccountEdges
    <3>3. IsFiniteSet(SetEdges \cup AccountEdges')
      BY <3>1, <3>2, FS_Union
    <3> QED  BY <1>7, <1>8, <3>3
  <2>2. \A e : (e \in Graph /\ e \notin E2) \/ (e \in E2 /\ e \notin Graph) =>
                  ~HasHistory(e[2])
    BY <1>8, <1>9, <1>10 DEF Graph
  <2> HIDE DEF E2
  <2>3. Folded(Kept, E2)
    BY <2>1, <2>2, HistoryStays
  <2> QED  BY <2>3 DEF E2
<1>12. Folded(Kept', Graph')
  BY <1>1, <1>11 DEF Kept
<1>17. DirectlyHeld'
  BY <1>1, <1>7, <1>9, <1>10, DirectStays
<1>18. PostingsOK'
  <2>1. created \subseteq created' /\ now' \in Nat /\ now <= now' /\ postings' \subseteq postings
    BY <1>1, <1>4
  <2> QED  BY <1>7, <1>9, <1>10, <2>1, PostingsStay
<1>13. Valid(Graph')
  <2>1. Valid(SetEdges \cup AccountEdges) /\ x \in Accounts
    BY <1>2 DEF Inv, Graph
  <2>2. \A e \in AccountEdges : e[2] # x
    BY <1>2, Edges
  <2>3. Valid(SetEdges \cup (AccountEdges \cup R))
    BY <1>9, <2>1, <2>2, Edges, NewAccountStaysValid
  <2> QED  BY <1>8, <2>3
<1>14. HistoryOK'
  BY <1>1, <1>5 DEF Inv, HistoryOK
<1>15. PendingOK'
  <2> SUFFICES ASSUME NEW q \in pending, q # p
               PROVE  /\ q.account \in Accounts \ (created \cup {x})
                      /\ q.rows \subseteq MembershipRows({q.account}, now)
                      /\ \A r, s \in q.rows : r = s
                      /\ \A s \in pending \ {p} : s.account = q.account => s = q
    BY <1>1 DEF PendingOK
  <2>1. /\ q.account \in Accounts \ created
        /\ q.rows \subseteq MembershipRows({q.account}, now)
        /\ \A r, s \in q.rows : r = s
        /\ \A s \in pending : s.account = q.account => s = q
    BY DEF Inv, PendingOK
  <2>2. q.account # x
    BY <1>2
  <2> QED  BY <2>1, <2>2
<1>16. RowsOK(setMembers, Sets)' /\ WalkOK'
  BY <1>1 DEF Inv, RowsOK, WalkOK
<1> QED  BY <1>3, <1>6, <1>12, <1>13, <1>14, <1>15, <1>16, <1>17, <1>18 DEF Inv

\* A member that is removed has no history.
LEMMA RemoveMemberKeeps ==
  ASSUME Inv, NEW e \in Menu[scene].removals, RemoveMember(e)
  PROVE  Inv'
<1>1. /\ Commit /\ ~HasHistory(e[2]) /\ ~InFlight(e[2])
      /\ setMembers' = Without(setMembers, e)
      /\ accountMembers' = Without(accountMembers, e)
      /\ history' = history /\ created' = created /\ pending' = pending /\ Watch
      /\ postings' = postings /\ astray' = astray
  BY DEF RemoveMember, inflight
<1>2. StateOK' /\ scene' = scene /\ now' = now
  BY <1>1, CommitOK
<1>3. RowsOK(setMembers, Sets)' /\ SetEdges' = SetEdges \ {e}
  <2>1. Holds(setMembers, Sets, now)
    BY DEF Inv, RowsOK
  <2>2. Holds(setMembers', Sets, now) /\ Ends(setMembers') = Ends(setMembers) \ {e}
    BY <1>1, <2>1, FewerRows
  <2> QED  BY <1>2, <2>2 DEF RowsOK, SetEdges
<1>4. RowsOK(accountMembers, created)' /\ AccountEdges' = AccountEdges \ {e}
  <2>1. Holds(accountMembers, created, now)
    BY DEF Inv, RowsOK
  <2>2. /\ Holds(accountMembers', created, now)
        /\ Ends(accountMembers') = Ends(accountMembers) \ {e}
    BY <1>1, <2>1, FewerRows
  <2> QED  BY <1>1, <1>2, <2>2 DEF RowsOK, AccountEdges
<1>5. Graph' = Graph \ {e}
  BY <1>3, <1>4 DEF Graph
<1>6. Folded(Kept, Graph')
  <2> DEFINE E2 == Graph'
  <2>1. IsFiniteSet(E2)
    <3>1. Graph \ {e} \in SUBSET Graph
      OBVIOUS
    <3>2. IsFiniteSet(Graph \ {e})
      BY <3>1, Edges, FS_Subset
    <3> QED  BY <1>5, <3>2
  <2>2. \A f : (f \in Graph /\ f \notin E2) \/ (f \in E2 /\ f \notin Graph) =>
                  ~HasHistory(f[2])
    BY <1>1, <1>5
  <2> HIDE DEF E2
  <2>3. Folded(Kept, E2)
    BY <2>1, <2>2, HistoryStays
  <2> QED  BY <2>3 DEF E2
<1>7. Folded(Kept', Graph')
  BY <1>1, <1>6 DEF Kept
<1>11. DirectlyHeld' /\ PostingsOK'
  <2>1. now \in Nat
    BY Request
  <2> QED  BY <1>1, <1>2, <1>4, <2>1, DirectStays, PostingsStay
<1>8. Valid(Graph')
  <2>1. Valid(Graph) /\ Graph \ {e} \in SUBSET Graph
    BY DEF Inv
  <2>2. Valid(Graph \ {e})
    BY <2>1, FewerStayValid
  <2> QED  BY <1>5, <2>2
<1>9. WalkOK'
  <2>1. CASE walk' = walk
    BY <1>2, <2>1 DEF Inv, WalkOK
  <2>2. CASE ~(walk = NoWalk \/ walk.done)
    <3>1. \E T : walk' = [walk EXCEPT !.throughout = T]
      BY <1>1, <2>2 DEF Watch
    <3> QED  BY <1>2, <2>2, <3>1 DEF Inv, WalkOK
  <2> QED  BY <1>1, <2>1, <2>2 DEF Watch
<1>10. HistoryOK' /\ PendingOK'
  BY <1>1, <1>2 DEF Inv, HistoryOK, PendingOK
<1> QED  BY <1>2, <1>3, <1>4, <1>7, <1>8, <1>9, <1>10, <1>11 DEF Inv

\* A posting finds the sets its account is directly in and those above them.
LEMMA ResolveKeeps ==
  ASSUME Inv, NEW at \in 1..now, NEW p \in Menu[scene].postings,
         Resolve(p[1], p[2], p[3], at)
  PROVE  Inv'
<1>1. PICK x, c, d : x = p[1] /\ c = p[2] /\ d = p[3]
  OBVIOUS
<1>2. PICK D, A : D = DirectSets(x) /\ A = Up(D, SetEdges)
  OBVIOUS
<1>3. PICK new : new = [account |-> x, currency |-> c, effective |-> d, at |-> at,
                        direct |-> D, above |-> A]
  OBVIOUS
<1>4. /\ Commit /\ x \in created /\ postings' = postings \cup {new}
      /\ setMembers' = setMembers /\ accountMembers' = accountMembers
      /\ history' = history /\ astray' = astray
      /\ created' = created /\ pending' = pending /\ walk' = walk
  BY <1>1, <1>2, <1>3 DEF Resolve, tables
<1>5. StateOK' /\ scene' = scene /\ now' = now
  BY <1>4, CommitOK
<1>6. c \in Int /\ d \in Int /\ x \in Accounts
  <2>1. p \in Accounts \X Int \X Int
    BY Request
  <2> QED  BY <1>1, <2>1
<1>7. D \subseteq A /\ A \subseteq Sets
  <2>1. D = {e[1] : e \in {f \in AccountEdges : f[2] = x}}
    BY <1>2 DEF DirectSets
  <2>2. /\ SetEdges \in SUBSET (Sets \X Sets) /\ IsFiniteSet(SetEdges)
        /\ AccountEdges \in SUBSET (Sets \X Accounts) /\ IsFiniteSet(AccountEdges)
    BY Edges
  <2>3. PICK S, M : S = SetEdges /\ M = AccountEdges
    OBVIOUS
  <2>5. /\ S \in SUBSET (Sets \X Sets) /\ IsFiniteSet(S)
        /\ M \in SUBSET (Sets \X Accounts) /\ IsFiniteSet(M)
        /\ D = {e[1] : e \in {f \in M : f[2] = x}}
    BY ONLY <2>1, <2>2, <2>3
  <2>4. AboveDirect(x, D, S, M)
    BY ONLY <1>6, <2>5, UpFromDirect
  <2>6. D \subseteq Up(D, S) /\ Up(D, S) \subseteq Sets
    BY ONLY <2>4 DEF AboveDirect
  <2> QED  BY ONLY <1>2, <2>3, <2>6
<1>8. new \in Postings(created, now)
  BY <1>3, <1>4, <1>6, <1>7 DEF Postings
<1>9. /\ Graph' = Graph /\ AccountEdges' = AccountEdges /\ Kept' = Kept
      /\ \A y : DirectSets(y)' = DirectSets(y)
  BY <1>4 DEF Graph, SetEdges, AccountEdges, Kept, DirectSets
<1>10. PostingsOK'
  <2>1. Knows(new)
    <3>1. new.account = x /\ new.direct = D /\ new.above = A
      BY <1>3
    <3> QED  BY <1>2, <1>7, <3>1 DEF Knows
  <2>2. postings \subseteq Postings(created, now) /\ \A q \in postings : Knows(q)
    BY DEF Inv, PostingsOK
  <2>3. \A q \in postings' : Knows(q)
    BY <1>4, <2>1, <2>2
  <2>4. \A q \in postings' : Knows(q)'
    BY <1>9, <2>3 DEF Knows
  <2> QED  BY <1>4, <1>5, <1>8, <2>2, <2>4 DEF PostingsOK
<1>11. DirectlyHeld'
  BY <1>4, <1>9, DirectStays
<1>12. /\ RowsOK(setMembers, Sets)' /\ RowsOK(accountMembers, created)'
       /\ HistoryOK' /\ PendingOK' /\ WalkOK'
  BY <1>4, <1>5 DEF Inv, RowsOK, HistoryOK, PendingOK, WalkOK
<1> QED  BY <1>5, <1>9, <1>10, <1>11, <1>12 DEF Inv

\* The next entry's number is new.
LEMMA NextId ==
  ASSUME Inv, NEW n, n = Cardinality(Ids(history)) + 1
  PROVE  /\ n \in Nat \ {0} /\ n \notin Ids(history)
         /\ \A J : J = Ids(history) \cup {n} => J \subseteq 1..Cardinality(J)
<1>1. PICK I, k : I = Ids(history) /\ k = Cardinality(I)
  OBVIOUS
<1>2. I \subseteq 1..k
  BY <1>1 DEF Inv, HistoryOK
<1>3. IsFiniteSet(I)
  <2> DEFINE f == [r \in history |-> r.entry]
  <2>1. f \in Surjection(history, I)
    BY <1>1 DEF Surjection, Ids
  <2>2. IsFiniteSet(history)
    BY DEF Inv, HistoryOK
  <2> HIDE DEF f
  <2> QED  BY <2>1, <2>2, FS_Surjection
<1>4. k \in Nat
  BY <1>1, <1>3, FS_CardinalityType
<1>5. n = k + 1 /\ n \in Nat \ {0} /\ n \notin I
  BY <1>1, <1>2, <1>4
<1>6. Cardinality(I \cup {n}) = k + 1
  BY <1>1, <1>3, <1>5, FS_AddElement
<1>7. I \cup {n} \subseteq 1..Cardinality(I \cup {n})
  <2>1. I \cup {n} \subseteq 1..(k + 1)
    BY ONLY <1>2, <1>4, <1>5
  <2> QED  BY ONLY <1>6, <2>1
<1> QED  BY <1>1, <1>5, <1>7

\* An entry is folded into its account and the sets found above it, and no edge
\* changes; if others are above it by now it is not kept to.
LEMMA WriteKeeps ==
  ASSUME Inv, NEW p \in postings, Write(p)
  PROVE  Inv'
<1>1. PICK x, c, d, at : x = p.account /\ c = p.currency /\ d = p.effective /\ at = p.at
  OBVIOUS
<1>2. PICK n : n = Cardinality(Ids(history)) + 1
  OBVIOUS
<1>3. PICK U : U = {x} \cup p.above
  OBVIOUS
<1>4. PICK row : row = [h \in U |-> [holder |-> h, entry |-> n, account |-> x,
                                     currency |-> c, effective |-> d, at |-> at]]
  OBVIOUS
<1>5. /\ history' = history \cup {row[h] : h \in U}
      /\ astray' = IF Overtaken(p) THEN astray \cup {n} ELSE astray
      /\ postings' = postings \ {p}
      /\ setMembers' = setMembers /\ accountMembers' = accountMembers
      /\ created' = created /\ pending' = pending /\ walk' = walk
      /\ scene' = scene /\ now' = now /\ changes' = changes
  BY <1>1, <1>2, <1>3, <1>4 DEF Write
<1>6. /\ x \in created /\ c \in Int /\ d \in Int /\ at \in 1..now
      /\ p.above \subseteq Sets /\ p.direct = DirectSets(x) /\ p.direct \subseteq p.above
  BY <1>1 DEF Inv, PostingsOK, Postings, Knows
<1>7. x \in Accounts /\ x \notin Sets
  BY <1>6, GraphAssumption DEF Inv, StateOK
<1>8. x \in U /\ U \subseteq {x} \cup Sets /\ DirectSets(x) \subseteq U
  BY <1>3, <1>6
<1>9. /\ n \in Nat \ {0} /\ n \notin Ids(history)
      /\ \A J : J = Ids(history) \cup {n} => J \subseteq 1..Cardinality(J)
  BY <1>2, NextId
<1>10. Entered(row, U, x, n, c, d, at) /\ row \in Surjection(U, EntryRows(row, U))
  BY <1>4 DEF Entered, EntryRows, Surjection
<1>11. history' = history \cup EntryRows(row, U)
  BY <1>5 DEF EntryRows
<1>12. ASSUME NEW g \in EntryRows(row, U)
       PROVE  /\ g \in HistoryRows(created, now) /\ g.entry = n /\ g.account = x
              /\ g = row[g.holder] /\ g.holder \in U
  <2>1. PICK h \in U : g = row[h]
    BY DEF EntryRows
  <2>2. g = [holder |-> h, entry |-> n, account |-> x,
             currency |-> c, effective |-> d, at |-> at]
    BY <1>10, <2>1 DEF Entered
  <2>3. h \in Sets \cup created
    BY <1>6, <1>8
  <2>4. g \in HistoryRows(created, now)
    BY <1>6, <1>9, <2>2, <2>3 DEF HistoryRows
  <2>5. g.entry = n /\ g.account = x /\ g.holder = h
    BY ONLY <2>2
  <2> QED  BY ONLY <2>1, <2>4, <2>5
<1>13. Ids(history') = Ids(history) \cup {n}
  <2>1. row[x] \in EntryRows(row, U)
    BY <1>8 DEF EntryRows
  <2>2. \A g \in EntryRows(row, U) : g.entry = n
    BY <1>12
  <2> QED  BY <1>11, <2>1, <2>2 DEF Ids
<1>14. /\ history \subseteq HistoryRows(created, now) /\ IsFiniteSet(history)
       /\ astray \subseteq Ids(history)
  BY DEF Inv, HistoryOK
<1>15. HistoryOK'
  <2>1. IsFiniteSet({x}) /\ IsFiniteSet(Sets)
    BY FS_Singleton, GraphAssumption
  <2>2. IsFiniteSet({x} \cup Sets)
    BY <2>1, FS_Union
  <2>3. IsFiniteSet(U)
    BY <1>8, <2>2, FS_Subset
  <2>4. IsFiniteSet(EntryRows(row, U))
    BY <1>10, <2>3, FS_Surjection
  <2>5. IsFiniteSet(history \cup EntryRows(row, U))
    BY <1>14, <2>4, FS_Union
  <2>6. history' \subseteq HistoryRows(created', now') /\ IsFiniteSet(history')
    BY <1>5, <1>11, <1>12, <1>14, <2>5
  <2>7. astray' \subseteq Ids(history')
    BY <1>5, <1>13, <1>14
  <2>8. Ids(history') \subseteq 1..Cardinality(Ids(history'))
    BY <1>9, <1>13
  <2> QED  BY <2>6, <2>7, <2>8 DEF HistoryOK
<1>16. /\ Graph' = Graph /\ AccountEdges' = AccountEdges
       /\ \A y : DirectSets(y)' = DirectSets(y)
  BY <1>5 DEF Graph, SetEdges, AccountEdges, DirectSets
<1>17. \A h \in history : h.entry \in Ids(history)
  BY DEF Ids
<1>18. Folded(Kept', Graph)
  <2>0. PICK K, K2, G : K = Kept /\ K2 = Kept' /\ G = Graph
    OBVIOUS
  <2>1. Folded(K, G)
    BY <2>0 DEF Inv
  <2>2. ASSUME Overtaken(p)  PROVE K2 = K
    <3>1. astray' = astray \cup {n}
      BY <1>5, <2>2
    <3>2. \A h \in history : h.entry # n
      BY <1>9, <1>17
    <3>3. \A g \in EntryRows(row, U) : g.entry = n
      BY <1>12
    <3> QED  BY ONLY <1>11, <2>0, <3>1, <3>2, <3>3 DEF Kept
  <2>3. ASSUME ~Overtaken(p)  PROVE Folded(K2, G)
    <3>1. astray' = astray /\ p.above = Up(DirectSets(x), SetEdges)
      BY <1>5, <1>6, <2>3 DEF Overtaken
    <3>2. n \notin astray
      BY <1>9, <1>14
    <3>3. \A g \in EntryRows(row, U) : g.entry = n
      BY <1>12
    <3>4. K2 = K \cup EntryRows(row, U)
      BY ONLY <1>11, <2>0, <3>1, <3>2, <3>3 DEF Kept
    <3>5. U = Up({x}, G)
      <4>1. PICK D : D = DirectSets(x)
        OBVIOUS
      <4>2. D = {e[1] : e \in {f \in AccountEdges : f[2] = x}}
        BY <4>1 DEF DirectSets
      <4>3. /\ SetEdges \in SUBSET (Sets \X Sets) /\ IsFiniteSet(SetEdges)
            /\ AccountEdges \in SUBSET (Sets \X Accounts) /\ IsFiniteSet(AccountEdges)
        BY Edges
      <4>4. PICK S, M : S = SetEdges /\ M = AccountEdges
        OBVIOUS
      <4>5. /\ S \in SUBSET (Sets \X Sets) /\ IsFiniteSet(S)
            /\ M \in SUBSET (Sets \X Accounts) /\ IsFiniteSet(M)
            /\ D = {e[1] : e \in {f \in M : f[2] = x}}
        BY ONLY <4>2, <4>3, <4>4
      <4>6. AboveDirect(x, D, S, M)
        BY ONLY <1>7, <4>5, UpFromDirect
      <4>7. Up({x}, S \cup M) = {x} \cup Up(D, S)
        BY ONLY <4>6 DEF AboveDirect
      <4>8. G = S \cup M /\ U = {x} \cup Up(D, S)
        BY ONLY <1>3, <2>0, <3>1, <4>1, <4>4 DEF Graph
      <4> QED  BY ONLY <4>7, <4>8
    <3> QED  BY ONLY <1>7, <1>8, <1>10, <2>1, <3>4, <3>5, FoldedEntry
  <2>4. Folded(K2, G)
    <3>1. CASE Overtaken(p)
      BY <2>1, <2>2, <3>1
    <3> QED  BY <2>3, <3>1
  <2> QED  BY <2>0, <2>4
<1>19. DirectlyHeld'
  <2> SUFFICES ASSUME NEW h \in history', h.holder = h.account,
                      NEW s \in DirectSets(h.account)
               PROVE  HeldBy(s, h) \in history'
    BY <1>16 DEF DirectlyHeld, HeldBy
  <2>1. CASE h \in history
    BY <1>11, <2>1 DEF Inv, DirectlyHeld
  <2>2. CASE h \in EntryRows(row, U)
    <3>1. h.account = x /\ h = row[x]
      BY <1>12, <2>2
    <3>2. s \in U
      BY <1>8, <3>1
    <3>3. /\ row[x] = [holder |-> x, entry |-> n, account |-> x,
                       currency |-> c, effective |-> d, at |-> at]
          /\ row[s] = [holder |-> s, entry |-> n, account |-> x,
                       currency |-> c, effective |-> d, at |-> at]
      BY <1>8, <1>10, <3>2 DEF Entered
    <3>4. HeldBy(s, h) = row[s]
      BY <3>1, <3>3 DEF HeldBy
    <3> QED  BY <1>5, <3>2, <3>4
  <2> QED  BY <1>11, <2>1, <2>2
<1>20. PostingsOK'
  <2>1. now' \in Nat /\ now <= now' /\ created \subseteq created' /\ postings' \subseteq postings
    BY <1>5, Request
  <2> QED  BY <1>16, <2>1, PostingsStay
<1>21. StateOK' /\ RowsOK(setMembers, Sets)' /\ RowsOK(accountMembers, created)'
       /\ PendingOK' /\ WalkOK'
  BY <1>5 DEF Inv, StateOK, RowsOK, PendingOK, WalkOK
<1>22. Folded(Kept', Graph') /\ Valid(Graph')
  BY <1>16, <1>18 DEF Inv
<1> QED  BY <1>15, <1>19, <1>20, <1>21, <1>22 DEF Inv

\* Time, aborts and the reading client change nothing of it.
LEMMA OtherSteps ==
  ASSUME Inv,
         \/ \E p \in pending : AbortAccount(p)
         \/ \E p \in postings : AbortPosting(p)
         \/ Tick
         \/ \E i \in DOMAIN Menu[scene].listings, first \in PageSizes :
              StartWalk(Menu[scene].listings[i], first)
         \/ ReadPage
         \/ UNCHANGED vars
  PROVE  Inv'
<1>1. /\ setMembers' = setMembers /\ accountMembers' = accountMembers
      /\ history' = history /\ created' = created /\ scene' = scene
      /\ changes' = changes /\ pending' \subseteq pending
      /\ postings' \subseteq postings /\ astray' = astray
  BY DEF AbortAccount, AbortPosting, Tick, StartWalk, ReadPage, vars, tables, inflight
<1>2. now \in 1..MaxTime /\ now' \in 1..MaxTime /\ now <= now'
  <2>1. now \in 1..MaxTime /\ MaxTime \in Nat
    BY BoundAssumption DEF Inv, StateOK
  <2>2. now' = now \/ (now < MaxTime /\ now' = now + 1)
    BY DEF AbortAccount, AbortPosting, Tick, StartWalk, ReadPage, vars
  <2> QED  BY <2>1, <2>2
<1>3. StateOK'
  BY <1>1, <1>2 DEF Inv, StateOK
<1>4. \A X : /\ MembershipRows(X, now) \subseteq MembershipRows(X, now')
             /\ HistoryRows(X, now) \subseteq HistoryRows(X, now')
  <2>1. now \in Nat /\ now' \in Nat
    BY <1>2, BoundAssumption
  <2> SUFFICES ASSUME NEW X
               PROVE  /\ MembershipRows(X, now) \subseteq MembershipRows(X, now')
                      /\ HistoryRows(X, now) \subseteq HistoryRows(X, now')
    OBVIOUS
  <2>2. X \subseteq X
    OBVIOUS
  <2> DEFINE u == now'
  <2>3. u \in Nat /\ now <= u
    BY <1>2, <2>1
  <2> HIDE DEF u
  <2>4. /\ MembershipRows(X, now) \subseteq MembershipRows(X, u)
        /\ HistoryRows(X, now) \subseteq HistoryRows(X, u)
    BY <2>1, <2>2, <2>3, LaterRows
  <2> QED  BY <2>4 DEF u
<1>5. RowsOK(setMembers, Sets)' /\ RowsOK(accountMembers, created)'
  BY <1>1, <1>4 DEF Inv, RowsOK, Holds
<1>6. HistoryOK'
  BY <1>1, <1>4 DEF Inv, HistoryOK
<1>7. PendingOK'
  <2> SUFFICES ASSUME NEW p \in pending
               PROVE  /\ p.account \in Accounts \ created
                      /\ p.rows \subseteq MembershipRows({p.account}, now')
                      /\ \A r, q \in p.rows : r = q
                      /\ \A q \in pending : q.account = p.account => q = p
    BY <1>1 DEF PendingOK
  <2>1. /\ p.account \in Accounts \ created
        /\ p.rows \subseteq MembershipRows({p.account}, now)
        /\ \A r, q \in p.rows : r = q
        /\ \A q \in pending : q.account = p.account => q = p
    BY DEF Inv, PendingOK
  <2> QED  BY <1>4, <2>1
<1>8. WalkOK'
  <2>0. WalkOK
    BY DEF Inv
  <2>1. CASE walk' = walk
    BY <1>1, <2>0, <2>1 DEF WalkOK
  <2>2. ASSUME NEW i \in DOMAIN Menu[scene].listings, NEW first \in PageSizes,
               StartWalk(Menu[scene].listings[i], first)
        PROVE  WalkOK'
    <3>1. walk' = [listing |-> Menu[scene].listings[i], first |-> first,
                   cursor |-> Start, seen |-> << >>,
                   throughout |-> Listed(Menu[scene].listings[i]), done |-> FALSE]
      BY <2>2 DEF StartWalk
    <3>2. Menu[scene].listings[i] \in Range(Menu[scene].listings)
      BY DEF Range
    <3> QED  BY <1>1, <3>1, <3>2 DEF WalkOK
  <2>3. CASE ReadPage
    <3>1. walk # NoWalk
      BY <2>3 DEF ReadPage
    <3> DEFINE page == Page(walk.listing, walk.cursor, walk.first)
               seen == walk.seen \o page.entities
               cursor == NextCursor(walk.listing, page)
    <3>2. \/ walk' = NoWalk
          \/ walk' = [walk EXCEPT !.seen = seen, !.cursor = cursor]
          \/ walk' = [walk EXCEPT !.seen = seen, !.done = TRUE]
      BY <2>3 DEF ReadPage
    <3> HIDE DEF seen, cursor
    <3> QED  BY <1>1, <2>0, <3>1, <3>2 DEF WalkOK
  <2> QED  BY <2>1, <2>2, <2>3 DEF AbortAccount, AbortPosting, Tick, vars
<1>9. Graph' = Graph /\ AccountEdges' = AccountEdges /\ Kept' = Kept
  BY <1>1 DEF Graph, SetEdges, AccountEdges, Kept
<1>10. DirectlyHeld' /\ PostingsOK'
  <2>1. now' \in Nat /\ created \subseteq created'
    BY <1>1, <1>2, BoundAssumption
  <2> QED  BY <1>1, <1>2, <1>9, <2>1, DirectStays, PostingsStay
<1> QED  BY <1>3, <1>5, <1>6, <1>7, <1>8, <1>9, <1>10 DEF Inv

LEMMA Keeps == Inv /\ [Next]_vars => Inv'
<1> SUFFICES ASSUME Inv, [Next]_vars  PROVE Inv'
  OBVIOUS
<1>1. ASSUME NEW at \in 1..now, NEW P \in Menu[scene].setRequests, AddMemberSets(P, at)
      PROVE  Inv'
  BY <1>1, AddMemberSetsKeeps
<1>2. ASSUME NEW at \in 1..now, NEW Q \in Menu[scene].accountRequests, AddMembers(Q, at)
      PROVE  Inv'
  BY <1>2, AddMembersKeeps
<1>3. ASSUME NEW at \in 1..now, NEW c \in Menu[scene].creations,
             InsertAccount(c[1], c[2], at)
      PROVE  Inv'
  BY <1>3, InsertAccountKeeps
<1>4. ASSUME NEW at \in 1..now, NEW p \in Menu[scene].postings,
             Resolve(p[1], p[2], p[3], at)
      PROVE  Inv'
  BY <1>4, ResolveKeeps
<1>8. ASSUME NEW p \in postings, Write(p)  PROVE Inv'
  BY <1>8, WriteKeeps
<1>5. ASSUME NEW p \in pending, CommitAccount(p)  PROVE Inv'
  BY <1>5, CommitAccountKeeps
<1>6. ASSUME NEW e \in Menu[scene].removals, RemoveMember(e)  PROVE Inv'
  BY <1>6, RemoveMemberKeeps
<1>7. ASSUME \/ \E p \in pending : AbortAccount(p)
             \/ \E p \in postings : AbortPosting(p)
             \/ Tick
             \/ \E i \in DOMAIN Menu[scene].listings, first \in PageSizes :
                  StartWalk(Menu[scene].listings[i], first)
             \/ ReadPage
             \/ UNCHANGED vars
      PROVE  Inv'
  BY <1>7, OtherSteps
<1> QED  BY <1>1, <1>2, <1>3, <1>4, <1>5, <1>6, <1>7, <1>8 DEF Next

LEMMA Invariant == Spec => []Inv
<1> QED  BY Initially, Keeps, PTL DEF Spec

\* Whatever is asked, every membership is one row between nodes that exist,
\* and an account is created once (the UNIQUE constraints of the member
\* tables are never run into by a request that passed the checks).
THEOREM TypeCorrect == Spec => []TypeOK
BY Invariant, InvTypeOK, PTL

\* The history of every set is what was entered on the accounts now in it, but
\* for entries whose posting was overtaken by an operation on a set above their
\* account (add_member and remove_member lock a set against no posting); those
\* too are in every set their account is directly in.  Memberships change only
\* while the member has no history, and those of an account while no posting of
\* it is in flight, so that only the sets above can overtake one.
THEOREM HistoryIsMembers == Spec => []SetHistoryIsItsMembers
<1>1. Inv => SetHistoryIsItsMembers
  BY DEF Inv, SetHistoryIsItsMembers, DirectlyHeld, Graph
<1> QED  BY Invariant, <1>1, PTL

\* The committed graph is free of cycles, double containment and chains too
\* deep: the checks of a request (validate_set_memberships,
\* assert_no_double_membership) read enough of it, and an account created in
\* one set without them (NewAccount::initial_account_set) cannot harm.
THEOREM GraphIsSound == Spec => []GraphSound
<1>1. Inv => GraphSound
  <2> SUFFICES ASSUME Inv  PROVE Sound(Graph)
    BY DEF GraphSound, Graph
  <2> QED  BY SoundIsValid DEF Inv
<1> QED  BY Invariant, <1>1, PTL

\* Both reads of the existing edges are of a part of the graph with the request.
LEMMA RequestIs ==
  ASSUME Inv, NEW P \in Menu[scene].setRequests, NEW existing \in Existing(P)
  PROVE  /\ P \in Seq(Sets \X Sets)
         /\ \E N : IsRequest(P, SetEdges, AccountEdges, N, existing)
<1>1. P \in Seq(Sets \X Sets)
  BY Request
<1>2. PICK N : IsNear(N, existing, SetEdges, P)
  BY <1>1, Edges, NearExists DEF Existing
<1>3. IsRequest(P, SetEdges, AccountEdges, N, existing)
  BY <1>1, <1>2, Edges DEF IsRequest, Inv, Graph
<1> QED  BY <1>1, <1>3

\* Every request is told what counting the chains of containment over the
\* whole graph says, a cycle, a second chain or a chain too deep, although the
\* checks read a part of it, from the cache or from the table, and walk no
\* chains (validate_set_memberships, assert_no_double_membership).
THEOREM VerdictIsDue == Spec => []VerdictExact
<1>1. Inv => VerdictExact
  <2> SUFFICES ASSUME Inv  PROVE VerdictExact
    OBVIOUS
  <2>1. ASSUME NEW P \in Menu[scene].setRequests, NEW existing \in Existing(P)
        PROVE  SetVerdict(P, existing, AccountEdges).error
                 = DueError(P, SetEdges \cup AccountEdges)
    BY <2>1, RequestIs, SetVerdictIsDue
  <2>2. ASSUME NEW Q \in Menu[scene].accountRequests
        PROVE  AccountVerdict(Q, SetEdges, AccountEdges).error
                 = DueError(Q, SetEdges \cup AccountEdges)
    <3>1. Q \in Seq(Sets \X Accounts) /\ Valid(SetEdges \cup AccountEdges)
      BY Request DEF Inv, Graph
    <3> QED  BY <3>1, Edges, AccountVerdictIsDue
  <2> QED  BY <2>1, <2>2 DEF VerdictExact
<1> QED  BY Invariant, <1>1, PTL

\* The edge named is the first that closes a cycle, or the first with which the
\* edges up to it are too deep (validate_set_memberships,
\* first_depth_overflow), over either read: a walk down from each edge and a
\* binary search agree with counting chains over each prefix of the request.
THEOREM BlameIsTheFirst == Spec => []BlamesFirst
<1>1. Inv => BlamesFirst
  <2> SUFFICES ASSUME Inv  PROVE BlamesFirst
    OBVIOUS
  <2>1. ASSUME NEW P \in Menu[scene].setRequests, NEW existing \in Existing(P)
        PROVE  IsBlamed(SetVerdict(P, existing, AccountEdges), P, SetEdges)
    BY <2>1, RequestIs, BlameIsFirst
  <2>2. ASSUME NEW P \in Menu[scene].setRequests, NEW i
        PROVE  Closes(i, P, SetEdges) <=>
                 \E c \in Upto(Len(P), P, SetEdges) :
                   Top(c) = Bottom(c) /\ <<i, P[i]>> \in ToSet(c)
    <3>1. SubSeq(P, 1, Len(P)) = P
      <4>1. P \in Seq(Sets \X Sets)
        BY Request DEF Inv
      <4> QED  BY <4>1
    <3> QED  BY <3>1 DEF Closes, Upto
  <2> QED  BY <2>1, <2>2 DEF BlamesFirst, IsBlamed, Upto
<1> QED  BY Invariant, <1>1, PTL

----------------------------------------------------------------------------
(* Pages *)

\* Sort keys of one width.
Tuples(n) == {t \in Seq(Int) : Len(t) = n}

\* Before orders them totally.
Comparable(K) ==
  /\ \A a \in K : ~Before(a, a)
  /\ \A a, b, c \in K : Before(a, b) /\ Before(b, c) => Before(a, c)
  /\ \A a, b \in K : a # b => Before(a, b) \/ Before(b, a)

LEMMA Compares ==
  ASSUME NEW n \in Nat, NEW K \in SUBSET Tuples(n)
  PROVE  Comparable(K)
<1>1. \A a \in K : DOMAIN a = 1..n /\ \A i \in 1..n : a[i] \in Int
  BY DEF Tuples
<1>2. \A a, b \in K : (\A i \in 1..n : a[i] = b[i]) => a = b
  BY DEF Tuples
<1>3. ASSUME NEW a \in K  PROVE ~Before(a, a)
  BY <1>1 DEF Before
<1>4. ASSUME NEW a \in K, NEW b \in K, NEW c \in K, Before(a, b), Before(b, c)
      PROVE  Before(a, c)
  <2>1. PICK i \in 1..n : a[i] < b[i] /\ \A j \in 1..(i - 1) : a[j] = b[j]
    BY <1>1, <1>4 DEF Before
  <2>2. PICK k \in 1..n : b[k] < c[k] /\ \A j \in 1..(k - 1) : b[j] = c[j]
    BY <1>1, <1>4 DEF Before
  <2>3. CASE i < k
    <3>1. i \in 1..(k - 1) /\ \A j \in 1..(i - 1) : j \in 1..(k - 1)
      BY <2>3
    <3>2. a[i] < c[i] /\ \A j \in 1..(i - 1) : a[j] = c[j]
      BY <2>1, <2>2, <3>1
    <3> QED  BY <1>1, <3>2 DEF Before
  <2>4. CASE k < i
    <3>1. k \in 1..(i - 1) /\ \A j \in 1..(k - 1) : j \in 1..(i - 1)
      BY <2>4
    <3>2. a[k] < c[k] /\ \A j \in 1..(k - 1) : a[j] = c[j]
      BY <2>1, <2>2, <3>1
    <3> QED  BY <1>1, <3>2 DEF Before
  <2>5. CASE i = k
    <3>1. a[i] < c[i]
      BY <1>1, <2>1, <2>2, <2>5
    <3>2. \A j \in 1..(i - 1) : a[j] = c[j]
      BY <2>1, <2>2, <2>5
    <3> QED  BY <1>1, <3>1, <3>2 DEF Before
  <2> QED  BY <2>3, <2>4, <2>5
<1>5. ASSUME NEW a \in K, NEW b \in K, a # b  PROVE Before(a, b) \/ Before(b, a)
  <2> DEFINE D == {i \in 1..n : a[i] # b[i]}
  <2>1. D \in SUBSET Nat /\ D # {}
    BY <1>2, <1>5
  <2>2. PICK i \in D : \A j \in D : i <= j
    BY <2>1, LeastNat
  <2>3. \A j \in 1..(i - 1) : a[j] = b[j]
    <3> SUFFICES ASSUME NEW j \in 1..(i - 1), a[j] # b[j]  PROVE FALSE
      OBVIOUS
    <3>1. i \in 1..n
      OBVIOUS
    <3>2. j \in D /\ ~ (i <= j)
      BY <3>1
    <3> QED  BY <2>2, <3>2
  <2>4. a[i] < b[i] \/ b[i] < a[i]
    BY <1>1
  <2> QED  BY <1>1, <2>3, <2>4 DEF Before
<1> QED  BY <1>3, <1>4, <1>5 DEF Comparable

\* In order, and each of K once.
Sorted(s) == \A i, j \in 1..Len(s) : i < j => Before(s[i], s[j])

Orders(s, K) ==
  /\ s \in Seq(K) /\ Sorted(s)
  /\ \A k \in K : \E i \in 1..Len(s) : s[i] = k
  /\ Len(s) \in Nat /\ ToSet(s) = K /\ (s = << >> <=> K = {})

LEMMA InOrderOrders ==
  ASSUME NEW K, IsFiniteSet(K), Comparable(K)
  PROVE  Orders(InOrder(K), K)
<1> DEFINE R == {p \in K \X K : Before(p[1], p[2])}
           n == Cardinality(K)
           below == [k \in K |-> {j \in K : <<j, k>> \in R}]
<1>0. \A a, b \in K : <<a, b>> \in R <=> Before(a, b)
  OBVIOUS
<1>1. n \in Nat
  BY FS_CardinalityType
<1> HIDE DEF R, n
<1>2. PICK q : Lists(q, K, R)
  <2>1. /\ \A x \in K : <<x, x>> \notin R
        /\ \A x, y, z \in K : <<x, y>> \in R /\ <<y, z>> \in R => <<x, z>> \in R
        /\ \A x, y \in K : x # y => <<x, y>> \in R \/ <<y, x>> \in R
    BY <1>0 DEF Comparable
  <2> QED  BY <2>1, ListExists
<1>3. InSequence(q, n, K, R)
  BY <1>1, <1>2 DEF Lists, InSequence, n
<1>4. \A x \in K : below[x] = {y \in K : <<y, x>> \in R}
  OBVIOUS
<1> HIDE DEF below
<1>5. Ranked(q, n, K, below)
  BY <1>1, <1>3, <1>4, ListRanks
<1>6. q \in [1..n -> K]
  BY <1>3 DEF InSequence
<1>7. ASSUME NEW i \in 1..n
      PROVE  (CHOOSE k \in K : Cardinality({j \in K : Before(j, k)}) = i - 1) = q[i]
  <2>1. \A k \in K : below[k] = {j \in K : Before(j, k)}
    BY <1>0, <1>4
  <2>2. \A k \in K : Cardinality({j \in K : Before(j, k)}) = i - 1 <=> k = q[i]
    BY <1>5, <2>1 DEF Ranked
  <2>3. q[i] \in K
    BY <1>6
  <2> QED  BY <2>2, <2>3
<1>8. InOrder(K) = q
  <2>1. InOrder(K) = [i \in 1..n |-> q[i]]
    BY <1>7 DEF InOrder, n
  <2> QED  BY <1>6, <2>1
<1>9. q \in Seq(K) /\ Len(q) = n /\ DOMAIN q = 1..n
  BY <1>1, <1>6
<1>10. Sorted(q)
  BY <1>0, <1>3, <1>6, <1>9 DEF Sorted, InSequence
<1>11. \A k \in K : \E i \in 1..Len(q) : q[i] = k
  BY <1>3, <1>9 DEF InSequence
<1>12. ToSet(q) = K
  BY <1>6, <1>9, <1>11 DEF ToSet
<1>13. q = << >> <=> K = {}
  <2>1. ASSUME K = {}  PROVE q = << >>
    <3>1. n = 0
      BY <2>1, FS_EmptySet DEF n
    <3> QED  BY <1>9, <3>1
  <2>2. ASSUME q = << >>  PROVE K = {}
    BY <1>11, <2>2
  <2> QED  BY <2>1, <2>2
<1>14. Orders(q, K)
  BY <1>1, <1>9, <1>10, <1>11, <1>12, <1>13 DEF Orders
<1> QED  BY <1>8, <1>14

----------------------------------------------------------------------------

\* The first of K, however many.
Heads(E, K) == E \subseteq K /\ \A k \in E : \A j \in K : Before(j, k) => j \in E

LEMMA LimitIs ==
  ASSUME NEW K, IsFiniteSet(K), Comparable(K), NEW n \in Nat, NEW E, E = Limit(K, n)
  PROVE  /\ Heads(E, K) /\ IsFiniteSet(E) /\ Cardinality(E) \in Nat
         /\ Cardinality(E) < n => E = K
         /\ Cardinality(K) <= n => E = K
         /\ n > 0 /\ E = {} => K = {}
<1> DEFINE below(k) == {j \in K : Before(j, k)}
<1>1. /\ E = {k \in K : Cardinality(below(k)) < n}
      /\ E \subseteq K
  BY DEF Limit
<1>2. \A k : IsFiniteSet(below(k)) /\ Cardinality(below(k)) \in Nat
  <2> SUFFICES ASSUME NEW k  PROVE IsFiniteSet(below(k)) /\ Cardinality(below(k)) \in Nat
    OBVIOUS
  <2>1. below(k) \subseteq K
    OBVIOUS
  <2> HIDE DEF below
  <2> QED  BY <2>1, FS_Subset, FS_CardinalityType
<1>3. IsFiniteSet(E) /\ Cardinality(E) \in Nat
  BY <1>1, FS_Subset, FS_CardinalityType
<1>4. Heads(E, K)
  <2> SUFFICES ASSUME NEW k \in E, NEW j \in K, Before(j, k)  PROVE j \in E
    BY <1>1 DEF Heads
  <2>1. below(j) \subseteq below(k)
    BY <1>1 DEF Comparable
  <2>2. Cardinality(below(j)) <= Cardinality(below(k))
    <3> HIDE DEF below
    <3> QED  BY <1>2, <2>1, FS_Subset
  <2> HIDE DEF below
  <2> QED  BY <1>1, <1>2, <2>2
<1>5. ASSUME Cardinality(E) < n  PROVE E = K
  <2> SUFFICES ASSUME E # K  PROVE FALSE
    OBVIOUS
  <2> DEFINE R == {p \in K \X K : Before(p[2], p[1])}
             D == K \ E
  <2>1. /\ \A x \in K : <<x, x>> \notin R
        /\ \A x, y, z \in K : <<x, y>> \in R /\ <<y, z>> \in R => <<x, z>> \in R
    BY DEF Comparable
  <2>2. D \in SUBSET K /\ D # {}
    BY <1>1
  <2>3. \A x, y \in K : <<x, y>> \in R <=> Before(y, x)
    OBVIOUS
  <2> HIDE DEF R, D
  <2>4. PICK k \in D : \A y \in D : <<k, y>> \notin R
    BY <2>1, <2>2, FiniteMaximal
  <2>5. below(k) \subseteq E
    BY <2>2, <2>3, <2>4 DEF D
  <2>6. Cardinality(below(k)) <= Cardinality(E)
    <3> HIDE DEF below
    <3> QED  BY <1>3, <2>5, FS_Subset
  <2>7. k \in E
    <3> HIDE DEF below
    <3> QED  BY <1>1, <1>2, <1>3, <1>5, <2>2, <2>6
  <2> QED  BY <2>7 DEF D
<1>6. ASSUME Cardinality(K) <= n  PROVE E = K
  <2> SUFFICES ASSUME NEW k \in K  PROVE k \in E
    BY <1>1
  <2>1. below(k) \subseteq K \ {k}
    BY DEF Comparable
  <2>2. /\ IsFiniteSet(K \ {k}) /\ Cardinality(K \ {k}) = Cardinality(K) - 1
        /\ Cardinality(K) \in Nat
    BY FS_RemoveElement, FS_CardinalityType
  <2>3. Cardinality(below(k)) <= Cardinality(K \ {k})
    <3> HIDE DEF below
    <3> QED  BY <2>1, <2>2, FS_Subset
  <2> HIDE DEF below
  <2> QED  BY <1>1, <1>2, <1>6, <2>2, <2>3
<1>7. ASSUME n > 0, E = {}  PROVE K = {}
  <2>1. Cardinality(E) = 0
    BY <1>7, FS_EmptySet
  <2> QED  BY <1>5, <1>7, <2>1
<1> QED  BY <1>3, <1>4, <1>5, <1>6, <1>7

LEMMA SomeCompare ==
  ASSUME NEW K, Comparable(K), NEW A \in SUBSET K
  PROVE  Comparable(A)
BY DEF Comparable

LEMMA HeadsOfHeads ==
  ASSUME NEW K, NEW F, Heads(F, K), NEW E, Heads(E, F)
  PROVE  Heads(E, K)
BY DEF Heads

\* The rows fetched for a page: the first of those that are left, and if they
\* do not exceed it, all.
Fetched(F, A, first) ==
  /\ Heads(F, A) /\ IsFiniteSet(F) /\ Cardinality(F) \in Nat
  /\ Cardinality(F) <= first => F = A

LEMMA LimitFetches ==
  ASSUME NEW A, IsFiniteSet(A), Comparable(A), NEW first \in Nat
  PROVE  Fetched(Limit(A, first + 1), A, first)
<1> DEFINE F == Limit(A, first + 1)
           n == first + 1
<1>1. n \in Nat /\ F = Limit(A, n)
  OBVIOUS
<1> HIDE DEF F, n
<1>2. /\ Heads(F, A) /\ IsFiniteSet(F) /\ Cardinality(F) \in Nat
      /\ Cardinality(F) < n => F = A
  BY <1>1, LimitIs
<1>3. Cardinality(F) <= first => Cardinality(F) < n
  BY <1>2 DEF n
<1>4. Fetched(F, A, first)
  BY <1>2, <1>3 DEF Fetched
<1> QED  BY <1>4 DEF F

\* Two tables merged: what is fetched of each is enough.
LEMMA MergeFetches ==
  ASSUME NEW A, IsFiniteSet(A), NEW B, IsFiniteSet(B), Comparable(A \cup B),
         NEW first \in Nat,
         NEW LA, LA = Limit(A, first + 1), NEW LB, LB = Limit(B, first + 1)
  PROVE  Fetched(Limit(LA \cup LB, first + 1), A \cup B, first)
<1> DEFINE n == first + 1
           U == LA \cup LB
           F == Limit(U, n)
<1>0. n \in Nat
  OBVIOUS
<1>1. Comparable(A) /\ Comparable(B)
  BY SomeCompare
<1>2. Fetched(LA, A, first) /\ Fetched(LB, B, first)
  BY <1>1, LimitFetches
<1>3. /\ LA \subseteq A /\ LB \subseteq B /\ IsFiniteSet(LA) /\ IsFiniteSet(LB)
      /\ Cardinality(LA) \in Nat /\ Cardinality(LB) \in Nat
  BY <1>2 DEF Fetched, Heads
<1>4. IsFiniteSet(U) /\ Comparable(U) /\ U \subseteq A \cup B
  <2>1. IsFiniteSet(U)
    BY <1>3, FS_Union
  <2>2. U \in SUBSET (A \cup B)
    BY <1>3
  <2> HIDE DEF U
  <2>3. Comparable(U)
    BY <2>2, SomeCompare
  <2> QED  BY <2>1, <2>2, <2>3
<1>5. Fetched(F, U, first)
  <2> HIDE DEF U
  <2> QED  BY <1>4, LimitFetches
<1>6. ASSUME Cardinality(F) <= first  PROVE F = A \cup B
  <2>1. F = U
    BY <1>5, <1>6 DEF Fetched
  <2>2. Cardinality(LA) <= Cardinality(U) /\ Cardinality(LB) <= Cardinality(U)
        /\ Cardinality(U) \in Nat
    <3>1. LA \subseteq U /\ LB \subseteq U
      OBVIOUS
    <3> HIDE DEF U, F
    <3> QED  BY <1>4, <3>1, FS_Subset, FS_CardinalityType
  <2> HIDE DEF F
  <2>3. Cardinality(LA) <= first /\ Cardinality(LB) <= first
    <3>1. Cardinality(U) <= first
      BY <1>6, <2>1
    <3> HIDE DEF U
    <3> QED  BY <1>3, <2>2, <3>1
  <2>4. LA = A /\ LB = B
    BY <1>2, <2>3 DEF Fetched
  <2> QED  BY <2>1, <2>4
\* What one table has beyond what is fetched of it is beyond the page.
<1>7. ASSUME NEW X \in SUBSET (A \cup B), NEW L \in SUBSET U, Fetched(L, X, first),
             NEW k \in F, NEW j \in X, Before(j, k)
      PROVE  j \in F
  <2>0. k \in U /\ Heads(F, U)
    BY <1>5 DEF Fetched, Heads
  <2>1. CASE j \in L
    BY <1>7, <2>0, <2>1 DEF Heads
  <2>2. CASE j \notin L
    <3>1. Cardinality(L) \in Nat /\ ~ (Cardinality(L) <= first) /\ Heads(L, X)
      BY <1>7, <2>2 DEF Fetched
    <3>2. \A i \in L : Before(i, j)
      BY <1>7, <2>2, <3>1 DEF Heads, Comparable
    <3> DEFINE below == {i \in U : Before(i, k)}
    <3>3. L \subseteq below
      <4> HIDE DEF U, F
      <4>1. \A i \in L : i \in U /\ i \in A \cup B /\ k \in A \cup B /\ j \in A \cup B
        BY <1>4, <1>7, <2>0
      <4> QED  BY <1>7, <3>2, <4>1 DEF Comparable
    <3>4. Cardinality(L) <= Cardinality(below) /\ Cardinality(below) \in Nat
      <4>1. below \subseteq U
        OBVIOUS
      <4> HIDE DEF below, U
      <4> QED  BY <1>4, <3>3, <4>1, FS_Subset, FS_CardinalityType
    <3>5. Cardinality(below) < n
      <4> HIDE DEF U, n
      <4> QED  BY DEF Limit
    <3> HIDE DEF below, U, F
    <3> QED  BY <3>1, <3>4, <3>5
  <2> QED  BY <2>1, <2>2
<1>8. Heads(F, A \cup B)
  <2>1. LA \subseteq U /\ LB \subseteq U /\ A \in SUBSET (A \cup B) /\ B \in SUBSET (A \cup B)
    OBVIOUS
  <2>2. F \subseteq A \cup B
    BY <1>4, <1>5 DEF Fetched, Heads
  <2> HIDE DEF U, F
  <2> SUFFICES ASSUME NEW k \in F, NEW j \in A \cup B, Before(j, k)  PROVE j \in F
    BY <2>2 DEF Heads
  <2>3. CASE j \in A
    BY <1>2, <1>7, <2>1, <2>3
  <2>4. CASE j \in B
    BY <1>2, <1>7, <2>1, <2>4
  <2> QED  BY <2>3, <2>4
<1>9. Fetched(F, A \cup B, first)
  BY <1>5, <1>6, <1>8 DEF Fetched
<1> QED  BY <1>9

\* A page of the rows A that are left: the first of them in order, and whether
\* there are more.
IsPage(page, A, first) ==
  /\ Orders(page.entities, Limit(A, first))
  /\ page.has_next_page \in BOOLEAN
  /\ page.has_next_page <=> Cardinality(A) > first

\* Its cursor is that of its last row.
EndsAtLast(page) ==
  page.entities # << >> =>
    /\ page.end_cursor \in ToSet(page.entities)
    /\ \A k \in ToSet(page.entities) : ~Before(page.end_cursor, k)

\* A set of rows has a last one.
LEMMA LastOfIs ==
  ASSUME NEW K, IsFiniteSet(K), Comparable(K), K # {}, NEW c
  PROVE  LastOf(K, c) \in K /\ \A j \in K : ~Before(LastOf(K, c), j)
<1> DEFINE R == {p \in K \X K : Before(p[1], p[2])}
<1>1. /\ \A x \in K : <<x, x>> \notin R
      /\ \A x, y, z \in K : <<x, y>> \in R /\ <<y, z>> \in R => <<x, z>> \in R
  BY DEF Comparable
<1>2. \A x, y \in K : <<x, y>> \in R <=> Before(x, y)
  OBVIOUS
<1> HIDE DEF R
<1>3. \E x \in K : \A y \in K : <<x, y>> \notin R
  <2>1. K \in SUBSET K
    OBVIOUS
  <2> QED  BY <1>1, <2>1, FiniteMaximal
<1>4. \E x \in K : \A y \in K : ~Before(x, y)
  BY <1>2, <1>3
<1> QED  BY <1>4 DEF LastOf

\* The first of A are the rows that Limit takes, if there are as many.
LEMMA HeadsAreLimit ==
  ASSUME NEW A, IsFiniteSet(A), Comparable(A), NEW n \in Nat,
         NEW E, Heads(E, A), Cardinality(E) <= n, Cardinality(E) < n => E = A
  PROVE  E = Limit(A, n)
<1> DEFINE below(k) == {j \in A : Before(j, k)}
<1>1. IsFiniteSet(E) /\ Cardinality(E) \in Nat /\ E \subseteq A
  BY FS_Subset, FS_CardinalityType DEF Heads
<1>2. ASSUME NEW k \in E  PROVE Cardinality(below(k)) < n
  <2>1. below(k) \subseteq E \ {k}
    BY <1>1 DEF Heads, Comparable
  <2> HIDE DEF below
  <2>2. IsFiniteSet(E \ {k}) /\ Cardinality(E \ {k}) = Cardinality(E) - 1
    BY <1>1, FS_RemoveElement
  <2>3. Cardinality(below(k)) <= Cardinality(E \ {k}) /\ Cardinality(below(k)) \in Nat
    BY <2>1, <2>2, FS_Subset, FS_CardinalityType
  <2> QED  BY <1>1, <2>2, <2>3
<1>3. ASSUME NEW k \in A, k \notin E  PROVE ~(Cardinality(below(k)) < n)
  <2>1. Cardinality(E) = n
    BY <1>1, <1>3
  <2>2. E \subseteq below(k)
    <3> SUFFICES ASSUME NEW j \in E  PROVE Before(j, k)
      BY <1>1
    <3>1. ~Before(k, j) /\ k # j /\ j \in A
      BY <1>1, <1>3 DEF Heads
    <3> QED  BY <1>3, <3>1 DEF Comparable
  <2>3. IsFiniteSet(below(k))
    BY FS_Subset
  <2> HIDE DEF below
  <2>4. Cardinality(E) <= Cardinality(below(k)) /\ Cardinality(below(k)) \in Nat
    BY <2>2, <2>3, FS_Subset, FS_CardinalityType
  <2> QED  BY <2>1, <2>4
<1>4. \A k : k \in Limit(A, n) <=> k \in A /\ Cardinality(below(k)) < n
  BY DEF Limit
<1> HIDE DEF below
<1> QED  BY <1>1, <1>2, <1>3, <1>4

\* Limit takes no more than it says.
LEMMA LimitSize ==
  ASSUME NEW A, IsFiniteSet(A), Comparable(A), NEW n \in Nat,
         NEW E, E = Limit(A, n)
  PROVE  Cardinality(E) <= n
<1>1. Heads(E, A) /\ IsFiniteSet(E) /\ Cardinality(E) \in Nat /\ E \subseteq A
  BY LimitIs DEF Heads
<1>2. CASE E = {}
  BY <1>2, FS_EmptySet
<1>3. CASE E # {}
  <2>1. Comparable(E)
    BY <1>1, SomeCompare
  <2>2. PICK k \in E : \A j \in E : ~Before(k, j)
    BY <1>1, <1>3, <2>1, LastOfIs
  <2> DEFINE below == {j \in A : Before(j, k)}
  <2>3. E \ {k} \subseteq below
    BY <1>1, <2>2 DEF Comparable
  <2>4. Cardinality(below) < n
    BY <2>2 DEF Limit
  <2>5. IsFiniteSet(below)
    BY FS_Subset
  <2> HIDE DEF below
  <2>6. Cardinality(E \ {k}) = Cardinality(E) - 1
    BY <1>1, FS_RemoveElement
  <2>7. Cardinality(E \ {k}) <= Cardinality(below) /\ Cardinality(below) \in Nat
    BY <2>3, <2>5, FS_Subset, FS_CardinalityType
  <2> QED  BY <1>1, <2>4, <2>6, <2>7
<1> QED  BY <1>2, <1>3

LEMMA PagedIs ==
  ASSUME NEW A, IsFiniteSet(A), Comparable(A), NEW first \in Nat,
         NEW F, Fetched(F, A, first), NEW c,
         NEW page, page = Paged(F, c, first)
  PROVE  IsPage(page, A, first) /\ EndsAtLast(page)
<1> DEFINE E == Limit(F, first)
           more == Cardinality(F) > first
<1>1. page = [entities |-> InOrder(E), has_next_page |-> more,
              end_cursor |-> LastOf(E, c)]
  BY DEF Paged
<1>2. /\ page.entities = InOrder(E) /\ page.end_cursor = LastOf(E, c)
      /\ page.has_next_page = more /\ more \in BOOLEAN
  BY <1>1
<1>3. /\ F \subseteq A /\ IsFiniteSet(F) /\ Comparable(F) /\ Heads(F, A)
      /\ Cardinality(F) \in Nat /\ Cardinality(A) \in Nat
      /\ Cardinality(F) <= Cardinality(A)
      /\ Cardinality(F) <= first => F = A
  BY SomeCompare, FS_Subset, FS_CardinalityType DEF Fetched, Heads
<1>4. more <=> Cardinality(A) > first
  BY <1>3
<1>5. E = Limit(F, first)
  OBVIOUS
<1> HIDE DEF E, more
<1>6. /\ Heads(E, F) /\ IsFiniteSet(E) /\ Cardinality(E) \in Nat
      /\ Cardinality(E) < first => E = F
      /\ Cardinality(E) <= first
  BY <1>3, <1>5, LimitIs, LimitSize
<1>7. E = Limit(A, first)
  <2>1. Heads(E, A)
    BY <1>3, <1>6, HeadsOfHeads
  <2>2. Cardinality(E) < first => E = A
    BY <1>3, <1>6
  <2> QED  BY <1>6, <2>1, <2>2, HeadsAreLimit
<1>8. Comparable(E)
  BY <1>3, <1>6, SomeCompare DEF Heads
<1>9. Orders(InOrder(E), E)
  BY <1>6, <1>8, InOrderOrders
<1>10. IsPage(page, A, first)
  BY <1>2, <1>4, <1>7, <1>9 DEF IsPage
<1>11. EndsAtLast(page)
  <2> SUFFICES ASSUME E # {}
               PROVE  LastOf(E, c) \in E /\ \A k \in E : ~Before(LastOf(E, c), k)
    BY <1>2, <1>9 DEF EndsAtLast, Orders
  <2> QED  BY <1>6, <1>8, LastOfIs
<1> QED  BY <1>10, <1>11

\* What a client has of a page.
LEMMA PageHas ==
  ASSUME NEW A, IsFiniteSet(A), Comparable(A), NEW first \in Nat,
         NEW page, IsPage(page, A, first), NEW E, E = Limit(A, first)
  PROVE  /\ Orders(page.entities, E) /\ Heads(E, A)
         /\ ~page.has_next_page => E = A
         /\ page.has_next_page /\ first > 0 => E # {}
<1>1. /\ Heads(E, A) /\ Cardinality(A) \in Nat
      /\ Cardinality(A) <= first => E = A
      /\ first > 0 /\ E = {} => A = {}
  BY LimitIs, FS_CardinalityType
<1>2. A = {} => Cardinality(A) = 0
  BY FS_EmptySet
<1>3. /\ Orders(page.entities, E)
      /\ page.has_next_page <=> Cardinality(A) > first
  BY DEF IsPage
<1> QED  BY <1>1, <1>2, <1>3

\* The queries of one table.
LEMMA KeysetIs ==
  ASSUME NEW K, IsFiniteSet(K), Comparable(K), NEW first \in Nat, NEW c,
         NEW page, page = Keyset(K, c, first)
  PROVE  IsPage(page, After(K, c), first) /\ EndsAtLast(page)
<1> DEFINE A == After(K, c)
<1>1. A \subseteq K
  BY DEF After
<1> HIDE DEF A
<1>2. IsFiniteSet(A) /\ Comparable(A)
  BY <1>1, FS_Subset, SomeCompare
<1>3. Fetched(Limit(A, first + 1), A, first)
  BY <1>2, LimitFetches
<1> DEFINE F == Limit(A, first + 1)
<1>4. Fetched(F, A, first) /\ page = Paged(F, c, first)
  BY <1>3 DEF Keyset, A
<1> HIDE DEF F
<1>5. IsPage(page, A, first) /\ EndsAtLast(page)
  BY <1>2, <1>4, PagedIs
<1> QED  BY <1>5 DEF A

----------------------------------------------------------------------------
(* What is listed *)

\* The width of their sort keys.
Width(l) ==
  IF l.query \in {"balances_of_account", "effective_of_account", "ranges_of_account"}
  THEN 1 ELSE IF l.query = "members_by_external_id" THEN 3 ELSE 2

\* Sort keys are finitely many and of one width.
Keyed(K, n) == IsFiniteSet(K) /\ K \in SUBSET Tuples(n)

LEMMA KeyedCompare ==
  ASSUME NEW n \in Nat, NEW K, Keyed(K, n)
  PROVE  IsFiniteSet(K) /\ Comparable(K)
BY Compares DEF Keyed

LEMMA ImageKeyed ==
  ASSUME NEW S, IsFiniteSet(S), NEW n, NEW f, \A x \in S : f[x] \in Tuples(n),
         NEW K, K = {f[x] : x \in S}
  PROVE  Keyed(K, n)
<1> DEFINE g == [x \in S |-> f[x]]
<1>1. g \in Surjection(S, K)
  BY DEF Surjection
<1> HIDE DEF g
<1>2. IsFiniteSet(K)
  BY <1>1, FS_Surjection
<1> QED  BY <1>2 DEF Keyed

LEMMA UnionKeyed ==
  ASSUME NEW n, NEW K, Keyed(K, n), NEW J, Keyed(J, n)
  PROVE  Keyed(K \cup J, n)
BY FS_Union DEF Keyed

LEMMA TuplesAre ==
  /\ \A a \in Int : <<a>> \in Tuples(1)
  /\ \A a, b \in Int : <<a, b>> \in Tuples(2)
  /\ \A a, b, c \in Int : <<a, b, c>> \in Tuples(3)
BY DEF Tuples

\* The columns hold numbers.
Numbered(rows) ==
  /\ IsFiniteSet(rows)
  /\ \A r \in rows : /\ r.set \in Int /\ r.member \in Int /\ r.at \in Int
                     /\ Name(r.set) \in Int
                     /\ ExternalId(r.member) \in Int \cup {NoValue}

NumberedHistory ==
  /\ IsFiniteSet(history)
  /\ \A h \in history : /\ h.holder \in Int /\ h.entry \in Int /\ h.at \in Int
                        /\ h.currency \in Int

LEMMA Numbers ==
  ASSUME Inv
  PROVE  Numbered(accountMembers) /\ Numbered(setMembers) /\ NumberedHistory
<1>1. /\ Holds(setMembers, Sets, now) /\ Holds(accountMembers, created, now)
      /\ HistoryOK /\ created \subseteq Accounts /\ now \in Nat
  BY BoundAssumption DEF Inv, RowsOK, StateOK
<1>2. 1..now \subseteq Int /\ Nat \subseteq Int
  BY <1>1
<1>3. /\ \A s \in Sets : s \in Int /\ Name(s) \in Int
      /\ \A x \in Sets \cup Accounts : x \in Int /\ ExternalId(x) \in Int \cup {NoValue}
  BY NumbersAssumption
<1>4. ASSUME NEW X \in SUBSET (Sets \cup Accounts), NEW rows, Holds(rows, X, now)
      PROVE  Numbered(rows)
  BY <1>2, <1>3, <1>4 DEF Holds, MembershipRows, Numbered
<1>5. Sets \in SUBSET (Sets \cup Accounts) /\ created \in SUBSET (Sets \cup Accounts)
  BY <1>1
<1>6. NumberedHistory
  BY <1>1, <1>2, <1>3 DEF HistoryOK, HistoryRows, NumberedHistory
<1> QED  BY <1>1, <1>4, <1>5, <1>6

LEMMA SomeFinite ==
  ASSUME NEW S, IsFiniteSet(S), NEW T \in SUBSET S
  PROVE  IsFiniteSet(T)
BY FS_Subset

LEMMA NewestFirstKeyed ==
  ASSUME NEW rows, Numbered(rows), NEW s
  PROVE  Keyed(NewestFirst(rows, s), 2)
<1> DEFINE T == {r \in rows : r.set = s}
           f == [m \in T |-> <<0 - m.at, 0 - m.member>>]
           K == NewestFirst(rows, s)
<1>1. IsFiniteSet(T)
  <2>1. T \in SUBSET rows
    OBVIOUS
  <2> HIDE DEF T
  <2> QED  BY <2>1, SomeFinite DEF Numbered
<1>2. \A m \in T : f[m] \in Tuples(2)
  <2>1. \A m \in T : 0 - m.at \in Int /\ 0 - m.member \in Int
    BY DEF Numbered
  <2> HIDE DEF T
  <2> QED  BY <2>1, TuplesAre
<1>3. K = {f[m] : m \in T}
  BY DEF NewestFirst
<1> HIDE DEF T, f, K
<1>4. Keyed(K, 2)
  BY <1>1, <1>2, <1>3, ImageKeyed
<1> QED  BY <1>4 DEF K

\* Those with an external id come first.
LEMMA ByExternalIdKeyed ==
  ASSUME NEW rows, Numbered(rows), NEW s
  PROVE  /\ Keyed(ByExternalId(rows, s), 3)
         /\ \A k \in ByExternalId(rows, s) : k[1] \in {0, 1}
<1> DEFINE T == {r \in rows : r.set = s}
           f == [m \in T |->
                   <<IF ExternalId(m.member) = NoValue THEN 1 ELSE 0,
                     IF ExternalId(m.member) = NoValue THEN 0 ELSE ExternalId(m.member),
                     m.member>>]
           K == ByExternalId(rows, s)
<1>1. IsFiniteSet(T)
  <2>1. T \in SUBSET rows
    OBVIOUS
  <2> HIDE DEF T
  <2> QED  BY <2>1, SomeFinite DEF Numbered
<1>2. \A m \in T : f[m] \in Tuples(3) /\ f[m][1] \in {0, 1}
  <2> SUFFICES ASSUME NEW m \in T  PROVE f[m] \in Tuples(3) /\ f[m][1] \in {0, 1}
    OBVIOUS
  <2>1. ExternalId(m.member) \in Int \cup {NoValue} /\ m.member \in Int
    BY DEF Numbered
  <2> DEFINE a == IF ExternalId(m.member) = NoValue THEN 1 ELSE 0
             b == IF ExternalId(m.member) = NoValue THEN 0 ELSE ExternalId(m.member)
  <2>2. a \in {0, 1} /\ a \in Int /\ b \in Int /\ f[m] = <<a, b, m.member>>
    BY <2>1
  <2> HIDE DEF a, b, f
  <2> QED  BY <2>1, <2>2, TuplesAre
<1>3. K = {f[m] : m \in T}
  BY DEF ByExternalId
<1> HIDE DEF T, f, K
<1>4. Keyed(K, 3)
  BY <1>1, <1>2, <1>3, ImageKeyed
<1> QED  BY <1>2, <1>3, <1>4 DEF K

LEMMA ByNameKeyed ==
  ASSUME NEW rows, Numbered(rows), NEW x
  PROVE  Keyed(ByName(rows, x), 2)
<1> DEFINE T == {r \in rows : r.member = x}
           f == [m \in T |-> <<Name(m.set), m.set>>]
           K == ByName(rows, x)
<1>1. IsFiniteSet(T)
  <2>1. T \in SUBSET rows
    OBVIOUS
  <2> HIDE DEF T
  <2> QED  BY <2>1, SomeFinite DEF Numbered
<1>2. \A m \in T : f[m] \in Tuples(2)
  <2>1. \A m \in T : Name(m.set) \in Int /\ m.set \in Int
    BY DEF Numbered
  <2> HIDE DEF T
  <2> QED  BY <2>1, TuplesAre
<1>3. K = {f[m] : m \in T}
  BY DEF ByName
<1> HIDE DEF T, f, K
<1>4. Keyed(K, 2)
  BY <1>1, <1>2, <1>3, ImageKeyed
<1> QED  BY <1>4 DEF K

\* Balances, of one holder or of several.
LEMMA HoldersKeyed ==
  ASSUME NumberedHistory, NEW T \in SUBSET history,
         NEW K, K = {<<h.holder, h.currency>> : h \in T}
  PROVE  Keyed(K, 2) /\ Keyed({<<b[2]>> : b \in K}, 1)
<1> DEFINE f == [h \in T |-> <<h.holder, h.currency>>]
           g == [b \in K |-> <<b[2]>>]
           J == {<<b[2]>> : b \in K}
<1>1. IsFiniteSet(T)
  BY SomeFinite DEF NumberedHistory
<1>2. \A h \in T : h.holder \in Int /\ h.currency \in Int
  BY DEF NumberedHistory
<1>3. \A h \in T : f[h] \in Tuples(2)
  BY <1>2, TuplesAre
<1>4. K = {f[h] : h \in T}
  OBVIOUS
<1>5. \A b \in K : g[b] \in Tuples(1)
  <2>1. \A b \in K : b[2] \in Int
    BY <1>2
  <2> QED  BY <2>1, TuplesAre
<1>6. J = {g[b] : b \in K}
  OBVIOUS
<1> HIDE DEF f, g, J
<1>7. Keyed(K, 2)
  BY ONLY <1>1, <1>3, <1>4, ImageKeyed
<1>8. IsFiniteSet(K)
  BY <1>7 DEF Keyed
<1>9. Keyed(J, 1)
  BY <1>5, <1>6, <1>8, ImageKeyed
<1> QED  BY <1>7, <1>9 DEF J

LEMMA AsOfKeyed ==
  ASSUME NumberedHistory, NEW X, NEW d
  PROVE  Keyed(AsOf(X, d), 2) /\ Keyed({<<b[2]>> : b \in AsOf(X, d)}, 1)
<1> DEFINE T == {r \in history : r.holder \in X /\ r.effective <= d}
           K == AsOf(X, d)
<1>1. T \in SUBSET history /\ K = {<<h.holder, h.currency>> : h \in T}
  BY DEF AsOf
<1> HIDE DEF T, K
<1>2. Keyed(K, 2) /\ Keyed({<<b[2]>> : b \in K}, 1)
  BY <1>1, HoldersKeyed
<1> QED  BY <1>2 DEF K

LEMMA ByHolderKeyed ==
  ASSUME NumberedHistory, NEW X
  PROVE  Keyed(ByHolder(X), 2)
<1> DEFINE T == {r \in history : r.holder \in X}
           K == ByHolder(X)
<1>1. T \in SUBSET history /\ K = {<<h.holder, h.currency>> : h \in T}
  BY DEF ByHolder
<1> HIDE DEF T, K
<1>2. Keyed(K, 2)
  BY <1>1, HoldersKeyed
<1> QED  BY <1>2 DEF K

LEMMA ByCurrencyKeyed ==
  ASSUME NumberedHistory, NEW x
  PROVE  Keyed(ByCurrency(x), 1)
<1> DEFINE T == {r \in history : r.holder = x}
           f == [h \in T |-> <<h.currency>>]
           K == ByCurrency(x)
<1>1. IsFiniteSet(T)
  <2>1. T \in SUBSET history
    OBVIOUS
  <2> HIDE DEF T
  <2> QED  BY <2>1, SomeFinite DEF NumberedHistory
<1>2. \A h \in T : f[h] \in Tuples(1)
  <2>1. \A h \in T : h.currency \in Int
    BY DEF NumberedHistory
  <2> HIDE DEF T
  <2> QED  BY <2>1, TuplesAre
<1>3. K = {f[h] : h \in T}
  BY DEF ByCurrency
<1> HIDE DEF T, f, K
<1>4. Keyed(K, 1)
  BY <1>1, <1>2, <1>3, ImageKeyed
<1> QED  BY <1>4 DEF K

\* Entries, in either direction.
LEMMA EntriesKeyed ==
  ASSUME NumberedHistory, NEW T \in SUBSET history, NEW l
  PROVE  Keyed(Directed(l, {<<h.at, h.entry>> : h \in T}), 2)
<1> DEFINE f == [h \in T |-> <<h.at, h.entry>>]
           K == {<<h.at, h.entry>> : h \in T}
           g == [k \in K |-> <<0 - k[1], 0 - k[2]>>]
           J == {<<0 - k[1], 0 - k[2]>> : k \in K}
<1>1. IsFiniteSet(T)
  BY SomeFinite DEF NumberedHistory
<1>2. \A h \in T : h.at \in Int /\ h.entry \in Int
  BY DEF NumberedHistory
<1>3. \A h \in T : f[h] \in Tuples(2)
  BY <1>2, TuplesAre
<1>4. K = {f[h] : h \in T} /\ J = {g[k] : k \in K}
  OBVIOUS
<1>5. \A k \in K : g[k] \in Tuples(2)
  <2>1. \A k \in K : 0 - k[1] \in Int /\ 0 - k[2] \in Int
    BY <1>2
  <2> HIDE DEF K
  <2> QED  BY <2>1, TuplesAre
<1> HIDE DEF f, g, J, K
<1>6. Keyed(K, 2)
  BY <1>1, <1>3, <1>4, ImageKeyed
<1>7. IsFiniteSet(K)
  BY <1>6 DEF Keyed
<1>8. Keyed(J, 2)
  BY <1>4, <1>5, <1>7, ImageKeyed
<1>9. Keyed(Directed(l, K), 2)
  BY <1>6, <1>8 DEF Directed, J
<1> QED  BY <1>9 DEF K

LEMMA ListedKeyed ==
  ASSUME Inv, NEW l, l.query \in Queries
  PROVE  Width(l) \in Nat \ {0} /\ Keyed(Listed(l), Width(l))
<1>0. Numbered(accountMembers) /\ Numbered(setMembers) /\ NumberedHistory
  BY Numbers
<1>1. CASE l.query = "members_by_created_at"
  <2>1. Keyed(NewestFirst(accountMembers, l.of) \cup NewestFirst(setMembers, l.of), 2)
    BY <1>0, NewestFirstKeyed, UnionKeyed
  <2> QED  BY <1>1, <2>1 DEF Listed, Width
<1>2. CASE l.query = "members_by_external_id"
  <2>1. Keyed(ByExternalId(accountMembers, l.of) \cup ByExternalId(setMembers, l.of), 3)
    BY <1>0, ByExternalIdKeyed, UnionKeyed
  <2> QED  BY <1>2, <2>1 DEF Listed, Width
<1>3. CASE l.query = "sets_of_account"
  BY <1>0, <1>3, ByNameKeyed DEF Listed, Width
<1>4. CASE l.query = "sets_of_set"
  BY <1>0, <1>4, ByNameKeyed DEF Listed, Width
<1>5. CASE l.query = "balances_of_account"
  BY <1>0, <1>5, ByCurrencyKeyed DEF Listed, Width
<1>6. CASE l.query = "balances_of_accounts"
  BY <1>0, <1>6, ByHolderKeyed DEF Listed, Width
<1>7. CASE l.query = "effective_of_account"
  BY <1>0, <1>7, AsOfKeyed DEF Listed, Width
<1>8. CASE l.query = "effective_of_accounts"
  <2> DEFINE X == l.of
             d == l.date
  <2>1. Listed(l) = AsOf(X, d) /\ Width(l) = 2
    BY <1>8 DEF Listed, Width
  <2> HIDE DEF X, d
  <2>2. Keyed(AsOf(X, d), 2)
    BY <1>0, AsOfKeyed
  <2> QED  BY <2>1, <2>2
<1>9. CASE l.query = "ranges_of_account"
  BY <1>0, <1>9, AsOfKeyed DEF Listed, Width
<1>10. CASE l.query = "ranges_of_accounts"
  <2> DEFINE X == l.of
             d == Until(l)
  <2>1. Listed(l) = AsOf(X, d) /\ Width(l) = 2
    BY <1>10 DEF Listed, Width
  <2> HIDE DEF X, d
  <2>2. Keyed(AsOf(X, d), 2)
    BY <1>0, AsOfKeyed
  <2> QED  BY <2>1, <2>2
<1>11. CASE l.query = "entries_of_set"
  <2> DEFINE T == {r \in history : r.holder = l.of}
  <2>1. T \in SUBSET history
    OBVIOUS
  <2>2. Listed(l) = Directed(l, {<<h.at, h.entry>> : h \in T}) /\ Width(l) = 2
    BY <1>11 DEF Listed, Width, FoldedInto
  <2> HIDE DEF T
  <2> QED  BY <1>0, <2>1, <2>2, EntriesKeyed
<1>12. CASE l.query = "entries_of_journal"
  <2> DEFINE T == {r \in history :
                     /\ r.holder = r.account
                     /\ AtLeast(r.at, l.created_at_from)
                     /\ AtMost(r.at, l.created_at_to)
                     /\ AtLeast(r.effective, l.effective_from)
                     /\ AtMost(r.effective, l.effective_to)}
  <2>1. T \in SUBSET history
    OBVIOUS
  <2>2. Listed(l) = Directed(l, {<<h.at, h.entry>> : h \in T}) /\ Width(l) = 2
    BY <1>12 DEF Listed, Width, Chosen
  <2> HIDE DEF T
  <2> QED  BY <1>0, <2>1, <2>2, EntriesKeyed
<1> QED
  BY <1>1, <1>2, <1>3, <1>4, <1>5, <1>6, <1>7, <1>8, <1>9, <1>10, <1>11, <1>12
  DEF Queries

\* A cursor that a client may come back with.
CursorOf(l, c) ==
  c # Start => /\ c \in Tuples(Width(l))
               /\ l.query = "members_by_external_id" => c[1] = 0

\* Members: the first of both tables.
LEMMA MembersIs ==
  ASSUME NEW A, NEW B, IsFiniteSet(A), IsFiniteSet(B), Comparable(A \cup B),
         NEW c, NEW first \in Nat,
         NEW F, F = Limit(Limit(After(A, c), first + 1) \cup Limit(After(B, c), first + 1),
                          first + 1),
         NEW page, page = WithCursorBeyond(Paged(F, c, first), F, c)
  PROVE  IsPage(page, After(A \cup B, c), first)
<1> DEFINE A2 == After(A, c)
           B2 == After(B, c)
           C2 == After(A \cup B, c)
           plain == Paged(F, c, first)
<1>1. A2 \subseteq A /\ B2 \subseteq B /\ A2 \cup B2 = C2 /\ C2 \subseteq A \cup B
  BY DEF After
<1>2. /\ IsFiniteSet(A2) /\ IsFiniteSet(B2) /\ IsFiniteSet(C2)
      /\ Comparable(A2 \cup B2) /\ Comparable(C2)
  <2> HIDE DEF A2, B2, C2
  <2>1. IsFiniteSet(A \cup B)
    BY FS_Union
  <2> QED  BY <1>1, <2>1, FS_Subset, SomeCompare
<1> HIDE DEF C2, plain
<1>3. Fetched(F, A2 \cup B2, first)
  <2> DEFINE LA == Limit(A2, first + 1)
             LB == Limit(B2, first + 1)
  <2>1. F = Limit(LA \cup LB, first + 1)
    OBVIOUS
  <2>2. first \in Nat
    OBVIOUS
  <2>3. LA = Limit(A2, first + 1) /\ LB = Limit(B2, first + 1)
    OBVIOUS
  <2> HIDE DEF A2, B2, LA, LB
  <2>4. Fetched(Limit(LA \cup LB, first + 1), A2 \cup B2, first)
    BY ONLY <1>2, <2>2, <2>3, MergeFetches
  <2> QED  BY ONLY <2>1, <2>4
<1>4. IsPage(plain, C2, first)
  <2> HIDE DEF A2, B2
  <2>1. Fetched(F, C2, first)
    BY <1>1, <1>3
  <2> QED  BY <1>2, <2>1, PagedIs DEF plain
<1>5. page.entities = plain.entities /\ page.has_next_page = plain.has_next_page
  BY DEF WithCursorBeyond, plain, Paged
<1>6. IsPage(page, C2, first)
  BY <1>4, <1>5 DEF IsPage
<1> QED  BY <1>6 DEF C2

LEMMA TripleIs ==
  ASSUME NEW a \in Tuples(3)
  PROVE  DOMAIN a = 1..3 /\ \A i \in 1..3 : a[i] \in Int
<1>1. a \in Seq(Int) /\ Len(a) = 3
  BY DEF Tuples
<1> QED  BY <1>1

LEMMA TriplesBefore ==
  ASSUME NEW a \in Tuples(3), NEW b \in Tuples(3)
  PROVE  Before(a, b) <=> \/ a[1] < b[1]
                          \/ a[1] = b[1] /\ a[2] < b[2]
                          \/ a[1] = b[1] /\ a[2] = b[2] /\ a[3] < b[3]
<1>1. DOMAIN a = 1..3 /\ \A i \in 1..3 : a[i] \in Int /\ b[i] \in Int
  BY TripleIs
<1>2. 1..3 = {1, 2, 3} /\ 1..(1 - 1) = {} /\ 1..(2 - 1) = {1} /\ 1..(3 - 1) = {1, 2}
  OBVIOUS
<1>3. Before(a, b) <=> \E i \in {1, 2, 3} : a[i] < b[i] /\ \A j \in 1..(i - 1) : a[j] = b[j]
  BY <1>1, <1>2 DEF Before
<1> QED  BY <1>2, <1>3

\* The predicate of the query is that of its order.
LEMMA ExternalAfter ==
  ASSUME NEW K \in SUBSET Tuples(3), \A k \in K : k[1] \in {0, 1},
         NEW c, c # Start => c \in Tuples(3) /\ c[1] = 0
  PROVE  {k \in K : \/ c = Start \/ c[1] = 1
                    \/ k[1] = 1
                    \/ k[2] > c[2]
                    \/ k[2] = c[2] /\ k[3] > c[3]} = After(K, c)
<1>1. CASE c = Start
  BY <1>1 DEF After
<1>2. CASE c # Start
  <2>1. ASSUME NEW k \in K
        PROVE  Before(c, k) <=> \/ k[1] = 1 \/ k[2] > c[2]
                                \/ k[2] = c[2] /\ k[3] > c[3]
    <3>1. /\ k \in Tuples(3) /\ c \in Tuples(3) /\ c[1] = 0 /\ k[1] \in {0, 1}
      BY <1>2
    <3>2. Before(c, k) <=> \/ c[1] < k[1]
                           \/ c[1] = k[1] /\ c[2] < k[2]
                           \/ c[1] = k[1] /\ c[2] = k[2] /\ c[3] < k[3]
      BY <3>1, TriplesBefore
    <3> QED  BY <3>1, <3>2
  <2> QED  BY <1>2, <2>1 DEF After
<1> QED  BY <1>1, <1>2

\* Every balance read for ranges has a closing row.
LEMMA RangesArePaged ==
  ASSUME NEW X, NEW l, NEW ids \in SUBSET AsOf(X, Until(l)), NEW c, NEW first
  PROVE  Ranges(ids, X, l, c, first) = Paged(ids, c, first)
<1> DEFINE opening == ids \cap AsOf(X, l.from - 1)
           closing == ids \cap AsOf(X, Until(l))
<1>1. closing = ids /\ opening \cup closing = ids
  OBVIOUS
<1>2. Ranges(ids, X, l, c, first)
        = [entities |-> InOrder(Limit(closing, first)),
           has_next_page |-> Cardinality(opening \cup closing) > first,
           end_cursor |-> LastOf(Limit(closing, first), c)]
  BY DEF Ranges
<1> HIDE DEF opening, closing
<1> QED  BY <1>1, <1>2 DEF Paged

LEMMA SingleIs ==
  ASSUME NEW b \in Tuples(1)
  PROVE  b[1] \in Int /\ b = <<b[1]>>
<1>1. b \in Seq(Int) /\ Len(b) = 1
  BY DEF Tuples
<1> QED  BY <1>1

LEMMA SinglesBefore ==
  ASSUME NEW x, NEW a \in Int, NEW b \in Int
  PROVE  /\ Before(<<a>>, <<b>>) <=> a < b
         /\ Before(<<x, a>>, <<x, b>>) /\ x \in Int => a < b
         /\ a < b => Before(<<x, a>>, <<x, b>>)
<1>1. 1..(1 - 1) = {} /\ 1..(2 - 1) = {1}
  OBVIOUS
<1>2. Before(<<a>>, <<b>>) <=> a < b
  <2> DEFINE s == <<a>>
             t == <<b>>
  <2>1. DOMAIN s = {1} /\ s[1] = a /\ t[1] = b
    OBVIOUS
  <2> HIDE DEF s, t
  <2>2. Before(s, t) <=> a < b
    BY <1>1, <2>1 DEF Before
  <2> QED  BY <2>2 DEF s, t
<1> DEFINE s == <<x, a>>
           t == <<x, b>>
<1>3. DOMAIN s = {1, 2} /\ s[1] = x /\ t[1] = x /\ s[2] = a /\ t[2] = b
  OBVIOUS
<1> HIDE DEF s, t
<1>4. Before(s, t) /\ x \in Int => a < b
  BY <1>1, <1>3 DEF Before
<1>5. a < b => Before(s, t)
  BY <1>1, <1>3 DEF Before
<1> QED  BY <1>2, <1>4, <1>5 DEF s, t

\* The balances of one holder are read by currency and sorted with the holder.
OneHolder(page, p, c) ==
  /\ page.entities = [i \in DOMAIN p.entities |-> <<p.entities[i][2]>>]
  /\ page.has_next_page = p.has_next_page
  /\ page.end_cursor = IF p.end_cursor = Start THEN c ELSE <<p.end_cursor[2]>>

Beside(x, F) == {<<x, b[1]>> : b \in F}

LEMMA OneHolderIs ==
  ASSUME NEW A \in SUBSET Tuples(1), IsFiniteSet(A),
         NEW first \in Nat, NEW F, Fetched(F, A, first),
         NEW x, NEW G \in SUBSET Tuples(2), G = Beside(x, F),
         NEW c, NEW p, p = Paged(G, Start, first),
         NEW page, OneHolder(page, p, c)
  PROVE  IsPage(page, A, first) /\ EndsAtLast(page)
<1> USE DEF OneHolder, Beside
<1> DEFINE low(g) == <<g[2]>>
           s == p.entities
           t == page.entities
<1>1. Heads(F, A) /\ IsFiniteSet(F) /\ Cardinality(F) \in Nat /\ F \subseteq A
  BY DEF Fetched, Heads
<1>2. \A b \in F : b[1] \in Int /\ b = <<b[1]>> /\ <<x, b[1]>> \in G
  <2> SUFFICES ASSUME NEW b \in F  PROVE b[1] \in Int /\ b = <<b[1]>> /\ <<x, b[1]>> \in G
    OBVIOUS
  <2>1. b \in Tuples(1)
    BY <1>1
  <2> QED  BY <2>1, SingleIs
<1>3. \A g \in G : g[2] \in Int /\ g = <<x, g[2]>> /\ low(g) \in F /\ x \in Int
  <2> SUFFICES ASSUME NEW g \in G
               PROVE  g[2] \in Int /\ g = <<x, g[2]>> /\ low(g) \in F /\ x \in Int
    OBVIOUS
  <2>1. PICK b \in F : g = <<x, b[1]>>
    OBVIOUS
  <2>2. g \in Seq(Int) /\ Len(g) = 2
    BY DEF Tuples
  <2>3. g[1] \in Int /\ g[1] = x /\ g[2] = b[1]
    BY <2>1, <2>2
  <2> QED  BY <1>2, <2>1, <2>3
<1>4. \A g, h \in G : Before(g, h) <=> Before(low(g), low(h))
  <2> SUFFICES ASSUME NEW g \in G, NEW h \in G
               PROVE  Before(g, h) <=> Before(low(g), low(h))
    OBVIOUS
  <2> DEFINE a == g[2]
             b == h[2]
  <2>1. a \in Int /\ b \in Int /\ x \in Int /\ g = <<x, a>> /\ h = <<x, b>>
    BY <1>3
  <2> HIDE DEF a, b
  <2>2. Before(<<a>>, <<b>>) <=> a < b
    BY <2>1, SinglesBefore
  <2>3. Before(<<x, a>>, <<x, b>>) <=> a < b
    BY <2>1, SinglesBefore
  <2> QED  BY <2>1, <2>2, <2>3 DEF a, b
<1>5. IsFiniteSet(G) /\ Comparable(G)
  <2> DEFINE f == [b \in F |-> <<x, b[1]>>]
  <2>1. G = {f[b] : b \in F} /\ f \in Surjection(F, G)
    BY DEF Surjection
  <2> HIDE DEF f
  <2>2. IsFiniteSet(G)
    BY <1>1, <2>1, FS_Surjection
  <2>3. Comparable(G)
    <3>1. 2 \in Nat
      OBVIOUS
    <3> QED  BY <3>1, Compares
  <2> QED  BY <2>2, <2>3
<1> DEFINE lows(S) == {low(g) : g \in S}
<1>6. ASSUME NEW S \in SUBSET G
      PROVE  /\ IsFiniteSet(lows(S)) /\ Cardinality(lows(S)) = Cardinality(S)
             /\ Cardinality(S) \in Nat
  <2> DEFINE f == [g \in S |-> low(g)]
             T == lows(S)
  <2>1. f \in Bijection(S, T)
    <3>1. f \in [S -> T] /\ \A b \in T : \E g \in S : f[g] = b
      OBVIOUS
    <3>2. ASSUME NEW g \in S, NEW h \in S, f[g] = f[h]  PROVE g = h
      <4>1. g[2] = h[2] /\ g = <<x, g[2]>> /\ h = <<x, h[2]>>
        BY <1>3, <3>2
      <4> QED  BY <4>1
    <3> HIDE DEF f, T
    <3> QED  BY <3>1, <3>2 DEF Bijection, Surjection, Injection, IsInjective
  <2>2. IsFiniteSet(S)
    BY <1>5, FS_Subset
  <2> HIDE DEF f, T
  <2>3. IsFiniteSet(T) /\ Cardinality(T) = Cardinality(S) /\ Cardinality(S) \in Nat
    BY <2>1, <2>2, FS_Bijection, FS_CardinalityType DEF ExistsBijection
  <2> QED  BY <2>3 DEF T
<1>7. IsPage(p, G, first) /\ EndsAtLast(p)
  <2>1. G \in SUBSET G
    OBVIOUS
  <2>2. Cardinality(G) \in Nat
    BY <1>6, <2>1
  <2>3. Fetched(G, G, first)
    BY <1>5, <2>2 DEF Fetched, Heads
  <2> QED  BY <1>5, <2>3, PagedIs
<1> DEFINE E0 == Limit(G, first)
           E == lows(E0)
           more == Cardinality(G) > first
<1>8. /\ Orders(s, E0) /\ Heads(E0, G) /\ Cardinality(E0) <= first
      /\ Cardinality(E0) < first => E0 = G
  BY <1>5, <1>7, LimitIs, LimitSize DEF IsPage
<1>9. p.has_next_page = more /\ more \in BOOLEAN
  BY DEF Paged
<1>10. E0 \subseteq G /\ \A g \in E0 : \A h \in G : Before(h, g) => h \in E0
  BY <1>8 DEF Heads
<1> HIDE DEF E0
<1>11. Heads(E, F)
  <2>1. E \subseteq F
    BY <1>3, <1>10
  <2>2. ASSUME NEW k \in E, NEW j \in F, Before(j, k)  PROVE j \in E
    <3>1. PICK g \in E0 : k = low(g)
      OBVIOUS
    <3> DEFINE h == <<x, j[1]>>
    <3>2. h \in G /\ low(h) = j
      BY <1>2
    <3> HIDE DEF h
    <3>3. Before(h, g)
      <4>1. g \in G /\ Before(low(h), low(g))
        BY <1>10, <2>2, <3>1, <3>2
      <4> HIDE DEF low
      <4> QED  BY <1>4, <3>2, <4>1
    <3>4. h \in E0
      BY <1>10, <3>2, <3>3
    <3> QED  BY <3>2, <3>4
  <2> HIDE DEF E
  <2> QED  BY <2>1, <2>2 DEF Heads
<1>12. lows(G) = F
  <2>1. \A b \in F : b \in lows(G)
    <3> SUFFICES ASSUME NEW b \in F  PROVE \E g \in G : b = <<g[2]>>
      OBVIOUS
    <3>1. <<x, b[1]>> \in G /\ <<x, b[1]>>[2] = b[1] /\ b = <<b[1]>>
      BY <1>2
    <3> QED  BY <3>1
  <2> QED  BY <1>3, <2>1
<1>13. more <=> Cardinality(A) > first
  <2>1. Cardinality(F) = Cardinality(G)
    <3>1. G \in SUBSET G
      OBVIOUS
    <3>2. Cardinality(lows(G)) = Cardinality(G)
      BY <1>6, <3>1
    <3> QED  BY <1>12, <3>2
  <2>2. Cardinality(F) <= Cardinality(A) /\ Cardinality(A) \in Nat
    BY <1>1, FS_Subset, FS_CardinalityType
  <2>3. Cardinality(F) <= first => F = A
    BY DEF Fetched
  <2> QED  BY <1>1, <2>1, <2>2, <2>3
<1>14. E = Limit(A, first)
  <2>1. Heads(E, A) /\ Comparable(A)
    <3>1. 1 \in Nat
      OBVIOUS
    <3> HIDE DEF E
    <3> QED  BY <1>1, <1>11, <3>1, HeadsOfHeads, Compares
  <2>2. Cardinality(E) = Cardinality(E0) /\ Cardinality(E0) \in Nat
    BY <1>6, <1>10
  <2>3. Cardinality(E) < first => E = A
    <3> SUFFICES ASSUME Cardinality(E) < first  PROVE E = A
      OBVIOUS
    <3>1. E0 = G
      BY <1>8, <2>2
    <3>2. E = F
      BY <1>12, <3>1
    <3>3. Cardinality(F) <= first
      <4>1. Cardinality(F) < first
        BY <3>2
      <4> QED  BY <1>1, <4>1
    <3> QED  BY <3>2, <3>3 DEF Fetched
  <2> HIDE DEF E
  <2> QED  BY <1>8, <2>1, <2>2, <2>3, HeadsAreLimit
<1>15. Orders(t, E)
  <2>0. Orders(s, E0)
    BY <1>8
  <2>1. /\ s \in Seq(E0) /\ Sorted(s) /\ Len(s) \in Nat /\ DOMAIN s = 1..Len(s)
        /\ \A k \in E0 : \E i \in 1..Len(s) : s[i] = k
        /\ s = << >> <=> E0 = {}
    <3> HIDE DEF s
    <3>1. /\ s \in Seq(E0) /\ Sorted(s) /\ Len(s) \in Nat
          /\ \A k \in E0 : \E i \in 1..Len(s) : s[i] = k
          /\ s = << >> <=> E0 = {}
      BY <2>0 DEF Orders
    <3>2. DOMAIN s = 1..Len(s)
      BY <3>1
    <3> QED  BY <3>1, <3>2
  <2>2. t = [i \in 1..Len(s) |-> low(s[i])]
    BY <2>1
  <2> HIDE DEF s, t
  <2>3. \A i \in 1..Len(s) : s[i] \in E0 /\ s[i] \in G
    BY <1>10, <2>1
  <2>4. t \in Seq(E) /\ Len(t) = Len(s) /\ DOMAIN t = 1..Len(t)
        /\ \A i \in 1..Len(t) : t[i] = low(s[i])
    BY <2>1, <2>2, <2>3
  <2>5. Sorted(t)
    <3> SUFFICES ASSUME NEW i \in 1..Len(t), NEW j \in 1..Len(t), i < j
                 PROVE  Before(t[i], t[j])
      BY DEF Sorted
    <3>1. Before(s[i], s[j]) /\ s[i] \in G /\ s[j] \in G
      BY <2>1, <2>3, <2>4 DEF Sorted
    <3> HIDE DEF low
    <3> QED  BY <1>4, <2>4, <3>1
  <2>6. ASSUME NEW k \in E  PROVE \E i \in 1..Len(t) : t[i] = k
    <3>1. PICK g \in E0 : k = low(g)
      OBVIOUS
    <3>2. PICK i \in 1..Len(s) : s[i] = g
      BY <2>1
    <3>3. t[i] = low(s[i]) /\ i \in 1..Len(t)
      BY <2>4
    <3> QED  BY <3>1, <3>2, <3>3
  <2>7. ToSet(t) = E
    <3>1. \A i \in DOMAIN t : t[i] \in E
      BY <2>3, <2>4
    <3>2. ToSet(t) = {t[i] : i \in DOMAIN t}
      BY DEF ToSet
    <3>3. \A k \in E : \E i \in DOMAIN t : t[i] = k
      BY <2>4, <2>6
    <3> HIDE DEF E
    <3> QED  BY <3>1, <3>2, <3>3
  <2>8. t = << >> <=> E = {}
    <3>1. E = {} <=> E0 = {}
      <4>1. \A g \in E0 : low(g) \in E
        OBVIOUS
      <4>2. \A k \in E : \E g \in E0 : k = low(g)
        OBVIOUS
      <4> HIDE DEF E, low
      <4> QED  BY <4>1, <4>2
    <3>2. t = << >> <=> s = << >>
      BY <2>1, <2>4
    <3> HIDE DEF E
    <3> QED  BY <2>1, <3>1, <3>2
  <2> HIDE DEF E
  <2> QED  BY <2>1, <2>4, <2>5, <2>6, <2>7, <2>8 DEF Orders
<1>16. IsPage(page, A, first)
  <2>1. page.has_next_page = more /\ page.entities = t
    BY <1>9
  <2>2. Orders(page.entities, Limit(A, first))
    <3> HIDE DEF E
    <3> QED  BY <1>14, <1>15
  <2> HIDE DEF more
  <2> QED  BY <1>9, <1>13, <2>1, <2>2 DEF IsPage
<1>17. EndsAtLast(page)
  <2> SUFFICES ASSUME t # << >>
               PROVE  page.end_cursor \in E /\ \A k \in E : ~Before(page.end_cursor, k)
    BY <1>15 DEF EndsAtLast, Orders
  <2> DEFINE e == p.end_cursor
  <2>1. s # << >> /\ ToSet(s) = E0
    <3> HIDE DEF s, t
    <3>1. ToSet(s) = E0 /\ (s = << >> <=> E0 = {})
      BY <1>8 DEF Orders
    <3>2. E # {}
      BY <1>15 DEF Orders
    <3>3. E0 # {}
      BY <3>2
    <3> QED  BY <3>1, <3>3
  <2>2. e \in E0 /\ \A g \in E0 : ~Before(e, g)
    BY <1>7, <2>1 DEF EndsAtLast
  <2>3. e \in G /\ e # Start
    <3>1. e \in G
      BY <1>10, <2>2
    <3> HIDE DEF e
    <3>2. e \in Tuples(2)
      BY <3>1
    <3>3. e \in Seq(Int) /\ Len(e) = 2
      BY <3>2 DEF Tuples
    <3> QED  BY <3>1, <3>3 DEF Start
  <2> HIDE DEF e
  <2>4. page.end_cursor = low(e)
    BY <2>3 DEF e
  <2>5. ASSUME NEW k \in E  PROVE ~Before(low(e), k)
    <3>1. PICK g \in E0 : k = low(g)
      OBVIOUS
    <3>2. g \in G /\ ~Before(e, g)
      BY <1>10, <2>2
    <3> HIDE DEF low
    <3> QED  BY <1>4, <2>3, <3>1, <3>2
  <2> QED  BY <2>2, <2>4, <2>5
<1> QED  BY <1>16, <1>17

LEMMA AccountRangesIs ==
  ASSUME NumberedHistory, NEW l, NEW c, NEW first \in Nat,
         NEW K, K = {<<b[2]>> : b \in AsOf({l.of}, Until(l))},
         NEW page, page = RangesOfAccount(l, c, first)
  PROVE  IsPage(page, After(K, c), first) /\ EndsAtLast(page)
<1> DEFINE x == l.of
           A == After(K, c)
           F == Limit(A, first + 1)
           G == {<<x, b[1]>> : b \in F}
           p == Paged(G, Start, first)
           until == AsOf({x}, Until(l))
<1>1. Keyed(until, 2) /\ Keyed(K, 1)
  <2> DEFINE X == {x}
             d == Until(l)
  <2>1. until = AsOf(X, d) /\ K = {<<b[2]>> : b \in AsOf(X, d)}
    OBVIOUS
  <2> HIDE DEF X, d, until
  <2>2. NumberedHistory
    OBVIOUS
  <2>3. Keyed(AsOf(X, d), 2) /\ Keyed({<<b[2]>> : b \in AsOf(X, d)}, 1)
    BY ONLY <2>2, AsOfKeyed
  <2> QED  BY ONLY <2>1, <2>3
<1>2. A \subseteq K /\ IsFiniteSet(A) /\ A \in SUBSET Tuples(1) /\ Comparable(A)
  <2>1. A \subseteq K
    BY DEF After
  <2>2. 1 \in Nat
    OBVIOUS
  <2> HIDE DEF A
  <2> QED  BY <1>1, <2>1, <2>2, FS_Subset, Compares DEF Keyed
<1>3. Fetched(F, A, first)
  <2> HIDE DEF A
  <2> QED  BY <1>2, LimitFetches
<1>4. \A b \in until : b[1] = x /\ b = <<x, b[2]>>
  BY DEF AsOf
<1>5. G \subseteq until
  <2> SUFFICES ASSUME NEW k \in F  PROVE <<x, k[1]>> \in until
    OBVIOUS
  <2>1. k \in K
    BY <1>2, <1>3 DEF Fetched, Heads
  <2>2. PICK b \in until : k = <<b[2]>>
    BY <2>1
  <2>3. k[1] = b[2]
    BY <2>2
  <2> HIDE DEF until
  <2> QED  BY <1>4, <2>3
<1>6. G \in SUBSET Tuples(2)
  <2> HIDE DEF until, G
  <2> QED  BY <1>1, <1>5 DEF Keyed
<1>7. Ranges(G, {x}, l, Start, first) = p
  <2> DEFINE X == {x}
  <2>1. G \in SUBSET AsOf(X, Until(l))
    BY <1>5
  <2> HIDE DEF G, X
  <2>2. Ranges(G, X, l, Start, first) = Paged(G, Start, first)
    BY <2>1, RangesArePaged
  <2> QED  BY <2>2 DEF X
<1>8. page = [p EXCEPT !.entities = [i \in DOMAIN @ |-> <<@[i][2]>>],
                       !.end_cursor = IF @ = Start THEN c ELSE <<@[2]>>]
  <2>1. page = [Ranges(G, {x}, l, Start, first)
                  EXCEPT !.entities = [i \in DOMAIN @ |-> <<@[i][2]>>],
                         !.end_cursor = IF @ = Start THEN c ELSE <<@[2]>>]
    BY DEF RangesOfAccount
  <2> HIDE DEF G, p
  <2> QED  BY <1>7, <2>1
<1>9. DOMAIN p = {"entities", "has_next_page", "end_cursor"}
  BY DEF Paged
<1> HIDE DEF p
<1>10. /\ page.entities = [i \in DOMAIN p.entities |-> <<p.entities[i][2]>>]
       /\ page.has_next_page = p.has_next_page
       /\ page.end_cursor = IF p.end_cursor = Start THEN c ELSE <<p.end_cursor[2]>>
  BY <1>8, <1>9
<1>11. p = Paged(G, Start, first) /\ G = Beside(x, F)
  BY DEF p, Beside
<1> HIDE DEF G, F, A, x
<1>12. IsPage(page, A, first) /\ EndsAtLast(page)
  <2>1. OneHolder(page, p, c)
    BY <1>10 DEF OneHolder
  <2>2. /\ A \in SUBSET Tuples(1) /\ IsFiniteSet(A) /\ G \in SUBSET Tuples(2)
        /\ Fetched(F, A, first)
    BY <1>2, <1>3, <1>6
  <2> QED  BY <1>11, <2>1, <2>2, OneHolderIs
<1> QED  BY <1>12 DEF A

\* The pages of a listing whose client sends their cursor back.
Members == {"members_by_created_at", "members_by_external_id"}

LEMMA PageIs ==
  ASSUME Inv, NEW l, l.query \in Queries, NEW first \in Nat,
         NEW c, CursorOf(l, c), NEW page, page = Page(l, c, first)
  PROVE  /\ IsPage(page, After(Listed(l), c), first)
         /\ l.query \notin Members => EndsAtLast(page)
<1>0. Numbered(accountMembers) /\ Numbered(setMembers) /\ NumberedHistory
  BY Numbers
<1>1. Keyed(Listed(l), Width(l)) /\ Width(l) \in Nat
  BY ListedKeyed
<1>2. IsFiniteSet(Listed(l)) /\ Comparable(Listed(l))
  BY <1>1, KeyedCompare
<1>3. ASSUME page = Keyset(Listed(l), c, first)
      PROVE  IsPage(page, After(Listed(l), c), first) /\ EndsAtLast(page)
  <2> DEFINE K == Listed(l)
  <2> HIDE DEF K
  <2>1. IsPage(page, After(K, c), first) /\ EndsAtLast(page)
    BY <1>2, <1>3, KeysetIs DEF K
  <2> QED  BY <2>1 DEF K
<1>4. CASE l.query = "members_by_created_at"
  <2> DEFINE A == NewestFirst(accountMembers, l.of)
             B == NewestFirst(setMembers, l.of)
             F == Limit(Limit(After(A, c), first + 1) \cup Limit(After(B, c), first + 1),
                        first + 1)
  <2>1. page = WithCursorBeyond(Paged(F, c, first), F, c) /\ Listed(l) = A \cup B
    BY <1>4 DEF Page, MembersByCreatedAt, Listed
  <2>2. IsFiniteSet(A) /\ IsFiniteSet(B)
    BY <1>0, NewestFirstKeyed DEF Keyed
  <2>3. F = Limit(Limit(After(A, c), first + 1) \cup Limit(After(B, c), first + 1),
                  first + 1)
    OBVIOUS
  <2>4. Comparable(A \cup B)
    BY <1>2, <2>1
  <2> HIDE DEF A, B, F
  <2>5. IsPage(page, After(A \cup B, c), first)
    BY <2>1, <2>2, <2>3, <2>4, MembersIs
  <2> QED  BY <1>4, <2>1, <2>5 DEF Members
<1>5. CASE l.query = "members_by_external_id"
  <2> DEFINE A == ByExternalId(accountMembers, l.of)
             B == ByExternalId(setMembers, l.of)
             after(K) == {k \in K : \/ c = Start \/ c[1] = 1
                                    \/ k[1] = 1
                                    \/ k[2] > c[2]
                                    \/ k[2] = c[2] /\ k[3] > c[3]}
             F == Limit(Limit(after(A), first + 1) \cup Limit(after(B), first + 1),
                        first + 1)
  <2>1. page = WithCursorBeyond(Paged(F, c, first), F, c) /\ Listed(l) = A \cup B
    BY <1>5 DEF Page, MembersByExternalId, Listed
  <2>2. /\ Keyed(A, 3) /\ Keyed(B, 3)
        /\ \A k \in A : k[1] \in {0, 1}
        /\ \A k \in B : k[1] \in {0, 1}
    BY <1>0, ByExternalIdKeyed
  <2>3. IsFiniteSet(A) /\ A \in SUBSET Tuples(3) /\ IsFiniteSet(B) /\ B \in SUBSET Tuples(3)
    BY <2>2 DEF Keyed
  <2>4. c # Start => c \in Tuples(3) /\ c[1] = 0
    BY <1>5 DEF CursorOf, Width
  <2>5. Comparable(A \cup B)
    BY <1>2, <2>1
  <2> HIDE DEF A, B
  <2>6. after(A) = After(A, c) /\ after(B) = After(B, c)
    BY <2>2, <2>3, <2>4, ExternalAfter
  <2>7. F = Limit(Limit(After(A, c), first + 1) \cup Limit(After(B, c), first + 1),
                  first + 1)
    <3> HIDE DEF after
    <3> QED  BY <2>6
  <2> HIDE DEF F
  <2>8. IsPage(page, After(A \cup B, c), first)
    BY <2>1, <2>3, <2>5, <2>7, MembersIs
  <2> QED  BY <1>5, <2>1, <2>8 DEF Members
<1>6. CASE l.query = "ranges_of_account"
  <2> DEFINE K == {<<b[2]>> : b \in AsOf({l.of}, Until(l))}
  <2>1. page = RangesOfAccount(l, c, first) /\ Listed(l) = K
    BY <1>6 DEF Page, Listed
  <2>2. K = {<<b[2]>> : b \in AsOf({l.of}, Until(l))}
    OBVIOUS
  <2> HIDE DEF K
  <2>3. IsPage(page, After(K, c), first) /\ EndsAtLast(page)
    BY <1>0, <2>1, <2>2, AccountRangesIs
  <2> QED  BY <2>1, <2>3
<1>7. CASE l.query = "ranges_of_accounts"
  <2> DEFINE X == l.of
             K == AsOf(X, Until(l))
             ids == Limit(After(K, c), first + 1)
  <2>1. page = Ranges(ids, X, l, c, first) /\ Listed(l) = K
    BY <1>7 DEF Page, Listed, RangesOfAccounts
  <2>2. ids \in SUBSET AsOf(X, Until(l))
    BY DEF Limit, After
  <2>3. Keyset(K, c, first) = Paged(ids, c, first)
    BY DEF Keyset
  <2> HIDE DEF X, ids, K
  <2>4. Ranges(ids, X, l, c, first) = Paged(ids, c, first)
    BY <2>2, RangesArePaged
  <2> QED  BY <1>3, <2>1, <2>3, <2>4
<1>8. CASE l.query \notin Members \cup {"ranges_of_account", "ranges_of_accounts"}
  <2>1. page = Keyset(Listed(l), c, first)
    <3>1. CASE l.query = "sets_of_account"
      BY <3>1 DEF Page, Listed, SetsOfAccount
    <3>2. CASE l.query = "sets_of_set"
      BY <3>2 DEF Page, Listed, SetsOfSet
    <3>3. CASE l.query = "balances_of_account"
      BY <3>3 DEF Page, Listed, BalancesOfAccount
    <3>4. CASE l.query = "balances_of_accounts"
      BY <3>4 DEF Page, Listed, BalancesOfAccounts
    <3>5. CASE l.query = "effective_of_account"
      BY <3>5 DEF Page, Listed, EffectiveOfAccount
    <3>6. CASE l.query = "effective_of_accounts"
      BY <3>6 DEF Page, Listed, EffectiveOfAccounts
    <3>7. CASE l.query = "entries_of_set"
      BY <3>7 DEF Page, Listed, EntriesOfSet
    <3>8. CASE l.query = "entries_of_journal"
      BY <3>8 DEF Page, Listed, EntriesOfJournal
    <3> QED  BY <1>8, <3>1, <3>2, <3>3, <3>4, <3>5, <3>6, <3>7, <3>8 DEF Queries, Members
  <2> QED  BY <1>3, <2>1
<1> QED  BY <1>4, <1>5, <1>6, <1>7, <1>8 DEF Members

\* The cursor a client goes on from is that of the last row of the page.
LEMMA NextCursorIs ==
  ASSUME NEW l, NEW A, IsFiniteSet(A), Comparable(A), NEW first \in Nat \ {0},
         NEW page, IsPage(page, A, first),
         l.query \notin Members => EndsAtLast(page),
         Continues(l, page),
         NEW c, c = NextCursor(l, page)
  PROVE  /\ c \in ToSet(page.entities)
         /\ \A k \in ToSet(page.entities) : ~Before(c, k)
         /\ l.query = "members_by_external_id" => c[1] # 1
<1> DEFINE s == page.entities
<1>1. PICK E : Orders(s, E) /\ Heads(E, A) /\ E # {}
  <2>1. first \in Nat /\ first > 0 /\ page.has_next_page
    BY DEF Continues
  <2> QED  BY <2>1, PageHas
<1>2. /\ s \in Seq(E) /\ Sorted(s) /\ Len(s) \in Nat /\ ToSet(s) = E /\ s # << >>
  BY <1>1 DEF Orders
<1>3. CASE l.query \notin Members
  <2>1. c = page.end_cursor
    BY <1>3 DEF NextCursor, Members
  <2>2. l.query # "members_by_external_id"
    BY <1>3 DEF Members
  <2> QED  BY <1>2, <1>3, <2>1, <2>2 DEF EndsAtLast
<1>4. CASE l.query \in Members
  <2>1. c = s[Len(s)]
    BY <1>4 DEF NextCursor, Members, Last
  <2>2. l.query = "members_by_external_id" => c[1] # 1
    BY <2>1 DEF Continues, Last
  <2> HIDE DEF s
  <2>3. Len(s) \in DOMAIN s /\ DOMAIN s = 1..Len(s)
    BY <1>2
  <2>4. c \in ToSet(s)
    BY <2>1, <2>3 DEF ToSet
  <2>5. ASSUME NEW k \in ToSet(s)  PROVE ~Before(c, k)
    <3>1. PICK j \in 1..Len(s) : k = s[j]
      BY <2>3, <2>5 DEF ToSet
    <3>2. k = c \/ Before(k, c)
      BY <1>2, <2>1, <2>3, <3>1 DEF Sorted
    <3>3. k \in A /\ c \in A
      BY <1>1, <1>2, <2>4, <2>5 DEF Heads
    <3> QED  BY <3>2, <3>3 DEF Comparable
  <2> QED  BY <2>2, <2>4, <2>5 DEF s
<1> QED  BY <1>3, <1>4

----------------------------------------------------------------------------
(* A walk *)

\* What a walk over the rows K of the listing l has seen is in order and up to
\* its cursor; what was there throughout is still there and has been seen or is
\* after the cursor, until the end is reached and all of it has been seen.
Ahead(w, K) ==
  /\ w.cursor = Start => w.seen = << >>
  /\ \A k \in ToSet(w.seen) : k = w.cursor \/ Before(k, w.cursor)
  /\ w.throughout \subseteq K
  /\ \A k \in w.throughout :
       k \in ToSet(w.seen) \/ w.cursor = Start \/ Before(w.cursor, k)

WalkHolds(w, l, K) ==
  /\ w.seen \in Seq(Tuples(Width(l))) /\ Sorted(w.seen)
  /\ w.cursor = Start \/ w.cursor \in ToSet(w.seen)
  /\ CursorOf(l, w.cursor)
  /\ ~w.done => Ahead(w, K)
  /\ w.done => w.throughout \subseteq ToSet(w.seen)

WalkInv == \A l : walk # NoWalk /\ l = walk.listing => WalkHolds(walk, l, Listed(l))

LEMMA Joined ==
  ASSUME NEW T, NEW p \in Seq(T), NEW q \in Seq(T), NEW s, s = p \o q
  PROVE  /\ s \in Seq(T) /\ ToSet(s) = ToSet(p) \cup ToSet(q)
         /\ Sorted(p) /\ Sorted(q)
            /\ (\A a \in ToSet(p), b \in ToSet(q) : Before(a, b)) => Sorted(s)
<1> DEFINE m == Len(p)
           n == Len(q)
           r == Len(s)
<1>1. /\ s \in Seq(T) /\ m \in Nat /\ n \in Nat /\ r = m + n
      /\ DOMAIN p = 1..m /\ DOMAIN q = 1..n /\ DOMAIN s = 1..r
      /\ \A i \in 1..r : s[i] = IF i <= m THEN p[i] ELSE q[i - m]
  OBVIOUS
<1> HIDE DEF m, n, r
<1>2. /\ \A i \in 1..r : i <= m => i \in 1..m /\ s[i] = p[i]
      /\ \A i \in 1..r : i > m => i - m \in 1..n /\ s[i] = q[i - m]
      /\ \A i \in 1..m : i \in 1..r /\ s[i] = p[i]
  <2>1. \A i \in 1..r : i <= m => i \in 1..m /\ s[i] = p[i]
    BY <1>1
  <2>2. \A i \in 1..r : i > m => i - m \in 1..n /\ ~(i <= m)
    BY <1>1
  <2>3. \A i \in 1..r : ~(i <= m) => s[i] = q[i - m]
    BY <1>1
  <2>4. \A i \in 1..m : i \in 1..r /\ i <= m
    BY <1>1
  <2> QED  BY <2>1, <2>2, <2>3, <2>4
<1>3. \A i \in 1..n : m + i \in 1..r /\ s[m + i] = q[i]
  <2> SUFFICES ASSUME NEW i \in 1..n  PROVE m + i \in 1..r /\ s[m + i] = q[i]
    OBVIOUS
  <2>1. m + i \in 1..r /\ ~(m + i <= m) /\ (m + i) - m = i
    BY <1>1
  <2> QED  BY <1>1, <2>1
<1>4. ToSet(s) = ToSet(p) \cup ToSet(q)
  <2>1. \A i \in 1..r : s[i] \in ToSet(p) \cup ToSet(q)
    <3> SUFFICES ASSUME NEW i \in 1..r  PROVE s[i] \in ToSet(p) \cup ToSet(q)
      OBVIOUS
    <3>1. CASE i <= m
      BY <1>1, <1>2, <3>1 DEF ToSet
    <3>2. CASE i > m
      BY <1>1, <1>2, <3>2 DEF ToSet
    <3> QED  BY <1>1, <3>1, <3>2
  <2>2. \A i \in 1..m : p[i] \in ToSet(s)
    BY <1>1, <1>2 DEF ToSet
  <2>3. \A i \in 1..n : q[i] \in ToSet(s)
    BY <1>1, <1>3 DEF ToSet
  <2>4. /\ ToSet(s) = {s[i] : i \in 1..r} /\ ToSet(p) = {p[i] : i \in 1..m}
        /\ ToSet(q) = {q[i] : i \in 1..n}
    BY <1>1 DEF ToSet
  <2>5. ToSet(s) \subseteq ToSet(p) \cup ToSet(q)
    BY <2>1, <2>4
  <2>6. ToSet(p) \subseteq ToSet(s) /\ ToSet(q) \subseteq ToSet(s)
    <3> HIDE DEF m, n, r
    <3> QED  BY <2>2, <2>3, <2>4
  <2> QED  BY <2>5, <2>6
<1>5. ASSUME Sorted(p), Sorted(q),
             \A a \in ToSet(p), b \in ToSet(q) : Before(a, b)
      PROVE  Sorted(s)
  <2> SUFFICES ASSUME NEW i \in 1..r, NEW j \in 1..r, i < j
               PROVE  Before(s[i], s[j])
    BY DEF Sorted, r
  <2>0. /\ \A x, y \in 1..m : x < y => Before(p[x], p[y])
        /\ \A x, y \in 1..n : x < y => Before(q[x], q[y])
    BY <1>5 DEF Sorted, m, n
  <2>1. CASE j <= m
    <3>1. i <= m
      BY <1>1, <2>1
    <3> QED  BY <1>2, <2>0, <2>1, <3>1
  <2>2. CASE i > m
    <3>1. j > m /\ i - m < j - m
      BY <1>1, <2>2
    <3> QED  BY <1>2, <2>0, <2>2, <3>1
  <2>3. CASE i <= m /\ j > m
    <3>1. s[i] = p[i] /\ i \in DOMAIN p /\ s[j] = q[j - m] /\ j - m \in DOMAIN q
      BY <1>1, <1>2, <2>3
    <3>2. s[i] \in ToSet(p) /\ s[j] \in ToSet(q)
      BY <3>1 DEF ToSet
    <3> QED  BY <1>5, <3>2
  <2> QED  BY <1>1, <2>1, <2>2, <2>3
<1> QED  BY <1>1, <1>4, <1>5

\* What a walk has seen with a page E of K.
Paging(w, s, E, K, n) ==
  /\ s \in Seq(Tuples(n)) /\ Sorted(s) /\ ToSet(s) = ToSet(w.seen) \cup E
  /\ E = After(K, w.cursor) => w.throughout \subseteq ToSet(s)
  /\ \A d \in E : (\A k \in E : ~Before(d, k)) =>
       /\ \A k \in ToSet(s) : k = d \/ Before(k, d)
       /\ \A k \in w.throughout : k \in ToSet(s) \/ Before(d, k)

LEMMA NextPage ==
  ASSUME NEW n \in Nat, NEW K \in SUBSET Tuples(n),
         NEW w, w.seen \in Seq(Tuples(n)), Sorted(w.seen), Ahead(w, K),
         w.cursor = Start \/ w.cursor \in ToSet(w.seen),
         NEW q, NEW E, Orders(q, E), Heads(E, After(K, w.cursor)),
         NEW s, s = w.seen \o q
  PROVE  Paging(w, s, E, K, n)
<1> DEFINE seen == w.seen
           c == w.cursor
           t == w.throughout
           T == Tuples(n)
<1>1. /\ \A a \in T : ~Before(a, a)
      /\ \A x, y, z \in T : Before(x, y) /\ Before(y, z) => Before(x, z)
      /\ \A x, y \in T : x # y => Before(x, y) \/ Before(y, x)
  <2>1. Comparable(T)
    BY Compares
  <2> QED  BY <2>1 DEF Comparable
<1>2. /\ seen \in Seq(T) /\ Len(seen) \in Nat /\ DOMAIN seen = 1..Len(seen)
      /\ \A i \in 1..Len(seen) : seen[i] \in T /\ seen[i] \in ToSet(seen)
      /\ ToSet(seen) \subseteq T
  <2> HIDE DEF T
  <2>1. seen \in Seq(T)
    BY DEF T
  <2> HIDE DEF seen
  <2>2. Len(seen) \in Nat /\ DOMAIN seen = 1..Len(seen)
    BY <2>1
  <2>3. \A i \in 1..Len(seen) : seen[i] \in T /\ seen[i] \in ToSet(seen)
    <3>1. \A i \in 1..Len(seen) : seen[i] \in T
      BY ONLY <2>1
    <3>2. \A i \in 1..Len(seen) : seen[i] \in ToSet(seen)
      BY ONLY <2>2 DEF ToSet
    <3> QED  BY <3>1, <3>2
  <2>4. ToSet(seen) \subseteq T
    BY <2>2, <2>3 DEF ToSet
  <2> QED  BY <2>1, <2>2, <2>3, <2>4
<1>3. /\ c = Start => seen = << >>
      /\ \A k \in ToSet(seen) : k = c \/ Before(k, c)
      /\ t \subseteq K
      /\ \A k \in t : k \in ToSet(seen) \/ c = Start \/ Before(c, k)
  BY DEF Ahead
<1>4. \A k \in K : k \in After(K, c) <=> c = Start \/ Before(c, k)
  BY DEF After
<1>5. E \subseteq K /\ \A k \in E : c = Start \/ Before(c, k)
  BY DEF Heads, After
<1>6. \A k \in E : \A j \in K : Before(j, k) /\ (c = Start \/ Before(c, j)) => j \in E
  BY <1>4 DEF Heads
<1>7. /\ q \in Seq(E) /\ Sorted(q) /\ Len(q) \in Nat /\ ToSet(q) = E
      /\ \A k \in E : \E i \in 1..Len(q) : q[i] = k
      /\ \A i \in 1..Len(q) : q[i] \in E
  <2>1. q \in Seq(E) /\ Sorted(q) /\ Len(q) \in Nat /\ ToSet(q) = E
        /\ \A k \in E : \E i \in 1..Len(q) : q[i] = k
    BY DEF Orders
  <2>2. \A i \in 1..Len(q) : q[i] \in E
    BY <2>1
  <2> QED  BY <2>1, <2>2
<1>8. K \subseteq T /\ (c = Start \/ c \in ToSet(seen))
  OBVIOUS
<1>9. s = seen \o q /\ Sorted(seen)
  OBVIOUS
<1> HIDE DEF seen, c, t, T
<1>10. /\ s \in Seq(T) /\ ToSet(s) = ToSet(seen) \cup E
       /\ (\A k \in ToSet(seen), e \in E : Before(k, e)) => Sorted(s)
  <2>1. q \in Seq(T)
    BY <1>5, <1>7, <1>8
  <2>2. seen \in Seq(T) /\ Sorted(seen) /\ Sorted(q) /\ ToSet(q) = E
    BY <1>2, <1>7, <1>9
  <2>3. /\ s \in Seq(T) /\ ToSet(s) = ToSet(seen) \cup ToSet(q)
        /\ Sorted(seen) /\ Sorted(q)
           /\ (\A k \in ToSet(seen), e \in ToSet(q) : Before(k, e)) => Sorted(s)
    BY <1>9, <2>1, <2>2, Joined
  <2> QED  BY <2>2, <2>3
<1>11. \A k \in ToSet(seen), e \in E : Before(k, e)
  <2> SUFFICES ASSUME NEW k \in ToSet(seen), NEW e \in E  PROVE Before(k, e)
    OBVIOUS
  <2>1. c # Start
    <3>1. seen # << >>
      BY <1>2 DEF ToSet
    <3> QED  BY <1>3, <3>1
  <2>2. Before(c, e) /\ c \in T /\ k \in T /\ e \in T
    BY <1>2, <1>5, <1>8, <2>1
  <2> QED  BY <1>1, <1>3, <2>2
<1>12. Sorted(s)
  BY <1>10, <1>11
<1>13. ToSet(s) = ToSet(seen) \cup E
  BY <1>10
<1>14. E = After(K, c) => t \subseteq ToSet(s)
  BY <1>3, <1>4, <1>13
<1>15. ASSUME NEW d \in E, \A k \in E : ~Before(d, k)
       PROVE  /\ \A k \in ToSet(s) : k = d \/ Before(k, d)
              /\ \A k \in t : k \in ToSet(s) \/ Before(d, k)
  <2>1. ASSUME NEW k \in ToSet(s)  PROVE k = d \/ Before(k, d)
    <3>1. CASE k \in ToSet(seen)
      BY <1>11, <3>1
    <3>2. CASE k \in E
      BY <1>1, <1>5, <1>8, <1>15, <3>2
    <3> QED  BY <1>13, <2>1, <3>1, <3>2
  <2>2. ASSUME NEW k \in t  PROVE k \in ToSet(s) \/ Before(d, k)
    <3> SUFFICES ASSUME k \notin ToSet(s)  PROVE Before(d, k)
      OBVIOUS
    <3>1. k \notin E /\ k \notin ToSet(seen) /\ k \in K
      BY <1>3, <1>13
    <3>2. ~Before(k, d)
      BY <1>3, <1>6, <3>1
    <3>3. k \in T /\ d \in T /\ k # d
      BY <1>5, <1>8, <3>1
    <3> QED  BY <1>1, <3>2, <3>3
  <2> QED  BY <2>1, <2>2
<1> QED  BY <1>10, <1>12, <1>13, <1>14, <1>15 DEF Paging, seen, c, t, T

LEMMA ListedGrows ==
  ASSUME setMembers \subseteq setMembers', accountMembers \subseteq accountMembers',
         history \subseteq history', NEW l, l.query \in Queries
  PROVE  Listed(l) \subseteq Listed(l)'
<1>1. CASE l.query = "members_by_created_at"
  BY <1>1 DEF Listed, NewestFirst
<1>2. CASE l.query = "members_by_external_id"
  BY <1>2 DEF Listed, ByExternalId
<1>3. CASE l.query = "sets_of_account"
  BY <1>3 DEF Listed, ByName
<1>4. CASE l.query = "sets_of_set"
  BY <1>4 DEF Listed, ByName
<1>5. CASE l.query = "balances_of_account"
  BY <1>5 DEF Listed, ByCurrency
<1>6. CASE l.query = "balances_of_accounts"
  BY <1>6 DEF Listed, ByHolder
<1>7. CASE l.query = "effective_of_account"
  BY <1>7 DEF Listed, AsOf
<1>8. CASE l.query = "effective_of_accounts"
  BY <1>8 DEF Listed, AsOf
<1>9. CASE l.query = "ranges_of_account"
  BY <1>9 DEF Listed, AsOf, Until
<1>10. CASE l.query = "ranges_of_accounts"
  BY <1>10 DEF Listed, AsOf, Until
<1>11. CASE l.query = "entries_of_set"
  BY <1>11 DEF Listed, Directed, FoldedInto
<1>12. CASE l.query = "entries_of_journal"
  BY <1>12 DEF Listed, Directed, Chosen, AtLeast, AtMost
<1> QED
  BY <1>1, <1>2, <1>3, <1>4, <1>5, <1>6, <1>7, <1>8, <1>9, <1>10, <1>11, <1>12
  DEF Queries

\* A listing that a client walks.
LEMMA Walked ==
  ASSUME Inv, walk # NoWalk
  PROVE  /\ walk.listing.query \in Queries /\ walk.first \in Nat \ {0}
         /\ DOMAIN walk = {"listing", "first", "cursor", "seen", "throughout", "done"}
         /\ walk.done \in BOOLEAN
BY MenuAssumption, BoundAssumption DEF Inv, WalkOK, StateOK

\* More rows, or none less, leave a walk as it was.
LEMMA GrownWalks ==
  ASSUME Inv, WalkInv, walk' = walk,
         setMembers \subseteq setMembers', accountMembers \subseteq accountMembers',
         history \subseteq history'
  PROVE  WalkInv'
<1> SUFFICES ASSUME NEW l, walk # NoWalk, l = walk.listing
             PROVE  WalkHolds(walk, l, Listed(l)')
  BY DEF WalkInv, WalkHolds, Ahead
<1>1. WalkHolds(walk, l, Listed(l)) /\ l.query \in Queries
  BY Walked DEF WalkInv
<1>2. Listed(l) \subseteq Listed(l)'
  BY <1>1, ListedGrows
<1> QED  BY <1>1, <1>2 DEF WalkHolds, Ahead

\* A removal: what a walk is held to is what is listed after it.
LEMMA RemoveMemberWalks ==
  ASSUME Inv, WalkInv, NEW e, RemoveMember(e)
  PROVE  WalkInv'
<1>0. PICK l : l = walk.listing
  OBVIOUS
<1>1. walk' = IF walk = NoWalk \/ walk.done THEN walk
              ELSE [walk EXCEPT !.throughout = {k \in @ : k \in Listed(l)'}]
  BY <1>0 DEF RemoveMember, Watch
<1>2. CASE walk = NoWalk
  BY <1>1, <1>2 DEF WalkInv
<1>3. CASE walk # NoWalk /\ walk.done
  <2>1. walk' = walk
    BY <1>1, <1>3
  <2>2. WalkHolds(walk, l, Listed(l))
    BY <1>0, <1>3 DEF WalkInv
  <2>3. WalkHolds(walk, l, Listed(l)')
    BY <1>3, <2>2 DEF WalkHolds
  <2> QED  BY <1>0, <2>1, <2>3 DEF WalkInv, WalkHolds, Ahead
<1>4. CASE walk # NoWalk /\ ~walk.done
  <2>1. PICK T : T = {k \in walk.throughout : k \in Listed(l)'}
    OBVIOUS
  <2>2. /\ WalkHolds(walk, l, Listed(l)) /\ l.query \in Queries
        /\ DOMAIN walk = {"listing", "first", "cursor", "seen", "throughout", "done"}
    BY <1>0, <1>4, Walked DEF WalkInv
  <2>3. T \subseteq walk.throughout /\ T \subseteq Listed(l)'
    BY <2>1
  <2>4. PICK w : w = [walk EXCEPT !.throughout = T]
    OBVIOUS
  <2>5. /\ walk' = w /\ w.listing = l /\ w.seen = walk.seen
        /\ w.cursor = walk.cursor /\ w.throughout = T /\ w.done = walk.done
    BY <1>0, <1>1, <1>4, <2>1, <2>2, <2>4
  <2>6. WalkHolds(w, l, Listed(l)')
    BY <1>4, <2>2, <2>3, <2>5 DEF WalkHolds, Ahead
  <2> QED  BY <2>5, <2>6 DEF WalkInv, WalkHolds, Ahead
<1> QED  BY <1>2, <1>3, <1>4

LEMMA StartWalks ==
  ASSUME Inv, NEW i \in DOMAIN Menu[scene].listings, NEW first \in PageSizes,
         StartWalk(Menu[scene].listings[i], first)
  PROVE  WalkInv'
<1>0. PICK l : l = Menu[scene].listings[i]
  OBVIOUS
<1>1. PICK w : w = [listing |-> l, first |-> first, cursor |-> Start, seen |-> << >>,
                    throughout |-> Listed(l), done |-> FALSE]
  OBVIOUS
<1>2. /\ walk' = w
      /\ setMembers' = setMembers /\ accountMembers' = accountMembers
      /\ history' = history
  BY <1>0, <1>1 DEF StartWalk, tables
<1>3. l.query \in Queries
  BY <1>0, MenuAssumption DEF Inv, StateOK, Range
<1>4. Listed(l) \subseteq Listed(l)'
  BY <1>2, <1>3, ListedGrows
<1>5. /\ w.listing = l /\ w.cursor = Start /\ w.seen = << >>
      /\ w.throughout \subseteq Listed(l)' /\ w.done = FALSE
  BY <1>1, <1>4
<1>6. w.seen \in Seq(Tuples(Width(l))) /\ Sorted(w.seen) /\ ToSet(w.seen) = {}
  BY <1>5 DEF Sorted, ToSet
<1>7. WalkHolds(w, l, Listed(l)')
  BY <1>5, <1>6 DEF WalkHolds, Ahead, CursorOf
<1> QED  BY <1>2, <1>5, <1>7 DEF WalkInv, WalkHolds, Ahead

LEMMA ReadPageWalks ==
  ASSUME Inv, WalkInv, ReadPage
  PROVE  WalkInv'
<1>1. walk # NoWalk /\ ~walk.done
  BY DEF ReadPage
<1>0. PICK w, l, page, d : /\ w = walk /\ l = w.listing
                           /\ page = Page(l, w.cursor, w.first)
                           /\ d = NextCursor(l, page)
  OBVIOUS
<1>2. /\ WalkHolds(w, l, Listed(l)) /\ l.query \in Queries /\ w.first \in Nat \ {0}
      /\ DOMAIN w = {"listing", "first", "cursor", "seen", "throughout", "done"}
  BY <1>0, <1>1, Walked DEF WalkInv
<1>3. Listed(l) \subseteq Listed(l)'
  BY <1>2, ListedGrows DEF ReadPage, tables
<1>4. PICK K : K = Listed(l)
  OBVIOUS
<1>5. PICK s : s = w.seen \o page.entities
  OBVIOUS
<1>6. walk' = IF Continues(l, page) THEN [w EXCEPT !.seen = s, !.cursor = d]
              ELSE IF page.has_next_page THEN NoWalk
              ELSE [w EXCEPT !.seen = s, !.done = TRUE]
  BY <1>0, <1>5 DEF ReadPage
<1>7. /\ IsPage(page, After(K, w.cursor), w.first)
      /\ l.query \notin Members => EndsAtLast(page)
  BY <1>0, <1>2, <1>4, PageIs DEF WalkHolds
<1>8. /\ Width(l) \in Nat \ {0} /\ K \in SUBSET Tuples(Width(l)) /\ Comparable(K)
      /\ IsFiniteSet(After(K, w.cursor)) /\ Comparable(After(K, w.cursor))
  <2> DEFINE n == Width(l)
  <2>1. n \in Nat \ {0} /\ Keyed(K, n)
    BY <1>2, <1>4, ListedKeyed
  <2> HIDE DEF n
  <2>2. K \in SUBSET Tuples(n) /\ Comparable(K)
    BY <2>1, KeyedCompare DEF Keyed
  <2>3. IsFiniteSet(After(K, w.cursor)) /\ Comparable(After(K, w.cursor))
    <3>1. IsFiniteSet(K) /\ After(K, w.cursor) \subseteq K
      BY <2>1 DEF Keyed, After
    <3> QED  BY <2>2, <3>1, FS_Subset DEF Comparable
  <2> QED  BY <2>1, <2>2, <2>3 DEF n
<1>9. PICK E : /\ Orders(page.entities, E) /\ Heads(E, After(K, w.cursor))
               /\ ~page.has_next_page => E = After(K, w.cursor)
  <2>1. w.first \in Nat
    BY <1>2
  <2> QED  BY <1>7, <1>8, <2>1, PageHas
<1>10. /\ w.seen \in Seq(Tuples(Width(l))) /\ Sorted(w.seen) /\ Ahead(w, K)
       /\ w.cursor = Start \/ w.cursor \in ToSet(w.seen)
       /\ CursorOf(l, w.cursor)
  BY <1>0, <1>1, <1>2, <1>4 DEF WalkHolds
<1>11. /\ s \in Seq(Tuples(Width(l))) /\ Sorted(s) /\ ToSet(s) = ToSet(w.seen) \cup E
       /\ E = After(K, w.cursor) => w.throughout \subseteq ToSet(s)
       /\ \A b \in E : (\A k \in E : ~Before(b, k)) =>
            /\ \A k \in ToSet(s) : k = b \/ Before(k, b)
            /\ \A k \in w.throughout : k \in ToSet(s) \/ Before(b, k)
  <2> DEFINE n == Width(l)
             q == page.entities
  <2>1. n \in Nat /\ K \in SUBSET Tuples(n)
    BY <1>8
  <2>2. /\ w.seen \in Seq(Tuples(n)) /\ Sorted(w.seen) /\ Ahead(w, K)
        /\ w.cursor = Start \/ w.cursor \in ToSet(w.seen)
    BY <1>10
  <2>3. Orders(q, E) /\ Heads(E, After(K, w.cursor)) /\ s = w.seen \o q
    BY <1>5, <1>9
  <2> HIDE DEF n, q
  <2>4. Paging(w, s, E, K, n)
    BY <2>1, <2>2, <2>3, NextPage
  <2> QED  BY <2>4 DEF Paging, n
<1>12. E \subseteq K /\ ToSet(page.entities) = E
  BY <1>9 DEF Orders, Heads, After
<1>13. CASE Continues(l, page)
  <2>1. PICK x : x = [w EXCEPT !.seen = s, !.cursor = d]
    OBVIOUS
  <2>2. /\ walk' = x /\ x.listing = l /\ x.seen = s /\ x.cursor = d
        /\ x.throughout = w.throughout /\ x.done = FALSE
    BY <1>0, <1>1, <1>2, <1>6, <1>13, <2>1, Walked
  <2>3. /\ d \in E /\ \A k \in E : ~Before(d, k)
        /\ l.query = "members_by_external_id" => d[1] # 1
    BY <1>0, <1>2, <1>7, <1>8, <1>12, <1>13, NextCursorIs
  <2>4. d \in Tuples(Width(l)) /\ d # Start
    <3>1. d \in Tuples(Width(l))
      BY <1>8, <1>12, <2>3
    <3>2. d \in Seq(Int) /\ Len(d) = Width(l)
      BY <3>1 DEF Tuples
    <3>3. d # Start
      BY <1>8, <3>2 DEF Start
    <3> QED  BY <3>1, <3>3
  <2>5. CursorOf(l, d)
    <3>1. ASSUME l.query = "members_by_external_id"  PROVE d[1] \in {0, 1}
      <4>1. d \in ByExternalId(accountMembers, l.of) \cup ByExternalId(setMembers, l.of)
        BY <1>4, <1>12, <2>3, <3>1 DEF Listed
      <4>2. Numbered(accountMembers) /\ Numbered(setMembers)
        BY Numbers
      <4> QED  BY <4>1, <4>2, ByExternalIdKeyed
    <3> QED  BY <2>3, <2>4, <3>1 DEF CursorOf
  <2>6. Ahead(x, Listed(l)')
    <3>1. /\ \A k \in ToSet(s) : k = d \/ Before(k, d)
          /\ \A k \in w.throughout : k \in ToSet(s) \/ Before(d, k)
      BY <1>11, <2>3
    <3>2. w.throughout \subseteq Listed(l)'
      BY <1>3, <1>4, <1>10 DEF Ahead
    <3> QED  BY <2>2, <2>4, <3>1, <3>2 DEF Ahead
  <2>7. WalkHolds(x, l, Listed(l)')
    BY <1>11, <2>2, <2>3, <2>5, <2>6 DEF WalkHolds
  <2> QED  BY <2>2, <2>7 DEF WalkInv, WalkHolds, Ahead
<1>14. CASE ~Continues(l, page) /\ page.has_next_page
  BY <1>6, <1>14 DEF WalkInv
<1>15. CASE ~Continues(l, page) /\ ~page.has_next_page
  <2>1. PICK x : x = [w EXCEPT !.seen = s, !.done = TRUE]
    OBVIOUS
  <2>2. /\ walk' = x /\ x.listing = l /\ x.seen = s /\ x.cursor = w.cursor
        /\ x.throughout = w.throughout /\ x.done = TRUE
    BY <1>0, <1>2, <1>6, <1>15, <2>1
  <2>3. WalkHolds(x, l, Listed(l)')
    BY <1>9, <1>10, <1>11, <1>15, <2>2 DEF WalkHolds
  <2> QED  BY <2>2, <2>3 DEF WalkInv, WalkHolds, Ahead
<1> QED  BY <1>13, <1>14, <1>15

LEMMA WalkStarts == Init => WalkInv
BY DEF Init, WalkInv

LEMMA WalkKeeps == Inv /\ WalkInv /\ [Next]_vars => WalkInv'
<1> SUFFICES ASSUME Inv, WalkInv, [Next]_vars  PROVE WalkInv'
  OBVIOUS
<1>1. ASSUME walk' = walk, setMembers \subseteq setMembers',
             accountMembers \subseteq accountMembers', history \subseteq history'
      PROVE  WalkInv'
  BY <1>1, GrownWalks
<1>2. ASSUME NEW P, NEW at, AddMemberSets(P, at)  PROVE WalkInv'
  BY <1>1, <1>2 DEF AddMemberSets
<1>3. ASSUME NEW Q, NEW at, AddMembers(Q, at)  PROVE WalkInv'
  BY <1>1, <1>3 DEF AddMembers
<1>4. ASSUME NEW x, NEW S, NEW at, InsertAccount(x, S, at)  PROVE WalkInv'
  BY <1>1, <1>4 DEF InsertAccount, tables
<1>5. ASSUME NEW x, NEW c, NEW d, NEW at, Resolve(x, c, d, at)  PROVE WalkInv'
  BY <1>1, <1>5 DEF Resolve, tables
<1>12. ASSUME NEW p, Write(p) \/ AbortPosting(p)  PROVE WalkInv'
  BY <1>1, <1>12 DEF Write, AbortPosting, tables
<1>6. ASSUME NEW p, CommitAccount(p) \/ AbortAccount(p)  PROVE WalkInv'
  BY <1>1, <1>6 DEF CommitAccount, AbortAccount, tables
<1>7. ASSUME NEW e, RemoveMember(e)  PROVE WalkInv'
  BY <1>7, RemoveMemberWalks
<1>8. CASE Tick
  BY <1>1, <1>8 DEF Tick, tables
<1>9. ASSUME NEW i \in DOMAIN Menu[scene].listings, NEW first \in PageSizes,
             StartWalk(Menu[scene].listings[i], first)
      PROVE  WalkInv'
  BY <1>9, StartWalks
<1>10. CASE ReadPage
  BY <1>10, ReadPageWalks
<1>11. CASE UNCHANGED vars
  BY <1>1, <1>11 DEF vars, tables
<1> QED
  BY <1>2, <1>3, <1>4, <1>5, <1>6, <1>7, <1>8, <1>9, <1>10, <1>11, <1>12 DEF Next

\* A client that reads a listing to its end has seen all that was there
\* throughout, each row once and in order, whatever is committed between its
\* pages: a page is the first rows after its cursor (the keyset predicates and
\* LIMIT of the queries, of two tables merged for members), and the cursor a
\* row that was seen.
THEOREM WalksAreComplete == Spec => []WalkComplete
<1>1. WalkInv => WalkComplete
  <2> SUFFICES ASSUME WalkInv, walk # NoWalk  PROVE WalkComplete
    BY DEF WalkComplete
  <2>1. WalkHolds(walk, walk.listing, Listed(walk.listing))
    BY DEF WalkInv
  <2>2. DOMAIN walk.seen = 1..Len(walk.seen)
    BY <2>1 DEF WalkHolds
  <2> QED  BY <2>1, <2>2 DEF WalkComplete, WalkHolds, Sorted
<1>2. Inv /\ WalkInv /\ [Next]_vars => WalkInv'
  BY WalkKeeps
<1> QED  BY Invariant, WalkStarts, <1>1, <1>2, PTL DEF Spec

\* The next page of a walk has the first rows of those of its listing after
\* the cursor, and announces another just when one is left: of one table by the
\* one row more that is read, of two by as many of each, of balances by counting
\* those that a row of either kind is read for.
THEOREM PagesAreExact == Spec => []PagesExact
<1>1. Inv /\ WalkInv => PagesExact
  <2> SUFFICES ASSUME Inv, WalkInv, walk # NoWalk  PROVE PagesExact
    BY DEF PagesExact
  <2>1. PICK l, c, n : l = walk.listing /\ c = walk.cursor /\ n = walk.first
    OBVIOUS
  <2>2. PICK page, rest : page = Page(l, c, n) /\ rest = After(Listed(l), c)
    OBVIOUS
  <2>3. l.query \in Queries /\ n \in Nat /\ CursorOf(l, c)
    BY <2>1, Walked DEF WalkInv, WalkHolds
  <2>4. IsPage(page, rest, n)
    BY <2>2, <2>3, PageIs
  <2>5. /\ ToSet(page.entities) = Limit(rest, n)
        /\ page.has_next_page <=> Cardinality(rest) > n
    BY <2>4 DEF IsPage, Orders
  <2> QED  BY <2>1, <2>2, <2>5 DEF PagesExact
<1>2. Inv /\ WalkInv /\ [Next]_vars => WalkInv'
  BY WalkKeeps
<1> QED  BY Invariant, WalkStarts, <1>1, <1>2, PTL DEF Spec
=============================================================================
