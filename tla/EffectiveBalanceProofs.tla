----------------------- MODULE EffectiveBalanceProofs -----------------------
(***************************************************************************)
(* Proofs about EffectiveBalance, for any layers, days, posters, batches   *)
(* and bounds.                                                             *)
(*                                                                         *)
(* The rows are those of a line: a sequence t of the ids of all entries in *)
(* the order of their dates (Earlier), of which row a has the date, the    *)
(* sums and the last ids up to a (Ledger).  A pass splices the entries of  *)
(* its group into the line (Spliced); its replay keeps, step by step, that *)
(* what it has written belongs to the new line: an entry is folded into    *)
(* the sums up to it (AddStep), a deleted row is shifted by the difference *)
(* (ShiftStep).  A batch is a sequence of passes (GroupStep).              *)
(***************************************************************************)
EXTENDS EffectiveBalance, Induction

----------------------------------------------------------------------------
(* Bags, snapshots and entries                                             *)

\* The sum of two disjoint sets of entries is their union.
LEMMA BagsJoin ==
  ASSUME NEW X, NEW Y, X \cap Y = {}
  PROVE  SetToBag(X) (+) SetToBag(Y) = SetToBag(X \cup Y)
<1> DEFINE A == [e \in X |-> 1]
           B == [e \in Y |-> 1]
           at(e) == (IF e \in X THEN A[e] ELSE 0) + (IF e \in Y THEN B[e] ELSE 0)
<1>1. SetToBag(X) (+) SetToBag(Y) = [e \in X \cup Y |-> at(e)]
  BY DEF (+), SetToBag
<1>2. \A e \in X \cup Y : at(e) = 1
  OBVIOUS
<1> HIDE DEF at
<1>3. [e \in X \cup Y |-> at(e)] = [e \in X \cup Y |-> 1]
  BY <1>2
<1> QED  BY <1>1, <1>3 DEF SetToBag

\* The difference of a set of entries and a part of it is the rest.
LEMMA BagsDiffer ==
  ASSUME NEW X, NEW Y, X \subseteq Y
  PROVE  SetToBag(Y) (-) SetToBag(X) = SetToBag(Y \ X)
BY DEF (-), SetToBag

\* Snapshots.
Bag == {SetToBag(X) : X \in SUBSET Nat}
Snapshot == [entry : Nat, version : Nat, modified : Nat,
             amount : [Layers -> Bag], by : [Layers -> Nat]]

\* What folding an entry into a snapshot changes.
Folded(u, s, e, now, X) ==
  /\ u \in Snapshot
  /\ u.entry = e.id /\ u.version = s.version + 1 /\ u.modified = now
  /\ u.amount[e.layer] = SetToBag(X \cup {e.id})
  /\ \A l \in Layers : l # e.layer => u.amount[l] = s.amount[l]
  /\ \A l \in Layers : u.by[l] = IF l = e.layer THEN e.id ELSE s.by[l]

\* UpdateSnapshot adds one entry to its layer.
LEMMA EntryFolds ==
  ASSUME NEW now \in Nat, NEW s \in Snapshot,
         NEW e, e.id \in Nat, e.layer \in Layers,
         NEW X, X \subseteq Nat, s.amount[e.layer] = SetToBag(X), e.id \notin X,
         NEW u, u = UpdateSnapshot(now, s, e)
  PROVE  Folded(u, s, e, now, X)
<1> DEFINE b == SetToBag(X \cup {e.id})
<1>1. s.amount[e.layer] (+) SetToBag({e.id}) = b
  BY BagsJoin
<1>2. b \in Bag
  BY DEF Bag
<1> HIDE DEF b
<1>3. u = [entry |-> e.id, version |-> s.version + 1, modified |-> now,
           amount |-> [s.amount EXCEPT ![e.layer] = b],
           by |-> [s.by EXCEPT ![e.layer] = e.id]]
  BY <1>1 DEF UpdateSnapshot, Snapshot
<1> QED  BY <1>2, <1>3 DEF Folded, Snapshot, b

----------------------------------------------------------------------------
(* Lines of entries: t gives for each position the id of its entry *)

Entry == [id : Nat, layer : Layers, sequence : Nat, effective : Days,
          call : Nat, posting : Nat]

\* P knows entries by their ids.
Entered(P) ==
  /\ DOMAIN P \subseteq Nat \ {UNASSIGNED_ENTRY_ID}
  /\ \A x \in DOMAIN P : P[x] \in Entry /\ P[x].id = x

\* The order of the rows.
Earlier(e, f) ==
  \/ e.effective < f.effective
  \/ /\ e.effective = f.effective /\ e.call <= f.call
     /\ (e.call = f.call /\ e.posting = f.posting) => e.sequence < f.sequence

Line(t, n, P) ==
  /\ Entered(P) /\ n \in Nat /\ t \in [1..n -> DOMAIN P]
  /\ \A a, b \in 1..n : a # b => t[a] # t[b]
  /\ \A a, b \in 1..n : a < b => Earlier(P[t[a]], P[t[b]])

\* The entries of layer l at positions lo to hi.
Ids(t, P, lo, hi, l) == {t[c] : c \in {d \in lo..hi : P[t[d]].layer = l}}

\* x is the last entry of layer l up to position a.
LastId(t, P, a, l, x) ==
  \/ x = UNASSIGNED_ENTRY_ID /\ \A c \in 1..a : P[t[c]].layer # l
  \/ \E b \in 1..a : /\ P[t[b]].layer = l /\ x = t[b]
                     /\ \A c \in (b + 1)..a : P[t[c]].layer # l

\* No positions, no entries.
LEMMA IdsNone == ASSUME NEW t, NEW P, NEW lo \in Nat, NEW l
                 PROVE  Ids(t, P, lo + 1, lo, l) = {}
BY DEF Ids

\* The entries up to the next position.
LEMMA IdsGrow ==
  ASSUME NEW t, NEW P, NEW lo \in Nat, NEW a \in Nat, lo <= a, NEW l
  PROVE  Ids(t, P, lo, a, l) = IF P[t[a]].layer = l
                               THEN Ids(t, P, lo, a - 1, l) \cup {t[a]}
                               ELSE Ids(t, P, lo, a - 1, l)
<1>1. \A c : c \in lo..a <=> (c \in lo..(a - 1) \/ c = a)
  OBVIOUS
<1> QED  BY <1>1 DEF Ids

\* The entry at a position is none of those before it.
LEMMA IdsNew ==
  ASSUME NEW t, NEW P, NEW n, Line(t, n, P), NEW lo \in 1..n, NEW a \in lo..n, NEW l
  PROVE  Ids(t, P, lo, a - 1, l) \subseteq Nat /\ t[a] \notin Ids(t, P, lo, a - 1, l)
<1>1. \A c \in lo..(a - 1) : c \in 1..n /\ c # a
  BY DEF Line
<1>2. a \in 1..n
  BY DEF Line
<1> QED  BY <1>1, <1>2 DEF Line, Ids, Entered

\* The last entry of a layer up to the next position.
LEMMA LastIdGrow ==
  ASSUME NEW t, NEW P, NEW a \in Nat \ {0}, NEW l, NEW x, LastId(t, P, a - 1, l, x)
  PROVE  LastId(t, P, a, l, IF P[t[a]].layer = l THEN t[a] ELSE x)
<1>1. \A c : c \in 1..a <=> (c \in 1..(a - 1) \/ c = a)
  OBVIOUS
<1>2. CASE P[t[a]].layer = l
  <2>1. a \in 1..a /\ \A c \in (a + 1)..a : P[t[c]].layer # l
    OBVIOUS
  <2> QED  BY <1>2, <2>1 DEF LastId
<1>3. CASE P[t[a]].layer # l
  <2>1. CASE x = UNASSIGNED_ENTRY_ID /\ \A c \in 1..(a - 1) : P[t[c]].layer # l
    BY <1>1, <1>3, <2>1 DEF LastId
  <2>2. CASE \E b \in 1..(a - 1) :
               /\ P[t[b]].layer = l /\ x = t[b]
               /\ \A c \in (b + 1)..(a - 1) : P[t[c]].layer # l
    <3>1. PICK b \in 1..(a - 1) :
               /\ P[t[b]].layer = l /\ x = t[b]
               /\ \A c \in (b + 1)..(a - 1) : P[t[c]].layer # l
      BY <2>2
    <3>2. \A c \in (b + 1)..a : c \in (b + 1)..(a - 1) \/ c = a
      OBVIOUS
    <3>3. b \in 1..a /\ \A c \in (b + 1)..a : P[t[c]].layer # l
      BY <1>3, <3>1, <3>2
    <3> QED  BY <1>3, <3>1, <3>3 DEF LastId
  <2> QED  BY <2>1, <2>2 DEF LastId
<1> QED  BY <1>2, <1>3

----------------------------------------------------------------------------
(* Snapshots and rows of a line *)

\* The snapshot of position a.
Accumulated(t, P, a, u) ==
  /\ u \in Snapshot /\ u.entry = t[a]
  /\ \A l \in Layers : /\ u.amount[l] = SetToBag(Ids(t, P, 1, a, l))
                       /\ LastId(t, P, a, l, u.by[l])

\* Its version: how many there are of its date up to it.
Versioned(t, P, a, v) ==
  /\ v \in 1..a
  /\ \A b \in 1..a : P[t[b]].effective = P[t[a]].effective <=> b > a - v

RowAt(t, P, s, a) ==
  [effective |-> P[t[a]].effective, allTime |-> a, snapshot |-> s[a]]

Ledger(R, t, n, P, s) ==
  /\ Line(t, n, P)
  /\ \A a \in 1..n : /\ Accumulated(t, P, a, s[a])
                     /\ Versioned(t, P, a, s[a].version)
  /\ R = {RowAt(t, P, s, a) : a \in 1..n}

\* The layer that a snapshot is of.
LEMMA TouchedLayer ==
  ASSUME NEW t, NEW n, NEW P, Line(t, n, P), NEW a \in 1..n, NEW u, Accumulated(t, P, a, u)
  PROVE  Touched(u) = P[t[a]].layer
<1>1. /\ P[t[a]].layer \in Layers /\ a \in Nat
      /\ t[a] # UNASSIGNED_ENTRY_ID
  BY DEF Line, Entered, Entry
<1>2. ASSUME NEW l \in Layers  PROVE u.by[l] = u.entry <=> l = P[t[a]].layer
  <2>1. u.entry = t[a] /\ LastId(t, P, a, l, u.by[l])
    BY DEF Accumulated
  <2>2. CASE u.by[l] = UNASSIGNED_ENTRY_ID /\ \A c \in 1..a : P[t[c]].layer # l
    BY <1>1, <2>1, <2>2
  <2>3. CASE \E b \in 1..a : /\ P[t[b]].layer = l /\ u.by[l] = t[b]
                             /\ \A c \in (b + 1)..a : P[t[c]].layer # l
    <3>1. PICK b \in 1..a : /\ P[t[b]].layer = l /\ u.by[l] = t[b]
                            /\ \A c \in (b + 1)..a : P[t[c]].layer # l
      BY <2>3
    <3>2. CASE b = a
      BY <2>1, <3>1, <3>2
    <3>3. CASE b # a
      <4>1. a \in (b + 1)..a /\ b \in 1..n
        BY <3>3 DEF Line
      <4>2. t[b] # t[a]
        BY <3>3, <4>1 DEF Line
      <4> QED  BY <2>1, <3>1, <4>1, <4>2
    <3> QED  BY <3>2, <3>3
  <2> QED  BY <2>1, <2>2, <2>3 DEF LastId
<1> QED  BY <1>1, <1>2 DEF Touched

----------------------------------------------------------------------------
(* The replay of one pass: m new entries at positions k + 1 to k + m, then *)
(* the deleted rows behind them                                            *)

\* v of the rows before the new entries are of their date.
Inserted(t, n, P, k, m, day, v) ==
  /\ Line(t, n, P) /\ k \in Nat /\ m \in Nat \ {0} /\ k + m <= n
  /\ \A a \in (k + 1)..(k + m) : P[t[a]].effective = day
  /\ v \in 0..k
  /\ \A b \in 1..k : P[t[b]].effective = day <=> b > k - v

Written == [effective : Days, snapshot : Snapshot]

\* What the replay has written after i steps.
Out(out, i, now, t, P, k) ==
  /\ out \in Seq(Written) /\ Len(out) = i
  /\ \A j \in 1..i : /\ out[j].effective = P[t[k + j]].effective
                     /\ out[j].snapshot.modified = now
                     /\ Accumulated(t, P, k + j, out[j].snapshot)
                     /\ Versioned(t, P, k + j, out[j].snapshot.version)

\* The sums of a snapshot over all entries up to position a.
UpToHere(u, t, P, a) ==
  /\ u \in Snapshot
  /\ \A l \in Layers : /\ u.amount[l] = SetToBag(Ids(t, P, 1, a, l))
                       /\ LastId(t, P, a, l, u.by[l])

\* The difference: the sums of the new entries, the last ids of all.
Difference(d, t, P, lo, hi, a) ==
  /\ d \in Snapshot
  /\ \A l \in Layers : /\ d.amount[l] = SetToBag(Ids(t, P, lo, hi, l))
                       /\ LastId(t, P, a, l, d.by[l])

\* The replay after i new entries.
Added(acc, i, now, t, P, k, day, v) ==
  /\ UpToHere(acc.last, t, P, k + i)
  /\ Rebase(acc.last, acc.day, day).version = v + i
  /\ IF i = 0 THEN acc.diff = NoDiff
     ELSE /\ Difference(acc.diff, t, P, k + 1, k + i, k + i)
          /\ acc.diff.version > 0
  /\ Out(acc.out, i, now, t, P, k)

\* One more row of the new line is written.
LEMMA OutGrows ==
  ASSUME NEW out, NEW i \in Nat, NEW now, NEW t, NEW P, NEW k \in Nat,
         Out(out, i, now, t, P, k), NEW o \in Written,
         o.effective = P[t[k + (i + 1)]].effective, o.snapshot.modified = now,
         Accumulated(t, P, k + (i + 1), o.snapshot),
         Versioned(t, P, k + (i + 1), o.snapshot.version)
  PROVE  Out(Append(out, o), i + 1, now, t, P, k)
<1>1. /\ out \in Seq(Written) /\ Len(out) = i
      /\ \A j \in 1..i : /\ out[j].effective = P[t[k + j]].effective
                         /\ out[j].snapshot.modified = now
                         /\ Accumulated(t, P, k + j, out[j].snapshot)
                         /\ Versioned(t, P, k + j, out[j].snapshot.version)
  BY DEF Out
<1> DEFINE more == Append(out, o)
<1>2. /\ more \in Seq(Written) /\ Len(more) = i + 1
      /\ more[i + 1] = o /\ \A j \in 1..i : more[j] = out[j]
  BY <1>1
<1> HIDE DEF more
<1>3. \A j \in 1..(i + 1) : j \in 1..i \/ j = i + 1
  OBVIOUS
<1>4. Out(more, i + 1, now, t, P, k)
  BY <1>1, <1>2, <1>3 DEF Out
<1> QED  BY <1>4 DEF more

\* Folding the entry at position a into the sums up to it.
LEMMA FoldUpTo ==
  ASSUME NEW t, NEW n, NEW P, Line(t, n, P), NEW a \in 1..n, NEW now \in Nat,
         NEW s, UpToHere(s, t, P, a - 1),
         NEW u, u = UpdateSnapshot(now, s, P[t[a]])
  PROVE  /\ Accumulated(t, P, a, u) /\ UpToHere(u, t, P, a)
         /\ u.version = s.version + 1 /\ u.modified = now
<1> DEFINE e == P[t[a]]
<1>1. /\ e.id = t[a] /\ e.id \in Nat /\ e.layer \in Layers
      /\ a \in Nat \ {0} /\ 1 <= a /\ 1 \in 1..n /\ a \in 1..n
  <2>1. Entered(P) /\ n \in Nat /\ t[a] \in DOMAIN P
    BY DEF Line
  <2>2. e \in Entry /\ e.id = t[a]
    BY <2>1 DEF Entered
  <2> HIDE DEF e
  <2>3. e.id \in Nat /\ e.layer \in Layers
    BY <2>2 DEF Entry
  <2>4. a \in Nat \ {0} /\ 1 <= a /\ 1 \in 1..n /\ a \in 1..n
    BY <2>1
  <2> QED  BY <2>2, <2>3, <2>4
<1>2. \A l \in Layers : /\ Ids(t, P, 1, a - 1, l) \subseteq Nat
                        /\ t[a] \notin Ids(t, P, 1, a - 1, l)
  BY <1>1, IdsNew
<1> DEFINE X == Ids(t, P, 1, a - 1, e.layer)
<1>3. s \in Snapshot /\ s.amount[e.layer] = SetToBag(X)
  BY <1>1 DEF UpToHere
<1>7. X \subseteq Nat /\ e.id \notin X
  BY <1>1, <1>2
<1>8. u = UpdateSnapshot(now, s, e)
  OBVIOUS
<1> HIDE DEF e, X
<1>9. Folded(u, s, e, now, X)
  BY <1>1, <1>7, <1>8, <1>3, EntryFolds
<1>4. /\ u \in Snapshot
      /\ u.entry = e.id /\ u.version = s.version + 1 /\ u.modified = now
      /\ u.amount[e.layer] = SetToBag(X \cup {e.id})
      /\ \A l \in Layers : l # e.layer => u.amount[l] = s.amount[l]
      /\ \A l \in Layers : u.by[l] = IF l = e.layer THEN e.id ELSE s.by[l]
  BY <1>9 DEF Folded
<1>5. ASSUME NEW l \in Layers
      PROVE  u.amount[l] = SetToBag(Ids(t, P, 1, a, l)) /\ LastId(t, P, a, l, u.by[l])
  <2>1. Ids(t, P, 1, a, l) = IF e.layer = l
                             THEN Ids(t, P, 1, a - 1, l) \cup {t[a]}
                             ELSE Ids(t, P, 1, a - 1, l)
    BY <1>1, IdsGrow DEF e
  <2>2. s.amount[l] = SetToBag(Ids(t, P, 1, a - 1, l)) /\ LastId(t, P, a - 1, l, s.by[l])
    BY DEF UpToHere
  <2>3. LastId(t, P, a, l, IF P[t[a]].layer = l THEN t[a] ELSE s.by[l])
    BY <1>1, <2>2, LastIdGrow
  <2>4. u.by[l] = IF P[t[a]].layer = l THEN t[a] ELSE s.by[l]
    BY <1>1, <1>4 DEF e
  <2>5. u.amount[l] = SetToBag(Ids(t, P, 1, a, l))
    BY <1>1, <1>4, <2>1, <2>2 DEF X
  <2>6. LastId(t, P, a, l, u.by[l])
    BY <2>3, <2>4
  <2> QED  BY <2>5, <2>6
<1>6. Accumulated(t, P, a, u) /\ UpToHere(u, t, P, a)
  BY <1>1, <1>4, <1>5 DEF Accumulated, UpToHere
<1> QED  BY <1>4, <1>6

\* The versions of new entries continue those of their date.
LEMMA NewVersion ==
  ASSUME NEW t, NEW n, NEW P, NEW k, NEW m, NEW day, NEW v,
         Inserted(t, n, P, k, m, day, v), NEW i \in 1..m
  PROVE  Versioned(t, P, k + i, v + i)
<1>1. /\ k \in Nat /\ m \in Nat /\ i \in Nat /\ v \in 0..k
      /\ \A b \in 1..k : P[t[b]].effective = day <=> b > k - v
      /\ \A a \in (k + 1)..(k + m) : P[t[a]].effective = day
  BY DEF Inserted
<1>2. v + i \in 1..(k + i)
  BY <1>1
<1>3. P[t[k + i]].effective = day
  BY <1>1
<1>4. ASSUME NEW b \in 1..(k + i)
      PROVE  P[t[b]].effective = day <=> b > (k + i) - (v + i)
  <2>1. CASE b \in 1..k
    BY <1>1, <2>1
  <2>2. CASE b \notin 1..k
    <3>1. b \in (k + 1)..(k + m) /\ b > k - v
      BY <1>1, <2>2
    <3> QED  BY <1>1, <3>1
  <2> QED  BY <2>1, <2>2
<1> QED  BY <1>2, <1>3, <1>4 DEF Versioned

\* A change of date keeps the sums.
LEMMA RebaseKeeps ==
  ASSUME NEW s \in Snapshot, NEW day, NEW next, NEW t, NEW P, NEW a, UpToHere(s, t, P, a)
  PROVE  UpToHere(Rebase(s, day, next), t, P, a) /\ Rebase(s, day, next) \in Snapshot
<1> DEFINE r == Rebase(s, day, next)
<1>1. r \in Snapshot /\ r.amount = s.amount /\ r.by = s.by
  BY DEF Rebase, Snapshot
<1> HIDE DEF r
<1>2. UpToHere(r, t, P, a)
  BY <1>1 DEF UpToHere
<1> QED  BY <1>1, <1>2 DEF r

\* The first entry sets the difference up, the others are added to it.
LEMMA DifferenceStarts ==
  ASSUME NEW t, NEW n, NEW P, Line(t, n, P), NEW a \in 1..n, NEW now \in Nat,
         NEW u, UpToHere(u, t, P, a), NEW d, d = StartDiff(now, u, P[t[a]]),
         u.by[P[t[a]].layer] = t[a]
  PROVE  Difference(d, t, P, a, a, a) /\ d.version > 0
<1> DEFINE e == P[t[a]]
           none == [l \in Layers |-> EmptyBag]
           s == [entry |-> u.entry, version |-> 0, modified |-> now,
                 amount |-> none, by |-> u.by]
<1>1. /\ e.id = t[a] /\ e.id \in Nat /\ e.layer \in Layers /\ a \in Nat
  BY DEF Line, Entered, Entry
<1>2. EmptyBag \in Bag /\ EmptyBag = SetToBag({})
  BY DEF Bag, EmptyBag
<1>3. u \in Snapshot /\ u.entry \in Nat /\ u.by \in [Layers -> Nat]
  BY DEF UpToHere, Snapshot
<1>4. /\ s \in Snapshot /\ s.version = 0 /\ s.by = u.by
      /\ \A l \in Layers : s.amount[l] = SetToBag({})
  BY <1>2, <1>3 DEF Snapshot
<1>5. [FirstSnapshot(now) EXCEPT !.entry = u.entry, !.by = u.by] = s
  <2> DEFINE first == FirstSnapshot(now)
             nobody == [l \in Layers |-> UNASSIGNED_ENTRY_ID]
  <2>1. first = [entry |-> UNASSIGNED_ENTRY_ID, version |-> 0, modified |-> now,
                 amount |-> none, by |-> nobody]
    BY DEF FirstSnapshot
  <2> HIDE DEF first, none, nobody
  <2> DEFINE g == [first EXCEPT !.entry = u.entry]
  <2>2. g = [entry |-> u.entry, version |-> 0, modified |-> now,
             amount |-> none, by |-> nobody]
    BY <2>1
  <2> HIDE DEF g
  <2>3. [g EXCEPT !.by = u.by] = s
    BY <2>2
  <2> QED  BY <2>3 DEF g, first
<1>6. d = UpdateSnapshot(now, s, e)
  BY <1>5 DEF StartDiff
<1> DEFINE X == {}
<1>7. s.amount[e.layer] = SetToBag(X) /\ e.id \notin X /\ X \subseteq Nat
  BY <1>1, <1>4
<1> HIDE DEF e, none, s, X
<1>8. Folded(d, s, e, now, X)
  BY <1>1, <1>4, <1>6, <1>7, EntryFolds
<1>9. /\ d \in Snapshot /\ d.version = s.version + 1
      /\ d.amount[e.layer] = SetToBag({e.id})
      /\ \A l \in Layers : l # e.layer => d.amount[l] = s.amount[l]
      /\ \A l \in Layers : d.by[l] = IF l = e.layer THEN e.id ELSE s.by[l]
  BY <1>8 DEF Folded, X
<1>10. \A l \in Layers : Ids(t, P, a, a, l) = IF l = e.layer THEN {e.id} ELSE {}
  BY <1>1 DEF Ids, e
<1>11. \A l \in Layers : d.amount[l] = SetToBag(Ids(t, P, a, a, l))
  BY <1>4, <1>9, <1>10
<1>12. \A l \in Layers : d.by[l] = u.by[l]
  BY <1>1, <1>4, <1>9 DEF e
<1>13. \A l \in Layers : LastId(t, P, a, l, d.by[l])
  BY <1>12 DEF UpToHere
<1>14. d \in Snapshot /\ d.version > 0
  <2>1. d.version = s.version + 1 /\ s.version = 0
    BY <1>4, <1>9
  <2> QED  BY <1>9, <2>1
<1>15. Difference(d, t, P, a, a, a)
  BY <1>11, <1>13, <1>14 DEF Difference
<1> QED  BY <1>14, <1>15

\* The difference after one more entry.
LEMMA DifferenceGrows ==
  ASSUME NEW t, NEW n, NEW P, Line(t, n, P), NEW lo \in 1..n, NEW a \in lo..n, NEW now \in Nat,
         NEW s, Difference(s, t, P, lo, a - 1, a - 1), s.version > 0,
         NEW d, d = UpdateSnapshot(now, s, P[t[a]])
  PROVE  Difference(d, t, P, lo, a, a) /\ d.version > 0
<1> DEFINE e == P[t[a]]
<1>1. /\ e.id = t[a] /\ e.id \in Nat /\ e.layer \in Layers
      /\ a \in Nat \ {0} /\ lo \in Nat /\ lo <= a
  BY DEF Line, Entered, Entry
<1>2. \A l \in Layers : /\ Ids(t, P, lo, a - 1, l) \subseteq Nat
                        /\ t[a] \notin Ids(t, P, lo, a - 1, l)
  BY <1>1, IdsNew
<1> DEFINE X == Ids(t, P, lo, a - 1, e.layer)
<1>3. s \in Snapshot /\ s.amount[e.layer] = SetToBag(X) /\ s.version \in Nat
  BY <1>1 DEF Difference, Snapshot
<1>7. X \subseteq Nat /\ e.id \notin X
  BY <1>1, <1>2
<1>8. d = UpdateSnapshot(now, s, e)
  OBVIOUS
<1> HIDE DEF e, X
<1>9. Folded(d, s, e, now, X)
  BY <1>1, <1>3, <1>7, <1>8, EntryFolds
<1>4. /\ d \in Snapshot
      /\ d.entry = e.id /\ d.version = s.version + 1 /\ d.modified = now
      /\ d.amount[e.layer] = SetToBag(X \cup {e.id})
      /\ \A l \in Layers : l # e.layer => d.amount[l] = s.amount[l]
      /\ \A l \in Layers : d.by[l] = IF l = e.layer THEN e.id ELSE s.by[l]
  BY <1>9 DEF Folded
<1>5. ASSUME NEW l \in Layers
      PROVE  d.amount[l] = SetToBag(Ids(t, P, lo, a, l)) /\ LastId(t, P, a, l, d.by[l])
  <2>1. Ids(t, P, lo, a, l) = IF e.layer = l
                              THEN Ids(t, P, lo, a - 1, l) \cup {t[a]}
                              ELSE Ids(t, P, lo, a - 1, l)
    BY <1>1, IdsGrow DEF e
  <2>2. s.amount[l] = SetToBag(Ids(t, P, lo, a - 1, l)) /\ LastId(t, P, a - 1, l, s.by[l])
    BY DEF Difference
  <2>3. LastId(t, P, a, l, IF P[t[a]].layer = l THEN t[a] ELSE s.by[l])
    BY <1>1, <2>2, LastIdGrow
  <2>4. d.by[l] = IF P[t[a]].layer = l THEN t[a] ELSE s.by[l]
    BY <1>1, <1>4 DEF e
  <2>5. d.amount[l] = SetToBag(Ids(t, P, lo, a, l))
    BY <1>1, <1>4, <2>1, <2>2 DEF X
  <2>6. LastId(t, P, a, l, d.by[l])
    BY <2>3, <2>4
  <2> QED  BY <2>5, <2>6
<1> QED  BY <1>3, <1>4, <1>5 DEF Difference

\* The last entry of its own layer is the entry itself.
LEMMA LastHere ==
  ASSUME NEW t, NEW n, NEW P, Line(t, n, P), NEW a \in 1..n, NEW x,
         LastId(t, P, a, P[t[a]].layer, x)
  PROVE  x = t[a]
<1>1. a \in Nat /\ a \in 1..a
  BY DEF Line
<1>2. PICK b \in 1..a : x = t[b] /\ \A c \in (b + 1)..a : P[t[c]].layer # P[t[a]].layer
  BY <1>1 DEF LastId
<1>3. a \notin (b + 1)..a
  BY <1>2
<1>4. b = a
  BY <1>1, <1>3
<1> QED  BY <1>2, <1>4

\* A difference that counts entries is not the absent one.
LEMMA DifferenceIs ==
  ASSUME NEW t, NEW P, NEW lo, NEW hi, NEW a, NEW d, Difference(d, t, P, lo, hi, a),
         d.version > 0
  PROVE  d # NoDiff
<1>1. NoDiff.version = 0
  BY DEF NoDiff
<1>2. d.version # 0
  BY DEF Difference, Snapshot
<1> QED  BY <1>1, <1>2

\* The replay of a new entry.
LEMMA AddStep ==
  ASSUME NEW t, NEW n, NEW P, NEW k, NEW m, NEW day, NEW v,
         Inserted(t, n, P, k, m, day, v), NEW now \in Nat, NEW i \in 0..(m - 1),
         NEW acc, Added(acc, i, now, t, P, k, day, v),
         NEW next, next = Replay(now, acc, EntryUpdate(day, P[t[k + (i + 1)]]))
  PROVE  Added(next, i + 1, now, t, P, k, day, v)
<1> DEFINE a == k + (i + 1)
           e == P[t[a]]
           base == Rebase(acc.last, acc.day, day)
           x == UpdateSnapshot(now, base, e)
           d == IF acc.diff = NoDiff THEN StartDiff(now, x, e)
                ELSE UpdateSnapshot(now, acc.diff, e)
           o == [effective |-> day, snapshot |-> x]
<1>1. /\ Line(t, n, P) /\ k \in Nat /\ m \in Nat /\ n \in Nat /\ i \in Nat
      /\ a \in 1..n /\ a - 1 = k + i /\ i + 1 \in 1..m /\ a \in Nat
      /\ k + 1 \in 1..n /\ a \in (k + 1)..n
  BY DEF Inserted, Line
<1>2. e.effective = day
  <2>1. a \in (k + 1)..(k + m)
    BY <1>1
  <2> QED  BY <2>1 DEF Inserted
<1>3. /\ UpToHere(acc.last, t, P, k + i) /\ base.version = v + i
      /\ Out(acc.out, i, now, t, P, k)
      /\ i = 0 => acc.diff = NoDiff
      /\ i # 0 => /\ Difference(acc.diff, t, P, k + 1, k + i, k + i)
                  /\ acc.diff.version > 0
  BY DEF Added
<1>4. next = [last |-> x, day |-> day, diff |-> d, out |-> Append(acc.out, o)]
  BY DEF Replay, EntryUpdate
<1>5. UpToHere(base, t, P, a - 1)
  <2>1. acc.last \in Snapshot
    BY <1>3 DEF UpToHere
  <2> QED  BY <1>1, <1>3, <2>1, RebaseKeeps
<1>6. /\ Accumulated(t, P, a, x) /\ UpToHere(x, t, P, a)
      /\ x.version = base.version + 1 /\ x.modified = now
  <2>1. x = UpdateSnapshot(now, base, P[t[a]])
    OBVIOUS
  <2> HIDE DEF base, x, a
  <2>2. Line(t, n, P) /\ a \in 1..n /\ now \in Nat
    BY <1>1
  <2> QED  BY ONLY <2>2, <1>5, <2>1, FoldUpTo
<1> HIDE DEF base, x
<1>7. x.version = v + (i + 1) /\ x \in Snapshot
  <2>1. v \in Nat
    BY DEF Inserted
  <2> QED  BY <1>1, <1>3, <1>6, <2>1 DEF Accumulated
<1>8. Versioned(t, P, a, x.version)
  BY <1>1, <1>7, NewVersion
<1>9. Difference(d, t, P, k + 1, a, a) /\ d.version > 0
  <2>1. CASE i = 0
    <3>1. d = StartDiff(now, x, P[t[a]]) /\ k + 1 = a
      BY <1>1, <1>3, <2>1
    <3>2. LastId(t, P, a, P[t[a]].layer, x.by[P[t[a]].layer])
      <4>1. P[t[a]].layer \in Layers
        BY <1>1 DEF Line, Entered, Entry
      <4> QED  BY <1>6, <4>1 DEF UpToHere
    <3>3. x.by[P[t[a]].layer] = t[a]
      BY <1>1, <3>2, LastHere
    <3> HIDE DEF a, d
    <3>4. Difference(d, t, P, a, a, a) /\ d.version > 0
      BY <1>1, <1>6, <3>1, <3>3, DifferenceStarts
    <3> QED  BY <3>1, <3>4
  <2>2. CASE i # 0
    <3>1. Difference(acc.diff, t, P, k + 1, a - 1, a - 1) /\ acc.diff.version > 0
      BY <1>1, <1>3, <2>2
    <3>2. acc.diff # NoDiff
      BY <3>1, DifferenceIs
    <3>3. d = UpdateSnapshot(now, acc.diff, P[t[a]])
      BY <3>2
    <3> HIDE DEF a, d
    <3> QED  BY <1>1, <3>1, <3>3, DifferenceGrows
  <2> QED  BY <2>1, <2>2
<1>10. o \in Written /\ o.effective = P[t[k + (i + 1)]].effective /\ o.snapshot = x
  <2>1. day \in Days
    BY <1>1, <1>2 DEF Line, Entered, Entry
  <2> QED  BY <1>2, <1>7, <2>1 DEF Written
<1> HIDE DEF o, d
<1>11. Out(Append(acc.out, o), i + 1, now, t, P, k)
  BY <1>1, <1>3, <1>6, <1>8, <1>10, OutGrows
<1>12. Rebase(next.last, next.day, day).version = v + (i + 1)
  BY <1>4, <1>7 DEF Rebase
<1>13. /\ next.last = x /\ next.diff = d /\ next.out = Append(acc.out, o)
  BY <1>4
<1>14. i + 1 # 0 /\ k + (i + 1) = a
  BY <1>1
<1> QED  BY <1>6, <1>9, <1>11, <1>12, <1>13, <1>14 DEF Added

----------------------------------------------------------------------------
(* Shifting the deleted rows *)

\* The snapshot that position a had before the new entries.
Behind(s, t, P, k, m, a) ==
  /\ s \in Snapshot /\ s.entry = t[a] /\ Touched(s) = P[t[a]].layer
  /\ Versioned(t, P, a, s.version)
  /\ \A l \in Layers :
       s.amount[l] = SetToBag(Ids(t, P, 1, k, l) \cup Ids(t, P, k + m + 1, a, l))

\* The replay after i steps, all new entries among them.
Shifting(acc, i, now, t, P, k, m) ==
  /\ Difference(acc.diff, t, P, k + 1, k + m, k + i)
  /\ Out(acc.out, i, now, t, P, k)

Parts(old, new, all) == old \cup new = all /\ old \cap new = {}

\* A shifted row sums the entries it had and the new ones, each once.
LEMMA IdsSplit ==
  ASSUME NEW t, NEW n, NEW P, Line(t, n, P), NEW k \in Nat, NEW m \in Nat,
         NEW a \in (k + m + 1)..n, NEW l,
         NEW old, old = Ids(t, P, 1, k, l) \cup Ids(t, P, k + m + 1, a, l),
         NEW new, new = Ids(t, P, k + 1, k + m, l),
         NEW all, all = Ids(t, P, 1, a, l)
  PROVE  Parts(old, new, all)
<1>1. n \in Nat
  BY DEF Line
<1>2. \A c : c \in 1..a <=> c \in 1..k \/ c \in (k + 1)..(k + m) \/ c \in (k + m + 1)..a
  BY <1>1
<1>3. old \cup new = all
  BY <1>2 DEF Ids
<1>4. \A c, d : (c \in 1..k \/ c \in (k + m + 1)..a) /\ d \in (k + 1)..(k + m)
                  => c # d /\ c \in 1..n /\ d \in 1..n
  BY <1>1
<1>5. \A c, d : (c \in 1..k \/ c \in (k + m + 1)..a) /\ d \in (k + 1)..(k + m)
                  => t[c] # t[d]
  BY <1>4 DEF Line
<1>6. old \cap new = {}
  BY <1>5 DEF Ids
<1> QED  BY <1>3, <1>6 DEF Parts

\* The replay of a deleted row.
LEMMA ShiftStep ==
  ASSUME NEW t, NEW n, NEW P, NEW k, NEW m, NEW day, NEW v,
         Inserted(t, n, P, k, m, day, v), NEW now \in Nat, NEW i \in m..(n - k - 1),
         NEW acc, Shifting(acc, i, now, t, P, k, m),
         NEW r, r.effective = P[t[k + (i + 1)]].effective,
         Behind(r.snapshot, t, P, k, m, k + (i + 1)),
         NEW next, next = Replay(now, acc, RowUpdate(r))
  PROVE  Shifting(next, i + 1, now, t, P, k, m)
<1> DEFINE a == k + (i + 1)
           s == r.snapshot
           e == P[t[a]]
           d == acc.diff
           amounts == [l \in Layers |-> s.amount[l] (+) d.amount[l]]
           by == [d.by EXCEPT ![e.layer] = s.entry]
           x == [s EXCEPT !.modified = now, !.amount = amounts, !.by = by]
           o == [effective |-> r.effective, snapshot |-> x]
<1>1. /\ Line(t, n, P) /\ k \in Nat /\ m \in Nat /\ n \in Nat /\ i \in Nat
      /\ a \in 1..n /\ a - 1 = k + i /\ a \in Nat \ {0} /\ a \in (k + m + 1)..n
  BY DEF Inserted, Line
<1>2. /\ s \in Snapshot /\ s.entry = t[a] /\ Touched(s) = e.layer
      /\ Versioned(t, P, a, s.version)
      /\ \A l \in Layers :
           s.amount[l] = SetToBag(Ids(t, P, 1, k, l) \cup Ids(t, P, k + m + 1, a, l))
  BY DEF Behind
<1>3. /\ d \in Snapshot
      /\ \A l \in Layers : /\ d.amount[l] = SetToBag(Ids(t, P, k + 1, k + m, l))
                           /\ LastId(t, P, a - 1, l, d.by[l])
      /\ Out(acc.out, i, now, t, P, k)
  BY <1>1 DEF Shifting, Difference
<1>4. e.layer \in Layers /\ e.effective \in Days /\ t[a] \in Nat
  BY <1>1 DEF Line, Entered, Entry
<1>5. Shift(now, s, d) = x
  BY <1>2 DEF Shift
<1>6. RowUpdate(r).kind = "snapshot" /\ RowUpdate(r).snapshot = s
      /\ RowUpdate(r).effective = r.effective
  BY DEF RowUpdate
<1>7. /\ next.diff = [d EXCEPT !.by = by]
      /\ next.out = Append(acc.out, o)
  BY <1>2, <1>5, <1>6 DEF Replay
<1>8. ASSUME NEW l \in Layers
      PROVE  /\ amounts[l] = SetToBag(Ids(t, P, 1, a, l)) /\ amounts[l] \in Bag
             /\ by[l] \in Nat /\ LastId(t, P, a, l, by[l])
  <2> DEFINE old == Ids(t, P, 1, k, l) \cup Ids(t, P, k + m + 1, a, l)
             new == Ids(t, P, k + 1, k + m, l)
             all == Ids(t, P, 1, a, l)
  <2>1. old \cup new = all /\ old \cap new = {}
    <3>1. /\ old = Ids(t, P, 1, k, l) \cup Ids(t, P, k + m + 1, a, l)
          /\ new = Ids(t, P, k + 1, k + m, l) /\ all = Ids(t, P, 1, a, l)
      OBVIOUS
    <3> HIDE DEF old, new, all, a
    <3>2. Parts(old, new, all)
      BY <1>1, <3>1, IdsSplit
    <3> QED  BY <3>2 DEF Parts
  <2> HIDE DEF old, new
  <2>2. SetToBag(old) (+) SetToBag(new) = SetToBag(old \cup new)
    BY <2>1, BagsJoin
  <2>3. amounts[l] = SetToBag(Ids(t, P, 1, a, l))
    <3>1. s.amount[l] = SetToBag(old) /\ d.amount[l] = SetToBag(new)
      BY <1>2, <1>3 DEF old, new
    <3>2. amounts[l] = s.amount[l] (+) d.amount[l]
      OBVIOUS
    <3> HIDE DEF amounts
    <3> QED  BY <2>1, <2>2, <3>1, <3>2
  <2>4. Ids(t, P, 1, a, l) \subseteq Nat
    <3>1. \A c \in 1..a : c \in 1..n
      BY <1>1
    <3> QED  BY <1>1, <3>1 DEF Ids, Line, Entered
  <2>5. d.by \in [Layers -> Nat] /\ s.entry \in Nat
    BY <1>2, <1>3 DEF Snapshot
  <2>6. by[l] = IF P[t[a]].layer = l THEN t[a] ELSE d.by[l]
    BY <1>2, <1>4, <2>5
  <2>7. LastId(t, P, a, l, IF P[t[a]].layer = l THEN t[a] ELSE d.by[l])
    <3>1. LastId(t, P, a - 1, l, d.by[l])
      BY <1>3
    <3> HIDE DEF a
    <3> QED  BY <1>1, <3>1, LastIdGrow
  <2>8. by[l] \in Nat /\ LastId(t, P, a, l, by[l])
    <3>1. by[l] \in Nat
      BY <1>4, <2>5, <2>6
    <3> HIDE DEF a, by
    <3> QED  BY <2>6, <2>7, <3>1
  <2> QED  BY <2>3, <2>4, <2>8 DEF Bag
<1> DEFINE out == next.out
<1>9. amounts \in [Layers -> Bag] /\ by \in [Layers -> Nat]
  <2>1. d.by \in [Layers -> Nat]
    BY <1>3 DEF Snapshot
  <2> QED  BY <1>2, <1>8, <2>1 DEF Snapshot
<1> HIDE DEF amounts, by
<1>10. /\ x \in Snapshot /\ x.entry = s.entry /\ x.version = s.version
       /\ x.modified = now /\ x.amount = amounts /\ x.by = by
  BY <1>2, <1>9 DEF Snapshot
<1> HIDE DEF x
<1>11. Accumulated(t, P, a, x)
  BY <1>2, <1>8, <1>10 DEF Accumulated
<1>12. o \in Written /\ o.effective = r.effective /\ o.snapshot = x
  BY <1>4, <1>10 DEF Written
<1> HIDE DEF o
<1>13. Out(Append(acc.out, o), i + 1, now, t, P, k)
  BY <1>1, <1>2, <1>3, <1>10, <1>11, <1>12, OutGrows
<1>14. next.diff \in Snapshot /\ next.diff.amount = d.amount /\ next.diff.by = by
  <2> HIDE DEF d, out
  <2> QED  BY <1>3, <1>7, <1>9 DEF Snapshot
<1>15. Difference(next.diff, t, P, k + 1, k + m, a)
  BY <1>3, <1>8, <1>14 DEF Difference
<1> QED  BY <1>7, <1>13, <1>15 DEF Shifting

----------------------------------------------------------------------------
(* One pass *)

Runs(f, now, start, u, n) ==
  f[0] = start /\ \A i \in 1..n : f[i] = Replay(now, f[i - 1], u[i])

\* The recursive definition of a replay unfolds step by step.
LEMMA ReplayedChain ==
  ASSUME NEW now, NEW start, NEW u, NEW n \in Nat, n = Len(u), NEW f, f = Replayed(now, start, u)
  PROVE  Runs(f, now, start, u, n)
<1> DEFINE Fixed(h, m) ==
             h = [i \in 0..m |-> IF i = 0 THEN start ELSE Replay(now, h[i - 1], u[i])]
           S == {m \in Nat : \E h : Fixed(h, m)}
<1>1. 0 \in S
  <2> DEFINE h == [i \in 0..0 |-> start]
  <2>1. h = [i \in 0..0 |-> IF i = 0 THEN start ELSE Replay(now, h[i - 1], u[i])]
    OBVIOUS
  <2>2. Fixed(h, 0)
    BY <2>1
  <2> QED  BY <2>2
<1>2. ASSUME NEW m \in Nat, m \in S  PROVE m + 1 \in S
  <2>1. PICK h : Fixed(h, m)
    BY <1>2
  <2> DEFINE g == [i \in 0..(m + 1) |->
                     IF i = 0 THEN start ELSE Replay(now, h[i - 1], u[i])]
  <2>2. \A i \in 0..m : g[i] = h[i]
    BY <2>1
  <2>3. \A i \in 0..(m + 1) : i # 0 => i - 1 \in 0..m
    OBVIOUS
  <2>4. \A i \in 0..(m + 1) : i # 0 => g[i - 1] = h[i - 1]
    <3> HIDE DEF g
    <3> QED  BY <2>2, <2>3
  <2>5. Fixed(g, m + 1)
    BY <2>4
  <2>6. \E h2 : Fixed(h2, m + 1)
    <3> HIDE DEF Fixed, g
    <3> QED  BY <2>5
  <2>7. m + 1 \in Nat
    OBVIOUS
  <2> HIDE DEF Fixed
  <2> QED  BY <2>6, <2>7
<1> HIDE DEF S
<1>3. n \in S
  BY <1>1, <1>2, NatInduct
<1>4. PICK h : Fixed(h, n)
  BY <1>3 DEF S
<1>5. Fixed(f, n)
  BY <1>4 DEF Replayed
<1>6. f[0] = start
  BY <1>5
<1>7. \A i \in 1..n : i \in 0..n /\ i # 0
  OBVIOUS
<1> QED  BY <1>5, <1>6, <1>7 DEF Runs

\* After the replay all positions from k + 1 on are written.
LEMMA ReplayWrites ==
  ASSUME NEW t, NEW n, NEW P, NEW k, NEW m, NEW day, NEW v,
         Inserted(t, n, P, k, m, day, v), NEW now \in Nat,
         NEW start, Added(start, 0, now, t, P, k, day, v),
         NEW u, Len(u) = n - k,
         \A i \in 1..m : u[i] = EntryUpdate(day, P[t[k + i]]),
         \A i \in (m + 1)..(n - k) : \E r :
           /\ u[i] = RowUpdate(r) /\ r.effective = P[t[k + i]].effective
           /\ Behind(r.snapshot, t, P, k, m, k + i)
  PROVE  Out(Replayed(now, start, u)[n - k].out, n - k, now, t, P, k)
<1> DEFINE N == n - k
           f == Replayed(now, start, u)
<1>1. /\ k \in Nat /\ m \in Nat /\ m # 0 /\ n \in Nat /\ N \in Nat /\ m <= N
  BY DEF Inserted, Line
<1>2. f[0] = start /\ \A i \in 1..N : f[i] = Replay(now, f[i - 1], u[i])
  <2> HIDE DEF N, f
  <2>1. N = Len(u) /\ f = Replayed(now, start, u)
    BY DEF N, f
  <2>2. Runs(f, now, start, u, N)
    BY <1>1, <2>1, ReplayedChain
  <2> QED  BY <2>2 DEF Runs
<1> HIDE DEF f
<1> DEFINE S == {i \in Nat : i <= m => Added(f[i], i, now, t, P, k, day, v)}
<1>3. 0 \in S
  BY <1>2
<1>4. ASSUME NEW i \in Nat, i \in S  PROVE i + 1 \in S
  <2> SUFFICES ASSUME i + 1 <= m  PROVE Added(f[i + 1], i + 1, now, t, P, k, day, v)
    OBVIOUS
  <2>1. /\ i \in 0..(m - 1) /\ i + 1 \in 1..m /\ i + 1 \in 1..N /\ (i + 1) - 1 = i
        /\ i <= m
    BY <1>1
  <2>2. Added(f[i], i, now, t, P, k, day, v)
    BY <1>4, <2>1
  <2>3. u[i + 1] = EntryUpdate(day, P[t[k + (i + 1)]])
    BY <2>1
  <2>4. f[i + 1] = Replay(now, f[i], EntryUpdate(day, P[t[k + (i + 1)]]))
    BY <1>2, <2>1, <2>3
  <2> QED  BY <2>1, <2>2, <2>4, AddStep
<1> HIDE DEF S
<1>5. \A i \in Nat : i \in S
  BY <1>3, <1>4, NatInduct
<1>6. Added(f[m], m, now, t, P, k, day, v)
  BY <1>1, <1>5 DEF S
<1> DEFINE T == {i \in Nat : m + i <= N => Shifting(f[m + i], m + i, now, t, P, k, m)}
<1>7. 0 \in T
  <2>1. Shifting(f[m], m, now, t, P, k, m)
    BY <1>1, <1>6 DEF Shifting, Added
  <2>2. m + 0 = m
    BY <1>1
  <2> QED  BY <2>1, <2>2
<1>8. ASSUME NEW i \in Nat, i \in T  PROVE i + 1 \in T
  <2> SUFFICES ASSUME m + (i + 1) <= N
               PROVE  Shifting(f[m + (i + 1)], m + (i + 1), now, t, P, k, m)
    OBVIOUS
  <2> DEFINE j == m + i
  <2>1. /\ j \in Nat /\ j + 1 = m + (i + 1) /\ j \in m..(n - k - 1) /\ j <= N
        /\ j + 1 \in (m + 1)..(n - k) /\ j + 1 \in 1..N /\ (j + 1) - 1 = j
    BY <1>1
  <2>2. Shifting(f[j], j, now, t, P, k, m)
    BY <1>8, <2>1
  <2> HIDE DEF j
  <2>3. PICK r : /\ u[j + 1] = RowUpdate(r)
                 /\ r.effective = P[t[k + (j + 1)]].effective
                 /\ Behind(r.snapshot, t, P, k, m, k + (j + 1))
    BY <2>1
  <2>4. f[j + 1] = Replay(now, f[j], RowUpdate(r))
    BY <1>2, <2>1, <2>3
  <2>5. Shifting(f[j + 1], j + 1, now, t, P, k, m)
    BY <2>1, <2>2, <2>3, <2>4, ShiftStep
  <2> QED  BY <2>1, <2>5
<1> HIDE DEF T
<1>9. \A i \in Nat : i \in T
  BY <1>7, <1>8, NatInduct
<1>10. Shifting(f[N], N, now, t, P, k, m)
  <2>1. N - m \in Nat /\ m + (N - m) = N
    BY <1>1
  <2> HIDE DEF N
  <2>2. N - m \in T
    BY <1>9, <2>1
  <2>3. m + (N - m) <= N
    BY <2>1, <1>1
  <2>4. Shifting(f[m + (N - m)], m + (N - m), now, t, P, k, m)
    BY <2>2, <2>3 DEF T
  <2> QED  BY <2>1, <2>4
<1> QED  BY <1>10 DEF Shifting, f

\* The entries of a group, new to the line.
Grouped(E, day, t, n, P) ==
  /\ day \in Days
  /\ \A e \in E : /\ e.id \in DOMAIN P /\ P[e.id] = e /\ e.effective = day
                  /\ \A a \in 1..n : /\ t[a] # e.id
                                     /\ P[t[a]].effective = day => P[t[a]].call < e.call
  /\ \A e, f \in E :
       /\ e.call = f.call
       /\ e # f /\ e.posting = f.posting => e.sequence # f.sequence

\* The order in which they are folded.
Sooner(e, f) ==
  \/ e.sequence < f.sequence
  \/ e.sequence = f.sequence /\ e.id < f.id

\* q has the entries of the group in their order, and the line has k entries
\* of its day or before.
Fits(t, n, P, E, day, q, m, k) ==
  /\ Line(t, n, P) /\ Grouped(E, day, t, n, P)
  /\ m \in Nat \ {0} /\ q \in [1..m -> E] /\ \A e \in E : \E i \in 1..m : q[i] = e
  /\ \A i, j \in 1..m : Sooner(q[i], q[j]) <=> i < j
  /\ k \in 0..n /\ \A a \in 1..n : P[t[a]].effective <= day <=> a <= k

\* The line with the group q behind position k.
Spliced(t, n, q, m, k) ==
  [a \in 1..(n + m) |-> IF a <= k THEN t[a]
                        ELSE IF a <= k + m THEN q[a - k].id ELSE t[a - m]]

\* Where the entries of a spliced line are.
Places(w, t, n, q, m, k) ==
  /\ \A a \in 1..k : w[a] = t[a]
  /\ \A i \in 1..m : w[k + i] = q[i].id
  /\ \A a \in (k + 1)..n : w[a + m] = t[a]
  /\ \A a \in 1..(n + m) : \/ a \in 1..k
                           \/ \E i \in 1..m : a = k + i
                           \/ \E c \in (k + 1)..n : a = c + m

\* The spliced line at each of its positions.
LEMMA SplicedPlaces ==
  ASSUME NEW t, NEW n, NEW P, NEW E, NEW day, NEW q, NEW m, NEW k,
         Fits(t, n, P, E, day, q, m, k), NEW w, w = Spliced(t, n, q, m, k)
  PROVE  Places(w, t, n, q, m, k)
<1>1. n \in Nat /\ m \in Nat /\ k \in Nat /\ k <= n
  BY DEF Fits, Line
<1>2. \A a \in 1..k : w[a] = t[a]
  BY <1>1 DEF Spliced
<1>3. ASSUME NEW i \in 1..m  PROVE w[k + i] = q[i].id
  <2>1. /\ k + i \in 1..(n + m) /\ ~ (k + i <= k) /\ k + i <= k + m
        /\ (k + i) - k = i
    BY <1>1
  <2> QED  BY <2>1 DEF Spliced
<1>4. ASSUME NEW a \in (k + 1)..n  PROVE w[a + m] = t[a]
  <2>1. /\ a + m \in 1..(n + m) /\ ~ (a + m <= k) /\ ~ (a + m <= k + m)
        /\ (a + m) - m = a
    BY <1>1
  <2> QED  BY <2>1 DEF Spliced
<1>5. ASSUME NEW a \in 1..(n + m)
      PROVE  \/ a \in 1..k
             \/ \E i \in 1..m : a = k + i
             \/ \E c \in (k + 1)..n : a = c + m
  <2>1. CASE a <= k
    BY <1>1, <2>1
  <2>2. CASE a > k /\ a <= k + m
    <3>1. a - k \in 1..m /\ a = k + (a - k)
      BY <1>1, <2>2
    <3> QED  BY <3>1
  <2>3. CASE a > k + m
    <3>1. a - m \in (k + 1)..n /\ a = (a - m) + m
      BY <1>1, <2>3
    <3> QED  BY <3>1
  <2> QED  BY <1>1, <2>1, <2>2, <2>3
<1> QED  BY <1>2, <1>3, <1>4, <1>5 DEF Places

\* Splicing in a group behind the entries up to its date keeps the order.
LEMMA SplicedLine ==
  ASSUME NEW t, NEW n, NEW P, NEW E, NEW day, NEW q, NEW m, NEW k,
         Fits(t, n, P, E, day, q, m, k), NEW w, w = Spliced(t, n, q, m, k)
  PROVE  Line(w, n + m, P)
<1>0. n \in Nat /\ m \in Nat /\ k \in Nat /\ k <= n /\ n + m \in Nat
  BY DEF Fits, Line
<1>1. /\ Entered(P) /\ t \in [1..n -> DOMAIN P] /\ q \in [1..m -> E]
      /\ \A i, j \in 1..m : Sooner(q[i], q[j]) <=> i < j
      /\ \A a \in 1..n : P[t[a]].effective <= day <=> a <= k
      /\ w = [a \in 1..(n + m) |-> w[a]] /\ day \in Nat
  BY EffectiveAssumption DEF Fits, Line, Grouped, Spliced
<1>2. \A e \in E : /\ e.id \in DOMAIN P /\ P[e.id] = e /\ e.effective = day
                   /\ \A a \in 1..n : /\ t[a] # e.id
                                      /\ P[t[a]].effective = day => P[t[a]].call < e.call
  BY DEF Fits, Grouped
<1>3. \A e, f \in E : /\ e.call = f.call
                      /\ e # f /\ e.posting = f.posting => e.sequence # f.sequence
  BY DEF Fits, Grouped
<1>4. /\ \A a \in 1..k : w[a] = t[a]
      /\ \A i \in 1..m : w[k + i] = q[i].id
      /\ \A a \in (k + 1)..n : w[a + m] = t[a]
  <2>1. Places(w, t, n, q, m, k)
    BY SplicedPlaces
  <2> QED  BY <2>1 DEF Places
<1>5. \A a \in 1..(n + m) : \/ a \in 1..k
                            \/ \E i \in 1..m : a = k + i
                            \/ \E c \in (k + 1)..n : a = c + m
  <2>1. Places(w, t, n, q, m, k)
    BY SplicedPlaces
  <2> QED  BY <2>1 DEF Places
<1>6. ASSUME NEW a \in 1..n
      PROVE  /\ P[t[a]] \in Entry /\ P[t[a]].effective \in Nat /\ t[a] \in DOMAIN P
             /\ P[t[a]].call \in Nat
  BY <1>1, EffectiveAssumption DEF Entered, Entry
<1>7. ASSUME NEW i \in 1..m
      PROVE  /\ P[q[i].id] = q[i] /\ q[i].id \in DOMAIN P /\ q[i].effective = day
             /\ q[i] \in E /\ q[i].sequence \in Nat /\ q[i].id \in Nat
             /\ q[i].call \in Nat
  BY <1>1, <1>2 DEF Entered, Entry
<1>8. \A i, j \in 1..m : i < j => Earlier(q[i], q[j]) /\ q[i].id # q[j].id
  <2> SUFFICES ASSUME NEW i \in 1..m, NEW j \in 1..m, i < j
               PROVE  Earlier(q[i], q[j]) /\ q[i].id # q[j].id
    OBVIOUS
  <2>1. Sooner(q[i], q[j])
    BY <1>1
  <2>2. q[i].id # q[j].id
    <3> SUFFICES ASSUME q[i].id = q[j].id  PROVE FALSE
      OBVIOUS
    <3>1. q[i] = q[j]
      BY <1>7
    <3> QED  BY <1>7, <2>1, <3>1 DEF Sooner
  <2>3. q[i].effective = q[j].effective /\ q[i].call = q[j].call
    BY <1>3, <1>7
  <2>4. q[i].posting = q[j].posting => q[i].sequence # q[j].sequence
    BY <1>3, <1>7, <2>2
  <2> QED  BY <1>7, <2>1, <2>2, <2>3, <2>4 DEF Sooner, Earlier
<1>9. w \in [1..(n + m) -> DOMAIN P]
  <2>1. ASSUME NEW a \in 1..(n + m)  PROVE w[a] \in DOMAIN P
    <3>1. CASE a \in 1..k
      <4>1. a \in 1..n
        BY <1>0, <3>1
      <4> QED  BY <1>4, <1>6, <3>1, <4>1
    <3>2. CASE \E i \in 1..m : a = k + i
      BY <1>4, <1>7, <3>2
    <3>3. CASE \E c \in (k + 1)..n : a = c + m
      <4>1. PICK c \in (k + 1)..n : a = c + m
        BY <3>3
      <4>2. c \in 1..n
        BY <1>0
      <4> QED  BY <1>4, <1>6, <4>1, <4>2
    <3> QED  BY <1>5, <3>1, <3>2, <3>3
  <2> QED  BY <1>1, <2>1
<1>10. ASSUME NEW a \in 1..k, NEW i \in 1..m
       PROVE  t[a] # q[i].id /\ Earlier(P[t[a]], q[i])
  <2>1. a \in 1..n /\ a <= k
    BY <1>0
  <2>2. /\ t[a] # q[i].id
        /\ P[t[a]].effective = day => P[t[a]].call < q[i].call
    BY <1>2, <1>7, <2>1
  <2>3. P[t[a]].effective <= day
    BY <1>1, <2>1
  <2> QED  BY <1>1, <1>6, <1>7, <2>1, <2>2, <2>3 DEF Earlier
<1>11. ASSUME NEW c \in (k + 1)..n, NEW i \in 1..m
       PROVE  t[c] # q[i].id /\ Earlier(q[i], P[t[c]])
  <2>1. c \in 1..n /\ ~ (c <= k)
    BY <1>0
  <2>2. ~ (P[t[c]].effective <= day) /\ P[t[c]].effective \in Nat
    BY <1>1, <1>6, <2>1
  <2>3. t[c] # q[i].id
    BY <1>2, <1>7, <2>1
  <2> QED  BY <1>1, <1>7, <2>2, <2>3 DEF Earlier
<1>12. \A a, b \in 1..n : a < b => t[a] # t[b] /\ Earlier(P[t[a]], P[t[b]])
  <2>1. \A a, b \in 1..n : a < b => a # b
    BY <1>0
  <2> QED  BY <2>1 DEF Fits, Line
<1>13. ASSUME NEW a \in 1..(n + m), NEW b \in 1..(n + m), a < b
       PROVE  w[a] # w[b] /\ Earlier(P[w[a]], P[w[b]])
  <2>1. CASE a \in 1..k
    <3>1. w[a] = t[a] /\ a \in 1..n
      BY <1>0, <1>4, <2>1
    <3>2. CASE b \in 1..k
      <4>1. b \in 1..n
        BY <1>0, <3>2
      <4> QED  BY <1>4, <1>12, <1>13, <3>1, <3>2, <4>1
    <3>3. CASE \E i \in 1..m : b = k + i
      BY <1>4, <1>7, <1>10, <2>1, <3>1, <3>3
    <3>4. CASE \E c \in (k + 1)..n : b = c + m
      <4>1. PICK c \in (k + 1)..n : b = c + m
        BY <3>4
      <4>2. c \in 1..n /\ a < c
        BY <1>0, <2>1
      <4> QED  BY <1>4, <1>12, <3>1, <4>1, <4>2
    <3> QED  BY <1>5, <3>2, <3>3, <3>4
  <2>2. CASE \E i \in 1..m : a = k + i
    <3>1. PICK i \in 1..m : a = k + i
      BY <2>2
    <3>2. CASE b \in 1..k
      BY <1>0, <1>13, <3>1, <3>2
    <3>3. CASE \E j \in 1..m : b = k + j
      <4>1. PICK j \in 1..m : b = k + j
        BY <3>3
      <4>2. i < j
        BY <1>0, <1>13, <3>1, <4>1
      <4> QED  BY <1>4, <1>7, <1>8, <3>1, <4>1, <4>2
    <3>4. CASE \E c \in (k + 1)..n : b = c + m
      <4>1. PICK c \in (k + 1)..n : b = c + m
        BY <3>4
      <4> QED  BY <1>4, <1>7, <1>11, <3>1, <4>1
    <3> QED  BY <1>5, <3>2, <3>3, <3>4
  <2>3. CASE \E c \in (k + 1)..n : a = c + m
    <3>1. PICK c \in (k + 1)..n : a = c + m
      BY <2>3
    <3>2. PICK d \in (k + 1)..n : b = d + m
      <4>1. b \notin 1..k /\ \A i \in 1..m : b # k + i
        BY <1>0, <1>13, <3>1
      <4> QED  BY <1>5, <4>1
    <3>3. c \in 1..n /\ d \in 1..n /\ c < d
      BY <1>0, <1>13, <3>1, <3>2
    <3> QED  BY <1>4, <1>12, <3>1, <3>2, <3>3
  <2> QED  BY <1>5, <2>1, <2>2, <2>3
<1>14. \A a, b \in 1..(n + m) : a # b => w[a] # w[b]
  <2> SUFFICES ASSUME NEW a \in 1..(n + m), NEW b \in 1..(n + m), a # b
               PROVE  w[a] # w[b]
    OBVIOUS
  <2>1. a < b \/ b < a
    BY <1>0
  <2> QED  BY <1>13, <2>1
<1>15. Entered(P)
  BY <1>1
<1> QED  BY <1>0, <1>9, <1>13, <1>14, <1>15 DEF Line

\* The entry at a position of a line.
LEMMA EntryAt ==
  ASSUME NEW t, NEW n, NEW P, Line(t, n, P), NEW a \in 1..n
  PROVE  /\ t[a] \in DOMAIN P /\ t[a] \in Nat /\ t[a] # UNASSIGNED_ENTRY_ID
         /\ P[t[a]] \in Entry /\ P[t[a]].id = t[a] /\ a \in Nat
         /\ P[t[a]].effective \in Days /\ P[t[a]].effective \in Nat
         /\ P[t[a]].layer \in Layers /\ P[t[a]].call \in Nat
<1>1. n \in Nat /\ t[a] \in DOMAIN P /\ Entered(P)
  BY DEF Line
<1>2. P[t[a]] \in Entry /\ P[t[a]].id = t[a] /\ t[a] \in Nat /\ t[a] # UNASSIGNED_ENTRY_ID
  BY <1>1 DEF Entered
<1> DEFINE e == P[t[a]]
<1>3. e \in Entry /\ Days \subseteq Nat
  BY <1>2, EffectiveAssumption
<1> HIDE DEF e
<1>4. e.effective \in Days /\ e.effective \in Nat /\ e.layer \in Layers /\ e.call \in Nat
  BY <1>3 DEF Entry
<1>5. a \in Nat
  BY <1>1
<1> QED  BY <1>1, <1>2, <1>4, <1>5 DEF e

\* Along a date the versions rise with the positions.
LEMMA VersionsRise ==
  ASSUME NEW t, NEW P, NEW a \in Nat, NEW b \in Nat, a < b,
         P[t[a]].effective = P[t[b]].effective,
         NEW v, Versioned(t, P, a, v), NEW u, Versioned(t, P, b, u)
  PROVE  u > v
<1>1. /\ v \in 1..a /\ u \in 1..b
      /\ \A c \in 1..a : P[t[c]].effective = P[t[a]].effective <=> c > a - v
      /\ \A c \in 1..b : P[t[c]].effective = P[t[b]].effective <=> c > b - u
  BY DEF Versioned
<1>2. ASSUME b - u > a - v  PROVE FALSE
  <2> DEFINE c == (a - v) + 1
  <2>1. c \in 1..a /\ c \in 1..b /\ c > a - v /\ ~ (c > b - u)
    BY <1>1, <1>2
  <2> HIDE DEF c
  <2>2. P[t[c]].effective = P[t[a]].effective
    BY <1>1, <2>1
  <2> QED  BY <1>1, <2>1, <2>2
<1> QED  BY <1>1, <1>2

\* The last row of a day or before.
Past(t, n, P, day, k) ==
  k \in 0..n /\ \A a \in 1..n : P[t[a]].effective <= day <=> a <= k

\* The entries up to a day are those up to some position.
LEMMA LineSplits ==
  ASSUME NEW t, NEW n, NEW P, Line(t, n, P), NEW day \in Nat
  PROVE  \E k : Past(t, n, P, day, k)
<1> DEFINE S == {a \in 0..n : a = 0 \/ P[t[a]].effective <= day}
<1>1. n \in Nat /\ S \in SUBSET Nat /\ 0 \in S /\ \A a \in S : a <= n
  BY DEF Line
<1>2. PICK k \in S : \A a \in S : a <= k
  <2> HIDE DEF S
  <2>1. S # {}
    BY <1>1
  <2> QED  BY <1>1, <2>1, GreatestNat
<1>3. ASSUME NEW a \in 1..n  PROVE P[t[a]].effective <= day <=> a <= k
  <2>1. CASE P[t[a]].effective <= day
    BY <1>1, <1>2, <2>1
  <2>2. CASE ~ (P[t[a]].effective <= day)
    <3> SUFFICES ASSUME a <= k  PROVE FALSE
      BY <2>2
    <3>1. a # k
      BY <1>1, <1>2, <2>2
    <3>2. k \in 1..n /\ a < k /\ P[t[k]].effective <= day
      BY <1>1, <1>2, <3>1
    <3>3. Earlier(P[t[a]], P[t[k]])
      BY <3>2 DEF Line
    <3>4. /\ P[t[a]].effective \in Nat /\ P[t[k]].effective \in Nat
      BY <3>2, EffectiveAssumption DEF Line, Entered, Entry
    <3> QED  BY <2>2, <3>2, <3>3, <3>4 DEF Earlier
  <2> QED  BY <2>1, <2>2
<1> QED  BY <1>1, <1>2, <1>3 DEF Past

\* The row of a position.
LEMMA RowIs ==
  ASSUME NEW R, NEW t, NEW n, NEW P, NEW s, Ledger(R, t, n, P, s), NEW a \in 1..n
  PROVE  /\ RowAt(t, P, s, a) \in R
         /\ RowAt(t, P, s, a).effective = P[t[a]].effective
         /\ RowAt(t, P, s, a).allTime = a /\ RowAt(t, P, s, a).snapshot = s[a]
         /\ RowAt(t, P, s, a) # NoRow
<1>1. a \in Nat /\ a # 0
  BY DEF Ledger, Line
<1>2. RowAt(t, P, s, a).allTime = a /\ NoRow.allTime = 0
  BY DEF RowAt, NoRow
<1> QED  BY <1>1, <1>2 DEF Ledger, RowAt

\* The row a pass continues from is that of the last position up to its day.
LEMMA LastRowIs ==
  ASSUME NEW R, NEW t, NEW n, NEW P, NEW s, Ledger(R, t, n, P, s),
         NEW day \in Nat, NEW k, Past(t, n, P, day, k)
  PROVE  LastRow(R, day) = IF k = 0 THEN NoRow ELSE RowAt(t, P, s, k)
<1> DEFINE past == {r \in R : r.effective <= day}
<1>1. /\ k \in 0..n /\ n \in Nat
      /\ \A a \in 1..n : P[t[a]].effective <= day <=> a <= k
      /\ R = {RowAt(t, P, s, a) : a \in 1..n}
      /\ \A a \in 1..n : /\ RowAt(t, P, s, a).effective = P[t[a]].effective
                         /\ RowAt(t, P, s, a).allTime = a
  BY DEF Past, Ledger, Line, RowAt
<1>2. past = {RowAt(t, P, s, a) : a \in 1..k}
  <2>1. \A a : a \in 1..k <=> a \in 1..n /\ a <= k
    BY <1>1
  <2> QED  BY <1>1, <2>1
<1>3. CASE k = 0
  <2>1. past = {}
    BY <1>2, <1>3
  <2> QED  BY <1>3, <2>1 DEF LastRow
<1>4. CASE k # 0
  <2>1. k \in 1..k /\ \A a \in 1..k : a \in 1..n
    BY <1>1, <1>4
  <2>2. RowAt(t, P, s, k) \in past /\ past # {}
    BY <1>2, <2>1
  <2>3. \A r \in past : (\A o \in past : o.allTime <= r.allTime) <=> r = RowAt(t, P, s, k)
    BY <1>1, <1>2, <2>1
  <2> HIDE DEF past
  <2>4. LastRow(R, day) = CHOOSE r \in past : \A o \in past : o.allTime <= r.allTime
    BY <2>2 DEF LastRow, past
  <2> QED  BY <1>4, <2>2, <2>3, <2>4
<1> QED  BY <1>3, <1>4

----------------------------------------------------------------------------
(* The updates of a pass in their order *)

\* The new entries, then the rows behind them.
Ordered(u, t, n, P, s, q, m, k, day) ==
  /\ Len(u) = n + m - k
  /\ \A i \in 1..m : u[i] = EntryUpdate(day, q[i])
  /\ \A a \in (k + 1)..n : u[a + m - k] = RowUpdate(RowAt(t, P, s, a))

\* Every place of the updates is one or the other.
LEMMA UpdatePlaces ==
  ASSUME NEW n \in Nat, NEW m \in Nat, NEW k \in 0..n
  PROVE  /\ \A i \in 1..m : i \in 1..(n + m - k)
         /\ \A a \in (k + 1)..n : a + m - k \in (m + 1)..(n + m - k)
                                /\ a + m - k \in 1..(n + m - k)
         /\ \A i \in 1..(n + m - k) :
              i \in 1..m \/ \E a \in (k + 1)..n : i = a + m - k
<1>1. ASSUME NEW i \in 1..(n + m - k), i \notin 1..m
      PROVE  \E a \in (k + 1)..n : i = a + m - k
  <2> DEFINE a == i + k - m
  <2>1. a \in (k + 1)..n /\ i = a + m - k
    BY <1>1
  <2> QED  BY <2>1
<1> QED  BY <1>1

\* The replay takes deleted rows in the order of their positions.
LEMMA RowsPrecede ==
  ASSUME NEW R, NEW t, NEW n, NEW P, NEW s, Ledger(R, t, n, P, s),
         NEW a \in 1..n, NEW b \in 1..n
  PROVE  Precedes(RowUpdate(RowAt(t, P, s, a)), RowUpdate(RowAt(t, P, s, b))) <=> a < b
<1> DEFINE x == RowUpdate(RowAt(t, P, s, a))
           y == RowUpdate(RowAt(t, P, s, b))
<1>0. Line(t, n, P) /\ a \in Nat /\ b \in Nat
  BY DEF Ledger, Line
<1>1. /\ x.effective = P[t[a]].effective /\ x.rank = s[a].version /\ x.kind = "snapshot"
      /\ y.effective = P[t[b]].effective /\ y.rank = s[b].version /\ y.kind = "snapshot"
  BY DEF RowUpdate, RowAt
<1>2. x.effective \in Nat /\ y.effective \in Nat
  BY <1>0, <1>1, EffectiveAssumption DEF Line, Entered, Entry
<1>3. Versioned(t, P, a, s[a].version) /\ Versioned(t, P, b, s[b].version)
  BY DEF Ledger
<1>4. x.rank \in Nat /\ y.rank \in Nat
  BY <1>0, <1>1, <1>3 DEF Versioned
<1>5. CASE a < b
  <2>1. x.effective <= y.effective
    BY <1>0, <1>1, <1>2, <1>5 DEF Line, Earlier
  <2>2. x.effective = y.effective => x.rank < y.rank
    BY <1>0, <1>1, <1>3, <1>4, <1>5, VersionsRise
  <2> HIDE DEF x, y
  <2>3. Precedes(x, y)
    BY <1>2, <2>1, <2>2 DEF Precedes
  <2> QED  BY <1>5, <2>3 DEF x, y
<1>6. CASE b < a
  <2>1. y.effective <= x.effective
    BY <1>0, <1>1, <1>2, <1>6 DEF Line, Earlier
  <2>2. y.effective = x.effective => y.rank < x.rank
    BY <1>0, <1>1, <1>3, <1>4, <1>6, VersionsRise
  <2> HIDE DEF x, y
  <2>3. ~ Precedes(x, y)
    BY <1>1, <1>2, <1>4, <2>1, <2>2 DEF Precedes
  <2> QED  BY <1>0, <1>6, <2>3 DEF x, y
<1>7. CASE a = b
  <2>1. x = y
    BY <1>7
  <2> HIDE DEF x, y
  <2>2. ~ Precedes(x, y)
    BY <1>1, <1>2, <1>4, <2>1 DEF Precedes
  <2> QED  BY <1>0, <1>7, <2>2 DEF x, y
<1> QED  BY <1>0, <1>5, <1>6, <1>7

\* What a pass replays: the new entries in their order, then the deleted rows in theirs.
LEMMA UpdatesAre ==
  ASSUME NEW R, NEW t, NEW n, NEW P, NEW s, Ledger(R, t, n, P, s),
         NEW E, NEW day, NEW q, NEW m, NEW k, Fits(t, n, P, E, day, q, m, k),
         NEW g, g = [day |-> day, entries |-> E]
  PROVE  Ordered(Updates(R, g), t, n, P, s, q, m, k, day)
<1> DEFINE N == n + m - k
           F == Future(R, day)
           new == {EntryUpdate(day, e) : e \in E}
           old == {RowUpdate(r) : r \in F}
           U == new \cup old
           row(a) == RowUpdate(RowAt(t, P, s, a))
           u == [i \in 1..N |-> IF i \in 1..m THEN EntryUpdate(day, q[i])
                                ELSE row(i + k - m)]
           B == {p \in U \X U : Precedes(p[1], p[2])}
           below == [x \in U |-> {y \in U : Precedes(y, x)}]
<1>0. n \in Nat /\ m \in Nat /\ k \in 0..n /\ N \in Nat /\ day \in Nat
  BY EffectiveAssumption DEF Fits, Grouped, Line
<1>1. /\ \A i \in 1..m : i \in 1..N
      /\ \A a \in (k + 1)..n : a + m - k \in 1..N /\ a + m - k \notin 1..m
      /\ \A i \in 1..N : i \in 1..m \/ \E a \in (k + 1)..n : i = a + m - k
  BY <1>0, UpdatePlaces
<1>2. /\ \A i \in 1..m : u[i] = EntryUpdate(day, q[i])
      /\ \A a \in (k + 1)..n : u[a + m - k] = row(a)
  <2>1. \A a \in (k + 1)..n : (a + m - k) + k - m = a
    BY <1>0
  <2>2. \A i \in 1..N : u[i] = IF i \in 1..m THEN EntryUpdate(day, q[i])
                                ELSE row(i + k - m)
    OBVIOUS
  <2> HIDE DEF u, row, N
  <2> QED  BY <1>1, <2>1, <2>2
<1>3. F = {RowAt(t, P, s, a) : a \in (k + 1)..n}
  <2>1. \A a \in 1..n : P[t[a]].effective > day <=> a > k
    <3>1. ASSUME NEW a \in 1..n  PROVE P[t[a]].effective \in Nat /\ a \in Nat
      BY EntryAt DEF Fits
    <3> QED  BY <1>0, <3>1 DEF Fits
  <2>2. \A a : a \in (k + 1)..n <=> a \in 1..n /\ a > k
    BY <1>0
  <2>3. \A a : RowAt(t, P, s, a).effective = P[t[a]].effective
    BY DEF RowAt
  <2>4. R = {RowAt(t, P, s, a) : a \in 1..n}
    BY DEF Ledger
  <2> QED  BY <2>1, <2>2, <2>3, <2>4 DEF Future
<1>5. /\ q \in [1..m -> E] /\ \A e \in E : \E i \in 1..m : q[i] = e
      /\ \A i, j \in 1..m : Sooner(q[i], q[j]) <=> i < j
  BY DEF Fits
<1>6. u \in [1..N -> U]
  <2>1. \A i \in 1..m : u[i] \in U
    BY <1>2, <1>5
  <2>2. \A a \in (k + 1)..n : u[a + m - k] \in U
    BY <1>2, <1>3
  <2>3. u = [i \in 1..N |-> u[i]]
    OBVIOUS
  <2> HIDE DEF u, U, N
  <2>4. \A i \in 1..N : u[i] \in U
    BY <1>1, <2>1, <2>2
  <2> QED  BY <2>3, <2>4
<1>7. \A x \in U : \E i \in 1..N : u[i] = x
  <2>1. ASSUME NEW e \in E  PROVE \E i \in 1..N : u[i] = EntryUpdate(day, e)
    BY <1>1, <1>2, <1>5
  <2>2. ASSUME NEW a \in (k + 1)..n  PROVE \E i \in 1..N : u[i] = row(a)
    BY <1>1, <1>2
  <2> HIDE DEF u, N
  <2> QED  BY <1>3, <2>1, <2>2
<1>8. \A i, j \in 1..N : Precedes(u[i], u[j]) <=> i < j
  <2>1. ASSUME NEW i \in 1..m, NEW j \in 1..m
        PROVE  Precedes(u[i], u[j]) <=> i < j
    <3>1. Sooner(q[i], q[j]) <=> i < j
      BY <1>5
    <3> DEFINE x == EntryUpdate(day, q[i])
               y == EntryUpdate(day, q[j])
    <3>2. /\ x.effective = day /\ x.kind = "entry" /\ x.entry = q[i]
          /\ x.rank = q[i].sequence
          /\ y.effective = day /\ y.kind = "entry" /\ y.entry = q[j]
          /\ y.rank = q[j].sequence
      BY DEF EntryUpdate
    <3>3. u[i] = x /\ u[j] = y
      BY <1>2
    <3> HIDE DEF x, y, u
    <3> QED  BY <1>0, <3>1, <3>2, <3>3 DEF Precedes, Sooner
  <2>2. ASSUME NEW i \in 1..m, NEW a \in (k + 1)..n
        PROVE  /\ Precedes(u[i], u[a + m - k]) /\ ~ Precedes(u[a + m - k], u[i])
    <3> DEFINE x == EntryUpdate(day, q[i])
               y == row(a)
    <3>1. a \in 1..n /\ ~ (a <= k)
      BY <1>0
    <3>2. P[t[a]].effective \in Nat /\ ~ (P[t[a]].effective <= day)
      BY <3>1, EntryAt DEF Fits
    <3>3. x.effective = day /\ y.effective = P[t[a]].effective
      BY DEF EntryUpdate, RowUpdate, RowAt
    <3>4. u[i] = x /\ u[a + m - k] = y
      BY <1>2
    <3> HIDE DEF x, y, u
    <3> QED  BY <1>0, <3>2, <3>3, <3>4 DEF Precedes
  <2>3. ASSUME NEW a \in (k + 1)..n, NEW b \in (k + 1)..n
        PROVE  Precedes(u[a + m - k], u[b + m - k]) <=> a < b
    <3>1. a \in 1..n /\ b \in 1..n
      BY <1>0
    <3>2. Precedes(row(a), row(b)) <=> a < b
      BY <3>1, RowsPrecede
    <3> HIDE DEF u, row
    <3> QED  BY <1>2, <3>2
  <2> HIDE DEF u, N
  <2> SUFFICES ASSUME NEW i \in 1..N, NEW j \in 1..N
               PROVE  Precedes(u[i], u[j]) <=> i < j
    OBVIOUS
  <2>4. CASE i \in 1..m
    <3>1. CASE j \in 1..m
      BY <2>1, <2>4, <3>1
    <3>2. CASE \E b \in (k + 1)..n : j = b + m - k
      <4>1. i < j
        BY <1>0, <2>4, <3>2
      <4> QED  BY <2>2, <2>4, <3>2, <4>1
    <3> QED  BY <1>1, <3>1, <3>2
  <2>5. CASE \E a \in (k + 1)..n : i = a + m - k
    <3>0. PICK a \in (k + 1)..n : i = a + m - k
      BY <2>5
    <3>1. CASE j \in 1..m
      <4>1. ~ (i < j)
        BY <1>0, <3>0, <3>1
      <4> QED  BY <2>2, <3>0, <3>1, <4>1
    <3>2. CASE \E b \in (k + 1)..n : j = b + m - k
      <4>1. PICK b \in (k + 1)..n : j = b + m - k
        BY <3>2
      <4>2. i < j <=> a < b
        BY <1>0, <3>0, <4>1
      <4> QED  BY <2>3, <3>0, <4>1, <4>2
    <3> QED  BY <1>1, <3>1, <3>2
  <2> QED  BY <1>1, <2>4, <2>5
<1> HIDE DEF u, U, N
<1>4. InSequence(u, N, U, B)
  <2>1. \A x, y \in U : <<x, y>> \in B <=> Precedes(x, y)
    OBVIOUS
  <2> HIDE DEF B
  <2>2. \A i, j \in 1..N : <<u[i], u[j]>> \in B <=> i < j
    BY <1>6, <1>8, <2>1
  <2> QED  BY <1>6, <1>7, <2>2 DEF InSequence
<1>10. \A x \in U : below[x] = {y \in U : <<y, x>> \in B}
  OBVIOUS
<1> HIDE DEF B
<1>11. /\ Cardinality(U) = N
       /\ \A i \in 1..N : \A x \in U : Cardinality(below[x]) = i - 1 <=> x = u[i]
  <2> HIDE DEF below
  <2>1. Ranked(u, N, U, below)
    BY <1>0, <1>4, <1>10, ListRanks
  <2> QED  BY <2>1 DEF Ranked
<1>12. Updates(R, g) = [i \in 1..Cardinality(U) |->
                         CHOOSE x \in U : Cardinality({y \in U : Precedes(y, x)}) = i - 1]
  BY DEF Updates, Pending, Sorted, U
<1>13. Updates(R, g) = [i \in 1..N |-> CHOOSE x \in U : Cardinality(below[x]) = i - 1]
  <2>1. \A x \in U : below[x] = {y \in U : Precedes(y, x)}
    OBVIOUS
  <2> HIDE DEF below
  <2>2. Cardinality(U) = N
    BY <1>11
  <2>3. ASSUME NEW i
        PROVE  (CHOOSE x \in U : Cardinality({y \in U : Precedes(y, x)}) = i - 1)
               = (CHOOSE x \in U : Cardinality(below[x]) = i - 1)
    <3>1. \A x \in U : Cardinality({y \in U : Precedes(y, x)}) = i - 1
                      <=> Cardinality(below[x]) = i - 1
      BY <2>1
    <3> QED  BY <3>1
  <2> QED  BY <1>12, <2>2, <2>3
<1>14. \A i \in 1..N : (CHOOSE x \in U : Cardinality(below[x]) = i - 1) = u[i]
  <2> HIDE DEF below
  <2> QED  BY <1>6, <1>11
<1>15. Updates(R, g) \in [1..N -> U] /\ \A i \in 1..N : Updates(R, g)[i] = u[i]
  <2> HIDE DEF below
  <2> QED  BY <1>6, <1>13, <1>14
<1>16. Len(Updates(R, g)) = N
  BY <1>0, <1>15
<1> QED  BY <1>1, <1>2, <1>15, <1>16 DEF Ordered, N

----------------------------------------------------------------------------
(* The start of a pass, seen from the line it makes *)

\* Up to the new entries the lines are the same.
LEMMA SameBefore ==
  ASSUME NEW w, NEW t, NEW P, NEW k, NEW u, \A a \in 1..k : w[a] = t[a],
         NEW a, a \in 1..k, k \in Nat, Accumulated(t, P, a, u)
  PROVE  Accumulated(w, P, a, u)
<1>1. \A c \in 1..a : w[c] = t[c]
  OBVIOUS
<1>2. w[a] = t[a]
  OBVIOUS
<1>3. \A l : Ids(w, P, 1, a, l) = Ids(t, P, 1, a, l)
  BY <1>1 DEF Ids
<1>4. ASSUME NEW l, NEW x, LastId(t, P, a, l, x)  PROVE LastId(w, P, a, l, x)
  <2>1. CASE x = UNASSIGNED_ENTRY_ID /\ \A c \in 1..a : P[t[c]].layer # l
    BY <1>1, <2>1 DEF LastId
  <2>2. CASE \E b \in 1..a : /\ P[t[b]].layer = l /\ x = t[b]
                             /\ \A c \in (b + 1)..a : P[t[c]].layer # l
    <3>1. PICK b \in 1..a : /\ P[t[b]].layer = l /\ x = t[b]
                            /\ \A c \in (b + 1)..a : P[t[c]].layer # l
      BY <2>2
    <3>2. \A c \in (b + 1)..a : c \in 1..a
      OBVIOUS
    <3>3. P[w[b]].layer = l /\ x = w[b] /\ \A c \in (b + 1)..a : P[w[c]].layer # l
      BY <1>1, <3>1, <3>2
    <3> QED  BY <3>3 DEF LastId
  <2> QED  BY <1>4, <2>1, <2>2 DEF LastId
<1> QED  BY <1>2, <1>3, <1>4 DEF Accumulated

\* So are the versions.
LEMMA VersionedBefore ==
  ASSUME NEW w, NEW t, NEW P, NEW k, NEW v, \A a \in 1..k : w[a] = t[a],
         NEW a, a \in 1..k, k \in Nat, Versioned(t, P, a, v)
  PROVE  Versioned(w, P, a, v)
<1>1. \A c \in 1..a : w[c] = t[c]
  OBVIOUS
<1>2. w[a] = t[a]
  OBVIOUS
<1> QED  BY <1>1, <1>2 DEF Versioned

\* How many rows before the new entries are of their date.
Begun(t, P, s, k, day) ==
  IF k = 0 THEN 0 ELSE IF P[t[k]].effective = day THEN s[k].version ELSE 0

\* A pass inserts its entries behind those of its date.
LEMMA InsertedIs ==
  ASSUME NEW R, NEW t, NEW n, NEW P, NEW s, Ledger(R, t, n, P, s),
         NEW E, NEW day, NEW q, NEW m, NEW k, Fits(t, n, P, E, day, q, m, k),
         NEW w, w = Spliced(t, n, q, m, k), NEW v, v = Begun(t, P, s, k, day)
  PROVE  Inserted(w, n + m, P, k, m, day, v)
<1>0. n \in Nat /\ m \in Nat \ {0} /\ k \in Nat /\ k <= n /\ day \in Nat
      /\ Line(t, n, P) /\ \A a \in 1..n : P[t[a]].effective <= day <=> a <= k
  BY EffectiveAssumption DEF Fits, Grouped, Line
<1>1. /\ \A a \in 1..k : w[a] = t[a]
      /\ \A i \in 1..m : w[k + i] = q[i].id
  <2>1. Places(w, t, n, q, m, k)
    BY SplicedPlaces
  <2> QED  BY <2>1 DEF Places
<1>2. Line(w, n + m, P)
  BY SplicedLine
<1>3. ASSUME NEW a \in (k + 1)..(k + m)  PROVE P[w[a]].effective = day
  <2> DEFINE i == a - k
  <2>1. i \in 1..m /\ a = k + i
    BY <1>0
  <2> HIDE DEF i
  <2>2. q[i] \in E
    BY <2>1 DEF Fits
  <2>3. P[q[i].id] = q[i] /\ q[i].effective = day
    BY <2>2 DEF Fits, Grouped
  <2> QED  BY <1>1, <2>1, <2>3
<1>4. v \in 0..k /\ \A b \in 1..k : P[t[b]].effective = day <=> b > k - v
  <2>1. CASE k = 0
    BY <2>1 DEF Begun
  <2>2. CASE k # 0 /\ P[t[k]].effective = day
    <3>1. v = s[k].version /\ k \in 1..n
      BY <1>0, <2>2 DEF Begun
    <3>2. Versioned(t, P, k, v)
      BY <3>1 DEF Ledger
    <3> QED  BY <1>0, <2>2, <3>2 DEF Versioned
  <2>3. CASE k # 0 /\ P[t[k]].effective # day
    <3>1. v = 0 /\ k \in 1..n
      BY <1>0, <2>3 DEF Begun
    <3>2. ASSUME NEW b \in 1..k  PROVE P[t[b]].effective # day
      <4>1. b \in 1..n
        BY <1>0
      <4>2. P[t[b]].effective \in Nat /\ P[t[k]].effective \in Nat
        BY <1>0, <3>1, <4>1, EntryAt
      <4>3. P[t[k]].effective <= day
        BY <1>0, <3>1
      <4>4. b < k => Earlier(P[t[b]], P[t[k]])
        BY <1>0, <3>1, <4>1 DEF Line
      <4>5. P[t[b]].effective <= P[t[k]].effective
        <5>1. CASE b = k
          BY <4>2, <5>1
        <5>2. CASE b < k
          BY <4>2, <4>4, <5>2 DEF Earlier
        <5> QED  BY <1>0, <5>1, <5>2
      <4> QED  BY <1>0, <2>3, <4>2, <4>3, <4>5
    <3> QED  BY <1>0, <3>1, <3>2
  <2> QED  BY <2>1, <2>2, <2>3
<1>5. \A b \in 1..k : P[w[b]].effective = day <=> b > k - v
  BY <1>1, <1>4
<1>6. k + m <= n + m
  BY <1>0
<1> QED  BY <1>0, <1>2, <1>3, <1>4, <1>5, <1>6 DEF Inserted

\* What a pass starts its replay from.
Start(now, R, day) ==
  LET last == LastRow(R, day) IN
  IF last = NoRow
  THEN [last |-> FirstSnapshot(now), day |-> day, diff |-> NoDiff, out |-> <<>>]
  ELSE [last |-> last.snapshot, day |-> last.effective, diff |-> NoDiff, out |-> <<>>]

\* The snapshot before the first entry sums none.
LEMMA FirstIs ==
  ASSUME NEW now \in Nat, NEW w, NEW P
  PROVE  UpToHere(FirstSnapshot(now), w, P, 0) /\ FirstSnapshot(now).version = 0
<1> DEFINE u == FirstSnapshot(now)
<1>1. EmptyBag \in Bag /\ EmptyBag = SetToBag({})
  BY DEF Bag, EmptyBag
<1>2. u \in Snapshot
  BY <1>1 DEF FirstSnapshot, Snapshot, UNASSIGNED_ENTRY_ID
<1>3. \A l \in Layers : u.amount[l] = EmptyBag /\ u.by[l] = UNASSIGNED_ENTRY_ID
  BY DEF FirstSnapshot
<1>4. \A l : Ids(w, P, 1, 0, l) = {}
  BY DEF Ids
<1>5. \A l : LastId(w, P, 0, l, UNASSIGNED_ENTRY_ID)
  BY DEF LastId
<1>6. u.version = 0
  BY DEF FirstSnapshot
<1> HIDE DEF u
<1>7. UpToHere(u, w, P, 0)
  BY <1>1, <1>2, <1>3, <1>4, <1>5 DEF UpToHere
<1> QED  BY <1>6, <1>7 DEF u

\* A pass starts from the sums up to the position it inserts at.
LEMMA StartIs ==
  ASSUME NEW R, NEW t, NEW n, NEW P, NEW s, Ledger(R, t, n, P, s),
         NEW E, NEW day, NEW q, NEW m, NEW k, Fits(t, n, P, E, day, q, m, k),
         NEW w, w = Spliced(t, n, q, m, k), NEW v, v = Begun(t, P, s, k, day),
         NEW now \in Nat
  PROVE  Added(Start(now, R, day), 0, now, w, P, k, day, v)
<1> DEFINE st == Start(now, R, day)
<1>0. n \in Nat /\ m \in Nat \ {0} /\ k \in Nat /\ k <= n /\ day \in Nat
      /\ Past(t, n, P, day, k) /\ k + 0 = k
  BY EffectiveAssumption DEF Fits, Grouped, Line, Past
<1>1. LastRow(R, day) = IF k = 0 THEN NoRow ELSE RowAt(t, P, s, k)
  BY <1>0, LastRowIs
<1>2. Out(<<>>, 0, now, w, P, k)
  BY DEF Out
<1>3. /\ UpToHere(st.last, w, P, k)
      /\ Rebase(st.last, st.day, day).version = v + 0
      /\ st.diff = NoDiff /\ st.out = <<>>
  <2>1. CASE k = 0
    <3>1. /\ st.last = FirstSnapshot(now) /\ st.day = day
          /\ st.diff = NoDiff /\ st.out = <<>>
      BY <1>1, <2>1 DEF Start
    <3>2. v = 0
      BY <2>1 DEF Begun
    <3> HIDE DEF st
    <3> QED  BY <2>1, <3>1, <3>2, FirstIs DEF Rebase
  <2>2. CASE k # 0
    <3>0. k \in 1..n /\ k \in 1..k
      BY <1>0, <2>2
    <3>1. RowAt(t, P, s, k) # NoRow
      BY <3>0, RowIs
    <3>2. /\ st.last = s[k] /\ st.day = P[t[k]].effective
          /\ st.diff = NoDiff /\ st.out = <<>>
      BY <1>1, <2>2, <3>1 DEF Start, RowAt
    <3>3. Accumulated(t, P, k, s[k])
      BY <3>0 DEF Ledger
    <3>4. \A a \in 1..k : w[a] = t[a]
      <4>1. Places(w, t, n, q, m, k)
        BY SplicedPlaces
      <4> QED  BY <4>1 DEF Places
    <3>5. Accumulated(w, P, k, s[k])
      BY <1>0, <3>0, <3>3, <3>4, SameBefore
    <3>6. UpToHere(s[k], w, P, k) /\ s[k] \in Snapshot
      BY <3>5 DEF Accumulated, UpToHere
    <3>7. Rebase(s[k], P[t[k]].effective, day).version = v + 0
      <4>1. CASE P[t[k]].effective = day
        <5>1. v = s[k].version /\ s[k].version \in Nat
          BY <2>2, <3>6, <4>1 DEF Begun, Snapshot
        <5> QED  BY <4>1, <5>1 DEF Rebase
      <4>2. CASE P[t[k]].effective # day
        <5>1. v = 0
          BY <2>2, <4>2 DEF Begun
        <5>2. [s[k] EXCEPT !.version = 0].version = 0
          BY <3>6 DEF Snapshot
        <5> QED  BY <4>2, <5>1, <5>2 DEF Rebase
      <4> QED  BY <4>1, <4>2
    <3> QED  BY <3>2, <3>6, <3>7
  <2> QED  BY <2>1, <2>2
<1> HIDE DEF st
<1> QED  BY <1>0, <1>2, <1>3 DEF Added, st

\* A row behind the new entries, seen from the line they make.
LEMMA BehindIs ==
  ASSUME NEW R, NEW t, NEW n, NEW P, NEW s, Ledger(R, t, n, P, s),
         NEW E, NEW day, NEW q, NEW m, NEW k, Fits(t, n, P, E, day, q, m, k),
         NEW w, w = Spliced(t, n, q, m, k), NEW a \in (k + 1)..n
  PROVE  Behind(s[a], w, P, k, m, a + m)
<1>0. n \in Nat /\ m \in Nat \ {0} /\ k \in Nat /\ k <= n /\ day \in Nat
      /\ Line(t, n, P) /\ \A c \in 1..n : P[t[c]].effective <= day <=> c <= k
  BY EffectiveAssumption DEF Fits, Grouped, Line
<1>1. /\ \A c \in 1..k : w[c] = t[c]
      /\ \A i \in 1..m : w[k + i] = q[i].id
      /\ \A c \in (k + 1)..n : w[c + m] = t[c]
  <2>1. Places(w, t, n, q, m, k)
    BY SplicedPlaces
  <2> QED  BY <2>1 DEF Places
<1>2. a \in 1..n /\ a \in Nat /\ ~ (a <= k)
  BY <1>0
<1>3. /\ Accumulated(t, P, a, s[a]) /\ Versioned(t, P, a, s[a].version)
  BY <1>2 DEF Ledger
<1>4. Touched(s[a]) = P[t[a]].layer
  BY <1>0, <1>2, <1>3, TouchedLayer
<1>5. w[a + m] = t[a]
  BY <1>1
<1>6. ASSUME NEW l
      PROVE  Ids(t, P, 1, a, l) = Ids(w, P, 1, k, l) \cup Ids(w, P, k + m + 1, a + m, l)
  <2>1. \A c : c \in 1..a <=> c \in 1..k \/ c \in (k + 1)..a
    BY <1>0, <1>2
  <2>2. \A c \in (k + 1)..a : c \in (k + 1)..n /\ c + m \in (k + m + 1)..(a + m)
    BY <1>0
  <2>3. \A b \in (k + m + 1)..(a + m) : \E c \in (k + 1)..a : b = c + m
    <3> SUFFICES ASSUME NEW b \in (k + m + 1)..(a + m)
                 PROVE  \E c \in (k + 1)..a : b = c + m
      OBVIOUS
    <3>1. b - m \in (k + 1)..a /\ b = (b - m) + m
      BY <1>0, <1>2
    <3> QED  BY <3>1
  <2>4. Ids(t, P, 1, a, l) \subseteq Ids(w, P, 1, k, l) \cup Ids(w, P, k + m + 1, a + m, l)
    BY <1>1, <2>1, <2>2 DEF Ids
  <2>5. Ids(w, P, 1, k, l) \subseteq Ids(t, P, 1, a, l)
    BY <1>1, <2>1 DEF Ids
  <2>6. Ids(w, P, k + m + 1, a + m, l) \subseteq Ids(t, P, 1, a, l)
    BY <1>1, <2>1, <2>2, <2>3 DEF Ids
  <2> QED  BY <2>4, <2>5, <2>6
<1>7. Versioned(w, P, a + m, s[a].version)
  <2> DEFINE v == s[a].version
             eff(c) == P[t[c]].effective
  <2>1. v \in 1..a /\ \A b \in 1..a : eff(b) = eff(a) <=> b > a - v
    BY <1>3 DEF Versioned
  <2>2. eff(a) \in Nat /\ ~ (eff(a) <= day)
    BY <1>0, <1>2, EntryAt
  <2>3. k <= a - v
    <3>1. CASE k = 0
      BY <1>2, <2>1, <3>1
    <3>2. CASE k # 0
      <4>1. k \in 1..n /\ k \in 1..a
        BY <1>0, <1>2, <3>2
      <4>2. eff(k) <= day
        BY <1>0, <4>1
      <4>3. eff(k) # eff(a)
        BY <2>2, <4>2
      <4> HIDE DEF v, eff
      <4> QED  BY <1>0, <1>2, <2>1, <4>1, <4>3
    <3> QED  BY <3>1, <3>2
  <2>4. ASSUME NEW b \in 1..(a + m)
        PROVE  P[w[b]].effective = P[w[a + m]].effective <=> b > (a + m) - v
    <3>1. CASE b \in 1..k
      <4>1. b \in 1..n /\ b <= k
        BY <1>0, <3>1
      <4>2. eff(b) <= day
        BY <1>0, <4>1
      <4>3. ~ (b > (a + m) - v)
        <5> HIDE DEF v
        <5> QED  BY <1>0, <1>2, <2>1, <2>3, <4>1
      <4> QED  BY <1>1, <1>5, <2>2, <3>1, <4>2, <4>3
    <3>2. CASE b \in (k + 1)..(k + m)
      <4> DEFINE i == b - k
      <4>1. i \in 1..m /\ b = k + i
        BY <1>0, <3>2
      <4> HIDE DEF i
      <4>2. q[i] \in E
        BY <4>1 DEF Fits
      <4>3. P[q[i].id] = q[i] /\ q[i].effective = day
        BY <4>2 DEF Fits, Grouped
      <4>4. ~ (b > (a + m) - v)
        <5> HIDE DEF v
        <5> QED  BY <1>0, <1>2, <2>1, <2>3, <3>2
      <4>5. P[w[b]].effective = day
        BY <1>1, <4>1, <4>3
      <4> QED  BY <1>0, <1>5, <2>2, <4>4, <4>5
    <3>3. CASE b \notin 1..(k + m)
      <4> DEFINE c == b - m
      <4>1. c \in (k + 1)..a /\ c \in (k + 1)..n /\ c \in 1..a /\ b = c + m
        BY <1>0, <1>2, <3>3
      <4> HIDE DEF c
      <4>2. w[b] = t[c]
        BY <1>1, <4>1
      <4>3. c > a - v <=> b > (a + m) - v
        <5> HIDE DEF v
        <5> QED  BY <1>0, <1>2, <2>1, <4>1
      <4> QED  BY <1>5, <2>1, <4>1, <4>2, <4>3
    <3> QED  BY <1>0, <3>1, <3>2, <3>3
  <2>5. v \in 1..(a + m)
    <3> HIDE DEF v
    <3> QED  BY <1>0, <1>2, <2>1
  <2> QED  BY <2>4, <2>5 DEF Versioned
<1> QED  BY <1>3, <1>4, <1>5, <1>6, <1>7 DEF Behind, Accumulated

----------------------------------------------------------------------------
(* The line that a pass makes *)

\* w and z are the line and the snapshots after the pass.
Passed(R, w, z, t, s, n, m, k, P, now) ==
  /\ Ledger(R, w, n + m, P, z)
  /\ \A a \in 1..k : RowAt(w, P, z, a) = RowAt(t, P, s, a)
  /\ \A a \in (k + 1)..(n + m) : z[a].modified = now

\* The replay writes the new line from the first new entry on.
LEMMA PassWrites ==
  ASSUME NEW R, NEW t, NEW n, NEW P, NEW s, Ledger(R, t, n, P, s),
         NEW E, NEW day, NEW q, NEW m, NEW k, Fits(t, n, P, E, day, q, m, k),
         NEW w, w = Spliced(t, n, q, m, k), NEW now \in Nat,
         NEW g, g = [day |-> day, entries |-> E],
         NEW u, u = Updates(R, g), NEW start, start = Start(now, R, day),
         NEW N, N = (n + m) - k
  PROVE  Out(Replayed(now, start, u)[N].out, N, now, w, P, k)
<1> DEFINE v == Begun(t, P, s, k, day)
<1>0. n \in Nat /\ m \in Nat \ {0} /\ k \in Nat /\ k <= n /\ N \in Nat /\ N = n + m - k
  BY DEF Fits, Line
<1>1. Ordered(u, t, n, P, s, q, m, k, day)
  BY UpdatesAre
<1>2. Len(u) = N
  BY <1>0, <1>1 DEF Ordered
<1>3. /\ \A i \in 1..m : w[k + i] = q[i].id
      /\ \A a \in (k + 1)..n : w[a + m] = t[a]
  <2>1. Places(w, t, n, q, m, k)
    BY SplicedPlaces
  <2> QED  BY <2>1 DEF Places
<1>4. ASSUME NEW i \in 1..m  PROVE u[i] = EntryUpdate(day, P[w[k + i]])
  <2>1. q[i] \in E
    BY DEF Fits
  <2>2. P[q[i].id] = q[i]
    BY <2>1 DEF Fits, Grouped
  <2> QED  BY <1>1, <1>3, <2>2 DEF Ordered
<1>5. ASSUME NEW i \in (m + 1)..N
      PROVE  \E r : /\ u[i] = RowUpdate(r) /\ r.effective = P[w[k + i]].effective
                    /\ Behind(r.snapshot, w, P, k, m, k + i)
  <2> DEFINE a == i + k - m
             r == RowAt(t, P, s, a)
  <2>1. a \in (k + 1)..n /\ i = a + m - k /\ k + i = a + m
    BY <1>0
  <2>2. r.effective = P[t[a]].effective /\ r.snapshot = s[a]
    BY DEF RowAt
  <2> HIDE DEF a
  <2>3. u[i] = RowUpdate(r)
    BY <1>1, <2>1 DEF Ordered
  <2>4. Behind(s[a], w, P, k, m, a + m)
    BY <2>1, BehindIs
  <2>5. w[k + i] = t[a]
    BY <1>3, <2>1
  <2>6. Behind(r.snapshot, w, P, k, m, k + i) /\ r.effective = P[w[k + i]].effective
    BY <2>1, <2>2, <2>4, <2>5
  <2> HIDE DEF r
  <2> QED  BY <2>3, <2>6
<1>6. v = Begun(t, P, s, k, day)
  OBVIOUS
<1> HIDE DEF v
<1>7. Inserted(w, n + m, P, k, m, day, v)
  BY <1>6, InsertedIs
<1>8. Added(start, 0, now, w, P, k, day, v)
  BY <1>6, StartIs
<1> DEFINE n2 == n + m
<1>9. n2 = n + m /\ N = n2 - k
  BY <1>0
<1> HIDE DEF n2
<1>10. /\ Inserted(w, n2, P, k, m, day, v) /\ Len(u) = n2 - k
       /\ \A i \in (m + 1)..(n2 - k) : \E r :
            /\ u[i] = RowUpdate(r) /\ r.effective = P[w[k + i]].effective
            /\ Behind(r.snapshot, w, P, k, m, k + i)
  BY <1>2, <1>5, <1>7, <1>9
<1>11. Out(Replayed(now, start, u)[n2 - k].out, n2 - k, now, w, P, k)
  BY <1>4, <1>8, <1>10, ReplayWrites
<1> QED  BY <1>9, <1>11

\* After a pass the rows are those of the new line.
LEMMA PassIs ==
  ASSUME NEW R, NEW t, NEW n, NEW P, NEW s, Ledger(R, t, n, P, s),
         NEW E, NEW day, NEW q, NEW m, NEW k, Fits(t, n, P, E, day, q, m, k),
         NEW w, w = Spliced(t, n, q, m, k), NEW now \in Nat,
         NEW g, g = [day |-> day, entries |-> E]
  PROVE  \E z : Passed(Pass(now, R, g), w, z, t, s, n, m, k, P, now)
<1> DEFINE u == Updates(R, g)
           start == Start(now, R, day)
           N == (n + m) - k
           last == LastRow(R, day)
           out == Replayed(now, start, u)[N].out
           z == [a \in 1..(n + m) |-> IF a <= k THEN s[a] ELSE out[a - k].snapshot]
           kept == R \ Future(R, day)
           made == {[effective |-> out[i].effective, allTime |-> i + last.allTime,
                     snapshot |-> out[i].snapshot] : i \in DOMAIN out}
<1>0. n \in Nat /\ m \in Nat \ {0} /\ k \in Nat /\ k <= n /\ N \in Nat /\ day \in Nat
      /\ Past(t, n, P, day, k) /\ g.day = day
  BY EffectiveAssumption DEF Fits, Grouped, Line, Past
<1>1. Out(out, N, now, w, P, k)
  <2>1. u = Updates(R, g) /\ start = Start(now, R, day) /\ N = (n + m) - k
    OBVIOUS
  <2> HIDE DEF u, start, N
  <2> QED  BY <2>1, PassWrites
<1>2. last.allTime = k
  <2>1. last = IF k = 0 THEN NoRow ELSE RowAt(t, P, s, k)
    BY <1>0, LastRowIs
  <2>2. NoRow.allTime = 0 /\ RowAt(t, P, s, k).allTime = k
    BY DEF NoRow, RowAt
  <2> QED  BY <2>1, <2>2
<1>3. Pass(now, R, g) = kept \cup made
  <2>1. Len(u) = N
    <3>1. u = Updates(R, g)
      OBVIOUS
    <3> HIDE DEF u
    <3>2. Ordered(u, t, n, P, s, q, m, k, day)
      BY <3>1, UpdatesAre
    <3> QED  BY <1>0, <3>2 DEF Ordered
  <2> DEFINE at == Replayed(now, start, u)[Len(u)].out
  <2>2. Pass(now, R, g) = kept \cup
          {[effective |-> at[i].effective, allTime |-> i + last.allTime,
            snapshot |-> at[i].snapshot] : i \in DOMAIN at}
    BY <1>0 DEF Pass, Start
  <2>3. at = out
    BY <2>1
  <2> HIDE DEF at, out
  <2> QED  BY <2>2, <2>3
<1>4. /\ \A a \in 1..k : w[a] = t[a] /\ a \in 1..n /\ a \in 1..(n + m) /\ z[a] = s[a]
  <2>1. Places(w, t, n, q, m, k)
    BY SplicedPlaces
  <2>2. \A a \in 1..k : w[a] = t[a]
    BY <2>1 DEF Places
  <2>3. \A a \in 1..k : a \in 1..n /\ a \in 1..(n + m) /\ a <= k
    BY <1>0
  <2> HIDE DEF out
  <2> QED  BY <2>2, <2>3
<1>5. kept = {RowAt(w, P, z, a) : a \in 1..k}
  <2>1. \A a \in 1..n : P[t[a]].effective > day <=> ~ (a \in 1..k)
    <3>1. ASSUME NEW a \in 1..n  PROVE P[t[a]].effective \in Nat /\ a \in Nat
      BY EntryAt DEF Fits
    <3> QED  BY <1>0, <3>1 DEF Fits
  <2>2. \A a : RowAt(t, P, s, a).effective = P[t[a]].effective
    BY DEF RowAt
  <2>3. R = {RowAt(t, P, s, a) : a \in 1..n}
    BY DEF Ledger
  <2>4. \A a \in 1..k : RowAt(w, P, z, a) = RowAt(t, P, s, a)
    <3> HIDE DEF z
    <3> QED  BY <1>4 DEF RowAt
  <2>5. \A a \in 1..k : a \in 1..n
    BY <1>0
  <2>6. kept = {RowAt(t, P, s, a) : a \in 1..k}
    <3>1. \A r \in kept : \E a \in 1..k : r = RowAt(t, P, s, a)
      BY <2>1, <2>2, <2>3 DEF Future
    <3>2. \A a \in 1..k : RowAt(t, P, s, a) \in kept
      BY <2>1, <2>2, <2>3, <2>5 DEF Future
    <3> HIDE DEF kept
    <3> QED  BY <3>1, <3>2
  <2> HIDE DEF z, kept
  <2> QED  BY <2>4, <2>6
<1>6. /\ \A i \in 1..N : k + i \in (k + 1)..(n + m)
      /\ \A a \in (k + 1)..(n + m) : a \in 1..(n + m) /\ ~ (a <= k) /\ a - k \in 1..N
                                     /\ k + (a - k) = a
  BY <1>0
<1>7. ASSUME NEW a \in (k + 1)..(n + m)
      PROVE  /\ z[a] = out[a - k].snapshot
             /\ out[a - k].effective = P[w[a]].effective
             /\ z[a].modified = now
             /\ Accumulated(w, P, a, z[a]) /\ Versioned(w, P, a, z[a].version)
  <2>1. z[a] = out[a - k].snapshot
    <3> HIDE DEF out
    <3> QED  BY <1>6
  <2> DEFINE i == a - k
  <2>2. i \in 1..N /\ k + i = a
    BY <1>6
  <2> HIDE DEF out, z, i, N
  <2>3. /\ out[i].effective = P[w[k + i]].effective
        /\ out[i].snapshot.modified = now
        /\ Accumulated(w, P, k + i, out[i].snapshot)
        /\ Versioned(w, P, k + i, out[i].snapshot.version)
    BY <1>1, <2>2 DEF Out
  <2>4. z[a] = out[i].snapshot
    BY <2>1 DEF i
  <2>5. out[i].effective = P[w[a]].effective
    BY <2>2, <2>3
  <2> QED  BY <2>1, <2>2, <2>3, <2>4, <2>5 DEF i
<1>8. made = {RowAt(w, P, z, a) : a \in (k + 1)..(n + m)}
  <2>1. DOMAIN out = 1..N
    <3> HIDE DEF out, N
    <3> QED  BY <1>1 DEF Out
  <2> DEFINE row(i) == [effective |-> out[i].effective, allTime |-> i + last.allTime,
                        snapshot |-> out[i].snapshot]
  <2>2. ASSUME NEW a \in (k + 1)..(n + m)
        PROVE  row(a - k) = RowAt(w, P, z, a)
    <3>1. (a - k) + last.allTime = a
      BY <1>0, <1>2
    <3>2. z[a] = out[a - k].snapshot /\ out[a - k].effective = P[w[a]].effective
      BY <1>7
    <3> HIDE DEF out, z, last
    <3> QED  BY <3>1, <3>2 DEF RowAt
  <2>3. made = {row(i) : i \in 1..N}
    BY <2>1
  <2> HIDE DEF made, row, z, out, last
  <2>4. \A i \in 1..N : k + i \in (k + 1)..(n + m) /\ (k + i) - k = i
    BY <1>0
  <2>5. \A i \in 1..N : row(i) = RowAt(w, P, z, k + i)
    BY <2>2, <2>4
  <2>6. \A a \in (k + 1)..(n + m) : RowAt(w, P, z, a) = row(a - k) /\ a - k \in 1..N
    BY <1>6, <2>2
  <2> HIDE DEF N
  <2> QED  BY <2>3, <2>4, <2>5, <2>6
<1>9. Ledger(Pass(now, R, g), w, n + m, P, z)
  <2>1. Line(w, n + m, P)
    BY SplicedLine
  <2>2. ASSUME NEW a \in 1..(n + m)
        PROVE  Accumulated(w, P, a, z[a]) /\ Versioned(w, P, a, z[a].version)
    <3>1. CASE a \in 1..k
      <4>1. /\ z[a] = s[a] /\ a \in 1..n
            /\ Accumulated(t, P, a, s[a]) /\ Versioned(t, P, a, s[a].version)
        BY <1>4, <3>1 DEF Ledger
      <4>2. \A c \in 1..k : w[c] = t[c]
        BY <1>4
      <4> HIDE DEF z
      <4>3. Accumulated(w, P, a, s[a])
        BY <1>0, <3>1, <4>1, <4>2, SameBefore
      <4>4. Versioned(w, P, a, s[a].version)
        BY <1>0, <3>1, <4>1, <4>2, VersionedBefore
      <4> QED  BY <4>1, <4>3, <4>4
    <3>2. CASE a \notin 1..k
      <4>1. a \in (k + 1)..(n + m)
        BY <1>0, <3>2
      <4> HIDE DEF z
      <4> QED  BY <1>7, <4>1
    <3> QED  BY <3>1, <3>2
  <2>3. Pass(now, R, g) = {RowAt(w, P, z, a) : a \in 1..(n + m)}
    <3>1. \A a : a \in 1..(n + m) <=> a \in 1..k \/ a \in (k + 1)..(n + m)
      BY <1>0
    <3> HIDE DEF z, kept, made
    <3> QED  BY <1>3, <1>5, <1>8, <3>1
  <2> HIDE DEF z
  <2> QED  BY <2>1, <2>2, <2>3 DEF Ledger
<1>10. \A a \in 1..k : RowAt(w, P, z, a) = RowAt(t, P, s, a)
  <2> HIDE DEF z
  <2> QED  BY <1>4 DEF RowAt
<1>11. \A a \in (k + 1)..(n + m) : z[a].modified = now
  <2> HIDE DEF z
  <2> QED  BY <1>7
<1> HIDE DEF z
<1>12. Passed(Pass(now, R, g), w, z, t, s, n, m, k, P, now)
  BY <1>9, <1>10, <1>11 DEF Passed
<1> QED  BY <1>12

----------------------------------------------------------------------------
(* What a pass changes, and that it can run *)

\* The ids on a line.
Of(t, n) == {t[a] : a \in 1..n}

\* Of a date the rows are those they were, or the newest was written now and
\* is numbered above all that were.
Renewed(old, R, d, now) ==
  \/ \A r \in old \cup R : r.effective = d => (r \in R <=> r \in old)
  \/ \E r \in R : /\ r.effective = d /\ r.snapshot.modified = now
                  /\ \A o \in R : o.effective = d => o.allTime <= r.allTime
                  /\ \A o \in old : o.effective = d => o.allTime < r.allTime

\* What has changed from old to R.
Changed(old, R, now) ==
  /\ \A r \in R : r \in old \/ r.snapshot.modified = now
  /\ \A d \in Days : Renewed(old, R, d, now)

\* The last position of a date.
LEMMA LastOfDate ==
  ASSUME NEW t, NEW n, NEW P, Line(t, n, P), NEW d, NEW b \in 1..n, P[t[b]].effective = d
  PROVE  \E c \in 1..n : P[t[c]].effective = d /\ \A a \in 1..n : P[t[a]].effective = d => a <= c
<1> DEFINE S == {a \in 1..n : P[t[a]].effective = d}
<1>1. n \in Nat /\ S \in SUBSET Nat /\ S # {} /\ \A a \in S : a <= n
  BY DEF Line
<1> HIDE DEF S
<1>2. PICK c \in S : \A a \in S : a <= c
  BY <1>1, GreatestNat
<1> QED  BY <1>2 DEF S

\* The entries of a group can be listed in their order and have a position.
LEMMA GroupFits ==
  ASSUME NEW t, NEW n, NEW P, NEW E, NEW day, Line(t, n, P), Grouped(E, day, t, n, P),
         IsFiniteSet(E), E # {}
  PROVE  \E q, m, k : Fits(t, n, P, E, day, q, m, k)
<1> DEFINE B == {p \in E \X E : Sooner(p[1], p[2])}
<1>1. \A e \in E : P[e.id] = e /\ e.id \in Nat /\ e.sequence \in Nat
  BY DEF Line, Grouped, Entered, Entry
<1>2. \A e, f \in E : <<e, f>> \in B <=> Sooner(e, f)
  OBVIOUS
<1>3. \A e \in E : ~ Sooner(e, e)
  BY <1>1 DEF Sooner
<1>4. \A e, f, g \in E : Sooner(e, f) /\ Sooner(f, g) => Sooner(e, g)
  BY <1>1 DEF Sooner
<1>5. \A e, f \in E : e # f => Sooner(e, f) \/ Sooner(f, e)
  <2> SUFFICES ASSUME NEW e \in E, NEW f \in E, e # f
               PROVE  Sooner(e, f) \/ Sooner(f, e)
    OBVIOUS
  <2>1. e.id # f.id
    BY <1>1
  <2> QED  BY <1>1, <2>1 DEF Sooner
<1> HIDE DEF B
<1>6. /\ \A e \in E : <<e, e>> \notin B
      /\ \A e, f, g \in E : <<e, f>> \in B /\ <<f, g>> \in B => <<e, g>> \in B
      /\ \A e, f \in E : e # f => <<e, f>> \in B \/ <<f, e>> \in B
  BY <1>2, <1>3, <1>4, <1>5
<1>7. \E q : Lists(q, E, B)
  BY <1>6, ListExists
<1>8. PICK q : Lists(q, E, B)
  BY <1>7
<1> DEFINE m == Cardinality(E)
<1>9. m \in Nat \ {0}
  BY FS_CardinalityType, FS_EmptySet
<1> HIDE DEF m
<1>10. /\ q \in [1..m -> E] /\ \A e \in E : \E i \in 1..m : q[i] = e
       /\ \A i, j \in 1..m : <<q[i], q[j]>> \in B <=> i < j
  <2>1. q \in [1..m -> E] /\ DOMAIN q = 1..m
    BY <1>8 DEF Lists, m
  <2> QED  BY <1>8, <2>1 DEF Lists
<1>11. \A i, j \in 1..m : Sooner(q[i], q[j]) <=> i < j
  BY <1>2, <1>10
<1>12. PICK k : Past(t, n, P, day, k)
  <2>1. day \in Nat
    BY EffectiveAssumption DEF Grouped
  <2> QED  BY <2>1, LineSplits
<1>13. Fits(t, n, P, E, day, q, m, k)
  BY <1>9, <1>10, <1>11, <1>12 DEF Fits, Past
<1> QED  BY <1>13

\* The ids after a pass are those before and those of the group.
LEMMA PassIds ==
  ASSUME NEW t, NEW n, NEW P, NEW E, NEW day, NEW q, NEW m, NEW k,
         Fits(t, n, P, E, day, q, m, k), NEW w, w = Spliced(t, n, q, m, k)
  PROVE  Of(w, n + m) = Of(t, n) \cup {e.id : e \in E}
<1>0. n \in Nat /\ m \in Nat /\ k \in Nat /\ k <= n
  BY DEF Fits, Line
<1>1. /\ \A a \in 1..k : w[a] = t[a]
      /\ \A i \in 1..m : w[k + i] = q[i].id
      /\ \A a \in (k + 1)..n : w[a + m] = t[a]
      /\ \A a \in 1..(n + m) : \/ a \in 1..k
                               \/ \E i \in 1..m : a = k + i
                               \/ \E c \in (k + 1)..n : a = c + m
  <2>1. Places(w, t, n, q, m, k)
    BY SplicedPlaces
  <2> QED  BY <2>1 DEF Places
<1>2. q \in [1..m -> E] /\ \A e \in E : \E i \in 1..m : q[i] = e
  BY DEF Fits
<1>3. /\ \A a \in 1..k : a \in 1..n /\ a \in 1..(n + m)
      /\ \A i \in 1..m : k + i \in 1..(n + m)
      /\ \A a \in (k + 1)..n : a \in 1..n /\ a + m \in 1..(n + m)
      /\ \A a \in 1..n : a \in 1..k \/ a \in (k + 1)..n
  BY <1>0
<1>4. ASSUME NEW a \in 1..(n + m)  PROVE w[a] \in Of(t, n) \cup {e.id : e \in E}
  BY <1>1, <1>2, <1>3 DEF Of
<1>5. ASSUME NEW a \in 1..n  PROVE t[a] \in Of(w, n + m)
  BY <1>1, <1>3 DEF Of
<1>6. ASSUME NEW e \in E  PROVE e.id \in Of(w, n + m)
  BY <1>1, <1>2, <1>3 DEF Of
<1>7. Of(w, n + m) \subseteq Of(t, n) \cup {e.id : e \in E}
  BY <1>4 DEF Of
<1>8. Of(t, n) \subseteq Of(w, n + m)
  <2> SUFFICES ASSUME NEW x \in Of(t, n)  PROVE x \in Of(w, n + m)
    OBVIOUS
  <2>1. PICK a \in 1..n : x = t[a]
    BY DEF Of
  <2> QED  BY <1>5, <2>1
<1> QED  BY <1>6, <1>7, <1>8

\* A pass leaves the newest row of a date alone or writes it above all that were.
LEMMA PassChanges ==
  ASSUME NEW R, NEW t, NEW n, NEW P, NEW s, Ledger(R, t, n, P, s),
         NEW E, NEW day, NEW q, NEW m, NEW k, Fits(t, n, P, E, day, q, m, k),
         NEW w, w = Spliced(t, n, q, m, k), NEW now \in Nat,
         NEW Q, NEW z, Passed(Q, w, z, t, s, n, m, k, P, now)
  PROVE  Changed(R, Q, now)
<1> DEFINE N == n + m
           new(a) == RowAt(w, P, z, a)
           was(a) == RowAt(t, P, s, a)
           eff(a) == P[w[a]].effective
<1>0. /\ n \in Nat /\ m \in Nat \ {0} /\ k \in Nat /\ k <= n /\ day \in Nat /\ N \in Nat
      /\ \A a \in 1..n : P[t[a]].effective <= day <=> a <= k
  BY EffectiveAssumption DEF Fits, Grouped, Line
<1>1. /\ \A a \in 1..k : w[a] = t[a]
      /\ \A i \in 1..m : w[k + i] = q[i].id
      /\ \A a \in (k + 1)..n : w[a + m] = t[a]
      /\ \A a \in 1..N : \/ a \in 1..k
                         \/ \E i \in 1..m : a = k + i
                         \/ \E c \in (k + 1)..n : a = c + m
  <2>1. Places(w, t, n, q, m, k)
    BY SplicedPlaces
  <2> QED  BY <2>1 DEF Places
<1>2. /\ Q = {new(a) : a \in 1..N} /\ R = {was(a) : a \in 1..n}
      /\ Line(w, N, P) /\ Line(t, n, P)
  BY DEF Passed, Ledger
<1>3. /\ \A a : new(a).effective = eff(a) /\ new(a).allTime = a
                /\ new(a).snapshot = z[a]
      /\ \A a : was(a).effective = P[t[a]].effective /\ was(a).allTime = a
  BY DEF RowAt
<1>4. /\ \A a \in 1..k : new(a) = was(a)
      /\ \A a \in (k + 1)..N : z[a].modified = now
  BY DEF Passed
<1>5. /\ \A a \in 1..k : a \in 1..n /\ a \in 1..N
      /\ \A a \in 1..N : a \in 1..k \/ a \in (k + 1)..N
      /\ \A a \in 1..n : a \in 1..k \/ a \in (k + 1)..n
      /\ \A a \in (k + 1)..n : a \in 1..n /\ a + m \in 1..N /\ a + m \in (k + 1)..N
      /\ \A i \in 1..m : k + i \in (k + 1)..N /\ k + i \in 1..N
  BY <1>0
<1>6. /\ \A i \in 1..m : eff(k + i) = day
      /\ \A a \in 1..k : eff(a) = P[t[a]].effective
      /\ \A a \in (k + 1)..n : eff(a + m) = P[t[a]].effective
  <2>1. ASSUME NEW i \in 1..m  PROVE eff(k + i) = day
    <3>1. q[i] \in E
      BY DEF Fits
    <3>2. P[q[i].id] = q[i] /\ q[i].effective = day
      BY <3>1 DEF Fits, Grouped
    <3> QED  BY <1>1, <3>2
  <2> QED  BY <1>1, <2>1
<1> HIDE DEF new, was, eff, N
<1>7. \A r \in Q : r \in R \/ r.snapshot.modified = now
  <2> SUFFICES ASSUME NEW a \in 1..N
               PROVE  new(a) \in R \/ new(a).snapshot.modified = now
    BY <1>2
  <2> QED  BY <1>2, <1>3, <1>4, <1>5
<1>8. ASSUME NEW d \in Days  PROVE Renewed(R, Q, d, now)
  <2>0. d \in Nat
    BY EffectiveAssumption
  <2>1. CASE \E b \in (k + 1)..N : eff(b) = d
    <3>1. PICK b \in (k + 1)..N : eff(b) = d
      BY <2>1
    <3>2. b \in 1..N
      BY <1>0
    <3>3. PICK c \in 1..N : eff(c) = d /\ \A a \in 1..N : eff(a) = d => a <= c
      <4>1. P[w[b]].effective = d
        BY <3>1 DEF eff
      <4>2. \E c \in 1..N : /\ P[w[c]].effective = d
                            /\ \A a \in 1..N : P[w[a]].effective = d => a <= c
        BY <1>2, <3>2, <4>1, LastOfDate
      <4> QED  BY <4>2 DEF eff
    <3>4. c \in (k + 1)..N
      BY <1>0, <3>1, <3>2, <3>3
    <3>5. ASSUME NEW a \in 1..n, P[t[a]].effective = d  PROVE a < c
      <4>1. CASE a \in 1..k
        BY <1>0, <3>4, <4>1
      <4>2. CASE a \in (k + 1)..n
        <5>1. eff(a + m) = d /\ a + m \in 1..N
          BY <1>5, <1>6, <3>5, <4>2
        <5>2. a + m <= c
          BY <3>3, <5>1
        <5> QED  BY <1>0, <5>2
      <4> QED  BY <1>5, <4>1, <4>2
    <3>6. new(c) \in Q /\ new(c).effective = d /\ new(c).snapshot.modified = now
      BY <1>2, <1>3, <1>4, <3>3, <3>4
    <3>7. \A o \in Q : o.effective = d => o.allTime <= new(c).allTime
      BY <1>2, <1>3, <3>3
    <3>8. \A o \in R : o.effective = d => o.allTime < new(c).allTime
      BY <1>2, <1>3, <3>5
    <3> QED  BY <3>6, <3>7, <3>8 DEF Renewed
  <2>2. CASE \A b \in (k + 1)..N : eff(b) # d
    <3>1. \A a \in (k + 1)..n : P[t[a]].effective # d
      BY <1>5, <1>6, <2>2
    <3>2. \A r \in Q : r.effective = d => r \in R
      <4> SUFFICES ASSUME NEW a \in 1..N, new(a).effective = d
                   PROVE  new(a) \in R
        BY <1>2
      <4>1. a \in 1..k
        BY <1>3, <1>5, <2>2
      <4> QED  BY <1>2, <1>4, <1>5, <4>1
    <3>3. \A r \in R : r.effective = d => r \in Q
      <4> SUFFICES ASSUME NEW a \in 1..n, was(a).effective = d
                   PROVE  was(a) \in Q
        BY <1>2
      <4>1. a \in 1..k
        BY <1>3, <1>5, <3>1
      <4> QED  BY <1>2, <1>4, <1>5, <4>1
    <3> QED  BY <3>2, <3>3 DEF Renewed
  <2> QED  BY <2>1, <2>2
<1> QED  BY <1>7, <1>8 DEF Changed

\* Changes follow one another.
LEMMA ChangesFollow ==
  ASSUME NEW A, NEW B, NEW C, NEW now, Changed(A, B, now), Changed(B, C, now),
         \A r \in A \cup B \cup C : r.allTime \in Nat
  PROVE  Changed(A, C, now)
<1>1. \A r \in C : r \in A \/ r.snapshot.modified = now
  BY DEF Changed
<1>2. ASSUME NEW d \in Days  PROVE Renewed(A, C, d, now)
  <2>1. Renewed(A, B, d, now) /\ Renewed(B, C, d, now)
    BY DEF Changed
  <2>2. CASE \A r \in B \cup C : r.effective = d => (r \in C <=> r \in B)
    <3>1. CASE \A r \in A \cup B : r.effective = d => (r \in B <=> r \in A)
      <4>1. \A r \in A \cup C : r.effective = d => (r \in C <=> r \in A)
        BY <2>2, <3>1
      <4> QED  BY <4>1 DEF Renewed
    <3>2. CASE \E r \in B : /\ r.effective = d /\ r.snapshot.modified = now
                            /\ \A o \in B : o.effective = d => o.allTime <= r.allTime
                            /\ \A o \in A : o.effective = d => o.allTime < r.allTime
      BY <2>2, <3>2 DEF Renewed
    <3> QED  BY <2>1, <3>1, <3>2 DEF Renewed
  <2>3. CASE \E r \in C : /\ r.effective = d /\ r.snapshot.modified = now
                          /\ \A o \in C : o.effective = d => o.allTime <= r.allTime
                          /\ \A o \in B : o.effective = d => o.allTime < r.allTime
    <3>0. PICK c \in C : /\ c.effective = d /\ c.snapshot.modified = now
                         /\ \A o \in C : o.effective = d => o.allTime <= c.allTime
                         /\ \A o \in B : o.effective = d => o.allTime < c.allTime
      BY <2>3
    <3>1. \A o \in A : o.effective = d => o.allTime < c.allTime
      <4>1. CASE \A r \in A \cup B : r.effective = d => (r \in B <=> r \in A)
        BY <3>0, <4>1
      <4>2. CASE \E r \in B : /\ r.effective = d
                              /\ \A o \in A : o.effective = d => o.allTime < r.allTime
        BY <3>0, <4>2
      <4> QED  BY <2>1, <4>1, <4>2 DEF Renewed
    <3> QED  BY <3>0, <3>1 DEF Renewed
  <2> QED  BY <2>1, <2>2, <2>3 DEF Renewed
<1> QED  BY <1>1, <1>2 DEF Changed

----------------------------------------------------------------------------
(* The entries of a batch *)

Counted(u, b, n) ==
  u[0] = n /\ \A i \in 1..Len(b) : u[i] = u[i - 1] + Len(b[i].layers)

\* The recursive definition of the ids unfolds step by step.
LEMMA LastIdsCount ==
  ASSUME NEW b, NEW n, NEW L \in Nat, L = Len(b), NEW u, u = LastIds(b, n)
  PROVE  Counted(u, b, n)
<1> DEFINE Fixed(h, m) ==
             h = [i \in 0..m |-> IF i = 0 THEN n ELSE h[i - 1] + Len(b[i].layers)]
           S == {m \in Nat : \E h : Fixed(h, m)}
<1>1. 0 \in S
  <2> DEFINE h == [i \in 0..0 |-> n]
  <2>1. h = [i \in 0..0 |-> IF i = 0 THEN n ELSE h[i - 1] + Len(b[i].layers)]
    OBVIOUS
  <2>2. Fixed(h, 0)
    BY <2>1
  <2> QED  BY <2>2
<1>2. ASSUME NEW m \in Nat, m \in S  PROVE m + 1 \in S
  <2>1. PICK h : Fixed(h, m)
    BY <1>2
  <2> DEFINE g == [i \in 0..(m + 1) |->
                     IF i = 0 THEN n ELSE h[i - 1] + Len(b[i].layers)]
  <2>2. \A i \in 0..m : g[i] = h[i]
    BY <2>1
  <2>3. \A i \in 0..(m + 1) : i # 0 => i - 1 \in 0..m
    OBVIOUS
  <2>4. \A i \in 0..(m + 1) : i # 0 => g[i - 1] = h[i - 1]
    <3> HIDE DEF g
    <3> QED  BY <2>2, <2>3
  <2>5. Fixed(g, m + 1)
    BY <2>4
  <2>6. \E h2 : Fixed(h2, m + 1)
    <3> HIDE DEF Fixed, g
    <3> QED  BY <2>5
  <2>7. m + 1 \in Nat
    OBVIOUS
  <2> HIDE DEF Fixed
  <2> QED  BY <2>6, <2>7
<1> HIDE DEF S
<1>3. L \in S
  BY <1>1, <1>2, NatInduct
<1>4. PICK h : Fixed(h, L)
  BY <1>3 DEF S
<1>5. Fixed(u, L)
  BY <1>4 DEF LastIds
<1>6. u[0] = n
  BY <1>5
<1>7. \A i \in 1..L : i \in 0..L /\ i # 0
  OBVIOUS
<1> QED  BY <1>5, <1>6, <1>7 DEF Counted

\* N entries of one call, with the ids that follow n.
Follow(es, n, N, c) ==
  /\ N \in Nat
  /\ \A e \in es : e \in Entry /\ e.call = c /\ e.id \in (n + 1)..(n + N)
  /\ \A x \in (n + 1)..(n + N) : \E e \in es : e.id = x
  /\ \A e, f \in es : e.id = f.id => e = f
  /\ \A e, f \in es : e.posting = f.posting /\ e.sequence = f.sequence => e = f

\* The entries of a batch have the next ids, and differ in posting or sequence.
LEMMA EntriesAre ==
  ASSUME NEW b \in Seq(Posting), NEW n \in Nat, calls \in Nat
  PROVE  \E N : Follow(Entries(b, n), n, N, calls + 1)
<1> DEFINE L == Len(b)
           u == LastIds(b, n)
           len(i) == Len(b[i].layers)
           at(i, j) == [id |-> u[i - 1] + j, layer |-> b[i].layers[j], sequence |-> j,
                        effective |-> b[i].effective, call |-> calls + 1, posting |-> i]
           es == Entries(b, n)
<1>1. b \in Seq(Posting)
  OBVIOUS
<1>2. /\ L \in Nat /\ DOMAIN b = 1..L
      /\ \A i \in 1..L : /\ b[i].effective \in Days /\ b[i].layers \in Seq(Layers)
                         /\ len(i) \in Nat /\ DOMAIN b[i].layers = 1..len(i)
                         /\ \A j \in 1..len(i) : b[i].layers[j] \in Layers
  <2>1. L \in Nat /\ DOMAIN b = 1..L
    BY <1>1
  <2>2. \A i \in 1..L : b[i] \in [effective : Days, layers : Seq(Layers)]
    <3> HIDE DEF L
    <3>2. \A i \in 1..L : b[i] \in Posting
      BY <1>1, <2>1
    <3> QED  BY <3>2 DEF Posting
  <2>3. ASSUME NEW i \in 1..L
        PROVE  /\ b[i].effective \in Days /\ b[i].layers \in Seq(Layers)
               /\ len(i) \in Nat /\ DOMAIN b[i].layers = 1..len(i)
               /\ \A j \in 1..len(i) : b[i].layers[j] \in Layers
    <3>1. b[i].effective \in Days /\ b[i].layers \in Seq(Layers)
      BY <2>2
    <3> DEFINE ls == b[i].layers
    <3>2. ls \in Seq(Layers) /\ len(i) = Len(ls)
      BY <3>1
    <3> HIDE DEF ls, len
    <3>3. /\ len(i) \in Nat /\ DOMAIN ls = 1..len(i)
          /\ \A j \in 1..len(i) : ls[j] \in Layers
      BY <3>2
    <3> QED  BY <3>1, <3>3 DEF ls
  <2> QED  BY <2>1, <2>3
<1>3. es = UNION {{at(i, j) : j \in 1..len(i)} : i \in 1..L}
  BY <1>2 DEF Entries
<1>4. u[0] = n /\ \A i \in 1..L : u[i] = u[i - 1] + len(i)
  <2>1. u = LastIds(b, n) /\ L = Len(b)
    OBVIOUS
  <2> HIDE DEF u, L
  <2>2. Counted(u, b, n)
    BY <1>2, <2>1, LastIdsCount
  <2> QED  BY <2>1, <2>2 DEF Counted
<1> HIDE DEF u, es, L, len
<1> DEFINE S == {i \in Nat : i <= L => /\ u[i] \in Nat
                                       /\ \A j \in 0..i : u[j] \in Nat /\ u[j] <= u[i]}
<1>5. 0 \in S
  BY <1>4
<1>6. ASSUME NEW i \in Nat, i \in S  PROVE i + 1 \in S
  <2> SUFFICES ASSUME i + 1 <= L
               PROVE  /\ u[i + 1] \in Nat
                      /\ \A j \in 0..(i + 1) : u[j] \in Nat /\ u[j] <= u[i + 1]
    OBVIOUS
  <2>1. i + 1 \in 1..L /\ (i + 1) - 1 = i
    BY <1>2
  <2>2. u[i] \in Nat /\ \A j \in 0..i : u[j] \in Nat /\ u[j] <= u[i]
    BY <1>2, <1>6
  <2>3. u[i + 1] = u[i] + len(i + 1) /\ len(i + 1) \in Nat
    BY <1>2, <1>4, <2>1
  <2>4. \A j \in 0..(i + 1) : j \in 0..i \/ j = i + 1
    OBVIOUS
  <2>5. u[i + 1] \in Nat /\ u[i] <= u[i + 1]
    BY <2>2, <2>3
  <2>6. ASSUME NEW j \in 0..i  PROVE u[j] \in Nat /\ u[j] <= u[i + 1]
    <3>1. u[j] \in Nat /\ u[j] <= u[i]
      BY <2>2
    <3> QED  BY <2>2, <2>5, <3>1
  <2> QED  BY <2>4, <2>5, <2>6
<1> HIDE DEF S
<1>7. \A i \in Nat : i \in S
  BY <1>5, <1>6, NatInduct
<1>8. \A i \in 0..L : u[i] \in Nat /\ \A j \in 0..i : u[j] <= u[i]
  BY <1>2, <1>7 DEF S
<1> DEFINE N == u[L] - n
<1>9. N \in Nat /\ n + N = u[L]
  <2>1. L \in 0..L /\ 0 \in 0..L
    BY <1>2
  <2> QED  BY <1>4, <1>8, <2>1
<1> HIDE DEF N
<1>10. ASSUME NEW i \in 1..L, NEW j \in 1..len(i)
       PROVE  /\ at(i, j).id \in (n + 1)..(n + N) /\ at(i, j) \in Entry
              /\ u[i - 1] < at(i, j).id /\ at(i, j).id <= u[i] /\ at(i, j).call = calls + 1
              /\ at(i, j).posting = i /\ at(i, j).sequence = j
  <2>1. i - 1 \in 0..L /\ i \in 0..L /\ 0 \in 0..(i - 1) /\ i \in 0..L /\ L \in 0..L /\ i \in Nat
    BY <1>2
  <2>2. /\ u[i - 1] \in Nat /\ u[i] \in Nat /\ n <= u[i - 1] /\ u[i] <= n + N
    BY <1>4, <1>8, <1>9, <2>1
  <2>3. u[i] = u[i - 1] + len(i) /\ len(i) \in Nat /\ j \in Nat
    BY <1>2, <1>4
  <2> DEFINE x == u[i - 1] + j
  <2>4. x \in Nat /\ x \in (n + 1)..(n + N) /\ u[i - 1] < x /\ x <= u[i]
    BY <1>9, <2>2, <2>3
  <2>5. b[i].layers[j] \in Layers /\ b[i].effective \in Days /\ calls + 1 \in Nat
    BY <1>2
  <2> HIDE DEF x
  <2>6. at(i, j) = [id |-> x, layer |-> b[i].layers[j], sequence |-> j,
                    effective |-> b[i].effective, call |-> calls + 1, posting |-> i]
    BY DEF x
  <2> HIDE DEF at
  <2> QED  BY <2>1, <2>3, <2>4, <2>5, <2>6 DEF Entry
<1>11. ASSUME NEW x \in (n + 1)..(n + N)
       PROVE  \E i \in 1..L : \E j \in 1..len(i) : at(i, j).id = x
  <2> DEFINE T == {i \in 0..L : x <= u[i]}
  <2>1. L \in T /\ T \in SUBSET Nat
    BY <1>2, <1>9
  <2> HIDE DEF T
  <2>2. PICK i \in T : \A o \in T : i <= o
    BY <2>1, LeastNat
  <2>3. i \in 0..L /\ x <= u[i]
    BY <2>2 DEF T
  <2>4. i # 0
    BY <1>4, <2>3
  <2>5. i \in 1..L /\ i - 1 \in 0..L /\ i - 1 < i /\ i \in 0..L
    BY <1>2, <2>3, <2>4
  <2>6. u[i - 1] \in Nat /\ u[i - 1] < x
    <3>1. i - 1 \notin T
      BY <1>2, <2>2, <2>5
    <3>2. u[i - 1] \in Nat
      BY <1>8, <2>5
    <3> QED  BY <2>5, <3>1, <3>2 DEF T
  <2> DEFINE j == x - u[i - 1]
  <2>7. u[i] = u[i - 1] + len(i) /\ len(i) \in Nat
    BY <1>2, <1>4, <2>5
  <2>8. j \in 1..len(i) /\ u[i - 1] + j = x
    BY <2>3, <2>6, <2>7
  <2> QED  BY <2>5, <2>8
<1>12. ASSUME NEW i \in 1..L, NEW j \in 1..len(i), NEW i2 \in 1..L, NEW j2 \in 1..len(i2),
              at(i, j).id = at(i2, j2).id
       PROVE  i = i2 /\ j = j2
  <2>1. /\ u[i - 1] < at(i, j).id /\ at(i, j).id <= u[i]
        /\ u[i2 - 1] < at(i2, j2).id /\ at(i2, j2).id <= u[i2]
        /\ at(i, j).id \in Nat
    BY <1>10 DEF Entry
  <2>2. /\ i \in 0..L /\ i2 \in 0..L /\ i - 1 \in 0..L /\ i2 - 1 \in 0..L
        /\ i < i2 => i \in 0..(i2 - 1)
        /\ i2 < i => i2 \in 0..(i - 1)
    BY <1>2
  <2>3. /\ u[i] \in Nat /\ u[i2] \in Nat /\ u[i - 1] \in Nat /\ u[i2 - 1] \in Nat
        /\ i < i2 => u[i] <= u[i2 - 1]
        /\ i2 < i => u[i2] <= u[i - 1]
    BY <1>8, <2>2
  <2>4. i = i2
    <3> DEFINE x == at(i, j).id
    <3>1. x = at(i2, j2).id
      BY <1>12
    <3>2. /\ u[i - 1] < x /\ x <= u[i] /\ u[i2 - 1] < x /\ x <= u[i2] /\ x \in Nat
      BY <2>1, <3>1
    <3> HIDE DEF x
    <3>3. i \in Nat /\ i2 \in Nat
      BY <1>2
    <3>4. ~ (i < i2)
      BY <2>3, <3>2
    <3>5. ~ (i2 < i)
      BY <2>3, <3>2
    <3> QED  BY <3>3, <3>4, <3>5
  <2>5. u[i - 1] + j = u[i - 1] + j2
    BY <1>12, <2>4
  <2> QED  BY <2>3, <2>4, <2>5
<1> HIDE DEF at
<1>13. \A e \in es : \E i \in 1..L : \E j \in 1..len(i) : e = at(i, j)
  BY <1>3
<1>14. \A i \in 1..L : \A j \in 1..len(i) : at(i, j) \in es
  BY <1>3
<1>15. \A e \in es : e \in Entry /\ e.call = calls + 1 /\ e.id \in (n + 1)..(n + N)
  BY <1>10, <1>13
<1>16. \A x \in (n + 1)..(n + N) : \E e \in es : e.id = x
  BY <1>11, <1>14
<1>17. \A e, f \in es : e.id = f.id => e = f
  <2> SUFFICES ASSUME NEW e \in es, NEW f \in es, e.id = f.id  PROVE e = f
    OBVIOUS
  <2>1. PICK i \in 1..L : \E j \in 1..len(i) : e = at(i, j)
    BY <1>13
  <2>2. PICK j \in 1..len(i) : e = at(i, j)
    BY <2>1
  <2>3. PICK i2 \in 1..L : \E j2 \in 1..len(i2) : f = at(i2, j2)
    BY <1>13
  <2>4. PICK j2 \in 1..len(i2) : f = at(i2, j2)
    BY <2>3
  <2> QED  BY <1>12, <2>2, <2>4
<1>18. \A e, f \in es : e.posting = f.posting /\ e.sequence = f.sequence => e = f
  <2> SUFFICES ASSUME NEW e \in es, NEW f \in es,
                      e.posting = f.posting, e.sequence = f.sequence
               PROVE  e = f
    OBVIOUS
  <2>1. PICK i \in 1..L : \E j \in 1..len(i) : e = at(i, j)
    BY <1>13
  <2>2. PICK j \in 1..len(i) : e = at(i, j)
    BY <2>1
  <2>3. PICK i2 \in 1..L : \E j2 \in 1..len(i2) : f = at(i2, j2)
    BY <1>13
  <2>4. PICK j2 \in 1..len(i2) : f = at(i2, j2)
    BY <2>3
  <2> QED  BY <1>10, <2>2, <2>4
<1>19. Follow(es, n, N, calls + 1)
  BY <1>9, <1>15, <1>16, <1>17, <1>18 DEF Follow
<1> QED  BY <1>19 DEF es

\* The entries of a batch in the order of their ids.
InIdOrder(x, es, n, N) == x \in [1..N -> es] /\ \A i \in 1..N : x[i].id = n + i

\* Sorting the entries of a batch by id lists them.
LEMMA SortedEntries ==
  ASSUME NEW es, NEW n \in Nat, NEW N, NEW c, Follow(es, n, N, c)
  PROVE  /\ InIdOrder(Sorted(es, ById), es, n, N)
         /\ IsFiniteSet(es)
<1> DEFINE q == [i \in 1..N |-> CHOOSE e \in es : e.id = n + i]
           B == {p \in es \X es : p[1].id < p[2].id}
           below == [e \in es |-> {f \in es : f.id < e.id}]
<1>1. N \in Nat /\ \A e \in es : e.id \in (n + 1)..(n + N) /\ e.id \in Nat
  BY DEF Follow, Entry
<1>2. \A i \in 1..N : n + i \in (n + 1)..(n + N)
  BY <1>1
<1>3. \A i \in 1..N : q[i] \in es /\ q[i].id = n + i
  BY <1>2 DEF Follow
<1>4. q \in [1..N -> es]
  BY <1>3
<1> HIDE DEF q
<1>5. ASSUME NEW e \in es  PROVE \E i \in 1..N : q[i] = e
  <2> DEFINE i == e.id - n
  <2>1. i \in 1..N /\ n + i = e.id
    BY <1>1
  <2> HIDE DEF i
  <2>2. q[i] = e
    BY <1>3, <2>1 DEF Follow
  <2> QED  BY <2>1, <2>2
<1>6. \A i, j \in 1..N : <<q[i], q[j]>> \in B <=> i < j
  <2>1. \A i, j \in 1..N : n + i < n + j <=> i < j
    BY <1>1
  <2> QED  BY <1>3, <2>1
<1>7. \A e \in es : below[e] = {f \in es : <<f, e>> \in B}
  OBVIOUS
<1> HIDE DEF B
<1>8. InSequence(q, N, es, B)
  BY <1>4, <1>5, <1>6 DEF InSequence
<1>9. Ranked(q, N, es, below)
  <2> HIDE DEF below
  <2> QED  BY <1>1, <1>7, <1>8, ListRanks
<1>10. Cardinality(es) = N
  BY <1>9 DEF Ranked
<1> DEFINE x == Sorted(es, ById)
<1>11. x = [i \in 1..Cardinality(es) |->
              CHOOSE e \in es : Cardinality({f \in es : f.id < e.id}) = i - 1]
  BY DEF Sorted, ById
<1>12. x = [i \in 1..N |-> CHOOSE e \in es : Cardinality(below[e]) = i - 1]
  BY <1>10, <1>11
<1>13. \A i \in 1..N : (CHOOSE e \in es : Cardinality(below[e]) = i - 1) = q[i]
  <2> HIDE DEF below
  <2> QED  BY <1>4, <1>9 DEF Ranked
<1>14. \A i \in 1..N : x[i] = q[i]
  <2> HIDE DEF below, x
  <2> QED  BY <1>12, <1>13
<1>15. x \in [1..N -> es]
  <2> HIDE DEF below, x
  <2> QED  BY <1>4, <1>12, <1>13
<1> HIDE DEF x
<1>16. InIdOrder(x, es, n, N)
  BY <1>3, <1>14, <1>15 DEF InIdOrder
<1>17. IsFiniteSet(es)
  <2>1. \A i, j \in 1..N : i < j => q[i] # q[j]
    <3>1. \A i, j \in 1..N : i < j => n + i # n + j
      BY <1>1
    <3> QED  BY <1>3, <3>1
  <2>2. Enumerates(q, N, es)
    BY <1>4, <1>5, <2>1 DEF Enumerates
  <2> QED  BY <1>1, <2>2, EnumeratedSize
<1> QED  BY <1>16, <1>17 DEF x

----------------------------------------------------------------------------
(* A batch *)

\* The rows are those of a line with the entries X.
Book(R, X, P) == \E t, n, s : Ledger(R, t, n, P, s) /\ Of(t, n) = X

\* The rows of a book are well formed.
LEMMA BookRows ==
  ASSUME NEW R, NEW X, NEW P, Book(R, X, P), NEW r \in R
  PROVE  /\ r.allTime \in Nat \ {0} /\ r.effective \in Days /\ r.snapshot \in Snapshot
         /\ r.snapshot.entry \in X /\ r.snapshot.version \in Nat \ {0} /\ r # NoRow
<1>1. PICK t, n, s : Ledger(R, t, n, P, s) /\ Of(t, n) = X
  BY DEF Book
<1>2. PICK a \in 1..n : r = RowAt(t, P, s, a)
  BY <1>1 DEF Ledger
<1>3. /\ Accumulated(t, P, a, s[a]) /\ Versioned(t, P, a, s[a].version) /\ Line(t, n, P)
  BY <1>1 DEF Ledger
<1>4. a \in Nat /\ a # 0 /\ P[t[a]].effective \in Days /\ t[a] \in X
  <2>1. n \in Nat
    BY <1>3 DEF Line
  <2>2. P[t[a]].effective \in Days
    BY <1>3, EntryAt
  <2> QED  BY <1>1, <2>1, <2>2 DEF Of
<1>5. r.allTime = a /\ r.effective = P[t[a]].effective /\ r.snapshot = s[a] /\ r # NoRow
  BY <1>1, <1>2, RowIs
<1>6. s[a] \in Snapshot /\ s[a].entry = t[a]
  BY <1>3 DEF Accumulated
<1>7. s[a].version \in 1..a
  BY <1>3 DEF Versioned
<1>8. s[a].version \in Nat \ {0}
  BY <1>4, <1>7
<1> QED  BY <1>4, <1>5, <1>6, <1>8

\* The entries of a group, new to the book.
Joining(E, day, X, P) ==
  /\ day \in Days
  /\ \A e \in E : e.id \in DOMAIN P /\ P[e.id] = e /\ e.effective = day /\ e.id \notin X
  /\ \A x \in X, e \in E : P[x].effective = day => P[x].call < e.call
  /\ \A e, f \in E :
       /\ e.call = f.call
       /\ e # f /\ e.posting = f.posting => e.sequence # f.sequence

\* A pass adds the entries of its group to the book.
LEMMA PassBook ==
  ASSUME NEW R, NEW X, NEW P, Book(R, X, P), NEW E, NEW day, Joining(E, day, X, P),
         IsFiniteSet(E), E # {}, NEW now \in Nat, NEW g, g = [day |-> day, entries |-> E],
         NEW Q, Q = Pass(now, R, g)
  PROVE  Book(Q, X \cup {e.id : e \in E}, P) /\ Changed(R, Q, now)
<1>1. PICK t, n, s : Ledger(R, t, n, P, s) /\ Of(t, n) = X
  BY DEF Book
<1>2. Line(t, n, P)
  BY <1>1 DEF Ledger
<1>3. Grouped(E, day, t, n, P)
  <2>1. \A a \in 1..n : t[a] \in X
    BY <1>1 DEF Of
  <2> QED  BY <2>1 DEF Joining, Grouped
<1>4. PICK q, m, k : Fits(t, n, P, E, day, q, m, k)
  BY <1>2, <1>3, GroupFits
<1> DEFINE w == Spliced(t, n, q, m, k)
<1>5. w = Spliced(t, n, q, m, k)
  OBVIOUS
<1> HIDE DEF w
<1>6. \E z : Passed(Pass(now, R, g), w, z, t, s, n, m, k, P, now)
  BY <1>1, <1>4, <1>5, PassIs
<1>7. PICK z : Passed(Q, w, z, t, s, n, m, k, P, now)
  BY <1>6
<1>8. Changed(R, Q, now)
  BY <1>1, <1>4, <1>5, <1>7, PassChanges
<1>9. Of(w, n + m) = X \cup {e.id : e \in E}
  BY <1>1, <1>4, <1>5, PassIds
<1>10. Ledger(Q, w, n + m, P, z)
  BY <1>7 DEF Passed
<1>11. Book(Q, X \cup {e.id : e \in E}, P)
  BY <1>9, <1>10 DEF Book
<1> QED  BY <1>8, <1>11

\* The dates of a batch, each once.
Dated(ds, D, K) ==
  /\ K \in Nat /\ ds \in [1..K -> D] /\ \A d \in D : \E i \in 1..K : ds[i] = d
  /\ \A i, j \in 1..K : i < j => ds[i] # ds[j]

\* Sorting the dates of a batch lists each once.
LEMMA SortedDates ==
  ASSUME NEW D, IsFiniteSet(D), D \subseteq Nat
  PROVE  Dated(Sorted(D, ByDate), D, Cardinality(D))
<1> DEFINE B == {p \in D \X D : p[1] < p[2]}
           K == Cardinality(D)
           below == [d \in D |-> {c \in D : c < d}]
<1>1. /\ \A c \in D : <<c, c>> \notin B
      /\ \A c, d, e \in D : <<c, d>> \in B /\ <<d, e>> \in B => <<c, e>> \in B
      /\ \A c, d \in D : c # d => <<c, d>> \in B \/ <<d, c>> \in B
  OBVIOUS
<1>2. \A d \in D : below[d] = {c \in D : <<c, d>> \in B}
  OBVIOUS
<1>3. \A c, d \in D : <<c, d>> \in B <=> c < d
  OBVIOUS
<1> HIDE DEF B
<1>4. \E q : Lists(q, D, B)
  BY <1>1, ListExists
<1>5. PICK q : Lists(q, D, B)
  BY <1>4
<1>6. K \in Nat
  BY FS_CardinalityType
<1> HIDE DEF K
<1>7. InSequence(q, K, D, B)
  <2>1. q \in [1..K -> D] /\ DOMAIN q = 1..K
    BY <1>5 DEF Lists, K
  <2> QED  BY <1>5, <2>1 DEF Lists, InSequence
<1>8. Ranked(q, K, D, below)
  <2> HIDE DEF below
  <2> QED  BY <1>2, <1>6, <1>7, ListRanks
<1> DEFINE ds == Sorted(D, ByDate)
<1>9. ds = [i \in 1..K |-> CHOOSE d \in D : Cardinality({c \in D : c < d}) = i - 1]
  BY DEF Sorted, ByDate, K
<1>10. ds = [i \in 1..K |-> CHOOSE d \in D : Cardinality(below[d]) = i - 1]
  BY <1>9
<1>11. q \in [1..K -> D] /\ \A d \in D : \E i \in 1..K : q[i] = d
  BY <1>7 DEF InSequence
<1>12. \A i \in 1..K : (CHOOSE d \in D : Cardinality(below[d]) = i - 1) = q[i]
  <2> HIDE DEF below, ds
  <2> QED  BY ONLY <1>8, <1>11 DEF Ranked
<1> HIDE DEF ds, below
<1>13. ds \in [1..K -> D] /\ \A i \in 1..K : ds[i] = q[i]
  BY <1>10, <1>11, <1>12
<1>14. \A i, j \in 1..K : i < j => ds[i] # ds[j]
  <2> SUFFICES ASSUME NEW i \in 1..K, NEW j \in 1..K, i < j  PROVE q[i] # q[j]
    BY <1>13
  <2>1. <<q[i], q[j]>> \in B
    BY <1>7 DEF InSequence
  <2>2. <<q[i], q[i]>> \notin B
    BY <1>1, <1>11
  <2> QED  BY <2>1, <2>2
<1> QED  BY <1>6, <1>11, <1>13, <1>14 DEF Dated, ds, K

Steps(f, now, gs, n) ==
  /\ f[0] = [rows |-> rows, panic |-> FALSE]
  /\ \A i \in 1..n : f[i] = ApplyGroup(now, f[i - 1], gs, i)

\* The recursive definition of a batch unfolds pass by pass.
LEMMA AppliedSteps ==
  ASSUME NEW now, NEW gs, NEW n \in Nat, n = Len(gs), NEW f, f = Applied(now, gs)
  PROVE  Steps(f, now, gs, n)
<1> DEFINE none == [rows |-> rows, panic |-> FALSE]
           Fixed(h, m) ==
             h = [i \in 0..m |-> IF i = 0 THEN none ELSE ApplyGroup(now, h[i - 1], gs, i)]
           S == {m \in Nat : \E h : Fixed(h, m)}
<1> HIDE DEF none
<1>1. 0 \in S
  <2> DEFINE h == [i \in 0..0 |-> none]
  <2>1. h = [i \in 0..0 |-> IF i = 0 THEN none ELSE ApplyGroup(now, h[i - 1], gs, i)]
    OBVIOUS
  <2>2. Fixed(h, 0)
    BY <2>1
  <2> QED  BY <2>2
<1>2. ASSUME NEW m \in Nat, m \in S  PROVE m + 1 \in S
  <2>1. PICK h : Fixed(h, m)
    BY <1>2
  <2> DEFINE g == [i \in 0..(m + 1) |->
                     IF i = 0 THEN none ELSE ApplyGroup(now, h[i - 1], gs, i)]
  <2>2. \A i \in 0..m : g[i] = h[i]
    BY <2>1
  <2>3. \A i \in 0..(m + 1) : i # 0 => i - 1 \in 0..m
    OBVIOUS
  <2>4. \A i \in 0..(m + 1) : i # 0 => g[i - 1] = h[i - 1]
    <3> HIDE DEF g
    <3> QED  BY <2>2, <2>3
  <2>5. Fixed(g, m + 1)
    BY <2>4
  <2>6. \E h2 : Fixed(h2, m + 1)
    <3> HIDE DEF Fixed, g
    <3> QED  BY <2>5
  <2>7. m + 1 \in Nat
    OBVIOUS
  <2> HIDE DEF Fixed
  <2> QED  BY <2>6, <2>7
<1> HIDE DEF S
<1>3. n \in S
  BY <1>1, <1>2, NatInduct
<1>4. PICK h : Fixed(h, n)
  BY <1>3 DEF S
<1>5. Fixed(f, n)
  BY <1>4 DEF Applied, none
<1>6. f[0] = none
  BY <1>5
<1>7. \A i \in 1..n : i \in 0..n /\ i # 0
  OBVIOUS
<1> QED  BY <1>5, <1>6, <1>7 DEF Steps, none

\* The rows between two groups: the entries of the dates done have joined.
Midway(st, done, es, X, P, now) ==
  /\ st = [rows |-> st.rows, panic |-> FALSE]
  /\ Book(st.rows, X \cup {e.id : e \in {f \in es : f.effective \in done}}, P)
  /\ Changed(rows, st.rows, now)

\* No group with entries of its date meets a row that it cannot replay.
LEMMA GroupReplays ==
  ASSUME NEW R, NEW day \in Nat, NEW E, E # {}, \A r \in R : r.effective \in Nat,
         NEW g, g = [day |-> day, entries |-> E]
  PROVE  ~ Panics(R, g)
<1> DEFINE U == Pending(R, g)
<1>1. U = {EntryUpdate(day, e) : e \in E} \cup {RowUpdate(r) : r \in Future(R, day)}
  BY DEF Pending
<1>2. \A e : EntryUpdate(day, e).kind = "entry" /\ EntryUpdate(day, e).effective = day
  BY DEF EntryUpdate
<1>3. \A r : RowUpdate(r).kind = "snapshot" /\ RowUpdate(r).effective = r.effective
  BY DEF RowUpdate
<1>4. \A r \in Future(R, day) : r.effective \in Nat /\ day < r.effective
  BY DEF Future
<1> HIDE DEF U
<1>5. \A u \in U : \/ u.kind = "entry" /\ u.effective = day
                   \/ u.kind = "snapshot" /\ u.effective \in Nat /\ day < u.effective
  BY <1>1, <1>2, <1>3, <1>4
<1>6. "entry" # "snapshot"
  OBVIOUS
<1>7. ~ Unsortable(U)
  BY <1>5, <1>6 DEF Unsortable
<1>8. ~ Rootless(U)
  <2> SUFFICES ASSUME NEW v \in U, v.kind = "snapshot"
               PROVE  \E u \in U : u.kind = "entry" /\ Precedes(u, v)
    BY DEF Rootless
  <2>1. PICK e \in E : TRUE
    OBVIOUS
  <2>2. EntryUpdate(day, e) \in U
    BY <1>1
  <2>3. PICK u \in U : u.kind = "entry" /\ u.effective = day
    BY <1>2, <2>2
  <2>4. u.effective < v.effective
    BY <1>5, <1>6, <2>3
  <2> QED  BY <2>3, <2>4 DEF Precedes
<1> QED  BY <1>7, <1>8 DEF Panics, U

\* A group without entries of the balance leaves it alone.
LEMMA GroupPasses ==
  ASSUME NEW es, NEW P, NEW X, NEW now, NEW st, NEW done, Midway(st, done, es, X, P, now),
         NEW day, \A e \in es : e.effective # day,
         NEW gs, NEW i, gs[i] = [day |-> day, entries |-> {e \in es : e.effective = day}],
         NEW next, next = ApplyGroup(now, st, gs, i)
  PROVE  Midway(next, done \cup {day}, es, X, P, now)
<1>1. gs[i].entries = {}
  OBVIOUS
<1>2. next = st
  BY <1>1 DEF ApplyGroup, Involved
<1>3. {f \in es : f.effective \in done \cup {day}} = {f \in es : f.effective \in done}
  OBVIOUS
<1> QED  BY <1>2, <1>3 DEF Midway

\* One pass of a batch, given those of the earlier dates.
LEMMA GroupStep ==
  ASSUME NEW es, NEW n \in Nat, NEW N, NEW c, Follow(es, n, N, c), IsFiniteSet(es),
         NEW P, \A e \in es : e.id \in DOMAIN P /\ P[e.id] = e,
         NEW X, \A x \in X : x \in 1..n /\ P[x].call < c, Book(rows, X, P),
         NEW now \in Nat, NEW st, NEW done, Midway(st, done, es, X, P, now),
         NEW day, day \notin done, \E e \in es : e.effective = day,
         NEW g, g = [day |-> day, entries |-> {e \in es : e.effective = day}],
         NEW gs, NEW i, gs[i] = g, NEW next, next = ApplyGroup(now, st, gs, i)
  PROVE  Midway(next, done \cup {day}, es, X, P, now)
<1> DEFINE E == {e \in es : e.effective = day}
           Y == X \cup {e.id : e \in {f \in es : f.effective \in done}}
           R == st.rows
           Q == Pass(now, R, g)
<1>0. /\ \A e \in es : /\ e \in Entry /\ e.call = c /\ e.id \in (n + 1)..(n + N)
                       /\ e.effective \in Days /\ e.call \in Nat
      /\ \A e, f \in es : e.id = f.id => e = f
      /\ \A e, f \in es : e.posting = f.posting /\ e.sequence = f.sequence => e = f
  BY DEF Follow, Entry
<1>1. day \in Days /\ day \in Nat /\ E # {} /\ IsFiniteSet(E)
  <2>1. E \subseteq es
    OBVIOUS
  <2>2. IsFiniteSet(E)
    BY <2>1, FS_Subset
  <2> QED  BY <1>0, <2>2, EffectiveAssumption
<1>2. Book(R, Y, P) /\ Changed(rows, R, now) /\ st = [rows |-> R, panic |-> FALSE]
  BY DEF Midway
<1>3. Joining(E, day, Y, P)
  <2>1. ASSUME NEW e \in E  PROVE e.id \notin Y
    <3>1. e.id \notin X
      BY <1>0
    <3>2. \A f \in es : f.effective \in done => f.id # e.id
      BY <1>0
    <3> QED  BY <3>1, <3>2
  <2>2. ASSUME NEW x \in Y, NEW e \in E, P[x].effective = day  PROVE P[x].call < e.call
    <3>1. CASE x \in X
      BY <1>0, <3>1
    <3>2. CASE \E f \in es : f.effective \in done /\ x = f.id
      BY <2>2, <3>2
    <3> QED  BY <3>1, <3>2
  <2>3. \A e, f \in E : e.call = f.call /\ (e # f /\ e.posting = f.posting => e.sequence # f.sequence)
    BY <1>0
  <2> QED  BY <1>1, <2>1, <2>2, <2>3 DEF Joining
<1> HIDE DEF E, Y, R
<1>4. Book(Q, Y \cup {e.id : e \in E}, P) /\ Changed(R, Q, now)
  <2>1. g = [day |-> day, entries |-> E] /\ Q = Pass(now, R, g)
    BY DEF E
  <2> HIDE DEF Q
  <2> QED  BY <1>1, <1>2, <1>3, <2>1, PassBook
<1>5. Involved(gs, i) /\ ~ Panics(R, gs[i])
  <2>1. g = [day |-> day, entries |-> E]
    BY DEF E
  <2>2. \A r \in R : r.effective \in Nat
    <3>1. \A r \in R : r.effective \in Days
      BY <1>2, BookRows
    <3> QED  BY <3>1, EffectiveAssumption
  <2>3. ~ Panics(R, g)
    BY <1>1, <2>1, <2>2, GroupReplays
  <2>4. gs[i].entries = E
    BY <2>1
  <2> QED  BY <1>1, <2>3, <2>4 DEF Involved
<1>6. next = [rows |-> Q, panic |-> FALSE]
  <2> HIDE DEF Q
  <2>1. st.panic = FALSE /\ st.rows = R
    BY <1>2 DEF R
  <2>2. next = [st EXCEPT !.rows = Q]
    <3>1. ~ st.panic /\ ~ Panics(st.rows, gs[i]) /\ Involved(gs, i)
      BY <1>5, <2>1
    <3>2. Q = Pass(now, st.rows, gs[i])
      BY DEF Q, R
    <3> QED  BY ONLY <3>1, <3>2, next = ApplyGroup(now, st, gs, i) DEF ApplyGroup
  <2> QED  BY <1>2, <2>2
<1> HIDE DEF Q
<1>7. Changed(rows, Q, now)
  <2>1. \A r \in rows \cup R \cup Q : r.allTime \in Nat
    BY <1>2, <1>4, BookRows
  <2> QED  BY <1>2, <1>4, <2>1, ChangesFollow
<1>8. Y \cup {e.id : e \in E}
        = X \cup {e.id : e \in {f \in es : f.effective \in done \cup {day}}}
  BY DEF E, Y
<1> DEFINE Z == X \cup {e.id : e \in {f \in es : f.effective \in done \cup {day}}}
<1>9. Book(Q, Z, P)
  BY <1>4, <1>8
<1>10. next.rows = Q /\ next = [rows |-> next.rows, panic |-> FALSE]
  <2>1. next.rows = Q
    BY <1>6
  <2>2. [rows |-> Q, panic |-> FALSE] = [rows |-> next.rows, panic |-> FALSE]
    BY <2>1
  <2> QED  BY <1>6, <2>1, <2>2
<1> HIDE DEF Z
<1>11. Book(next.rows, Z, P) /\ Changed(rows, next.rows, now)
  BY <1>7, <1>9, <1>10
<1> QED  BY <1>10, <1>11 DEF Midway, Z

\* What the passes of a batch leave.
Done(after, es, X, P, now) ==
  /\ after.panic = FALSE /\ Changed(rows, after.rows, now)
  /\ Book(after.rows, X \cup {e.id : e \in es}, P)

\* The passes of a batch do not panic and add all its entries to the book.
LEMMA BatchKeeps ==
  ASSUME NEW es, NEW n \in Nat, NEW N, NEW c, Follow(es, n, N, c), IsFiniteSet(es),
         NEW P, \A e \in es : e.id \in DOMAIN P /\ P[e.id] = e,
         NEW X, \A x \in X : x \in 1..n /\ P[x].call < c, Book(rows, X, P),
         NEW b \in Seq(Posting), \A e \in es : \E i \in DOMAIN b : e.effective = b[i].effective,
         NEW now \in Nat, NEW after, after = ApplyBatch(now, b, es)
  PROVE  Done(after, es, X, P, now)
<1> DEFINE D == {b[i].effective : i \in DOMAIN b}
           K == Cardinality(D)
           ds == DatesOf(b)
           gs == Groups(b, es)
           f == Applied(now, gs)
           done(i) == {ds[j] : j \in 1..i}
<1>1. IsFiniteSet(D) /\ D \subseteq Nat
  <2>0. DOMAIN b = 1..Len(b) /\ Len(b) \in Nat /\ \A i \in DOMAIN b : b[i] \in Posting
    OBVIOUS
  <2>1. IsFiniteSet(D)
    <3> DEFINE S == DOMAIN b
              date == [i \in S |-> b[i].effective]
    <3>1. date \in Surjection(S, D)
      BY DEF Surjection
    <3>2. IsFiniteSet(S)
      <4>1. 1 \in Int /\ Len(b) \in Int
        BY <2>0
      <4>2. IsFiniteSet(1..Len(b))
        BY <4>1, FS_Interval
      <4> QED  BY ONLY <2>0, <4>2
    <3> HIDE DEF D, date, S
    <3> QED  BY <3>1, <3>2, FS_Surjection
  <2>2. \A i \in DOMAIN b : b[i].effective \in Days
    BY <2>0 DEF Posting
  <2> QED  BY <2>1, <2>2, EffectiveAssumption
<1>2. ds = Sorted(D, ByDate)
  BY DEF DatesOf
<1>3. /\ K \in Nat /\ ds \in [1..K -> D] /\ \A d \in D : \E i \in 1..K : ds[i] = d
      /\ \A i, j \in 1..K : i < j => ds[i] # ds[j]
  <2> HIDE DEF D, ds
  <2>1. Dated(ds, D, K)
    BY <1>1, <1>2, SortedDates
  <2> QED  BY <2>1 DEF Dated
<1>4. /\ gs = [i \in 1..K |-> [day |-> ds[i], entries |-> {e \in es : e.effective = ds[i]}]]
  <2>1. DOMAIN ds = 1..K
    <3> HIDE DEF ds, K, D
    <3> QED  BY <1>3
  <2>2. gs = [i \in DOMAIN ds |-> [day |-> ds[i], entries |-> {e \in es : e.effective = ds[i]}]]
    BY DEF Groups
  <2> HIDE DEF gs, ds, K
  <2> QED  BY <2>1, <2>2
<1>5. Len(gs) = K
  <2> HIDE DEF gs, ds, K
  <2> DEFINE T == {gs[i] : i \in 1..K}
  <2>1. gs \in [1..K -> T]
    BY <1>4
  <2> HIDE DEF T
  <2>2. K \in Nat
    BY ONLY <1>3
  <2>3. gs \in Seq(T)
    BY ONLY <2>1, <2>2
  <2> QED  BY ONLY <2>1, <2>2, <2>3
<1>6. \A i \in 1..K : gs[i] = [day |-> ds[i], entries |-> {e \in es : e.effective = ds[i]}]
  <2> HIDE DEF gs, ds, K
  <2> QED  BY <1>4
<1>7. /\ f[0] = [rows |-> rows, panic |-> FALSE]
      /\ \A i \in 1..K : f[i] = ApplyGroup(now, f[i - 1], gs, i)
  <2>1. f = Applied(now, gs)
    OBVIOUS
  <2> HIDE DEF f, gs, K
  <2>2. Steps(f, now, gs, K)
    BY <1>3, <1>5, <2>1, AppliedSteps
  <2> QED  BY <2>2 DEF Steps
<1>8. \A e \in es : e.effective \in D
  OBVIOUS
<1>9. after = f[K]
  BY <1>5 DEF ApplyBatch
<1> HIDE DEF f, gs, ds, K, D
<1> DEFINE S == {i \in Nat : i <= K => Midway(f[i], done(i), es, X, P, now)}
<1>10. 0 \in S
  <2>1. f[0].rows = rows /\ f[0] = [rows |-> f[0].rows, panic |-> FALSE]
    <3>1. f[0].rows = rows
      BY <1>7
    <3> QED  BY <1>7, <3>1
  <2>2. done(0) = {}
    OBVIOUS
  <2>3. X \cup {e.id : e \in {g \in es : g.effective \in {}}} = X
    OBVIOUS
  <2>4. Changed(rows, rows, now)
    BY DEF Changed, Renewed
  <2>5. Midway(f[0], {}, es, X, P, now)
    BY <2>1, <2>3, <2>4 DEF Midway
  <2> QED  BY <2>2, <2>5
<1>11. ASSUME NEW i \in Nat, i \in S  PROVE i + 1 \in S
  <2> SUFFICES ASSUME i + 1 <= K  PROVE Midway(f[i + 1], done(i + 1), es, X, P, now)
    OBVIOUS
  <2> DEFINE j == i + 1
  <2>1. j \in 1..K /\ j - 1 = i /\ i <= K /\ \A o \in 1..i : o \in 1..K /\ o < j
    BY <1>3
  <2>2. \A o : o \in 1..j <=> o \in 1..i \/ o = j
    BY <2>1
  <2> HIDE DEF j
  <2>3. f[j] = ApplyGroup(now, f[i], gs, j)
    BY <1>7, <2>1
  <2>4. Midway(f[i], done(i), es, X, P, now)
    BY <1>11, <2>1
  <2>5. ds[j] \notin done(i)
    BY <1>3, <2>1
  <2>7. gs[j] = [day |-> ds[j], entries |-> {e \in es : e.effective = ds[j]}]
    BY <1>6, <2>1
  <2>8. done(j) = done(i) \cup {ds[j]}
    BY <2>2
  <2> HIDE DEF done
  <2>9. Midway(f[j], done(i) \cup {ds[j]}, es, X, P, now)
    <3>1. CASE \E e \in es : e.effective = ds[j]
      <4> DEFINE g == gs[j]
      <4>1. gs[j] = g /\ g = [day |-> ds[j], entries |-> {e \in es : e.effective = ds[j]}]
        BY <2>7
      <4> HIDE DEF g
      <4> QED  BY <2>3, <2>4, <2>5, <3>1, <4>1, GroupStep
    <3>2. CASE \A e \in es : e.effective # ds[j]
      <4>1. PICK d : d = ds[j]
        OBVIOUS
      <4>2. PICK groups : groups = gs
        OBVIOUS
      <4>3. PICK o : o = j
        OBVIOUS
      <4>4. PICK st, next : st = f[i] /\ next = f[j]
        OBVIOUS
      <4>5. PICK past : past = done(i)
        OBVIOUS
      <4>6. /\ \A e \in es : e.effective # d
            /\ groups[o] = [day |-> d, entries |-> {e \in es : e.effective = d}]
            /\ next = ApplyGroup(now, st, groups, o)
            /\ Midway(st, past, es, X, P, now)
        BY ONLY <2>3, <2>4, <2>7, <3>2, <4>1, <4>2, <4>3, <4>4, <4>5
      <4>7. Midway(next, past \cup {d}, es, X, P, now)
        BY ONLY <4>6, GroupPasses
      <4> QED  BY ONLY <4>1, <4>4, <4>5, <4>7
    <3> QED  BY <3>1, <3>2
  <2> QED  BY <2>8, <2>9 DEF j
<1> HIDE DEF S
<1>12. K \in S
  BY <1>3, <1>10, <1>11, NatInduct
<1>13. Midway(after, done(K), es, X, P, now)
  <2>1. K <= K
    BY <1>3
  <2> QED  BY <1>9, <1>12, <2>1 DEF S
<1>14. {e \in es : e.effective \in done(K)} = es
  <2>1. \A e \in es : e.effective \in D
    BY <1>8
  <2>2. \A d \in D : d \in done(K)
    BY <1>3
  <2> HIDE DEF done
  <2> QED  BY <2>1, <2>2
<1> HIDE DEF done
<1>15. after = [rows |-> after.rows, panic |-> FALSE]
  BY <1>13 DEF Midway
<1>16. after.panic = FALSE
  BY <1>15
<1> QED  BY <1>13, <1>14, <1>16 DEF Midway, Done

----------------------------------------------------------------------------
(* The history grows *)

\* A longer history has the same books.
LEMMA BookLift ==
  ASSUME NEW R, NEW X, NEW P, Book(R, X, P), NEW Q, Entered(Q),
         \A x \in DOMAIN P : x \in DOMAIN Q /\ Q[x] = P[x]
  PROVE  Book(R, X, Q)
<1>1. PICK t, n, s : Ledger(R, t, n, P, s) /\ Of(t, n) = X
  BY DEF Book
<1>2. Line(t, n, P)
  BY <1>1 DEF Ledger
<1>3. n \in Nat /\ \A a \in 1..n : t[a] \in DOMAIN P /\ t[a] \in DOMAIN Q /\ Q[t[a]] = P[t[a]]
  BY <1>2 DEF Line
<1>4. Line(t, n, Q)
  <2>1. t \in [1..n -> DOMAIN Q]
    BY <1>2, <1>3 DEF Line
  <2>2. \A a, b \in 1..n : a # b => t[a] # t[b]
    BY <1>2 DEF Line
  <2>3. \A a, b \in 1..n : a < b => Earlier(Q[t[a]], Q[t[b]])
    BY <1>2, <1>3 DEF Line
  <2> QED  BY <1>3, <2>1, <2>2, <2>3 DEF Line
<1>5. ASSUME NEW a \in 1..n
      PROVE  /\ Accumulated(t, Q, a, s[a]) /\ Versioned(t, Q, a, s[a].version)
             /\ RowAt(t, Q, s, a) = RowAt(t, P, s, a)
  <2>1. a \in 1..n /\ \A c \in 1..a : c \in 1..n
    BY <1>3
  <2>2. \A c \in 1..a : Q[t[c]] = P[t[c]]
    BY <1>3, <2>1
  <2>3. \A l : Ids(t, Q, 1, a, l) = Ids(t, P, 1, a, l)
    BY <2>2 DEF Ids
  <2>4. ASSUME NEW l, NEW x, LastId(t, P, a, l, x)  PROVE LastId(t, Q, a, l, x)
    <3>1. CASE x = UNASSIGNED_ENTRY_ID /\ \A c \in 1..a : P[t[c]].layer # l
      BY <2>2, <3>1 DEF LastId
    <3>2. CASE \E b \in 1..a : /\ P[t[b]].layer = l /\ x = t[b]
                               /\ \A c \in (b + 1)..a : P[t[c]].layer # l
      <4>1. PICK b \in 1..a : /\ P[t[b]].layer = l /\ x = t[b]
                              /\ \A c \in (b + 1)..a : P[t[c]].layer # l
        BY <3>2
      <4>2. \A c \in (b + 1)..a : c \in 1..a
        BY <1>3
      <4>3. Q[t[b]].layer = l /\ x = t[b] /\ \A c \in (b + 1)..a : Q[t[c]].layer # l
        BY <2>2, <4>1, <4>2
      <4> QED  BY <4>3 DEF LastId
    <3> QED  BY <2>4, <3>1, <3>2 DEF LastId
  <2>5. Accumulated(t, P, a, s[a]) /\ Versioned(t, P, a, s[a].version)
    BY <1>1 DEF Ledger
  <2>6. Accumulated(t, Q, a, s[a])
    BY <2>3, <2>4, <2>5 DEF Accumulated
  <2>7. Versioned(t, Q, a, s[a].version)
    BY <1>3, <2>2, <2>5 DEF Versioned
  <2>8. RowAt(t, Q, s, a) = RowAt(t, P, s, a)
    BY <1>3 DEF RowAt
  <2> QED  BY <2>6, <2>7, <2>8
<1>6. R = {RowAt(t, Q, s, a) : a \in 1..n}
  <2>1. R = {RowAt(t, P, s, a) : a \in 1..n}
    BY <1>1 DEF Ledger
  <2> QED  BY <1>5, <2>1
<1>7. Ledger(R, t, n, Q, s)
  BY <1>4, <1>5, <1>6 DEF Ledger
<1> QED  BY <1>1, <1>7 DEF Book

\* The history with the entries of a batch.
Extended(Q, P, es, n, N) ==
  /\ Q \in Seq(Entry) /\ Len(Q) = n + N /\ Entered(Q)
  /\ \A x \in 1..n : Q[x] = P[x]
  /\ \A e \in es : e.id \in DOMAIN Q /\ Q[e.id] = e
  /\ DOMAIN Q = DOMAIN P \cup {e.id : e \in es}
  /\ \A x \in DOMAIN Q : x \in DOMAIN P \/ Q[x] \in es

\* The history with the entries of a batch.
LEMMA HistoryGrows ==
  ASSUME NEW P, P \in Seq(Entry), Entered(P), NEW n, n = Len(P),
         NEW es, NEW N, NEW c, Follow(es, n, N, c),
         NEW x, InIdOrder(x, es, n, N), NEW Q, Q = P \o x
  PROVE  Extended(Q, P, es, n, N)
<1>1. n \in Nat /\ DOMAIN P = 1..n
  OBVIOUS
<1>2. /\ N \in Nat
      /\ \A e \in es : e \in Entry /\ e.id \in (n + 1)..(n + N)
      /\ \A y \in (n + 1)..(n + N) : \E e \in es : e.id = y
      /\ \A e, f \in es : e.id = f.id => e = f
  BY DEF Follow
<1>3. x \in [1..N -> es] /\ \A i \in 1..N : x[i].id = n + i
  BY DEF InIdOrder
<1>4. x \in Seq(Entry) /\ Len(x) = N
  <2>1. x \in [1..N -> Entry]
    BY <1>2, <1>3
  <2> QED  BY <1>2, <2>1
<1>5. /\ Q \in Seq(Entry) /\ Len(Q) = n + N /\ DOMAIN Q = 1..(n + N)
      /\ \A i \in 1..n : Q[i] = P[i]
      /\ \A i \in 1..N : Q[n + i] = x[i]
  <2>1. P \in Seq(Entry) /\ x \in Seq(Entry) /\ Len(P) = n /\ Len(x) = N
    BY <1>4
  <2> DEFINE T == Entry
  <2>2. P \in Seq(T) /\ x \in Seq(T)
    BY <2>1
  <2> HIDE DEF T
  <2>6. Q \in Seq(T) /\ Len(Q) = Len(P) + Len(x)
    BY <2>2
  <2>7. Len(Q) = n + N
    BY <2>1, <2>6
  <2>8. DOMAIN Q = 1..Len(Q)
    BY <2>6
  <2>3. Q \in Seq(T) /\ Len(Q) = n + N /\ DOMAIN Q = 1..(n + N)
    BY <2>6, <2>7, <2>8
  <2>4. \A i \in 1..n : Q[i] = P[i]
    BY <1>2, <2>1, <2>2
  <2>5. \A i \in 1..N : Q[n + i] = x[i]
    BY <1>1, <1>2, <2>1, <2>2
  <2> QED  BY <2>3, <2>4, <2>5 DEF T
<1>6. \A y \in 1..(n + N) : y \in 1..n \/ \E i \in 1..N : y = n + i
  <2> SUFFICES ASSUME NEW y \in 1..(n + N), y \notin 1..n
               PROVE  \E i \in 1..N : y = n + i
    OBVIOUS
  <2>1. y - n \in 1..N /\ y = n + (y - n)
    BY <1>1, <1>2
  <2> QED  BY <2>1
<1>7. \A e \in es : \E i \in 1..N : e.id = n + i
  <2> SUFFICES ASSUME NEW e \in es  PROVE \E i \in 1..N : e.id = n + i
    OBVIOUS
  <2>1. e.id \in (n + 1)..(n + N)
    BY <1>2
  <2>2. e.id - n \in 1..N /\ e.id = n + (e.id - n)
    BY <1>1, <1>2, <2>1
  <2> QED  BY <2>2
<1>8. \A e \in es : e.id \in DOMAIN Q /\ Q[e.id] = e
  <2> SUFFICES ASSUME NEW e \in es  PROVE e.id \in DOMAIN Q /\ Q[e.id] = e
    OBVIOUS
  <2>1. PICK i \in 1..N : e.id = n + i
    BY <1>7
  <2>2. x[i] = e
    BY <1>2, <1>3, <2>1
  <2>3. n + i \in 1..(n + N)
    BY <1>1, <1>2
  <2> QED  BY <1>5, <2>1, <2>2, <2>3
<1>9. \A y \in DOMAIN Q : Q[y] \in Entry /\ Q[y].id = y
  <2> SUFFICES ASSUME NEW y \in 1..(n + N)  PROVE Q[y] \in Entry /\ Q[y].id = y
    BY <1>5
  <2>1. CASE y \in 1..n
    BY <1>1, <1>5, <2>1 DEF Entered
  <2>2. CASE \E i \in 1..N : y = n + i
    BY <1>2, <1>3, <1>5, <2>2
  <2> QED  BY <1>6, <2>1, <2>2
<1>10. Entered(Q)
  <2>1. DOMAIN Q \subseteq Nat \ {UNASSIGNED_ENTRY_ID}
    BY <1>1, <1>2, <1>5 DEF UNASSIGNED_ENTRY_ID
  <2> QED  BY <1>9, <2>1 DEF Entered
<1>11. DOMAIN Q = DOMAIN P \cup {e.id : e \in es}
  <2>1. \A y \in DOMAIN P : y \in DOMAIN Q
    BY <1>1, <1>2, <1>5
  <2>2. \A y \in DOMAIN Q : y \in DOMAIN P \/ \E e \in es : y = e.id
    <3> SUFFICES ASSUME NEW y \in 1..(n + N)
                 PROVE  y \in 1..n \/ \E e \in es : y = e.id
      BY <1>1, <1>5
    <3>1. CASE y \in 1..n
      BY <3>1
    <3>2. CASE \E i \in 1..N : y = n + i
      <4>1. PICK i \in 1..N : y = n + i
        BY <3>2
      <4>2. x[i] \in es /\ y = x[i].id
        BY <1>3, <4>1
      <4> QED  BY <4>2
    <3> QED  BY <1>6, <3>1, <3>2
  <2> QED  BY <1>8, <2>1, <2>2
<1>12. \A y \in DOMAIN Q : y \in DOMAIN P \/ Q[y] \in es
  <2> SUFFICES ASSUME NEW y \in 1..(n + N)  PROVE y \in 1..n \/ Q[y] \in es
    BY <1>1, <1>5
  <2>1. CASE \E i \in 1..N : y = n + i
    <3>1. PICK i \in 1..N : y = n + i
      BY <2>1
    <3>2. Q[y] = x[i] /\ x[i] \in es
      BY <1>3, <1>5, <3>1
    <3> QED  BY <3>2
  <2> QED  BY <1>6, <2>1
<1> QED  BY <1>5, <1>8, <1>10, <1>11, <1>12 DEF Extended

----------------------------------------------------------------------------
(* The newest row of a date, and what the consumer has of it *)

\* The newest of rows of one date.
NewestIn(S) ==
  IF S = {} THEN NoRow ELSE CHOOSE r \in S : \A o \in S : o.allTime <= r.allTime

NewestOf(R, d) == NewestIn({r \in R : r.effective = d})

IsNewest(x, R, d) ==
  \/ x = NoRow /\ \A r \in R : r.effective # d
  \/ /\ x \in R /\ x.effective = d
     /\ \A o \in R : o.effective = d => /\ o.allTime <= x.allTime
                                        /\ o.allTime = x.allTime => o = x

\* The newest row of a date is unique.
LEMMA NewestIs ==
  ASSUME NEW R, NEW X, NEW P, Book(R, X, P), NEW d
  PROVE  IsNewest(NewestOf(R, d), R, d)
<1> DEFINE S == {r \in R : r.effective = d}
<1>1. PICK t, n, s : Ledger(R, t, n, P, s) /\ Of(t, n) = X
  BY DEF Book
<1>2. Line(t, n, P) /\ R = {RowAt(t, P, s, a) : a \in 1..n} /\ n \in Nat
  BY <1>1 DEF Ledger, Line
<1>3. \A a : RowAt(t, P, s, a).effective = P[t[a]].effective /\ RowAt(t, P, s, a).allTime = a
  BY DEF RowAt
<1>4. CASE S = {}
  BY <1>4 DEF NewestOf, NewestIn, IsNewest
<1>5. CASE S # {}
  <2>1. PICK b \in 1..n : P[t[b]].effective = d
    BY <1>2, <1>3, <1>5
  <2>2. \E c \in 1..n : P[t[c]].effective = d /\ \A a \in 1..n : P[t[a]].effective = d => a <= c
    BY <1>2, <2>1, LastOfDate
  <2>3. PICK c \in 1..n : P[t[c]].effective = d /\ \A a \in 1..n : P[t[a]].effective = d => a <= c
    BY <2>2
  <2> DEFINE x == RowAt(t, P, s, c)
  <2>4. x \in S /\ x.allTime = c
    BY <1>2, <1>3, <2>3
  <2>5. \A o \in S : o.allTime <= c /\ (o.allTime = c => o = x)
    BY <1>2, <1>3, <2>3
  <2>6. \A r \in S : (\A o \in S : o.allTime <= r.allTime) <=> r = x
    <3> SUFFICES ASSUME NEW r \in S
                 PROVE  (\A o \in S : o.allTime <= r.allTime) <=> r = x
      OBVIOUS
    <3>1. r.allTime \in Nat /\ c \in Nat
      BY <1>2, <1>3
    <3> HIDE DEF x, S
    <3> QED  BY <2>4, <2>5, <3>1
  <2>7. NewestOf(R, d) = CHOOSE r \in S : \A o \in S : o.allTime <= r.allTime
    BY <1>5 DEF NewestOf, NewestIn
  <2> HIDE DEF x
  <2>8. NewestOf(R, d) = x
    <3> HIDE DEF S
    <3> QED  BY <2>4, <2>6, <2>7
  <2> QED  BY <2>4, <2>5, <2>8 DEF IsNewest
<1> QED  BY <1>4, <1>5

\* The consumer has the newest row of a date, or one before it that was
\* written too recently for its next question to miss.
HeldOf(got, R, d, mark) ==
  \/ got = NewestOf(R, d)
  \/ /\ NewestOf(R, d) # NoRow /\ got.allTime < NewestOf(R, d).allTime
     /\ NewestOf(R, d).snapshot.modified >= mark - MaxDuration

\* What the consumer holds stays what it may hold when rows are written at a time it
\* will still ask for.
LEMMA HeldKept ==
  ASSUME NEW R, NEW X, NEW P, Book(R, X, P), NEW Q, NEW Y, NEW P2, Book(Q, Y, P2),
         NEW d \in Days, NEW now \in Nat, Changed(R, Q, now),
         NEW mark \in Nat, now >= mark - MaxDuration,
         NEW got, got.allTime \in Nat, HeldOf(got, R, d, mark)
  PROVE  HeldOf(got, Q, d, mark)
<1> DEFINE x == NewestOf(R, d)
           y == NewestOf(Q, d)
<1>1. IsNewest(x, R, d) /\ IsNewest(y, Q, d)
  BY NewestIs
<1>2. \A r \in R \cup Q : r.allTime \in Nat \ {0} /\ r # NoRow
  BY BookRows
<1>3. NoRow.allTime = 0
  BY DEF NoRow
<1>4. Renewed(R, Q, d, now)
  BY DEF Changed
<1>5. CASE \A r \in R \cup Q : r.effective = d => (r \in Q <=> r \in R)
  <2>1. {r \in R : r.effective = d} = {r \in Q : r.effective = d}
    BY <1>5
  <2>2. x = y
    BY <2>1 DEF NewestOf
  <2> HIDE DEF x, y
  <2> QED  BY <2>2 DEF HeldOf, x, y
<1>6. CASE \E r \in Q : /\ r.effective = d /\ r.snapshot.modified = now
                        /\ \A o \in Q : o.effective = d => o.allTime <= r.allTime
                        /\ \A o \in R : o.effective = d => o.allTime < r.allTime
  <2>1. PICK r \in Q : /\ r.effective = d /\ r.snapshot.modified = now
                       /\ \A o \in Q : o.effective = d => o.allTime <= r.allTime
                       /\ \A o \in R : o.effective = d => o.allTime < r.allTime
    BY <1>6
  <2> HIDE DEF x, y
  <2>2. y = r
    <3>1. y \in Q /\ y.effective = d /\ r.allTime <= y.allTime /\ (r.allTime = y.allTime => r = y)
      BY <1>1, <2>1 DEF IsNewest
    <3>2. y.allTime <= r.allTime /\ y.allTime \in Nat /\ r.allTime \in Nat
      BY <1>2, <2>1, <3>1
    <3> QED  BY <3>1, <3>2
  <2>3. x.allTime \in Nat /\ x.allTime < r.allTime
    <3>1. CASE x = NoRow
      BY <1>2, <1>3, <2>1, <3>1
    <3>2. CASE x # NoRow
      <4>1. x \in R /\ x.effective = d
        BY <1>1, <3>2 DEF IsNewest
      <4> QED  BY <1>2, <2>1, <4>1
    <3> QED  BY <3>1, <3>2
  <2>4. got.allTime < r.allTime
    <3>1. got = x \/ got.allTime < x.allTime
      BY DEF HeldOf, x
    <3>2. r.allTime \in Nat
      BY <1>2, <2>1
    <3>3. CASE got = x
      BY <2>3, <3>3
    <3>4. CASE got.allTime < x.allTime
      BY <2>3, <3>2, <3>4
    <3> QED  BY <3>1, <3>3, <3>4
  <2>5. y # NoRow /\ got.allTime < y.allTime /\ y.snapshot.modified >= mark - MaxDuration
    BY <1>2, <2>1, <2>2, <2>4
  <2> QED  BY <2>5 DEF HeldOf, y
<1> QED  BY <1>4, <1>5, <1>6 DEF Renewed

\* What a poll leaves the consumer with.
LEMMA PollIs ==
  ASSUME NEW X, NEW P, Book(rows, X, P), NEW d \in Days, watermark \in Nat,
         \A r \in rows : r.snapshot.modified \in Nat,
         NEW got, got.allTime \in Nat, HeldOf(got, rows, d, watermark)
  PROVE  LaterOf(got, {r \in ModifiedSince(Since) : r.effective = d}) = NewestOf(rows, d)
<1> DEFINE x == NewestOf(rows, d)
           hits == {r \in rows : r.snapshot.modified >= Since}
           G == {r \in ModifiedSince(Since) : r.effective = d}
           S == {got} \cup G
<1>1. IsNewest(x, rows, d)
  BY NewestIs
<1>2. \A r \in rows : r.allTime \in Nat \ {0} /\ r # NoRow
  BY BookRows
<1>3. NoRow.allTime = 0
  BY DEF NoRow
<1>4. G = {r \in hits : r.effective = d /\ \A o \in hits : o.effective = r.effective
                                             => o.allTime <= r.allTime}
  BY DEF ModifiedSince
<1>5. \A r \in G : r \in rows /\ r.effective = d
  BY <1>4
<1>6. LaterOf(got, G) = CHOOSE m \in S : \A o \in S : o.allTime <= m.allTime
  BY DEF LaterOf
<1> HIDE DEF x, G
<1>7. x.allTime \in Nat /\ \A r \in G : r.allTime \in Nat /\ r.allTime <= x.allTime
                                        /\ (r.allTime = x.allTime => r = x)
  <2>1. CASE x = NoRow
    BY <1>1, <1>2, <1>3, <1>5, <2>1 DEF IsNewest
  <2>2. CASE x # NoRow
    BY <1>1, <1>2, <1>5, <2>2 DEF IsNewest
  <2> QED  BY <2>1, <2>2
<1>8. /\ x \in S /\ got.allTime <= x.allTime
      /\ got.allTime = x.allTime => got = x
  <2>1. CASE got = x
    BY <1>7, <2>1
  <2>2. CASE /\ x # NoRow /\ got.allTime < x.allTime
             /\ x.snapshot.modified >= watermark - MaxDuration
    <3>1. x \in rows /\ x.effective = d /\ \A o \in rows : o.effective = d => o.allTime <= x.allTime
      BY <1>1, <2>2 DEF IsNewest
    <3>2. x.snapshot.modified \in Nat
      BY <3>1
    <3>3. x.snapshot.modified >= Since
      BY <2>2, <3>2, EffectiveAssumption DEF Since
    <3>4. x \in hits
      BY <3>1, <3>3
    <3>5. x \in G
      BY <1>4, <3>1, <3>4
    <3> QED  BY <1>7, <2>2, <3>5
  <2> QED  BY <2>1, <2>2 DEF HeldOf, x
<1>9. \A m \in S : (\A o \in S : o.allTime <= m.allTime) <=> m = x
  <2> SUFFICES ASSUME NEW m \in S
               PROVE  (\A o \in S : o.allTime <= m.allTime) <=> m = x
    OBVIOUS
  <2>1. \A o \in S : /\ o.allTime \in Nat /\ o.allTime <= x.allTime
                     /\ o.allTime = x.allTime => o = x
    BY <1>7, <1>8
  <2> HIDE DEF S
  <2> QED  BY <1>7, <1>8, <2>1
<1> HIDE DEF S
<1> QED  BY <1>6, <1>8, <1>9 DEF x, G

----------------------------------------------------------------------------
(* The inductive invariant *)

\* Entries have the ids of their places, and calls already made.
History ==
  /\ posted \in Seq(Entry) /\ Entered(posted)
  /\ \A x \in DOMAIN posted : posted[x].call <= calls
  /\ panicked = FALSE

\* Open transactions are no older than MaxDuration.
Bounds ==
  /\ calls \in Nat /\ begun \in 0..MaxCalls
  /\ clock \in 1..MaxTime /\ watermark \in 0..clock
  /\ began \in [Posters -> 0..clock]
  /\ \A p \in Posters : began[p] > 0 => clock - began[p] <= MaxDuration

\* The rows are those of a line of all entries.
Rows ==
  /\ Book(rows, DOMAIN posted, posted)
  /\ \A r \in rows : r.snapshot.modified \in 1..clock

\* A row as TypeOK has it.
WellFormed(r) ==
  r # NoRow =>
    /\ r.effective \in Days /\ r.allTime \in Nat \ {0}
    /\ r.snapshot.entry \in DOMAIN posted
    /\ r.snapshot.version \in Nat \ {0}
    /\ r.snapshot.modified \in 1..clock
    /\ \A l \in Layers : /\ IsABag(r.snapshot.amount[l])
                         /\ r.snapshot.by[l] \in {UNASSIGNED_ENTRY_ID} \cup DOMAIN posted

\* What the consumer holds.
Polled ==
  \A d \in Days : WellFormed(seen[d]) /\ HeldOf(seen[d], rows, d, watermark)

\* The stream and the consumer's frontier in it.
Streamed ==
  /\ kind \in Kinds
  /\ stream \in Seq([posting : Posting, at : 1..clock])
  /\ folded \in 0..Len(stream)
  /\ pin = NoPin \/ pin \in [at : 1..clock, frontier : 0..Len(stream)]

\* What the rollup has still to fold is recent to the consumer's watermark, and
\* what lies beyond a pinned frontier is recent to the time it was pinned.
Ahead ==
  /\ \A i \in (folded + 1)..Len(stream) : stream[i].at >= watermark - MaxDuration
  /\ pin # NoPin =>
       /\ pin.at >= watermark
       /\ \A i \in (pin.frontier + 1)..Len(stream) : stream[i].at >= pin.at - MaxDuration

\* Each part needs the others: a pass keeps the rows because ids and calls are
\* new, and what the consumer holds because its time is recent, be it that of
\* an open transaction or one in the stream.
IInv == History /\ Bounds /\ Rows /\ Polled /\ Streamed /\ Ahead

\* A set of entries is a bag.
LEMMA BagOf == ASSUME NEW X  PROVE IsABag(SetToBag(X))
BY DEF IsABag, SetToBag

\* Rows are as TypeOK has them.
LEMMA RowsWellFormed ==
  ASSUME Rows, NEW r \in rows
  PROVE  WellFormed(r)
<1>1. /\ r.allTime \in Nat \ {0} /\ r.effective \in Days
      /\ r.snapshot.entry \in DOMAIN posted /\ r.snapshot.version \in Nat \ {0}
      /\ r.snapshot.modified \in 1..clock
  BY BookRows DEF Rows
<1>2. ASSUME NEW l \in Layers
      PROVE  /\ IsABag(r.snapshot.amount[l])
             /\ r.snapshot.by[l] \in {UNASSIGNED_ENTRY_ID} \cup DOMAIN posted
  <2>1. PICK t, n, s : Ledger(rows, t, n, posted, s) /\ Of(t, n) = DOMAIN posted
    BY DEF Book, Rows
  <2>2. PICK a \in 1..n : r = RowAt(t, posted, s, a)
    BY <2>1 DEF Ledger
  <2>3. r.snapshot = s[a] /\ Accumulated(t, posted, a, s[a])
    BY <2>1, <2>2 DEF Ledger, RowAt
  <2>4. IsABag(s[a].amount[l])
    <3>1. s[a].amount[l] = SetToBag(Ids(t, posted, 1, a, l))
      BY <2>3 DEF Accumulated
    <3> QED  BY <3>1, BagOf
  <2>5. LastId(t, posted, a, l, s[a].by[l])
    BY <2>3 DEF Accumulated
  <2>6. \A b \in 1..a : t[b] \in DOMAIN posted
    <3>1. n \in Nat
      BY <2>1 DEF Ledger, Line
    <3>2. \A b \in 1..a : b \in 1..n
      BY <3>1
    <3> QED  BY <2>1, <3>2 DEF Of
  <2> QED  BY <2>3, <2>4, <2>5, <2>6 DEF LastId
<1> QED  BY <1>1, <1>2 DEF WellFormed

\* The invariant holds at first.
LEMMA Starts == Init => IInv
<1> SUFFICES ASSUME Init  PROVE IInv
  OBVIOUS
<1> USE DEF Init
<1>1. History
  <2>1. Entered(posted)
    BY DEF Entered
  <2> QED  BY <2>1 DEF History
<1>2. Bounds
  <2>3. /\ calls = 0 /\ begun = 0 /\ clock = 1 /\ watermark = 0
        /\ began = [p \in Posters |-> 0]
        /\ MaxCalls \in Nat /\ MaxTime \in Nat \ {0}
    BY EffectiveAssumption
  <2> QED  BY <2>3 DEF Bounds
<1>3. Rows
  <2>1. Ledger(rows, <<>>, 0, posted, <<>>)
    <3>1. Line(<<>>, 0, posted)
      BY DEF Line, Entered
    <3> QED  BY <3>1 DEF Ledger
  <2>2. Of(<<>>, 0) = DOMAIN posted
    BY DEF Of
  <2>3. Book(rows, DOMAIN posted, posted)
    BY <2>1, <2>2 DEF Book
  <2> QED  BY <2>3 DEF Rows
<1>4. Polled
  <2>1. \A d \in Days : seen[d] = NoRow
    OBVIOUS
  <2>2. \A d \in Days : NewestOf(rows, d) = NoRow
    BY DEF NewestOf, NewestIn
  <2> QED  BY <2>1, <2>2 DEF Polled, WellFormed, HeldOf
<1>5. Streamed /\ Ahead
  BY DEF Streamed, Ahead
<1> QED  BY <1>1, <1>2, <1>3, <1>4, <1>5 DEF IInv

\* The parts that concern the balance alone.
LEMMA BalanceStays ==
  ASSUME IInv, clock' \in Nat, clock' >= clock, UNCHANGED <<balance, watermark, seen>>
  PROVE  History' /\ Rows' /\ Polled'
<1>1. UNCHANGED <<rows, posted, calls, panicked, watermark, seen>>
  BY DEF balance
<1>2. clock \in Nat
  BY DEF IInv, Bounds
<1>3. \A x : x \in 1..clock => x \in 1..clock'
  BY <1>2
<1>4. History'
  BY <1>1 DEF IInv, History
<1>5. Rows'
  BY <1>1, <1>3 DEF IInv, Rows
<1>6. Polled'
  BY <1>1, <1>3 DEF IInv, Polled, WellFormed, HeldOf
<1> QED  BY <1>4, <1>5, <1>6

\* The kind of an account is for good.
LEMMA KindStays ==
  ASSUME IInv, UNCHANGED kind
  PROVE  kind \in Kinds /\ kind' \in Kinds
BY DEF IInv, Streamed

\* The parts that concern the stream and the consumer.
LEMMA StreamStays ==
  ASSUME IInv, clock' \in Nat, clock' >= clock, UNCHANGED <<rollup, pin, watermark>>
  PROVE  Streamed' /\ Ahead'
<1>1. UNCHANGED <<kind, stream, folded, pin, watermark>>
  BY DEF rollup
<1>2. clock \in Nat
  BY DEF IInv, Bounds
<1>3. 1..clock \subseteq 1..clock'
  BY <1>2
<1>4. Ahead'
  BY <1>1 DEF IInv, Ahead
<1>5. stream \in Seq([posting : Posting, at : 1..clock'])
  <2> DEFINE S == [posting : Posting, at : 1..clock]
             T == [posting : Posting, at : 1..clock']
  <2>1. S \subseteq T
    BY <1>3
  <2>2. stream \in Seq(S)
    BY DEF IInv, Streamed
  <2> HIDE DEF S, T
  <2>3. stream \in Seq(T)
    BY <2>1, <2>2
  <2> QED  BY <2>3 DEF T
<1>6. pin = NoPin \/ pin \in [at : 1..clock', frontier : 0..Len(stream)]
  BY <1>3 DEF IInv, Streamed
<1>7. folded \in 0..Len(stream)
  BY DEF IInv, Streamed
<1>8. Streamed'
  BY <1>1, <1>5, <1>6, <1>7, KindStays DEF Streamed
<1> QED  BY <1>4, <1>8

\* Beginning a transaction keeps it.
LEMMA BeginKeeps ==
  ASSUME IInv, NEW p \in Posters, Begin(p)
  PROVE  IInv'
<1>1. /\ begun < MaxCalls /\ begun' = begun + 1
      /\ began' = [began EXCEPT ![p] = clock]
      /\ UNCHANGED <<balance, rollup, clock, consumer>>
  BY DEF Begin
<1>2. /\ calls \in Nat /\ clock \in Nat \ {0} /\ began \in [Posters -> 0..clock]
      /\ clock \in 1..MaxTime /\ watermark \in 0..clock /\ MaxCalls \in Nat
      /\ begun \in 0..MaxCalls /\ MaxDuration \in Nat
      /\ \A q \in Posters : began[q] > 0 => clock - began[q] <= MaxDuration
  BY EffectiveAssumption DEF IInv, Bounds
<1>3. UNCHANGED <<calls, pin, watermark, seen, clock>>
  BY <1>1 DEF balance, consumer
<1>4. History' /\ Rows' /\ Polled'
  BY <1>1, <1>2, <1>3, BalanceStays
<1>5. Streamed' /\ Ahead'
  BY <1>1, <1>2, <1>3, StreamStays
<1>6. Bounds'
  <2>1. began' \in [Posters -> 0..clock]
    BY <1>1, <1>2
  <2>2. \A q \in Posters : began'[q] > 0 => clock - began'[q] <= MaxDuration
    BY <1>1, <1>2
  <2> QED  BY <1>1, <1>2, <1>3, <2>1, <2>2 DEF Bounds
<1> QED  BY <1>4, <1>5, <1>6 DEF IInv

\* Time passing keeps it: transactions stay open no longer than MaxDuration.
LEMMA TickKeeps ==
  ASSUME IInv, Tick
  PROVE  IInv'
<1>1. /\ clock < MaxTime /\ clock' = clock + 1
      /\ \A p \in Posters : began[p] > 0 => clock - began[p] < MaxDuration
      /\ UNCHANGED <<balance, rollup, begun, began, consumer>>
  BY DEF Tick
<1>2. /\ calls \in Nat /\ clock \in Nat \ {0} /\ began \in [Posters -> 0..clock]
      /\ clock \in 1..MaxTime /\ watermark \in 0..clock /\ begun \in 0..MaxCalls
      /\ MaxDuration \in Nat /\ MaxTime \in Nat
  BY EffectiveAssumption DEF IInv, Bounds
<1>3. UNCHANGED <<calls, pin, watermark, seen>> /\ clock' \in Nat /\ clock' >= clock
  BY <1>1, <1>2 DEF balance, consumer
<1>4. History' /\ Rows' /\ Polled'
  BY <1>1, <1>3, BalanceStays
<1>5. Streamed' /\ Ahead'
  BY <1>1, <1>3, StreamStays
<1>6. Bounds'
  <2>1. began' \in [Posters -> 0..clock']
    BY <1>1, <1>2
  <2>2. \A p \in Posters : began'[p] > 0 => clock' - began'[p] <= MaxDuration
    <3> SUFFICES ASSUME NEW p \in Posters, began[p] > 0
                 PROVE  (clock + 1) - began[p] <= MaxDuration
      BY <1>1
    <3>1. clock - began[p] < MaxDuration /\ began[p] \in Nat
      BY <1>1, <1>2
    <3> QED  BY <1>2, <3>1
  <2>3. clock' \in 1..MaxTime /\ watermark' \in 0..clock'
    BY <1>1, <1>2, <1>3
  <2> QED  BY <1>1, <1>2, <1>3, <2>1, <2>2, <2>3 DEF Bounds
<1> QED  BY <1>4, <1>5, <1>6 DEF IInv

\* Pinning a frontier keeps it: nothing lies beyond it yet.
LEMMA PinKeeps ==
  ASSUME IInv, Pin
  PROVE  IInv'
<1>1. /\ pin' = [at |-> clock, frontier |-> Len(stream)]
      /\ UNCHANGED <<balance, rollup, clock, begun, began, watermark, seen>>
  BY DEF Pin
<1>2. clock \in Nat \ {0} /\ watermark \in Nat /\ clock >= watermark
  BY DEF IInv, Bounds
<1>3. History' /\ Rows' /\ Polled'
  BY <1>1, <1>2, BalanceStays
<1>4. UNCHANGED <<kind, stream, folded, calls>>
  BY <1>1 DEF rollup, balance
<1>5. Bounds'
  BY <1>1, <1>4 DEF IInv, Bounds
<1>6. stream \in Seq([posting : Posting, at : 1..clock]) /\ folded \in 0..Len(stream)
  BY DEF IInv, Streamed
<1>7. Len(stream) \in Nat
  BY <1>6
<1>8. Streamed'
  <2>1. pin' \in [at : 1..clock, frontier : 0..Len(stream)]
    BY <1>1, <1>2, <1>7
  <2> QED  BY <1>1, <1>4, <1>6, <2>1, KindStays DEF Streamed
<1>9. Ahead'
  <2>1. \A i \in (folded + 1)..Len(stream) : stream[i].at >= watermark - MaxDuration
    BY DEF IInv, Ahead
  <2>2. pin'.at = clock /\ pin'.frontier = Len(stream)
    BY <1>1
  <2>3. \A i : i \notin (Len(stream) + 1)..Len(stream)
    BY <1>7
  <2> QED  BY <1>1, <1>2, <1>4, <2>1, <2>2, <2>3 DEF Ahead
<1> QED  BY <1>3, <1>5, <1>8, <1>9 DEF IInv

\* What the consumer holds of a date.
LEMMA SeenAllTime ==
  ASSUME IInv, NEW d \in Days
  PROVE  seen[d].allTime \in Nat /\ HeldOf(seen[d], rows, d, watermark)
<1>1. WellFormed(seen[d]) /\ HeldOf(seen[d], rows, d, watermark)
  BY DEF IInv, Polled
<1>2. NoRow.allTime = 0
  BY DEF NoRow
<1> QED  BY <1>1, <1>2 DEF WellFormed

\* The consumer has the newest row of every date after a poll.
LEMMA PollGets ==
  ASSUME IInv, Poll
  PROVE  \A d \in Days : seen'[d] = NewestOf(rows, d)
<1> SUFFICES ASSUME NEW d \in Days  PROVE seen'[d] = NewestOf(rows, d)
  OBVIOUS
<1>1. seen'[d] = LaterOf(seen[d], {r \in ModifiedSince(Since) : r.effective = d})
  BY DEF Poll
<1>2. /\ Book(rows, DOMAIN posted, posted) /\ watermark \in Nat
      /\ \A r \in rows : r.snapshot.modified \in Nat
  BY DEF IInv, Rows, Bounds
<1>3. LaterOf(seen[d], {r \in ModifiedSince(Since) : r.effective = d}) = NewestOf(rows, d)
  BY <1>2, SeenAllTime, PollIs
<1> QED  BY <1>1, <1>3

\* A poll keeps the invariant.
LEMMA PollKeeps ==
  ASSUME IInv, Poll
  PROVE  IInv'
<1>0. /\ pin # NoPin /\ folded >= pin.frontier
      /\ watermark' = pin.at /\ pin' = NoPin
      /\ UNCHANGED <<balance, rollup, clock, begun, began>>
  BY DEF Poll, IsCaughtUp
<1>1. UNCHANGED <<rows, posted, calls, panicked, kind, stream, folded, clock, begun, began>>
  BY <1>0 DEF balance, rollup
<1>10. /\ stream \in Seq([posting : Posting, at : 1..clock]) /\ folded \in 0..Len(stream)
       /\ pin \in [at : 1..clock, frontier : 0..Len(stream)]
  BY <1>0 DEF IInv, Streamed
<1>11. /\ pin.at \in 1..clock /\ pin.frontier \in Nat /\ folded \in Nat /\ Len(stream) \in Nat
       /\ clock \in Nat
  BY <1>10 DEF IInv, Bounds
<1>2. History'
  BY <1>1 DEF IInv, History
<1>3. Rows'
  BY <1>1 DEF IInv, Rows
<1>4. Bounds'
  BY <1>0, <1>1, <1>11 DEF IInv, Bounds
<1>6. Streamed'
  BY <1>0, <1>1, <1>10, KindStays DEF Streamed
<1>7. Ahead'
  <2>1. \A i \in (pin.frontier + 1)..Len(stream) : stream[i].at >= pin.at - MaxDuration
    BY <1>0 DEF IInv, Ahead
  <2>2. \A i \in (folded + 1)..Len(stream) : i \in (pin.frontier + 1)..Len(stream)
    BY <1>0, <1>11
  <2> QED  BY <1>0, <1>1, <2>1, <2>2 DEF Ahead
<1>5. Polled'
  <2> SUFFICES ASSUME NEW d \in Days
               PROVE  WellFormed(seen[d])' /\ HeldOf(seen[d], rows, d, watermark)'
    BY DEF Polled
  <2>1. seen'[d] = NewestOf(rows, d)
    BY PollGets
  <2>2. HeldOf(seen'[d], rows', d, watermark')
    BY <1>1, <2>1 DEF HeldOf
  <2> DEFINE x == NewestOf(rows, d)
  <2>3. WellFormed(x)
    <3>1. Book(rows, DOMAIN posted, posted)
      BY DEF IInv, Rows
    <3>2. IsNewest(x, rows, d)
      BY <3>1, NewestIs
    <3>3. x = NoRow \/ x \in rows
      BY <3>2 DEF IsNewest
    <3> HIDE DEF x
    <3>4. Rows
      BY DEF IInv
    <3>5. x = NoRow => WellFormed(x)
      BY DEF WellFormed
    <3>6. x \in rows => WellFormed(x)
      BY <3>4, RowsWellFormed
    <3> QED  BY <3>3, <3>5, <3>6
  <2>4. WellFormed(seen[d])'
    BY <1>1, <2>1, <2>3 DEF WellFormed
  <2> QED  BY <2>2, <2>4
<1> QED  BY <1>2, <1>3, <1>4, <1>5, <1>6, <1>7 DEF IInv

\* What writing a batch leaves.
LEMMA WriteLeaves ==
  ASSUME IInv, NEW b \in Seq(Posting), NEW now \in Nat, Write(now, b)
  PROVE  /\ calls' = calls + 1 /\ UNCHANGED panicked
         /\ posted' \in Seq(Entry) /\ Entered(posted')
         /\ \A x \in DOMAIN posted : x \in DOMAIN posted'
         /\ \A x \in DOMAIN posted' : posted'[x].call <= calls'
         /\ Book(rows', DOMAIN posted', posted')
         /\ Book(rows, DOMAIN posted, posted')
         /\ Changed(rows, rows', now)
<1> DEFINE n == Len(posted)
           es == Entries(b, n)
           after == ApplyBatch(now, b, es)
           x == Sorted(es, ById)
           P == posted \o x
           X == DOMAIN posted
<1>1. /\ posted \in Seq(Entry) /\ Entered(posted) /\ panicked = FALSE
      /\ \A i \in DOMAIN posted : posted[i].call <= calls
      /\ calls \in Nat
      /\ Book(rows, DOMAIN posted, posted)
  BY DEF IInv, History, Rows, Bounds
<1>2. calls' = calls + 1
  BY DEF Write
<1>3. n \in Nat /\ DOMAIN posted = 1..n
  BY <1>1
<1>4. \E N : Follow(Entries(b, n), n, N, calls + 1)
  BY <1>1, <1>3, EntriesAre
<1>5. PICK N : Follow(es, n, N, calls + 1)
  BY <1>4
<1>6. InIdOrder(x, es, n, N) /\ IsFiniteSet(es)
  <2> HIDE DEF es
  <2> QED  BY <1>3, <1>5, SortedEntries
<1>7. Extended(P, posted, es, n, N)
  <2> HIDE DEF es, x
  <2> QED  BY <1>1, <1>5, <1>6, HistoryGrows
<1> HIDE DEF P, x
<1>8. /\ P \in Seq(Entry) /\ Entered(P)
      /\ \A i \in 1..n : P[i] = posted[i]
      /\ \A e \in es : e.id \in DOMAIN P /\ P[e.id] = e
      /\ DOMAIN P = DOMAIN posted \cup {e.id : e \in es}
      /\ \A i \in DOMAIN P : i \in DOMAIN posted \/ P[i] \in es
  BY <1>7 DEF Extended
<1>9. Book(rows, X, P)
  <2>1. \A i \in DOMAIN posted : i \in DOMAIN P /\ P[i] = posted[i]
    BY <1>3, <1>8
  <2> QED  BY <1>1, <1>8, <2>1, BookLift
<1>10. \A i \in X : i \in 1..n /\ P[i].call < calls + 1
  <2> SUFFICES ASSUME NEW i \in X  PROVE i \in 1..n /\ P[i].call < calls + 1
    OBVIOUS
  <2>1. i \in 1..n /\ P[i] = posted[i] /\ posted[i].call <= calls
    BY <1>1, <1>3, <1>8
  <2>2. posted[i].call \in Nat
    BY <1>1 DEF Entered, Entry
  <2> QED  BY <1>1, <2>1, <2>2
<1>11. /\ after.panic = FALSE /\ Changed(rows, after.rows, now)
       /\ Book(after.rows, X \cup {e.id : e \in es}, P)
  <2> DEFINE c == calls + 1
  <2>1. after = ApplyBatch(now, b, es) /\ c = calls + 1
    OBVIOUS
  <2>6. \A e \in es : \E i \in DOMAIN b : e.effective = b[i].effective
    BY DEF Entries
  <2> HIDE DEF es, after, n, X, c
  <2>3. Follow(es, n, N, c) /\ \A i \in X : i \in 1..n /\ P[i].call < c
    BY <1>5, <1>10, <2>1
  <2>4. \A e \in es : e.id \in DOMAIN P /\ P[e.id] = e
    BY <1>8
  <2>5. Done(after, es, X, P, now)
    BY <1>3, <1>6, <1>9, <2>1, <2>3, <2>4, <2>6, BatchKeeps
  <2> QED  BY <2>5 DEF Done
<1>12. rows' = after.rows /\ posted' = P /\ UNCHANGED panicked
  <2>1. /\ n = Len(posted) /\ es = Entries(b, Len(posted))
        /\ after = ApplyBatch(now, b, es)
    OBVIOUS
  <2>2. IF ApplyBatch(now, b, Entries(b, Len(posted))).panic
        THEN panicked' = TRUE /\ UNCHANGED <<rows, posted>>
        ELSE /\ rows' = ApplyBatch(now, b, Entries(b, Len(posted))).rows
             /\ posted' = posted \o Sorted(Entries(b, Len(posted)), ById)
             /\ UNCHANGED panicked
    BY DEF Write
  <2> HIDE DEF after
  <2>3. after = ApplyBatch(now, b, Entries(b, Len(posted)))
    BY <2>1
  <2>4. ~ after.panic
    BY <1>11
  <2> QED  BY <2>2, <2>3, <2>4 DEF P, x
<1>13. \A i \in DOMAIN P : P[i].call <= calls'
  <2> SUFFICES ASSUME NEW i \in DOMAIN P  PROVE P[i].call <= calls + 1
    BY <1>2
  <2>1. CASE i \in DOMAIN posted
    <3>1. P[i] = posted[i] /\ posted[i].call <= calls /\ posted[i].call \in Nat
      BY <1>1, <1>3, <1>8, <2>1 DEF Entered, Entry
    <3> QED  BY <1>1, <3>1
  <2>2. CASE P[i] \in es
    <3>1. P[i].call = calls + 1
      BY <1>5, <2>2 DEF Follow
    <3> QED  BY <1>1, <3>1
  <2> QED  BY <1>8, <2>1, <2>2
<1> HIDE DEF es, after, n
<1>14. Book(rows', DOMAIN posted', posted')
  BY <1>8, <1>11, <1>12
<1> QED  BY <1>2, <1>8, <1>9, <1>11, <1>12, <1>13, <1>14

\* Writing at a time that is recent to the watermark keeps what concerns the
\* balance and what the consumer has of it.
LEMMA WriteKeeps ==
  ASSUME IInv, NEW b \in Seq(Posting), NEW now \in 1..clock, Write(now, b),
         now >= watermark - MaxDuration, UNCHANGED <<clock, watermark, seen>>
  PROVE  History' /\ Rows' /\ Polled' /\ calls' \in Nat
<1>0. now \in Nat /\ watermark \in Nat /\ calls \in Nat
  BY DEF IInv, Bounds
<1>1. /\ calls' = calls + 1 /\ UNCHANGED panicked
      /\ posted' \in Seq(Entry) /\ Entered(posted')
      /\ \A x \in DOMAIN posted : x \in DOMAIN posted'
      /\ \A x \in DOMAIN posted' : posted'[x].call <= calls'
      /\ Book(rows', DOMAIN posted', posted')
      /\ Book(rows, DOMAIN posted, posted')
      /\ Changed(rows, rows', now)
  BY <1>0, WriteLeaves
<1>4. History'
  BY <1>1 DEF IInv, History
<1>5. Rows'
  <2>1. \A r \in rows' : r \in rows \/ r.snapshot.modified = now
    BY <1>1 DEF Changed
  <2>2. \A r \in rows : r.snapshot.modified \in 1..clock
    BY DEF IInv, Rows
  <2>3. \A r \in rows' : r.snapshot.modified \in 1..clock'
    BY <2>1, <2>2
  <2> QED  BY <1>1, <2>3 DEF Rows
<1>7. Polled'
  <2> SUFFICES ASSUME NEW d \in Days
               PROVE  WellFormed(seen[d])' /\ HeldOf(seen[d], rows, d, watermark)'
    BY DEF Polled
  <2>1. seen[d].allTime \in Nat /\ HeldOf(seen[d], rows, d, watermark)
    BY SeenAllTime
  <2> DEFINE got == seen[d]
  <2>2. HeldOf(seen[d], rows', d, watermark)
    <3> HIDE DEF got
    <3>1. got.allTime \in Nat /\ HeldOf(got, rows, d, watermark)
      BY <2>1 DEF got
    <3>3. HeldOf(got, rows', d, watermark)
      BY <1>0, <1>1, <3>1, HeldKept
    <3> QED  BY <3>3 DEF got
  <2>3. WellFormed(seen[d])
    BY DEF IInv, Polled
  <2>4. WellFormed(seen[d])'
    BY <1>1, <2>3 DEF WellFormed
  <2>5. HeldOf(seen[d], rows, d, watermark)'
    BY <2>2 DEF HeldOf
  <2> QED  BY <2>4, <2>5
<1> QED  BY <1>0, <1>1, <1>4, <1>5, <1>7

\* An open transaction is recent.
LEMMA BeganRecently ==
  ASSUME IInv, NEW p \in Posters, began[p] > 0
  PROVE  /\ began[p] \in 1..clock /\ began[p] >= clock - MaxDuration
         /\ began[p] >= watermark - MaxDuration
<1>1. /\ clock \in Nat /\ began \in [Posters -> 0..clock] /\ watermark \in 0..clock
      /\ MaxDuration \in Nat /\ clock - began[p] <= MaxDuration
  BY EffectiveAssumption DEF IInv, Bounds
<1> QED  BY <1>1

\* An ended transaction leaves the bounds of the others.
LEMMA EndsWithin ==
  ASSUME IInv, NEW p \in Posters, began' = [began EXCEPT ![p] = 0],
         UNCHANGED <<clock, begun, watermark>>, calls' \in Nat
  PROVE  Bounds'
<1>1. began' \in [Posters -> 0..clock]
  BY DEF IInv, Bounds
<1>2. \A q \in Posters : began'[q] > 0 => clock - began'[q] <= MaxDuration
  BY DEF IInv, Bounds
<1> QED  BY <1>1, <1>2 DEF IInv, Bounds

\* Posting a batch inline keeps the invariant.
LEMMA PostKeeps ==
  ASSUME IInv, NEW p \in Posters, NEW b \in Batches[kind], Post(p, b)
  PROVE  IInv'
<1>1. /\ began[p] > 0 /\ began' = [began EXCEPT ![p] = 0]
      /\ Write(began[p], b) /\ UNCHANGED <<rollup, clock, begun, consumer>>
  BY DEF Post
<1>2. b \in Seq(Posting)
  BY EffectiveAssumption DEF IInv, Streamed
<1>3. UNCHANGED <<clock, begun, pin, watermark, seen>>
  BY <1>1 DEF consumer
<1>4. began[p] \in 1..clock /\ began[p] >= watermark - MaxDuration
  BY <1>1, BeganRecently
<1>5. History' /\ Rows' /\ Polled' /\ calls' \in Nat
  BY <1>1, <1>2, <1>3, <1>4, WriteKeeps
<1>6. Bounds'
  BY <1>1, <1>3, <1>5, EndsWithin
<1>7. Streamed' /\ Ahead'
  <2>1. clock \in Nat
    BY DEF IInv, Bounds
  <2> QED  BY <1>1, <1>3, <2>1, StreamStays
<1> QED  BY <1>5, <1>6, <1>7 DEF IInv

\* The stream with the postings of a batch.
LEMMA StreamGrows ==
  ASSUME NEW T, NEW s \in Seq(T), NEW n, n = Len(s), NEW u \in Seq(T), NEW w, w = s \o u
  PROVE  /\ w \in Seq(T) /\ Len(w) \in Nat /\ n \in Nat /\ n <= Len(w)
         /\ \A i \in 1..n : w[i] = s[i]
         /\ \A i \in (n + 1)..Len(w) : \E j \in 1..Len(u) : w[i] = u[j]
<1>1. w \in Seq(T) /\ Len(w) = n + Len(u) /\ n \in Nat /\ Len(u) \in Nat
  OBVIOUS
<1>2. \A i \in 1..n : w[i] = s[i]
  OBVIOUS
<1>3. ASSUME NEW i \in (n + 1)..Len(w)  PROVE \E j \in 1..Len(u) : w[i] = u[j]
  <2>1. i - n \in 1..Len(u) /\ w[i] = u[i - n]
    BY <1>1
  <2> QED  BY <2>1
<1> QED  BY <1>1, <1>2, <1>3

\* Publishing a batch keeps the invariant: it is recent to any time of the
\* consumer.
LEMMA PublishKeeps ==
  ASSUME IInv, NEW p \in Posters, NEW b \in Batches[kind], Publish(p, b)
  PROVE  IInv'
<1> DEFINE T == [posting : Posting, at : 1..clock]
           u == [i \in DOMAIN b |-> [posting |-> b[i], at |-> began[p]]]
           n == Len(stream)
<1>1. /\ began[p] > 0 /\ began' = [began EXCEPT ![p] = 0] /\ stream' = stream \o u
      /\ UNCHANGED <<balance, kind, folded, clock, begun, consumer>>
  BY DEF Publish
<1>2. began[p] \in 1..clock /\ began[p] >= clock - MaxDuration
      /\ began[p] >= watermark - MaxDuration /\ clock \in Nat /\ MaxDuration \in Nat
  BY <1>1, BeganRecently, EffectiveAssumption DEF IInv, Bounds
<1>3. UNCHANGED <<pin, watermark, seen, calls>>
  BY <1>1 DEF consumer, balance
<1>4. /\ DOMAIN b = 1..Len(b) /\ Len(b) \in Nat /\ \A i \in DOMAIN b : b[i] \in Posting
  <2>1. b \in Seq(Posting)
    BY EffectiveAssumption DEF IInv, Streamed
  <2> QED  BY <2>1
<1>5. u \in Seq(T) /\ Len(u) = Len(b) /\ \A j \in 1..Len(b) : u[j].at = began[p]
  <2>1. u \in [1..Len(b) -> T]
    BY <1>2, <1>4
  <2>2. \A j \in 1..Len(b) : u[j].at = began[p]
    BY <1>4
  <2> HIDE DEF u, T
  <2> QED  BY <1>4, <2>1, <2>2
<1>6. /\ stream \in Seq(T) /\ folded \in 0..n
      /\ pin = NoPin \/ pin \in [at : 1..clock, frontier : 0..n]
  BY DEF IInv, Streamed
<1> HIDE DEF u, T
<1>7. /\ stream' \in Seq(T) /\ Len(stream') \in Nat /\ n \in Nat /\ n <= Len(stream')
      /\ \A i \in 1..n : stream'[i] = stream[i]
      /\ \A i \in (n + 1)..Len(stream') : \E j \in 1..Len(u) : stream'[i] = u[j]
  BY <1>1, <1>5, <1>6, StreamGrows
<1> HIDE DEF n
<1>8. \A i \in (n + 1)..Len(stream') : stream'[i].at = began[p]
  BY <1>5, <1>7
<1>9. \A m \in Nat : \A i \in (m + 1)..Len(stream') :
        i \in (m + 1)..n \/ i \in (n + 1)..Len(stream')
  BY <1>7
<1>10. \A m \in Nat : \A i \in (m + 1)..n : i \in 1..n
  BY <1>7
<1>11. Streamed'
  <2>1. folded \in 0..Len(stream')
    BY <1>6, <1>7
  <2>2. pin = NoPin \/ pin \in [at : 1..clock, frontier : 0..Len(stream')]
    <3>1. 0..n \subseteq 0..Len(stream')
      BY <1>7
    <3> QED  BY <1>6, <3>1
  <2> QED  BY <1>1, <1>3, <1>7, <2>1, <2>2, KindStays DEF Streamed, T
<1>12. Ahead'
  <2>1. \A i \in (folded + 1)..Len(stream') : stream'[i].at >= watermark - MaxDuration
    <3>1. folded \in Nat
      BY <1>6
    <3>2. \A i \in (folded + 1)..n : stream[i].at >= watermark - MaxDuration
      BY DEF IInv, Ahead, n
    <3> SUFFICES ASSUME NEW i \in (folded + 1)..Len(stream')
                 PROVE  stream'[i].at >= watermark - MaxDuration
      OBVIOUS
    <3>3. CASE i \in (folded + 1)..n
      BY <1>7, <1>10, <3>1, <3>2, <3>3
    <3>4. CASE i \in (n + 1)..Len(stream')
      BY <1>2, <1>8, <3>4
    <3> QED  BY <1>9, <3>1, <3>3, <3>4
  <2>2. ASSUME pin # NoPin
        PROVE  /\ pin.at >= watermark
               /\ \A i \in (pin.frontier + 1)..Len(stream') : stream'[i].at >= pin.at - MaxDuration
    <3>1. pin.frontier \in Nat /\ pin.at \in 1..clock
      BY <1>6, <2>2
    <3>2. /\ pin.at >= watermark
          /\ \A i \in (pin.frontier + 1)..n : stream[i].at >= pin.at - MaxDuration
      BY <2>2 DEF IInv, Ahead, n
    <3>3. began[p] >= pin.at - MaxDuration
      BY <1>2, <3>1
    <3> SUFFICES ASSUME NEW i \in (pin.frontier + 1)..Len(stream')
                 PROVE  stream'[i].at >= pin.at - MaxDuration
      BY <3>2
    <3>4. CASE i \in (pin.frontier + 1)..n
      BY <1>7, <1>10, <3>1, <3>2, <3>4
    <3>5. CASE i \in (n + 1)..Len(stream')
      BY <1>8, <3>3, <3>5
    <3> QED  BY <1>9, <3>1, <3>4, <3>5
  <2> QED  BY <1>1, <1>3, <2>1, <2>2 DEF Ahead
<1>13. History' /\ Rows' /\ Polled'
  BY <1>1, <1>2, <1>3, BalanceStays
<1>14. Bounds'
  <2>1. calls' \in Nat
    BY <1>3 DEF IInv, Bounds
  <2> QED  BY <1>1, <1>3, <2>1, EndsWithin
<1> QED  BY <1>11, <1>12, <1>13, <1>14 DEF IInv

\* Folding a posting keeps the invariant: what is ahead of the rollup is recent
\* to the watermark, however long ago it was posted.
LEMMA FoldKeeps ==
  ASSUME IInv, Fold
  PROVE  IInv'
<1> DEFINE k == folded + 1
           now == stream[k].at
           b == <<stream[k].posting>>
<1>1. /\ folded < Len(stream) /\ folded' = folded + 1 /\ Write(now, b)
      /\ UNCHANGED <<kind, stream, clock, begun, began, consumer>>
  BY DEF Fold
<1>2. UNCHANGED <<pin, watermark, seen>>
  BY <1>1 DEF consumer
<1>3. /\ stream \in Seq([posting : Posting, at : 1..clock]) /\ folded \in 0..Len(stream)
      /\ Len(stream) \in Nat
      /\ pin = NoPin \/ pin \in [at : 1..clock, frontier : 0..Len(stream)]
      /\ \A i \in (folded + 1)..Len(stream) : stream[i].at >= watermark - MaxDuration
  BY DEF IInv, Streamed, Ahead
<1>4. k \in 1..Len(stream) /\ k \in (folded + 1)..Len(stream) /\ k \in Nat
  BY <1>1, <1>3
<1>5. stream[k] \in [posting : Posting, at : 1..clock]
  <2> DEFINE T == [posting : Posting, at : 1..clock]
  <2>1. stream \in Seq(T) /\ k \in 1..Len(stream)
    BY <1>3, <1>4
  <2> HIDE DEF T, k
  <2>2. stream[k] \in T
    BY <2>1
  <2> QED  BY <2>2 DEF T
<1>6. b \in Seq(Posting) /\ now \in 1..clock /\ now >= watermark - MaxDuration
  <2>1. stream[k].posting \in Posting /\ stream[k].at \in 1..clock
    BY <1>5
  <2> HIDE DEF k
  <2> QED  BY <1>3, <1>4, <2>1 DEF k
<1> HIDE DEF b, now
<1>7. History' /\ Rows' /\ Polled' /\ calls' \in Nat
  BY <1>1, <1>2, <1>6, WriteKeeps
<1>8. Bounds'
  BY <1>1, <1>2, <1>7 DEF IInv, Bounds
<1>9. Streamed'
  BY <1>1, <1>2, <1>3, <1>4, KindStays DEF Streamed
<1>10. Ahead'
  <2>1. \A i \in (folded' + 1)..Len(stream) : i \in (folded + 1)..Len(stream)
    BY <1>1, <1>3
  <2> QED  BY <1>1, <1>2, <1>3, <2>1 DEF IInv, Ahead
<1> QED  BY <1>7, <1>8, <1>9, <1>10 DEF IInv

\* In every reachable state the rows are those of a line of all posted entries,
\* the consumer has of each date the newest row or one older than a row it will
\* still ask for, and so it will for what the rollup has not folded yet
\* (update_cumulative_balances_in_op, apply_ec_rollup_in_op, list_modified_since).
THEOREM Invariance == Spec => []IInv
<1>1. IInv /\ [Next]_vars => IInv'
  <2> SUFFICES ASSUME IInv, [Next]_vars  PROVE IInv'
    OBVIOUS
  <2>1. CASE \E p \in Posters : Begin(p)
    BY <2>1, BeginKeeps
  <2>2. CASE \E p \in Posters, b \in Batches[kind] : Post(p, b)
    BY <2>2, PostKeeps
  <2>3. CASE \E p \in Posters, b \in Batches[kind] : Publish(p, b)
    BY <2>3, PublishKeeps
  <2>4. CASE Fold
    BY <2>4, FoldKeeps
  <2>5. CASE Tick
    BY <2>5, TickKeeps
  <2>6. CASE Pin
    BY <2>6, PinKeeps
  <2>7. CASE Poll
    BY <2>7, PollKeeps
  <2>8. CASE UNCHANGED vars
    <3>1. /\ UNCHANGED <<balance, rollup, clock, begun, began, consumer>>
          /\ UNCHANGED <<calls, pin, watermark, seen>>
      BY <2>8 DEF vars, balance, consumer
    <3>2. clock' \in Nat /\ clock' >= clock
      BY <3>1 DEF IInv, Bounds
    <3>3. History' /\ Rows' /\ Polled'
      BY <3>1, <3>2, BalanceStays
    <3>4. Streamed' /\ Ahead'
      BY <3>1, <3>2, StreamStays
    <3>5. Bounds'
      BY <3>1 DEF IInv, Bounds
    <3> QED  BY <3>3, <3>4, <3>5 DEF IInv
  <2> QED  BY <2>1, <2>2, <2>3, <2>4, <2>5, <2>6, <2>7, <2>8 DEF Next
<1> QED  BY <1>1, Starts, PTL DEF Spec

\* Every row, and every row the consumer has got, is well formed: its entry and
\* the last entries of its layers are posted ones, it is numbered from 1 and was
\* modified no later than now.
THEOREM TypeCorrect == Spec => []TypeOK
<1>1. IInv => TypeOK
  <2> SUFFICES ASSUME IInv  PROVE TypeOK
    OBVIOUS
  <2>1. \A r \in rows : WellFormed(r)
    BY RowsWellFormed DEF IInv
  <2>2. \A d \in Days : WellFormed(seen[d])
    BY DEF IInv, Polled
  <2>3. \A r \in rows \cup {seen[d] : d \in Days} : WellFormed(r)
    BY <2>1, <2>2
  <2>4. /\ calls \in Nat /\ begun \in 0..MaxCalls /\ clock \in 1..MaxTime
        /\ watermark \in 0..clock /\ began \in [Posters -> 0..clock]
    BY DEF IInv, Bounds
  <2>5. /\ kind \in Kinds
        /\ stream \in Seq([posting : Posting, at : 1..clock]) /\ folded \in 0..Len(stream)
        /\ pin = NoPin \/ pin \in [at : 1..clock, frontier : 0..Len(stream)]
    BY DEF IInv, Streamed
  <2> QED  BY <2>3, <2>4, <2>5 DEF TypeOK, WellFormed
<1> QED  BY <1>1, Invariance, PTL

\* However batches are dated, and at whichever of their dates they have entries
\* of the balance, every pass can replay the rows it has deleted: each follows
\* an entry, and none has the date of the entries (update_effective_balances,
\* find_for_update, re_calculate_snapshots).
THEOREM PassesNeverPanic == Spec => []NeverPanics
<1>1. IInv => NeverPanics
  BY DEF IInv, History, NeverPanics
<1> QED  BY <1>1, Invariance, PTL

\* Whatever is posted with which delay, and however far the rollup lags behind,
\* a consumer that waits for its pinned frontier and asks list_modified_since
\* from its watermark minus the overlap holds after each poll the newest row of
\* every date, provided no transaction stays open longer than the overlap and
\* its watermarks are the times it pinned the frontiers.
THEOREM PollerCurrent == Spec => PollerIsCurrent
<1>1. IInv /\ [Next]_vars => [Poll => \A d \in Days : seen'[d] = Newest(d)]_vars
  <2> SUFFICES ASSUME IInv, Poll  PROVE \A d \in Days : seen'[d] = Newest(d)
    OBVIOUS
  <2>1. \A d \in Days : NewestOf(rows, d) = Newest(d)
    BY DEF NewestOf, NewestIn, Newest
  <2> QED  BY <2>1, PollGets
<1> QED  BY <1>1, Invariance, PTL DEF Spec, PollerIsCurrent

----------------------------------------------------------------------------
(* The rows of a line are a replay of its entries *)

\* The row of a position, with its snapshot.
LEMMA RowHas ==
  ASSUME NEW R, NEW t, NEW n, NEW P, NEW s, Ledger(R, t, n, P, s), NEW a \in 1..n
  PROVE  /\ RowAt(t, P, s, a) \in R
         /\ RowAt(t, P, s, a).effective = P[t[a]].effective
         /\ RowAt(t, P, s, a).allTime = a /\ RowAt(t, P, s, a).snapshot = s[a]
         /\ RowAt(t, P, s, a).snapshot.entry = t[a]
         /\ Accumulated(t, P, a, s[a]) /\ Versioned(t, P, a, s[a].version)
         /\ a \in Nat /\ n \in Nat
<1>1. /\ RowAt(t, P, s, a) \in R
      /\ RowAt(t, P, s, a).effective = P[t[a]].effective
      /\ RowAt(t, P, s, a).allTime = a /\ RowAt(t, P, s, a).snapshot = s[a]
  BY RowIs
<1>2. Accumulated(t, P, a, s[a]) /\ Versioned(t, P, a, s[a].version) /\ n \in Nat
  BY DEF Ledger, Line
<1>3. s[a].entry = t[a]
  BY <1>2 DEF Accumulated
<1> QED  BY <1>1, <1>2, <1>3

\* The line has an entry for each place, and as many rows.
LEMMA LineSize ==
  ASSUME NEW R, NEW t, NEW n, NEW P, NEW s, Ledger(R, t, n, P, s)
  PROVE  Cardinality(Of(t, n)) = n /\ Cardinality(R) = n
<1>1. Line(t, n, P) /\ n \in Nat /\ R = {RowAt(t, P, s, a) : a \in 1..n}
  BY DEF Ledger, Line
<1>2. Enumerates(t, n, Of(t, n))
  <2>1. t = [a \in 1..n |-> t[a]]
    BY <1>1 DEF Line
  <2>2. t \in [1..n -> Of(t, n)]
    BY <2>1 DEF Of
  <2>3. \A i, j \in 1..n : i < j => t[i] # t[j]
    BY <1>1 DEF Line
  <2> QED  BY <2>2, <2>3 DEF Enumerates, Of
<1> DEFINE q == [a \in 1..n |-> RowAt(t, P, s, a)]
<1>3. Enumerates(q, n, R)
  <2>1. q \in [1..n -> R] /\ \A x \in R : \E i \in 1..n : q[i] = x
    BY <1>1
  <2>2. \A i \in 1..n : q[i].allTime = i
    BY DEF RowAt
  <2> HIDE DEF q
  <2>3. \A i, j \in 1..n : i < j => q[i] # q[j]
    BY <1>1, <2>2
  <2> QED  BY <2>1, <2>3 DEF Enumerates
<1> HIDE DEF q
<1>4. Cardinality(Of(t, n)) = n
  BY <1>1, <1>2, EnumeratedSize
<1>5. Cardinality(R) = n
  BY <1>1, <1>3, EnumeratedSize
<1> QED  BY <1>4, <1>5

\* A version counts the rows of its date up to it.
LEMMA VersionCounts ==
  ASSUME NEW R, NEW t, NEW n, NEW P, NEW s, Ledger(R, t, n, P, s), NEW a \in 1..n,
         NEW S, S = {o \in R : o.effective = P[t[a]].effective /\ o.allTime <= a}
  PROVE  s[a].version = Cardinality(S)
<1> DEFINE v == s[a].version
           row(b) == RowAt(t, P, s, b)
           q == [i \in 1..v |-> row(a - v + i)]
<1>1. /\ n \in Nat /\ a \in Nat /\ v \in 1..a
      /\ \A b \in 1..a : P[t[b]].effective = P[t[a]].effective <=> b > a - v
  BY RowHas DEF Versioned
<1>2. R = {row(b) : b \in 1..n}
  BY DEF Ledger
<1>3. \A b \in 1..n : row(b).allTime = b /\ row(b).effective = P[t[b]].effective
  BY RowIs
<1> HIDE DEF v
<1>4. \A i \in 1..v : a - v + i \in 1..n /\ a - v + i \in 1..a /\ a - v + i > a - v
                      /\ a - v + i <= a
  BY <1>1
<1>5. \A i \in 1..v : q[i] \in S /\ q[i].allTime = a - v + i
  <2> SUFFICES ASSUME NEW i \in 1..v  PROVE q[i] \in S /\ q[i].allTime = a - v + i
    OBVIOUS
  <2> DEFINE b == a - v + i
  <2>1. b \in 1..n /\ b \in 1..a /\ b > a - v /\ b <= a
    BY <1>4
  <2>2. q[i] = row(b)
    OBVIOUS
  <2> HIDE DEF b, q, row
  <2>3. P[t[b]].effective = P[t[a]].effective
    BY <1>1, <2>1
  <2>4. q[i] \in S /\ q[i].allTime = b
    BY <1>2, <1>3, <2>1, <2>2, <2>3
  <2> QED  BY <2>4 DEF b
<1>6. \A x \in S : \E i \in 1..v : q[i] = x
  <2> SUFFICES ASSUME NEW x \in S  PROVE \E i \in 1..v : q[i] = x
    OBVIOUS
  <2>1. PICK b \in 1..n : x = row(b)
    BY <1>2
  <2>2. b <= a /\ P[t[b]].effective = P[t[a]].effective
    BY <1>3, <2>1
  <2>3. b \in 1..a
    BY <1>1, <2>2
  <2>4. b > a - v
    BY <1>1, <2>2, <2>3
  <2> DEFINE i == b - (a - v)
  <2>5. i \in 1..v /\ a - v + i = b
    BY <1>1, <2>3, <2>4
  <2> HIDE DEF i
  <2>6. q[i] = row(b)
    BY <2>5
  <2> QED  BY <2>1, <2>5, <2>6
<1>7. Enumerates(q, v, S)
  <2>1. q = [i \in 1..v |-> q[i]]
    OBVIOUS
  <2> HIDE DEF q
  <2>2. q \in [1..v -> S]
    BY <1>5, <2>1
  <2>3. \A i, j \in 1..v : i < j => q[i] # q[j]
    BY <1>1, <1>5
  <2> QED  BY <1>6, <2>2, <2>3 DEF Enumerates
<1> HIDE DEF q
<1>8. v \in Nat
  BY <1>1
<1>9. Cardinality(S) = v
  BY <1>7, <1>8, EnumeratedSize
<1> QED  BY <1>9 DEF v

\* The entries of a layer up to a row are those of the line up to it.
LEMMA UpToIs ==
  ASSUME NEW t, NEW n, NEW s, Ledger(rows, t, n, posted, s), NEW a \in 1..n,
         NEW r, r = RowAt(t, posted, s, a), NEW l
  PROVE  UpTo(r, l) = Ids(t, posted, 1, a, l)
<1> DEFINE row(b) == RowAt(t, posted, s, b)
<1>1. n \in Nat /\ a \in Nat /\ r.allTime = a
  BY RowHas
<1>2. rows = {row(b) : b \in 1..n}
  BY DEF Ledger
<1>3. \A b \in 1..n : row(b).allTime = b /\ row(b).snapshot.entry = t[b] /\ b \in Nat
  BY RowHas
<1>4. \A b : b \in 1..a <=> b \in 1..n /\ b <= a
  BY <1>1
<1> HIDE DEF row
<1>5. ASSUME NEW x \in UpTo(r, l)  PROVE x \in Ids(t, posted, 1, a, l)
  <2>1. PICK q \in rows : /\ q.allTime <= r.allTime /\ posted[q.snapshot.entry].layer = l
                          /\ x = q.snapshot.entry
    BY DEF UpTo
  <2>2. PICK b \in 1..n : q = row(b)
    BY <1>2
  <2>3. b \in 1..a /\ posted[t[b]].layer = l /\ x = t[b]
    BY <1>1, <1>3, <1>4, <2>1, <2>2
  <2> QED  BY <2>3 DEF Ids
<1>6. ASSUME NEW x \in Ids(t, posted, 1, a, l)  PROVE x \in UpTo(r, l)
  <2>1. PICK b \in 1..a : posted[t[b]].layer = l /\ x = t[b]
    BY DEF Ids
  <2>2. /\ row(b) \in rows /\ row(b).allTime <= r.allTime
        /\ posted[row(b).snapshot.entry].layer = l /\ x = row(b).snapshot.entry
    BY <1>1, <1>2, <1>3, <1>4, <2>1
  <2> QED  BY <2>2 DEF UpTo
<1> QED  BY <1>5, <1>6

\* The last entry of a layer is that of the row with the highest number.
LastUpTo(r, l) ==
  r.snapshot.by[l] \in
    IF UpTo(r, l) = {} THEN {UNASSIGNED_ENTRY_ID}
    ELSE {o.snapshot.entry : o \in {q \in rows :
            /\ q.snapshot.entry \in UpTo(r, l)
            /\ \A m \in rows : m.snapshot.entry \in UpTo(r, l) => m.allTime <= q.allTime}}

\* The last entry of a layer in a row is that of the last row of the layer.
LEMMA LastIs ==
  ASSUME NEW t, NEW n, NEW s, Ledger(rows, t, n, posted, s), NEW a \in 1..n,
         NEW r, r = RowAt(t, posted, s, a), NEW l \in Layers
  PROVE  LastUpTo(r, l)
<1> DEFINE row(b) == RowAt(t, posted, s, b)
           X == UpTo(r, l)
           x == r.snapshot.by[l]
<1>1. n \in Nat /\ a \in Nat /\ Line(t, n, posted)
  BY RowHas DEF Ledger
<1>2. rows = {row(b) : b \in 1..n}
  BY DEF Ledger
<1>3. \A b \in 1..n : row(b).allTime = b /\ row(b).snapshot.entry = t[b] /\ b \in Nat
  BY RowHas
<1>4. LastId(t, posted, a, l, x)
  <2>1. Accumulated(t, posted, a, s[a]) /\ r.snapshot = s[a]
    BY RowHas
  <2> QED  BY <2>1 DEF Accumulated
<1>5. X = {t[c] : c \in {d \in 1..a : posted[t[d]].layer = l}}
  BY UpToIs DEF Ids
<1>6. \A c \in 1..a : c \in 1..n
  BY <1>1
<1> HIDE DEF x, X, row
<1>7. CASE x = UNASSIGNED_ENTRY_ID /\ \A c \in 1..a : posted[t[c]].layer # l
  <2>1. X = {}
    BY <1>5, <1>7
  <2> QED  BY <1>7, <2>1 DEF LastUpTo, x, X
<1>8. CASE \E b \in 1..a : /\ posted[t[b]].layer = l /\ x = t[b]
                           /\ \A c \in (b + 1)..a : posted[t[c]].layer # l
  <2>1. PICK b \in 1..a : /\ posted[t[b]].layer = l /\ x = t[b]
                          /\ \A c \in (b + 1)..a : posted[t[c]].layer # l
    BY <1>8
  <2>2. b \in 1..n /\ t[b] \in X /\ X # {}
    BY <1>5, <1>6, <2>1
  <2>3. ASSUME NEW m \in rows, m.snapshot.entry \in X
        PROVE  m.allTime <= row(b).allTime
    <3>1. PICK c \in 1..n : m = row(c)
      BY <1>2
    <3>2. t[c] \in X
      BY <1>3, <2>3, <3>1
    <3>3. PICK d \in 1..a : posted[t[d]].layer = l /\ t[c] = t[d]
      BY <1>5, <3>2
    <3>4. c = d
      BY <1>1, <1>6, <3>3 DEF Line
    <3>5. c <= b
      BY <1>1, <2>1, <3>3, <3>4
    <3> QED  BY <1>3, <2>2, <3>1, <3>5
  <2>4. row(b) \in rows /\ row(b).snapshot.entry = x
    BY <1>2, <1>3, <2>1, <2>2
  <2>5. x \in X
    BY <2>1, <2>2
  <2> QED  BY <2>2, <2>3, <2>4, <2>5 DEF LastUpTo, x, X
<1> QED  BY <1>4, <1>7, <1>8 DEF LastId

\* However entries are back-dated, the rows re_calculate_snapshots leaves are
\* the replay of all entries from nothing.
THEOREM RowsAreReplay == Spec => []RowsReplay
<1>1. IInv => RowsReplay
  <2> SUFFICES ASSUME IInv  PROVE RowsReplay
    OBVIOUS
  <2>1. PICK t, n, s : Ledger(rows, t, n, posted, s) /\ Of(t, n) = DOMAIN posted
    BY DEF IInv, Rows, Book
  <2> DEFINE row(a) == RowAt(t, posted, s, a)
  <2>2. /\ n \in Nat /\ Line(t, n, posted) /\ rows = {row(a) : a \in 1..n}
    BY <2>1 DEF Ledger, Line
  <2>3. /\ posted \in Seq(Entry) /\ Len(posted) \in Nat /\ DOMAIN posted = 1..Len(posted)
    BY DEF IInv, History
  <2>4. Cardinality(DOMAIN posted) = n /\ Cardinality(rows) = n
    BY <2>1, LineSize
  <2>5. Len(posted) = n
    <3>1. PICK m : m = Len(posted)
      OBVIOUS
    <3>2. m \in Nat
      BY <2>3, <3>1
    <3>3. 1 \in Int /\ m \in Int
      BY <3>2
    <3>4. Cardinality(1..m) = IF 1 > m THEN 0 ELSE m - 1 + 1
      BY ONLY <3>3, FS_Interval
    <3>5. Cardinality(1..m) = m
      BY ONLY <3>2, <3>4
    <3> QED  BY <2>3, <2>4, <3>1, <3>5
  <2>6. \A a \in 1..n : /\ row(a).effective = posted[t[a]].effective
                        /\ row(a).allTime = a /\ row(a).snapshot = s[a]
                        /\ row(a).snapshot.entry = t[a]
                        /\ Accumulated(t, posted, a, s[a])
    BY <2>1, RowHas
  <2> HIDE DEF row
  <2>7. {r.allTime : r \in rows} = DOMAIN posted
    BY <2>2, <2>3, <2>5, <2>6
  <2>8. {r.snapshot.entry : r \in rows} = DOMAIN posted
    <3>1. {r.snapshot.entry : r \in rows} = {t[a] : a \in 1..n}
      BY <2>2, <2>6
    <3> QED  BY <2>1, <3>1 DEF Of
  <2>9. ASSUME NEW r \in rows
        PROVE  /\ r.effective = posted[r.snapshot.entry].effective
               /\ r.snapshot.version = Cardinality({o \in rows : /\ o.effective = r.effective
                                                                 /\ o.allTime <= r.allTime})
    <3>1. PICK a \in 1..n : r = row(a)
      BY <2>2
    <3> DEFINE S == {o \in rows : o.effective = posted[t[a]].effective /\ o.allTime <= a}
    <3>2. S = {o \in rows : o.effective = r.effective /\ o.allTime <= r.allTime}
      BY <2>6, <3>1
    <3>3. s[a].version = Cardinality(S)
      <4>1. S = {o \in rows : o.effective = posted[t[a]].effective /\ o.allTime <= a}
        OBVIOUS
      <4> HIDE DEF S
      <4> QED  BY <2>1, <4>1, VersionCounts
    <3>4. r.effective = posted[r.snapshot.entry].effective
      BY <2>6, <3>1
    <3>5. r.snapshot.version = s[a].version
      BY <2>6, <3>1
    <3> QED  BY <3>2, <3>3, <3>4, <3>5
  <2>10. ASSUME NEW r \in rows, NEW l \in Layers
         PROVE  r.snapshot.amount[l] = SetToBag(UpTo(r, l)) /\ LastUpTo(r, l)
    <3>1. PICK a \in 1..n : r = row(a)
      BY <2>2
    <3>2. r = RowAt(t, posted, s, a)
      BY <3>1 DEF row
    <3>3. UpTo(r, l) = Ids(t, posted, 1, a, l)
      BY <2>1, <3>2, UpToIs
    <3>4. s[a].amount[l] = SetToBag(Ids(t, posted, 1, a, l))
      BY <2>6 DEF Accumulated
    <3>5. r.snapshot.amount[l] = SetToBag(UpTo(r, l))
      BY <2>6, <3>1, <3>3, <3>4
    <3>6. LastUpTo(r, l)
      BY <2>1, <3>2, LastIs
    <3> QED  BY <3>5, <3>6
  <2>11. ASSUME NEW r \in rows, NEW o \in rows, r.allTime < o.allTime
         PROVE  \/ r.effective < o.effective
                \/ LET e == posted[r.snapshot.entry]  f == posted[o.snapshot.entry] IN
                   /\ r.effective = o.effective
                   /\ e.call <= f.call
                   /\ (e.call = f.call /\ e.posting = f.posting) => e.sequence < f.sequence
    <3>1. PICK a \in 1..n : r = row(a)
      BY <2>2
    <3>2. PICK b \in 1..n : o = row(b)
      BY <2>2
    <3>3. a < b
      BY <2>6, <2>11, <3>1, <3>2
    <3>4. Earlier(posted[t[a]], posted[t[b]])
      BY <2>2, <3>3 DEF Line
    <3>5. /\ r.effective = posted[t[a]].effective /\ r.snapshot.entry = t[a]
          /\ o.effective = posted[t[b]].effective /\ o.snapshot.entry = t[b]
      BY <2>6, <3>1, <3>2
    <3> QED  BY <3>4, <3>5 DEF Earlier
  <2> QED  BY <2>4, <2>5, <2>7, <2>8, <2>9, <2>10, <2>11 DEF RowsReplay, LastUpTo
<1> QED  BY <1>1, Invariance, PTL

----------------------------------------------------------------------------
(* The balance of a range *)

\* Of the rows up to position k the last of the line is the latest.
LEMMA LatestIs ==
  ASSUME NEW R, NEW t, NEW n, NEW P, NEW s, Ledger(R, t, n, P, s), NEW k \in 0..n,
         NEW S, S = {RowAt(t, P, s, a) : a \in 1..k}
  PROVE  Latest(S) = IF k = 0 THEN NoRow ELSE RowAt(t, P, s, k)
<1> DEFINE row(a) == RowAt(t, P, s, a)
<1>1. Line(t, n, P) /\ n \in Nat /\ k \in Nat
  BY DEF Ledger, Line
<1>2. \A a \in 1..k : a \in 1..n /\ a \in Nat
  BY <1>1
<1>3. CASE k = 0
  BY <1>3 DEF Latest
<1>4. CASE k # 0
  <2>1. k \in 1..k /\ k \in 1..n /\ row(k) \in S /\ S # {}
    BY <1>1, <1>4
  <2>2. \A a \in 1..k : /\ row(a).effective = P[t[a]].effective /\ row(a).effective \in Nat
                        /\ row(a).snapshot = s[a] /\ s[a].version \in Nat
                        /\ Versioned(t, P, a, s[a].version)
    <3> SUFFICES ASSUME NEW a \in 1..k
                 PROVE  /\ row(a).effective = P[t[a]].effective /\ row(a).effective \in Nat
                        /\ row(a).snapshot = s[a] /\ s[a].version \in Nat
                        /\ Versioned(t, P, a, s[a].version)
      OBVIOUS
    <3>1. a \in 1..n /\ a \in Nat
      BY <1>2
    <3>2. /\ row(a).effective = P[t[a]].effective /\ row(a).snapshot = s[a]
          /\ Versioned(t, P, a, s[a].version)
      BY <3>1, RowHas
    <3>3. P[t[a]].effective \in Nat
      BY <1>1, <3>1, EntryAt
    <3>4. s[a].version \in Nat
      BY <3>1, <3>2 DEF Versioned
    <3> QED  BY <3>2, <3>3, <3>4
  <2>3. \A a \in 1..k : a # k =>
          \/ row(a).effective < row(k).effective
          \/ row(a).effective = row(k).effective
             /\ row(a).snapshot.version < row(k).snapshot.version
    <3> SUFFICES ASSUME NEW a \in 1..k, a # k
                 PROVE  \/ row(a).effective < row(k).effective
                        \/ row(a).effective = row(k).effective
                           /\ row(a).snapshot.version < row(k).snapshot.version
      OBVIOUS
    <3>1. a < k /\ a \in 1..n /\ a \in Nat
      BY <1>1, <1>2
    <3>2. Earlier(P[t[a]], P[t[k]])
      BY <1>1, <2>1, <3>1 DEF Line
    <3>3. P[t[a]].effective = P[t[k]].effective => s[k].version > s[a].version
      BY <1>1, <2>1, <2>2, <3>1, VersionsRise
    <3> HIDE DEF row
    <3>4. P[t[a]].effective < P[t[k]].effective \/ P[t[a]].effective = P[t[k]].effective
      BY <3>2 DEF Earlier
    <3> QED  BY <2>1, <2>2, <3>3, <3>4
  <2>4. S = {row(a) : a \in 1..k}
    OBVIOUS
  <2> DEFINE top(r) == \A o \in S : \/ o.effective < r.effective
                                    \/ /\ o.effective = r.effective
                                       /\ o.snapshot.version <= r.snapshot.version
  <2> HIDE DEF row
  <2>5. \A o \in S : \/ o.effective < row(k).effective
                     \/ /\ o.effective = row(k).effective
                        /\ o.snapshot.version <= row(k).snapshot.version
    <3> SUFFICES ASSUME NEW o \in S
                 PROVE  \/ o.effective < row(k).effective
                        \/ /\ o.effective = row(k).effective
                           /\ o.snapshot.version <= row(k).snapshot.version
      OBVIOUS
    <3>1. PICK a \in 1..k : o = row(a)
      BY <2>4
    <3> QED  BY <2>1, <2>2, <2>3, <3>1
  <2>6. ASSUME NEW r \in S, r # row(k)
        PROVE  ~ (\A o \in S : \/ o.effective < r.effective
                               \/ /\ o.effective = r.effective
                                  /\ o.snapshot.version <= r.snapshot.version)
    <3>1. PICK a \in 1..k : r = row(a)
      BY <2>4
    <3>2. a # k
      BY <2>6, <3>1
    <3>3. ~ \/ row(k).effective < r.effective
            \/ /\ row(k).effective = r.effective
               /\ row(k).snapshot.version <= r.snapshot.version
      BY <2>1, <2>2, <2>3, <3>1, <3>2
    <3> QED  BY <2>1, <3>3
  <2>7. Latest(S) = CHOOSE r \in S : \A o \in S :
                      \/ o.effective < r.effective
                      \/ o.effective = r.effective /\ o.snapshot.version <= r.snapshot.version
    BY <2>1 DEF Latest
  <2>8. Latest(S) = row(k)
    BY <2>1, <2>5, <2>6, <2>7
  <2> QED  BY <1>4, <2>8 DEF row
<1> QED  BY <1>3, <1>4

\* The rows before a day are those up to a position.
Before(t, n, P, day, k) ==
  k \in 0..n /\ \A a \in 1..n : P[t[a]].effective < day <=> a <= k

\* The entries before a day are those up to some position.
LEMMA SplitsBefore ==
  ASSUME NEW t, NEW n, NEW P, Line(t, n, P), NEW day \in Nat
  PROVE  \E k : Before(t, n, P, day, k)
<1>1. \A a \in 1..n : P[t[a]].effective \in Nat /\ a \in Nat
  BY EntryAt
<1>2. CASE day = 0
  <2>1. Before(t, n, P, day, 0)
    BY <1>1, <1>2 DEF Before, Line
  <2> QED  BY <2>1
<1>3. CASE day # 0
  <2>1. day - 1 \in Nat
    BY <1>3
  <2>2. PICK k : Past(t, n, P, day - 1, k)
    BY <2>1, LineSplits
  <2>3. Before(t, n, P, day, k)
    BY <1>1, <2>2 DEF Past, Before
  <2> QED  BY <2>3
<1> QED  BY <1>2, <1>3

\* The rows up to a position.
LEMMA LedgerSplit ==
  ASSUME NEW R, NEW t, NEW n, NEW P, NEW s, Ledger(R, t, n, P, s), NEW k \in 0..n,
         NEW S, S \subseteq R, \A a \in 1..n : RowAt(t, P, s, a) \in S <=> a <= k
  PROVE  S = {RowAt(t, P, s, a) : a \in 1..k}
<1>1. n \in Nat /\ R = {RowAt(t, P, s, a) : a \in 1..n}
  BY DEF Ledger, Line
<1>2. \A a : a \in 1..k <=> a \in 1..n /\ a <= k
  BY <1>1
<1> QED  BY <1>1, <1>2

\* The rows that bound a range.
LEMMA OpeningIs ==
  ASSUME NEW t, NEW n, NEW s, Ledger(rows, t, n, posted, s), NEW from \in Nat,
         NEW k, Before(t, n, posted, from, k)
  PROVE  Opening(from) = IF k = 0 THEN NoRow ELSE RowAt(t, posted, s, k)
<1> DEFINE S == {r \in rows : r.effective < from}
<1>1. k \in 0..n /\ \A a \in 1..n : posted[t[a]].effective < from <=> a <= k
  BY DEF Before
<1>2. \A a \in 1..n : RowAt(t, posted, s, a) \in S <=> a <= k
  <2>1. \A a \in 1..n : /\ RowAt(t, posted, s, a) \in rows
                        /\ RowAt(t, posted, s, a).effective = posted[t[a]].effective
    BY RowIs
  <2> QED  BY <1>1, <2>1
<1>3. S \subseteq rows /\ Opening(from) = Latest(S)
  BY DEF Opening
<1> HIDE DEF S
<1>4. S = {RowAt(t, posted, s, a) : a \in 1..k}
  BY <1>1, <1>2, <1>3, LedgerSplit
<1> QED  BY <1>1, <1>3, <1>4, LatestIs

\* The row that closes a range.
LEMMA FindIs ==
  ASSUME NEW t, NEW n, NEW s, Ledger(rows, t, n, posted, s), NEW until \in Nat,
         NEW k, Past(t, n, posted, until, k)
  PROVE  Find(until) = IF k = 0 THEN NoRow ELSE RowAt(t, posted, s, k)
<1> DEFINE S == {r \in rows : r.effective <= until}
<1>1. k \in 0..n /\ \A a \in 1..n : posted[t[a]].effective <= until <=> a <= k
  BY DEF Past
<1>2. \A a \in 1..n : RowAt(t, posted, s, a) \in S <=> a <= k
  <2>1. \A a \in 1..n : /\ RowAt(t, posted, s, a) \in rows
                        /\ RowAt(t, posted, s, a).effective = posted[t[a]].effective
    BY RowIs
  <2> QED  BY <1>1, <2>1
<1>3. S \subseteq rows /\ Find(until) = Latest(S)
  BY DEF Find
<1> HIDE DEF S
<1>4. S = {RowAt(t, posted, s, a) : a \in 1..k}
  BY <1>1, <1>2, <1>3, LedgerSplit
<1> QED  BY <1>1, <1>3, <1>4, LatestIs

\* The entries at positions j + 1 to k.
Stretch(t, j, k) == {t[c] : c \in (j + 1)..k}

\* A stretch of a line has as many entries as positions.
LEMMA StretchSize ==
  ASSUME NEW t, NEW n, NEW P, Line(t, n, P), NEW k \in 0..n, NEW j \in 0..k,
         NEW W, W = Stretch(t, j, k)
  PROVE  Cardinality(W) = k - j
<1> USE DEF Stretch
<1> DEFINE q == [i \in 1..(k - j) |-> t[j + i]]
<1>1. n \in Nat /\ k \in Nat /\ j \in Nat /\ j <= k /\ k <= n /\ k - j \in Nat
  BY DEF Line
<1>2. \A i \in 1..(k - j) : j + i \in (j + 1)..k /\ j + i \in 1..n
  BY <1>1
<1>3. q \in [1..(k - j) -> W]
  BY <1>2
<1>4. \A x \in W : \E i \in 1..(k - j) : q[i] = x
  <2> SUFFICES ASSUME NEW x \in W  PROVE \E i \in 1..(k - j) : q[i] = x
    OBVIOUS
  <2>0. PICK c \in (j + 1)..k : x = t[c]
    OBVIOUS
  <2>1. c - j \in 1..(k - j) /\ j + (c - j) = c
    BY <1>1
  <2>2. q[c - j] = t[c]
    BY <2>1
  <2> HIDE DEF q
  <2> QED  BY <2>0, <2>1, <2>2
<1>5. \A a, b \in 1..(k - j) : a < b => q[a] # q[b]
  <2> SUFFICES ASSUME NEW a \in 1..(k - j), NEW b \in 1..(k - j), a < b
               PROVE  q[a] # q[b]
    OBVIOUS
  <2>1. j + a # j + b
    BY <1>1
  <2>2. t[j + a] # t[j + b]
    BY <1>2, <2>1 DEF Line
  <2> QED  BY <2>2
<1>6. Enumerates(q, k - j, W)
  BY <1>3, <1>4, <1>5 DEF Enumerates
<1> HIDE DEF q
<1> QED  BY <1>1, <1>6, EnumeratedSize

\* Z are the entries of layer l that the line has at j + 1 to k.
Between(Z, t, P, j, k, l) ==
  /\ Ids(t, P, 1, j, l) \subseteq Ids(t, P, 1, k, l)
  /\ Ids(t, P, 1, k, l) \ Ids(t, P, 1, j, l) = Z

\* The difference of two sums is the stretch between them.
LEMMA StretchIds ==
  ASSUME NEW t, NEW n, NEW P, Line(t, n, P), NEW k \in 0..n, NEW j \in 0..k, NEW l,
         NEW W, W = Stretch(t, j, k), NEW Z, Z = {x \in W : P[x].layer = l}
  PROVE  Between(Z, t, P, j, k, l)
<1> USE DEF Stretch
<1>1. /\ n \in Nat /\ k \in Nat /\ j \in Nat /\ j <= k /\ k <= n
      /\ \A a, b \in 1..n : a # b => t[a] # t[b]
  BY DEF Line
<1>2. /\ \A c : c \in 1..k <=> c \in 1..j \/ c \in (j + 1)..k
      /\ \A c \in 1..k : c \in 1..n
      /\ \A c \in 1..j : c \in 1..n /\ c \notin (j + 1)..k
  BY <1>1
<1>3. Ids(t, P, 1, j, l) \subseteq Ids(t, P, 1, k, l)
  BY <1>2 DEF Ids
<1>4. ASSUME NEW x \in Ids(t, P, 1, k, l), x \notin Ids(t, P, 1, j, l)
      PROVE  x \in W /\ P[x].layer = l
  <2>1. PICK c \in 1..k : P[t[c]].layer = l /\ x = t[c]
    BY DEF Ids
  <2>2. c \notin 1..j
    BY <1>4, <2>1 DEF Ids
  <2> QED  BY <1>2, <2>1, <2>2
<1>5. ASSUME NEW x \in W, P[x].layer = l
      PROVE  x \in Ids(t, P, 1, k, l) /\ x \notin Ids(t, P, 1, j, l)
  <2>1. PICK c \in (j + 1)..k : x = t[c]
    OBVIOUS
  <2>2. x \in Ids(t, P, 1, k, l)
    BY <1>2, <1>5, <2>1 DEF Ids
  <2>3. ASSUME x \in Ids(t, P, 1, j, l)  PROVE FALSE
    <3>1. PICK d \in 1..j : x = t[d]
      BY <2>3 DEF Ids
    <3>2. c \in 1..n /\ d \in 1..n /\ c # d
      BY <1>2, <2>1, <3>1
    <3> QED  BY <1>1, <2>1, <3>1, <3>2
  <2> QED  BY <2>2, <2>3
<1> QED  BY <1>3, <1>4, <1>5 DEF Between

\* What a range reports, W being the entries within it.
Reported(W, from, until) ==
  /\ BalanceRange(from, until).version = Cardinality(W)
  /\ \A l \in Layers : BalanceRange(from, until).period[l]
                          = SetToBag({x \in W : posted[x].layer = l})

\* The balance of a range is that of the stretch between its bounds.
LEMMA RangeIs ==
  ASSUME NEW t, NEW n, NEW s, Ledger(rows, t, n, posted, s), Of(t, n) = DOMAIN posted,
         NEW from \in Days, NEW until \in Days, from <= until, Find(until) # NoRow,
         NEW W, W = {x \in DOMAIN posted : posted[x].effective \in from..until}
  PROVE  Reported(W, from, until)
<1> DEFINE row(a) == RowAt(t, posted, s, a)
           open == Opening(from)
           close == Find(until)
<1>0. Line(t, n, posted) /\ n \in Nat /\ from \in Nat /\ until \in Nat
  BY EffectiveAssumption DEF Ledger, Line
<1>1. PICK j : Before(t, n, posted, from, j)
  BY <1>0, SplitsBefore
<1>2. PICK k : Past(t, n, posted, until, k)
  BY <1>0, LineSplits
<1>3. /\ j \in 0..n /\ \A a \in 1..n : posted[t[a]].effective < from <=> a <= j
      /\ k \in 0..n /\ \A a \in 1..n : posted[t[a]].effective <= until <=> a <= k
  BY <1>1, <1>2 DEF Before, Past
<1>4. \A a \in 1..n : posted[t[a]].effective \in Nat /\ a \in Nat
  BY <1>0, EntryAt
<1>5. /\ open = IF j = 0 THEN NoRow ELSE row(j)
      /\ close = IF k = 0 THEN NoRow ELSE row(k)
  BY <1>0, <1>1, <1>2, OpeningIs, FindIs
<1>6. k # 0 /\ close = row(k) /\ k \in 1..n
  BY <1>0, <1>3, <1>5
<1>7. j \in 0..k
  <2>1. CASE j = 0
    BY <1>3, <2>1
  <2>2. CASE j # 0
    <3>1. j \in 1..n
      BY <1>3, <2>2
    <3>2. posted[t[j]].effective <= until
      BY <1>0, <1>3, <1>4, <3>1
    <3> QED  BY <1>3, <3>1, <3>2
  <2> QED  BY <2>1, <2>2
<1>8. W = Stretch(t, j, k)
  <2>1. \A c : c \in (j + 1)..k <=> c \in 1..n /\ ~ (c <= j) /\ c <= k
    BY <1>0, <1>3
  <2>2. \A c \in 1..n : posted[t[c]].effective \in from..until <=> c \in (j + 1)..k
    BY <1>0, <1>3, <1>4, <2>1
  <2>3. DOMAIN posted = {t[c] : c \in 1..n}
    BY DEF Of
  <2> QED  BY <2>1, <2>2, <2>3 DEF Stretch
<1>9. Cardinality(W) = k - j
  <2>1. Line(t, n, posted) /\ k \in 0..n /\ j \in 0..k /\ W = Stretch(t, j, k)
    BY <1>0, <1>3, <1>7, <1>8
  <2> QED  BY ONLY <2>1, StretchSize
<1>10. close.allTime = k /\ open.allTime = j
  <2>1. \A a \in 1..n : row(a).allTime = a
    BY RowIs
  <2>2. NoRow.allTime = 0
    BY DEF NoRow
  <2> HIDE DEF row, open, close
  <2> QED  BY <1>3, <1>5, <1>6, <2>1, <2>2
<1>11. ASSUME NEW l \in Layers
       PROVE  BalanceRange(from, until).period[l] = SetToBag({x \in W : posted[x].layer = l})
  <2> DEFINE X == Ids(t, posted, 1, j, l)
             Y == Ids(t, posted, 1, k, l)
             Z == {x \in W : posted[x].layer = l}
  <2>1. X \subseteq Y /\ Y \ X = Z
    <3>1. Z = {x \in W : posted[x].layer = l}
      OBVIOUS
    <3> HIDE DEF Z
    <3>2. Between(Z, t, posted, j, k, l)
      BY <1>0, <1>3, <1>7, <1>8, <3>1, StretchIds
    <3> QED  BY <3>2 DEF Between
  <2>2. \A a \in 1..n : row(a).snapshot.amount[l] = SetToBag(Ids(t, posted, 1, a, l))
    <3> SUFFICES ASSUME NEW a \in 1..n
                 PROVE  row(a).snapshot.amount[l] = SetToBag(Ids(t, posted, 1, a, l))
      OBVIOUS
    <3>1. row(a).snapshot = s[a] /\ Accumulated(t, posted, a, s[a])
      BY RowHas
    <3> QED  BY <3>1 DEF Accumulated
  <2>3. close.snapshot.amount[l] = SetToBag(Y)
    BY <1>6, <2>2
  <2>4. BalanceRange(from, until).period[l] =
          IF open = NoRow THEN close.snapshot.amount[l]
          ELSE close.snapshot.amount[l] (-) open.snapshot.amount[l]
    BY DEF BalanceRange
  <2>5. CASE j = 0
    <3>1. X = {}
      BY <2>5 DEF Ids
    <3>2. open = NoRow
      BY <1>5, <2>5
    <3> HIDE DEF X, Y, Z, open, close
    <3>3. Y = Z
      BY <2>1, <3>1
    <3> QED  BY <2>3, <2>4, <3>2, <3>3 DEF Z
  <2>6. CASE j # 0
    <3>1. j \in 1..n
      BY <1>3, <2>6
    <3>2. open = row(j) /\ open # NoRow
      BY <1>5, <2>6, <3>1, RowIs
    <3>3. open.snapshot.amount[l] = SetToBag(X)
      BY <2>2, <3>1, <3>2
    <3> HIDE DEF X, Y, Z, open, close, row
    <3>4. SetToBag(Y) (-) SetToBag(X) = SetToBag(Z)
      BY <2>1, BagsDiffer
    <3> QED  BY <2>3, <2>4, <3>2, <3>3, <3>4 DEF Z
  <2> QED  BY <2>5, <2>6
<1>12. BalanceRange(from, until).version = close.allTime - open.allTime
  BY DEF BalanceRange
<1> QED  BY <1>9, <1>10, <1>11, <1>12 DEF Reported

\* find_range reports exactly the entries dated within the range, by layer and
\* in number.
THEOREM RangesExact == Spec => []RangesAddUp
<1>1. IInv => RangesAddUp
  <2> SUFFICES ASSUME IInv, NEW from \in Days, NEW until \in Days,
                      from <= until, Find(until) # NoRow
               PROVE  LET within == {x \in DOMAIN posted : posted[x].effective \in from..until}
                      IN /\ BalanceRange(from, until).version = Cardinality(within)
                         /\ \A l \in Layers : BalanceRange(from, until).period[l]
                              = SetToBag({x \in within : posted[x].layer = l})
    BY DEF RangesAddUp
  <2>1. PICK t, n, s : Ledger(rows, t, n, posted, s) /\ Of(t, n) = DOMAIN posted
    BY DEF IInv, Rows, Book
  <2> DEFINE W == {x \in DOMAIN posted : posted[x].effective \in from..until}
  <2>2. W = {x \in DOMAIN posted : posted[x].effective \in from..until}
    OBVIOUS
  <2> HIDE DEF W
  <2>3. Reported(W, from, until)
    BY <2>1, <2>2, RangeIs
  <2> QED  BY <2>2, <2>3 DEF Reported
<1> QED  BY <1>1, Invariance, PTL
=============================================================================
