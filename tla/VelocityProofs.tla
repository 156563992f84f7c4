--------------------------- MODULE VelocityProofs ---------------------------
(***************************************************************************)
(* Proofs about Velocity, for any postings, attachments, controls, limits  *)
(* and windows: no committed entry broke a limit, what a posting enforces  *)
(* against is the committed balance until it commits, a batch is enforced  *)
(* as its entries one by one would be, no set of transactions waits for    *)
(* itself, and every balance is the sum of the committed entries.          *)
(***************************************************************************)
EXTENDS Velocity, Induction

----------------------------------------------------------------------------
(* Limits *)

\* The rows a posting writes were all enforced.
LEMMA NewRowsWithin ==
  ASSUME NEW p \in Posters, Accepts(p), NEW r \in NewRows(p)
  PROVE  Within(r.key.limit, r.at, r.sums)
<1>1. \E k \in KeysOf(batch[p], seen[p]) : \E i \in Positions(p, k) :
        r.key = k /\ r.at = at[p] /\ r.sums = Rows(p, k)[i].sums
  BY DEF NewRows
<1> QED  BY <1>1 DEF Accepts

\* The history only grows by what a posting that has passed enforcement adds.
LEMMA HistoryGrows ==
  ASSUME [Next]_vars
  PROVE  \/ history' = history
         \/ \E p \in Posters : Accepts(p) /\ history' = history \cup NewRows(p)
<1>1. ASSUME NEW p \in Posters, Commit(p)
      PROVE  Accepts(p) /\ history' = history \cup NewRows(p)
  BY <1>1 DEF Commit
<1>2. CASE \E p \in Posters : Commit(p)
  BY <1>1, <1>2
<1>3. ASSUME ~ \E p \in Posters : Commit(p)  PROVE  history' = history
  BY <1>3 DEF Next, vars, committedVars, ReadAccounts, ReadAncestors, Lock,
     ReadBalances, AddLimit, ListLimits, Insert, CommitAttach, Abort
<1> QED  BY <1>2, <1>3

\* No entry was ever committed that took a velocity balance over a limit that
\* applied at its time.
THEOREM LimitsHold == Spec => []LimitHolds
<1>1. Init => LimitHolds
  BY DEF Init, LimitHolds
<1>2. ASSUME LimitHolds, [Next]_vars  PROVE  LimitHolds'
  <2>1. CASE history' = history
    BY <1>2, <2>1 DEF LimitHolds, Within, Active, Available
  <2>2. ASSUME NEW p \in Posters, Accepts(p), history' = history \cup NewRows(p)
        PROVE  LimitHolds'
    <3>1. \A r \in history' : Within(r.key.limit, r.at, r.sums)
      BY <1>2, <2>2, NewRowsWithin DEF LimitHolds
    <3> QED  BY <3>1 DEF LimitHolds, Within, Active, Available
  <2> QED  BY <1>2, <2>1, <2>2, HistoryGrows
<1> QED  BY <1>1, <1>2, PTL DEF Spec

----------------------------------------------------------------------------
(* Balances stay fresh *)

Shape ==
  /\ DOMAIN pc = Procs /\ DOMAIN todo = Procs
  /\ DOMAIN batch = Posters /\ DOMAIN seen = Posters /\ DOMAIN read = Posters

\* No key is locked by two postings.
Exclusive == \A p, q \in Posters, k \in Key :
               <<p, k>> \in held /\ <<q, k>> \in held => p = q

\* A posting that locks has locked all but the keys it has yet to lock.
Locking(p) ==
  pc[p] = "locking" =>
    \A k \in KeysOf(batch[p], seen[p]) : k \in todo[p] \/ <<p, k>> \in held

\* A posting that writes holds its keys, and has read what is committed.
Writing(p) ==
  pc[p] = "writing" =>
    \A k \in KeysOf(batch[p], seen[p]) :
      <<p, k>> \in held /\ read[p][k] = current[k]

\* BalancesStayFresh is not inductive alone: that no other posting writes a
\* balance p has read follows from the lock p holds on its key.
FreshInv ==
  /\ Shape
  /\ Exclusive
  /\ \A p \in Posters : Locking(p) /\ Writing(p)

\* What q alone changes.
Untouched(q) ==
  /\ pc'[q] = pc[q] /\ todo'[q] = todo[q]
  /\ batch'[q] = batch[q] /\ seen'[q] = seen[q] /\ read'[q] = read[q]
  /\ \A k \in Key : <<q, k>> \in held => <<q, k>> \in held'

LEMMA KeysAreKeys == ASSUME NEW b, NEW S PROVE KeysOf(b, S) \subseteq Key
  BY DEF KeysOf

\* KeysOf depends on the state through its arguments only.
LEMMA KeysNext ==
  ASSUME NEW q \in Posters
  PROVE  KeysOf(batch[q], seen[q])' = KeysOf(batch'[q], seen'[q])
  BY DEF KeysOf, Matches, HoldersOf

\* A posting another transaction's step leaves alone keeps its invariant, if
\* the balances it has read are not written.
LEMMA UntouchedKeeps ==
  ASSUME NEW q \in Posters, Locking(q), Writing(q), Untouched(q),
         pc[q] = "writing" =>
           \A k \in KeysOf(batch[q], seen[q]) : current'[k] = current[k]
  PROVE  (Locking(q) /\ Writing(q))'
<1>1. KeysOf(batch[q], seen[q])' = KeysOf(batch[q], seen[q])
  BY KeysNext DEF Untouched
<1>2. KeysOf(batch[q], seen[q]) \subseteq Key
  BY KeysAreKeys
<1>3. Locking(q)'
  BY <1>1, <1>2 DEF Locking, Untouched
<1>4. Writing(q)'
  BY <1>1, <1>2 DEF Writing, Untouched
<1> QED  BY <1>3, <1>4

\* The two reads of attachments take no lock and change no balance.
LEMMA ReadsKeepFresh ==
  ASSUME FreshInv, NEW p \in Posters, ReadAccounts(p) \/ ReadAncestors(p)
  PROVE  FreshInv'
<1> p \in Procs
  BY DEF Procs
<1>1. Shape'
  BY DEF FreshInv, Shape, ReadAccounts, ReadAncestors
<1>2. held' = held /\ current' = current
  BY DEF ReadAccounts, ReadAncestors, committedVars
<1>3. Exclusive'
  BY <1>2 DEF FreshInv, Exclusive
<1>4. ASSUME NEW q \in Posters, q # p  PROVE  (Locking(q) /\ Writing(q))'
  <2>1. CASE ReadAccounts(p)
    <3>1. Untouched(q)
      BY <1>2, <1>4, <2>1 DEF Untouched, ReadAccounts, FreshInv, Shape
    <3> QED  BY <3>1, <1>2, UntouchedKeeps DEF FreshInv
  <2>2. CASE ReadAncestors(p)
    <3>1. Untouched(q)
      BY <1>2, <1>4, <2>2 DEF Untouched, ReadAncestors, FreshInv, Shape
    <3> QED  BY <3>1, <1>2, UntouchedKeeps DEF FreshInv
  <2> QED  BY <2>1, <2>2
<1>5. (Locking(p) /\ Writing(p))'
  <2>1. CASE ReadAccounts(p)
    BY <2>1 DEF FreshInv, Shape, Locking, Writing, ReadAccounts
  <2>2. CASE ReadAncestors(p)
    <3>1. todo'[p] = KeysOf(batch'[p], seen'[p])
      BY <2>2 DEF FreshInv, Shape, ReadAncestors
    <3>2. pc'[p] = "writing" => todo'[p] = {}
      BY <2>2 DEF FreshInv, Shape, ReadAncestors
    <3> QED  BY <3>1, <3>2, KeysNext DEF Locking, Writing
  <2> QED  BY <2>1, <2>2
<1> QED  BY <1>1, <1>3, <1>4, <1>5 DEF FreshInv

\* A lock is granted only if no posting holds it.
LEMMA LockKeepsFresh ==
  ASSUME FreshInv, NEW p \in Posters, Lock(p)
  PROVE  FreshInv'
<1> p \in Procs
  BY DEF Procs
<1>1. PICK k \in todo[p] :
        /\ \A q \in Posters : <<q, k>> \notin held
        /\ held' = held \cup {<<p, k>>}
        /\ todo' = [todo EXCEPT ![p] = @ \ {k}]
  BY DEF Lock
<1>2. /\ pc' = pc /\ batch' = batch /\ seen' = seen /\ read' = read
      /\ current' = current
  BY DEF Lock, committedVars, posterVars
<1>3. Shape'
  BY <1>1, <1>2 DEF FreshInv, Shape
<1>4. Exclusive'
  BY <1>1 DEF FreshInv, Exclusive
<1>5. ASSUME NEW q \in Posters, q # p  PROVE  (Locking(q) /\ Writing(q))'
  <2>1. Untouched(q)
    BY <1>1, <1>2, <1>5 DEF Untouched, FreshInv, Shape
  <2> QED  BY <2>1, <1>2, UntouchedKeeps DEF FreshInv
<1>6. (Locking(p) /\ Writing(p))'
  <2>1. pc[p] = "locking"
    BY DEF Lock
  <2>2. todo'[p] = todo[p] \ {k}
    BY <1>1 DEF FreshInv, Shape
  <2>3. KeysOf(batch[p], seen[p])' = KeysOf(batch[p], seen[p])
    BY <1>2, KeysNext
  <2> QED  BY <1>1, <1>2, <2>1, <2>2, <2>3 DEF FreshInv, Locking, Writing
<1> QED  BY <1>3, <1>4, <1>5, <1>6 DEF FreshInv

\* The balances are read once every lock is held.
LEMMA ReadBalancesKeepsFresh ==
  ASSUME FreshInv, NEW p \in Posters, ReadBalances(p)
  PROVE  FreshInv'
<1> p \in Procs
  BY DEF Procs
<1>1. /\ held' = held /\ current' = current /\ todo' = todo
      /\ batch' = batch /\ seen' = seen
  BY DEF ReadBalances, committedVars
<1>2. Shape'
  BY DEF FreshInv, Shape, ReadBalances
<1>3. Exclusive'
  BY <1>1 DEF FreshInv, Exclusive
<1>4. ASSUME NEW q \in Posters, q # p  PROVE  (Locking(q) /\ Writing(q))'
  <2>1. Untouched(q)
    BY <1>1, <1>4 DEF Untouched, ReadBalances
  <2> QED  BY <2>1, <1>1, UntouchedKeeps DEF FreshInv
<1>5. (Locking(p) /\ Writing(p))'
  <2> DEFINE K == KeysOf(batch[p], seen[p])
  <2>1. K' = K
    BY <1>1, KeysNext
  <2>2. \A k \in K : <<p, k>> \in held'
    BY <1>1 DEF FreshInv, Locking, ReadBalances
  <2>3. \A k \in K : read'[p][k] = current'[k]
    <3>1. K \subseteq Key
      BY KeysAreKeys
    <3>2. read'[p] = [k \in Key |-> IF k \in K THEN current[k] ELSE NoRow]
      BY DEF ReadBalances, FreshInv, Shape
    <3> HIDE DEF K
    <3> QED  BY <3>1, <3>2, <1>1
  <2>4. pc'[p] = "writing"
    BY DEF ReadBalances, FreshInv, Shape
  <2> QED  BY <2>1, <2>2, <2>3, <2>4 DEF Locking, Writing
<1> QED  BY <1>2, <1>3, <1>4, <1>5 DEF FreshInv

\* A commit writes the balances of the keys it holds, and no posting reads or
\* writes those.
LEMMA CommitKeepsFresh ==
  ASSUME FreshInv, NEW p \in Posters, Commit(p)
  PROVE  FreshInv'
<1> p \in Procs
  BY DEF Procs
<1>1. /\ batch' = batch /\ seen' = seen /\ read' = read /\ todo' = todo
      /\ pc' = [pc EXCEPT ![p] = "committed"]
      /\ held' = {h \in held : h[1] # p}
  BY DEF Commit, posterVars, Release
<1>2. Shape'
  BY <1>1 DEF FreshInv, Shape
<1>3. Exclusive'
  BY <1>1 DEF FreshInv, Exclusive
<1>4. ASSUME NEW q \in Posters, q # p  PROVE  (Locking(q) /\ Writing(q))'
  <2>1. Untouched(q)
    BY <1>1, <1>4 DEF Untouched
  <2>2. ASSUME pc[q] = "writing", NEW k \in KeysOf(batch[q], seen[q])
        PROVE  current'[k] = current[k]
    <3>1. k \in Key
      BY KeysAreKeys
    <3>2. <<q, k>> \in held
      BY <2>2 DEF FreshInv, Writing
    <3>3. k \notin KeysOf(batch[p], seen[p])
      BY <1>4, <3>1, <3>2 DEF FreshInv, Exclusive, Writing, Commit
    <3> QED  BY <3>1, <3>3 DEF Commit
  <2> QED  BY <2>1, <2>2, UntouchedKeeps DEF FreshInv
<1>5. (Locking(p) /\ Writing(p))'
  BY <1>1 DEF FreshInv, Shape, Locking, Writing
<1> QED  BY <1>2, <1>3, <1>4, <1>5 DEF FreshInv

\* The control operations change no posting.
LEMMA ControlsKeepFresh ==
  ASSUME FreshInv, NEW o \in Attachers,
         ListLimits(o) \/ Insert(o) \/ CommitAttach(o)
  PROVE  FreshInv'
<1> o \in Procs /\ o \notin Posters
  BY VelocityAssumption DEF Procs
<1>1. /\ batch' = batch /\ seen' = seen /\ read' = read /\ current' = current
  BY DEF ListLimits, Insert, CommitAttach, committedVars, posterVars
<1>2. Shape'
  BY <1>1 DEF FreshInv, Shape, ListLimits, Insert, CommitAttach
<1>3. held' \subseteq held /\ \A h \in held : h[1] # o => h \in held'
  BY DEF ListLimits, Insert, CommitAttach, Release
<1>4. Exclusive'
  BY <1>3 DEF FreshInv, Exclusive
<1>5. ASSUME NEW q \in Posters  PROVE  (Locking(q) /\ Writing(q))'
  <2>1. q \in Procs /\ q # o
    BY DEF Procs
  <2>2. pc'[q] = pc[q] /\ todo'[q] = todo[q]
    BY <2>1 DEF ListLimits, Insert, CommitAttach, FreshInv, Shape
  <2>3. Untouched(q)
    BY <1>1, <1>3, <2>1, <2>2 DEF Untouched
  <2> QED  BY <2>3, <1>1, UntouchedKeeps DEF FreshInv
<1> QED  BY <1>2, <1>4, <1>5 DEF FreshInv

\* An abort releases the locks of its own transaction only.
LEMMA AbortKeepsFresh ==
  ASSUME FreshInv, NEW o \in Procs, Abort(o)
  PROVE  FreshInv'
<1>1. /\ batch' = batch /\ seen' = seen /\ read' = read /\ current' = current
      /\ pc' = [pc EXCEPT ![o] = "aborted"]
      /\ todo' = [todo EXCEPT ![o] = {}]
      /\ held' = {h \in held : h[1] # o}
  BY DEF Abort, Release, committedVars, posterVars
<1>2. Shape'
  BY <1>1 DEF FreshInv, Shape
<1>3. Exclusive'
  BY <1>1 DEF FreshInv, Exclusive
<1>4. ASSUME NEW q \in Posters, q # o  PROVE  (Locking(q) /\ Writing(q))'
  <2>1. Untouched(q)
    BY <1>1, <1>4 DEF Untouched
  <2> QED  BY <2>1, <1>1, UntouchedKeeps DEF FreshInv
<1>5. (Locking(o) /\ Writing(o))'
  BY <1>1 DEF FreshInv, Shape, Locking, Writing
<1> QED  BY <1>2, <1>3, <1>4, <1>5 DEF FreshInv

\* Steps that change none of the variables the invariant is about.
LEMMA StutterKeepsFresh ==
  ASSUME FreshInv, UNCHANGED <<held, pc, todo, posterVars, current>>
  PROVE  FreshInv'
<1>1. Shape' /\ Exclusive'
  BY DEF FreshInv, Shape, Exclusive, posterVars
<1>2. ASSUME NEW q \in Posters  PROVE  (Locking(q) /\ Writing(q))'
  <2>1. Untouched(q)
    BY DEF Untouched, posterVars
  <2> QED  BY <2>1, UntouchedKeeps DEF FreshInv
<1> QED  BY <1>1, <1>2 DEF FreshInv

LEMMA FreshInit == Init => FreshInv
<1> SUFFICES ASSUME Init  PROVE  FreshInv
  OBVIOUS
<1>1. Shape /\ Exclusive
  BY DEF Init, Shape, Exclusive
<1>2. ASSUME NEW p \in Posters  PROVE  Locking(p) /\ Writing(p)
  BY DEF Init, Locking, Writing, Procs
<1> QED  BY <1>1, <1>2 DEF FreshInv

LEMMA FreshStep ==
  ASSUME FreshInv, [Next]_vars
  PROVE  FreshInv'
<1>1. ASSUME NEW p \in Posters,
             \/ ReadAccounts(p) \/ ReadAncestors(p) \/ Lock(p)
             \/ ReadBalances(p) \/ Commit(p)
      PROVE  FreshInv'
  BY <1>1, ReadsKeepFresh, LockKeepsFresh, ReadBalancesKeepsFresh,
     CommitKeepsFresh
<1>2. ASSUME NEW c \in Controls, NEW l \in Limits, AddLimit(c, l)
      PROVE  FreshInv'
  BY <1>2, StutterKeepsFresh DEF AddLimit
<1>3. ASSUME NEW o \in Attachers, ListLimits(o) \/ Insert(o) \/ CommitAttach(o)
      PROVE  FreshInv'
  BY <1>3, ControlsKeepFresh
<1>4. ASSUME NEW o \in Procs, Abort(o)  PROVE  FreshInv'
  BY <1>4, AbortKeepsFresh
<1>5. CASE UNCHANGED vars
  BY <1>5, StutterKeepsFresh DEF vars, posterVars
<1> QED  BY <1>1, <1>2, <1>3, <1>4, <1>5 DEF Next

\* What a posting has read under its velocity locks is still the committed
\* balance when it enforces its limits and writes.
THEOREM BalancesAreFresh == Spec => []BalancesStayFresh
<1>1. FreshInv => BalancesStayFresh
  BY DEF FreshInv, Writing, BalancesStayFresh
<1> QED  BY <1>1, FreshInit, FreshStep, PTL DEF Spec

----------------------------------------------------------------------------
(* The snapshots of a batch *)

EntryData == [account : Accounts, kind : Kinds, layer : Layers, units : Int]
Row == [version : Nat, sums : [Layers -> Int]]

LEMMA AddType ==
  ASSUME NEW sums \in [Layers -> Int], NEW e \in EntryData
  PROVE  Add(sums, e) \in [Layers -> Int]
  BY DEF Add, EntryData

\* The recursion of Rows has the solution the definition chooses.
LEMMA RowsChain ==
  ASSUME NEW p \in Posters, NEW k \in Key,
         batch[p] \in Seq(EntryData), read[p][k] \in Row
  PROVE  /\ Rows(p, k) \in [0..Len(batch[p]) -> Row]
         /\ Rows(p, k)[0] = read[p][k]
         /\ \A i \in 1..Len(batch[p]) :
              Rows(p, k)[i] =
                IF i \in Positions(p, k)
                THEN [version |-> Rows(p, k)[i - 1].version + 1,
                      sums    |-> Add(Rows(p, k)[i - 1].sums, batch[p][i])]
                ELSE Rows(p, k)[i - 1]
<1> DEFINE n == Len(batch[p])
           a == read[p][k]
           After(i, r) == IF i \in Positions(p, k)
                          THEN [version |-> r.version + 1,
                                sums    |-> Add(r.sums, batch[p][i])]
                          ELSE r
           step == [i \in 1..n |-> [r \in Row |-> After(i, r)]]
           Fixed(f) == f = [i \in 0..n |-> IF i = 0 THEN a ELSE After(i, f[i - 1])]
<1>1. n \in Nat /\ \A i \in 1..n : batch[p][i] \in EntryData
  OBVIOUS
<1>2. \A i \in 1..n, r \in Row : After(i, r) \in Row
  <2> SUFFICES ASSUME NEW i \in 1..n, NEW r \in Row  PROVE After(i, r) \in Row
    OBVIOUS
  <2>1. r.version + 1 \in Nat /\ r.sums \in [Layers -> Int]
    BY DEF Row
  <2>2. Add(r.sums, batch[p][i]) \in [Layers -> Int]
    BY <1>1, <2>1, AddType
  <2> QED  BY <2>1, <2>2 DEF Row
<1>3. \A i \in 1..n : \A r \in Row : step[i][r] = After(i, r)
  <2> HIDE DEF After, n
  <2> QED  OBVIOUS
<1>4. PICK f : /\ DOMAIN f = 0..n /\ \A i \in 0..n : f[i] \in Row
               /\ f = [i \in 0..n |-> f[i]]
               /\ Chain(f, n, a, step)
  <2>1. a \in Row
    OBVIOUS
  <2>2. \A i \in 1..n : \A r \in Row : step[i][r] \in Row
    <3> HIDE DEF After, n, step
    <3> QED  BY <1>2, <1>3
  <2> HIDE DEF step, n, a
  <2> QED  BY <1>1, <2>1, <2>2, ChainExists
<1>5. f[0] = a /\ \A i \in 1..n : f[i] = After(i, f[i - 1])
  <2> SUFFICES ASSUME NEW i \in 1..n  PROVE f[i] = After(i, f[i - 1])
    BY <1>4 DEF Chain
  <2>1. i - 1 \in 0..n
    BY <1>1
  <2> HIDE DEF After, n, step
  <2> QED  BY <1>3, <1>4, <2>1 DEF Chain
<1>6. Fixed(f)
  <2>1. \A i \in 0..n : i = 0 \/ i \in 1..n
    BY <1>1
  <2> HIDE DEF After, n
  <2> QED  BY <1>4, <1>5, <2>1
<1>7. Fixed(Rows(p, k))
  BY <1>6 DEF Rows
<1>8. Rows(p, k)[0] = a /\ \A i \in 1..n : Rows(p, k)[i] = After(i, Rows(p, k)[i - 1])
  <2> HIDE DEF After, n
  <2> QED  BY <1>1, <1>7
<1>9. \A i \in 0..n : Rows(p, k)[i] \in Row
  <2> DEFINE S == {i \in Nat : i <= n => Rows(p, k)[i] \in Row}
  <2>1. 0 \in S
    BY <1>8
  <2>2. ASSUME NEW i \in Nat, i \in S  PROVE i + 1 \in S
    <3> SUFFICES ASSUME i + 1 <= n  PROVE Rows(p, k)[i + 1] \in Row
      OBVIOUS
    <3>1. i + 1 \in 1..n /\ (i + 1) - 1 = i /\ i <= n
      BY <1>1
    <3> HIDE DEF After
    <3> QED  BY <1>2, <1>8, <2>2, <3>1
  <2> HIDE DEF S
  <2>3. \A i \in Nat : i \in S
    BY <2>1, <2>2, NatInduct
  <2> QED  BY <2>3, <1>1 DEF S
<1>10. Rows(p, k) \in [0..n -> Row]
  <2> HIDE DEF After, n
  <2> QED  BY <1>7, <1>9
<1> QED  BY <1>8, <1>10

----------------------------------------------------------------------------
(* Typing *)

\* What TypeOK needs to be inductive: what a posting has read and will write
\* are entries and rows, what an attacher will commit are limits of its
\* control, and the entries of the history are those of committed postings.
Data ==
  /\ DOMAIN todo = Procs /\ DOMAIN at = Posters /\ DOMAIN seen = Posters
  /\ DOMAIN plan = Attachers
  /\ batch \in [Posters -> Seq(EntryData)]
  /\ read \in [Posters -> [Key -> Row]]
  /\ current \in [Key -> Row]
  /\ \A p \in Posters : pc[p] # "idle" => at[p] \in Times
  /\ \A o \in Attachers : pc[o] = "inserting" =>
       /\ plan[o].control \in Controls /\ plan[o].holders \subseteq Holders
       /\ plan[o].limits \subseteq limitsOf[plan[o].control]
  /\ \A r \in history : pc[r.entry[1]] = "committed"

TypedInv == TypeOK /\ Data

\* Where a row of p comes from.
LEMMA NewRowsFrom ==
  ASSUME NEW p \in Posters, NEW r \in NewRows(p)
  PROVE  \E k \in KeysOf(batch[p], seen[p]) : \E i \in Positions(p, k) :
           r = [key |-> k, at |-> at[p], entry |-> <<p, i>>,
                version |-> Rows(p, k)[i].version,
                sums |-> Rows(p, k)[i].sums]
  BY DEF NewRows

LEMMA VersionsGrow ==
  ASSUME NEW p \in Posters, NEW k \in Key,
         batch[p] \in Seq(EntryData), read[p][k] \in Row
  PROVE  /\ Positions(p, k) \subseteq 1..Len(batch[p])
         /\ \A i \in Positions(p, k) : Rows(p, k)[i].version \in Nat \ {0}
                                    /\ Rows(p, k)[i].sums \in [Layers -> Int]
<1>1. Positions(p, k) \subseteq 1..Len(batch[p]) /\ Len(batch[p]) \in Nat
  BY DEF Positions
<1>2. ASSUME NEW i \in Positions(p, k)
      PROVE  /\ Rows(p, k)[i].version \in Nat \ {0}
             /\ Rows(p, k)[i].sums \in [Layers -> Int]
  <2>1. i \in 1..Len(batch[p]) /\ i - 1 \in 0..Len(batch[p])
    BY <1>1
  <2>2. Rows(p, k)[i].version = Rows(p, k)[i - 1].version + 1
    <3>1. Rows(p, k)[i] = [version |-> Rows(p, k)[i - 1].version + 1,
             sums |-> Add(Rows(p, k)[i - 1].sums, batch[p][i])]
      BY <2>1, RowsChain
    <3> QED  BY <3>1
  <2>3. Rows(p, k)[i - 1] \in Row /\ Rows(p, k)[i] \in Row
    BY <2>1, RowsChain
  <2> QED  BY <2>2, <2>3 DEF Row
<1> QED  BY <1>1, <1>2

LEMMA LastRowType ==
  ASSUME NEW p \in Posters, NEW k \in Key,
         batch[p] \in Seq(EntryData), read[p][k] \in Row
  PROVE  LastRow(p, k) \in Row
<1>1. Len(batch[p]) \in 0..Len(batch[p])
  OBVIOUS
<1> QED  BY <1>1, RowsChain DEF LastRow

LEMMA VelocityInitTyped == Init => TypedInv
<1> SUFFICES ASSUME Init  PROVE TypedInv
  OBVIOUS
<1>1. NoRow \in Row
  BY DEF NoRow, Row
<1>2. TypeOK
  <2>1. \A k \in Key : current[k].version \in Nat
                       /\ current[k].sums \in [Layers -> Int]
    BY <1>1 DEF Init, Row
  <2>2. /\ limitsOf \in [Controls -> SUBSET Limits]
        /\ \A c \in attached : /\ c.holder \in Holders
                               /\ c.control \in Controls
                               /\ c.limits \subseteq limitsOf[c.control]
    BY VelocityAssumption DEF Init
  <2>3. /\ history = {} /\ held = {} /\ inserted = {}
        /\ pc = [o \in Procs |-> "idle"] /\ todo = [o \in Procs |-> {}]
    BY DEF Init
  <2> QED  BY <2>1, <2>2, <2>3 DEF TypeOK, Procs
<1>3. Data
  BY <1>1, VelocityAssumption DEF Init, Data, EntryData, Procs
<1> QED  BY <1>2, <1>3 DEF TypedInv

LEMMA CommitTyped ==
  ASSUME TypedInv, NEW p \in Posters, Commit(p)
  PROVE  TypedInv'
<1> USE DEF TypedInv
<1>0. p \in Procs /\ p \notin Attachers
  BY VelocityAssumption DEF Procs
<1>1. /\ batch[p] \in Seq(EntryData) /\ at[p] \in Times
      /\ \A k \in Key : read[p][k] \in Row
  BY DEF Data, Commit
<1>2. KeysOf(batch[p], seen[p]) \subseteq Key
  BY KeysAreKeys
<1>3. current' \in [Key -> Row]
  <2>1. NoRow \in Row
    BY DEF NoRow, Row
  <2>2. \A k \in KeysOf(batch[p], seen[p]) :
          Written(k, LastRow(p, k), Cardinality(Positions(p, k))) \in Row
    BY <1>1, <1>2, <2>1, LastRowType DEF Written, Data
  <2> HIDE DEF TypedInv
  <2> QED  BY <2>2 DEF TypedInv, Data, Commit
<1>4. \A r \in NewRows(p) :
        /\ r.key \in Key /\ r.version \in Nat \ {0}
        /\ r.sums \in [Layers -> Int] /\ r.at \in Times
        /\ r.entry[1] = p /\ r.entry[2] \in 1..Len(batch[p])
  <2> SUFFICES ASSUME NEW r \in NewRows(p)
               PROVE  /\ r.key \in Key /\ r.version \in Nat \ {0}
                      /\ r.sums \in [Layers -> Int] /\ r.at \in Times
                      /\ r.entry[1] = p /\ r.entry[2] \in 1..Len(batch[p])
    OBVIOUS
  <2>1. PICK k \in KeysOf(batch[p], seen[p]) : \E i \in Positions(p, k) :
           r = [key |-> k, at |-> at[p], entry |-> <<p, i>>,
                version |-> Rows(p, k)[i].version,
                sums |-> Rows(p, k)[i].sums]
    BY NewRowsFrom
  <2>2. k \in Key
    BY <1>2
  <2>i. PICK i \in Positions(p, k) :
           r = [key |-> k, at |-> at[p], entry |-> <<p, i>>,
                version |-> Rows(p, k)[i].version,
                sums |-> Rows(p, k)[i].sums]
    BY <2>1
  <2>3. /\ Positions(p, k) \subseteq 1..Len(batch[p])
        /\ Rows(p, k)[i].version \in Nat \ {0}
        /\ Rows(p, k)[i].sums \in [Layers -> Int]
    BY <1>1, <2>2, VersionsGrow
  <2> QED  BY <1>1, <2>i, <2>2, <2>3
<1>5. history' = history \cup NewRows(p) /\ batch' = batch /\ at' = at
      /\ seen' = seen /\ read' = read /\ plan' = plan /\ limitsOf' = limitsOf
      /\ attached' = attached /\ todo' = todo
      /\ pc' = [pc EXCEPT ![p] = "committed"]
  BY DEF Commit, posterVars
<1>6. held' \subseteq held /\ inserted' \subseteq inserted
  BY DEF Commit, Release
<1>7. \A r \in history' :
        /\ r.key \in Key /\ r.version \in Nat \ {0}
        /\ r.sums \in [Layers -> Int] /\ r.at \in Times
        /\ r.entry[1] \in Posters
        /\ r.entry[2] \in 1..Len(batch[r.entry[1]])
        /\ r.entry[1] = p \/ pc[r.entry[1]] = "committed"
  BY <1>4, <1>5 DEF TypeOK, Data
<1>8. \A r \in history' : pc'[r.entry[1]] = "committed"
  BY <1>0, <1>5, <1>7 DEF TypeOK, Procs
<1>9. \A k \in Key : current'[k].version \in Nat
                     /\ current'[k].sums \in [Layers -> Int]
  BY <1>3 DEF Row
<1>10. TypeOK'
  BY <1>0, <1>5, <1>6, <1>7, <1>9 DEF TypeOK
<1>11. \A q \in Posters : pc'[q] # "idle" => at[q] \in Times
  BY <1>0, <1>1, <1>5 DEF TypeOK, Data
<1>12. \A o \in Attachers : pc'[o] = pc[o]
  BY <1>0, <1>5 DEF TypeOK
<1>13. Data'
  BY <1>3, <1>5, <1>8, <1>11, <1>12 DEF Data
<1> QED  BY <1>10, <1>13

LEMMA VelocityStepTyped ==
  ASSUME TypedInv, [Next]_vars
  PROVE  TypedInv'
<1> USE VelocityAssumption DEF Procs
<1>1. ASSUME NEW p \in Posters, ReadAccounts(p)  PROVE TypedInv'
  <2>1. PICK b \in Batches, t \in Times :
          /\ batch' = [batch EXCEPT ![p] = b]
          /\ at' = [at EXCEPT ![p] = t]
          /\ DOMAIN seen' = DOMAIN seen
    BY <1>1 DEF ReadAccounts
  <2>2. b \in Seq(EntryData)
    BY DEF EntryData
  <2>3. UNCHANGED <<limitsOf, attached, history, current, held, inserted, todo,
                    read, plan>> /\ pc' = [pc EXCEPT ![p] = "ancestors"]
        /\ pc[p] = "idle"
    BY <1>1 DEF ReadAccounts, committedVars
  <2>4. \A r \in history : r.entry[1] \in Posters /\ r.entry[1] # p
    BY <2>3 DEF TypedInv, TypeOK, Data
  <2>5. \A r \in history : batch'[r.entry[1]] = batch[r.entry[1]]
    BY <2>1, <2>4 DEF TypedInv, Data
  <2>6. TypeOK'
    BY <2>3, <2>4, <2>5 DEF TypedInv, TypeOK
  <2>7. Data'
    BY <2>1, <2>2, <2>3, <2>4 DEF TypedInv, TypeOK, Data
  <2> QED  BY <2>6, <2>7 DEF TypedInv
<1>2. ASSUME NEW p \in Posters, ReadAncestors(p)  PROVE TypedInv'
  <2>1. /\ todo' = [todo EXCEPT ![p] = KeysOf(batch[p], seen'[p])]
        /\ KeysOf(batch[p], seen'[p]) \subseteq Key
    BY <1>2, KeysAreKeys DEF ReadAncestors
  <2>2. UNCHANGED <<limitsOf, attached, history, current, held, inserted,
                    batch, at, read, plan>> /\ pc[p] = "ancestors"
        /\ (pc' = [pc EXCEPT ![p] = "writing"] \/
            pc' = [pc EXCEPT ![p] = "locking"]) /\ DOMAIN seen' = DOMAIN seen
    BY <1>2 DEF ReadAncestors, committedVars
  <2>3. pc' \in [Procs -> {"idle", "ancestors", "locking", "writing", "inserting",
                           "committed", "aborted"}]
    BY <2>2 DEF TypedInv, TypeOK
  <2>4. PICK K : K \subseteq Key /\ todo' = [todo EXCEPT ![p] = K]
    BY <2>1
  <2>5. DOMAIN todo' = Procs /\ \A q \in Procs : todo'[q] = IF q = p THEN K ELSE todo[q]
    BY <2>4 DEF TypedInv, Data
  <2>6. /\ \A q \in Posters : todo'[q] \subseteq Key
        /\ \A o \in Attachers : todo'[o] \subseteq Slots
    BY <2>4, <2>5 DEF TypedInv, TypeOK
  <2>7. TypeOK'
    BY <2>2, <2>3, <2>6 DEF TypedInv, TypeOK
  <2>8. /\ \A q \in Posters : pc'[q] # "idle" => at[q] \in Times
        /\ \A o \in Attachers : pc'[o] = "inserting" => pc[o] = "inserting"
        /\ \A r \in history : pc'[r.entry[1]] = "committed"
    BY <2>2 DEF TypedInv, TypeOK, Data
  <2>9. Data'
    BY <2>2, <2>5, <2>8 DEF TypedInv, Data
  <2> QED  BY <2>7, <2>9 DEF TypedInv
<1>3. ASSUME NEW p \in Posters, Lock(p)  PROVE TypedInv'
  <2>1. PICK k \in todo[p] : /\ held' = held \cup {<<p, k>>}
                             /\ todo' = [todo EXCEPT ![p] = @ \ {k}]
    BY <1>3 DEF Lock
  <2>2. UNCHANGED <<limitsOf, attached, history, current, inserted, pc,
                    batch, at, seen, read, plan>>
    BY <1>3 DEF Lock, committedVars, posterVars
  <2>3. TypeOK'
    BY <2>1, <2>2 DEF TypedInv, TypeOK, Data
  <2>4. Data'
    BY <2>1, <2>2 DEF TypedInv, Data
  <2> QED  BY <2>3, <2>4 DEF TypedInv
<1>4. ASSUME NEW p \in Posters, ReadBalances(p)  PROVE TypedInv'
  <2>1. NoRow \in Row
    BY DEF NoRow, Row
  <2>2. UNCHANGED <<limitsOf, attached, history, current, held, inserted, todo,
                    batch, at, seen, plan>>
        /\ pc' = [pc EXCEPT ![p] = "writing"] /\ pc[p] = "locking"
    BY <1>4 DEF ReadBalances, committedVars
  <2>3. read' \in [Posters -> [Key -> Row]]
    BY <1>4, <2>1 DEF ReadBalances, TypedInv, Data
  <2>4. TypeOK'
    BY <2>2 DEF TypedInv, TypeOK
  <2>5. Data'
    BY <2>2, <2>3 DEF TypedInv, TypeOK, Data
  <2> QED  BY <2>4, <2>5 DEF TypedInv
<1>5. ASSUME NEW p \in Posters, Commit(p)  PROVE TypedInv'
  BY <1>5, CommitTyped
<1>6. ASSUME NEW c \in Controls, NEW l \in Limits, AddLimit(c, l)
      PROVE  TypedInv'
  <2>1. limitsOf' = [limitsOf EXCEPT ![c] = @ \cup {l}]
        /\ UNCHANGED <<attached, history, current, held, inserted, pc, todo,
                       batch, at, seen, read, plan>>
    BY <1>6 DEF AddLimit, posterVars
  <2>2. limitsOf' \in [Controls -> SUBSET Limits]
        /\ \A d \in Controls : limitsOf[d] \subseteq limitsOf'[d]
    BY <2>1 DEF TypedInv, TypeOK
  <2>3. TypeOK'
    BY <2>1, <2>2 DEF TypedInv, TypeOK
  <2>4. Data'
    BY <2>1, <2>2 DEF TypedInv, Data
  <2> QED  BY <2>3, <2>4 DEF TypedInv
<1>7. ASSUME NEW o \in Attachers, ListLimits(o)  PROVE TypedInv'
  <2>1. PICK r \in Attachments :
          /\ plan' = [plan EXCEPT ![o] = [control |-> r.control,
                        holders |-> r.holders, limits |-> limitsOf[r.control]]]
          /\ todo' = [todo EXCEPT ![o] = r.holders \X {r.control}]
    BY <1>7 DEF ListLimits
  <2>2. r.control \in Controls /\ r.holders \subseteq Holders
    OBVIOUS
  <2>3. UNCHANGED <<limitsOf, attached, history, current, held, inserted,
                    batch, at, seen, read>>
        /\ pc' = [pc EXCEPT ![o] = "inserting"] /\ pc[o] = "idle"
    BY <1>7 DEF ListLimits, committedVars, posterVars
  <2>4. TypeOK'
    BY <2>1, <2>2, <2>3 DEF TypedInv, TypeOK, Data, Slots
  <2>5. Data'
    BY <2>1, <2>2, <2>3 DEF TypedInv, TypeOK, Data
  <2> QED  BY <2>4, <2>5 DEF TypedInv
<1>8. ASSUME NEW o \in Attachers, Insert(o)  PROVE TypedInv'
  <2>1. PICK s \in todo[o] : /\ inserted' = inserted \cup {<<o, s>>}
                             /\ todo' = [todo EXCEPT ![o] = @ \ {s}]
    BY <1>8 DEF Insert
  <2>2. UNCHANGED <<limitsOf, attached, history, current, held, pc,
                    batch, at, seen, read, plan>>
    BY <1>8 DEF Insert, committedVars, posterVars
  <2>3. TypeOK'
    BY <2>1, <2>2 DEF TypedInv, TypeOK, Data
  <2>4. Data'
    BY <2>1, <2>2 DEF TypedInv, Data
  <2> QED  BY <2>3, <2>4 DEF TypedInv
<1>9. ASSUME NEW o \in Attachers, CommitAttach(o)  PROVE TypedInv'
  <2>1. attached' = attached \cup
          {[holder |-> h, control |-> plan[o].control,
            limits |-> plan[o].limits] : h \in plan[o].holders}
        /\ pc[o] = "inserting" /\ pc' = [pc EXCEPT ![o] = "committed"]
        /\ UNCHANGED <<limitsOf, history, current, todo, batch, at, seen, read,
                       plan>>
        /\ held' \subseteq held /\ inserted' \subseteq inserted
    BY <1>9 DEF CommitAttach, Release, posterVars
  <2>2. \A c \in attached' : /\ c.holder \in Holders /\ c.control \in Controls
                             /\ c.limits \subseteq limitsOf[c.control]
    BY <2>1 DEF TypedInv, TypeOK, Data
  <2>3. TypeOK'
    BY <2>1, <2>2 DEF TypedInv, TypeOK
  <2>4. Data'
    BY <2>1 DEF TypedInv, TypeOK, Data
  <2> QED  BY <2>3, <2>4 DEF TypedInv
<1>10. ASSUME NEW o \in Procs, Abort(o)  PROVE TypedInv'
  <2>1. pc' = [pc EXCEPT ![o] = "aborted"] /\ todo' = [todo EXCEPT ![o] = {}]
        /\ pc[o] \notin {"idle", "committed", "aborted"}
        /\ UNCHANGED <<limitsOf, attached, history, current, batch, at, seen,
                       read, plan>>
        /\ held' \subseteq held /\ inserted' \subseteq inserted
    BY <1>10 DEF Abort, Release, committedVars, posterVars
  <2>2. TypeOK'
    BY <2>1 DEF TypedInv, TypeOK, Data
  <2>3. Data'
    BY <2>1 DEF TypedInv, TypeOK, Data
  <2> QED  BY <2>2, <2>3 DEF TypedInv
<1>11. CASE UNCHANGED vars
  BY <1>11 DEF vars, TypedInv, TypeOK, Data
<1> QED
  BY <1>1, <1>2, <1>3, <1>4, <1>5, <1>6, <1>7, <1>8, <1>9, <1>10, <1>11
  DEF Next

\* Controls, attachments, rows and locks keep their shapes; in particular an
\* attachment never carries a limit its control does not have.
THEOREM VelocityTypeCorrect == Spec => []TypeOK
<1>1. TypedInv => TypeOK
  BY DEF TypedInv
<1> QED  BY <1>1, VelocityInitTyped, VelocityStepTyped, PTL DEF Spec
----------------------------------------------------------------------------
(* No deadlock *)

\* The keys a posting has locked come before those it has yet to lock.
KeysInOrder(p) ==
  /\ pc[p] \in {"idle", "ancestors"} => \A k \in Key : <<p, k>> \notin held
  /\ \A k \in Key, m \in todo[p] : <<p, k>> \in held => Before(k, m)

\* The rows an attacher has inserted come before those it has yet to insert,
\* and all are of one control.
SlotsInOrder(o) ==
  /\ pc[o] = "idle" => \A s \in Slots : <<o, s>> \notin inserted
  /\ \A s, u \in todo[o] : s[2] = u[2]
  /\ \A s \in Slots, u \in todo[o] :
       <<o, s>> \in inserted => Rank[s[1]] < Rank[u[1]]

InOrder ==
  /\ \A p \in Posters : KeysInOrder(p)
  /\ \A o \in Attachers : SlotsInOrder(o)

LEMMA RanksAreNat ==
  /\ \A i \in Holders \cup Controls \cup Limits \cup Windows : Rank[i] \in Nat
  /\ \A g, h \in Holders : Rank[g] = Rank[h] => g = h
  BY RankAssumption

\* The sort order of the keys is a strict order.
LEMMA BeforeIsOrder ==
  /\ \A k \in Key : ~ Before(k, k)
  /\ \A j, k, m \in Key : Before(j, k) /\ Before(k, m) => Before(j, m)
<1>1. \A k \in Key : /\ Rank[k.holder] \in Nat /\ Rank[k.control] \in Nat
                     /\ Rank[k.limit] \in Nat /\ Rank[k.window] \in Nat
  BY RanksAreNat DEF Key
<1>2. \A k \in Key : ~ Before(k, k)
  BY <1>1 DEF Before
<1>3. ASSUME NEW j \in Key, NEW k \in Key, NEW m \in Key,
             Before(j, k), Before(k, m)
      PROVE  Before(j, m)
  BY <1>1, <1>3 DEF Before
<1> QED  BY <1>2, <1>3

\* What o alone changes.
SameOwner(o) ==
  /\ pc'[o] = "idle" => pc[o] = "idle"
  /\ pc'[o] \in {"idle", "ancestors"} => pc[o] \in {"idle", "ancestors"}
  /\ todo'[o] \subseteq todo[o]
  /\ \A k \in Key : <<o, k>> \in held' => <<o, k>> \in held
  /\ \A s \in Slots : <<o, s>> \in inserted' => <<o, s>> \in inserted

LEMMA SameOwnerInOrder ==
  ASSUME NEW o, SameOwner(o)
  PROVE  /\ KeysInOrder(o) => KeysInOrder(o)'
         /\ SlotsInOrder(o) => SlotsInOrder(o)'
<1>1. ASSUME KeysInOrder(o)  PROVE KeysInOrder(o)'
  BY <1>1 DEF SameOwner, KeysInOrder, Before
<1>2. ASSUME SlotsInOrder(o)  PROVE SlotsInOrder(o)'
  BY <1>2 DEF SameOwner, SlotsInOrder
<1> QED  BY <1>1, <1>2

\* Only these start a statement or take a lock.
Taking(o) ==
  \/ o \in Posters /\ (ReadAncestors(o) \/ Lock(o))
  \/ o \in Attachers /\ (ListLimits(o) \/ Insert(o))

LEMMA OthersKeepOwner ==
  ASSUME TypedInv, [Next]_vars, NEW o \in Procs, ~ Taking(o)
  PROVE  SameOwner(o)
<1> USE VelocityAssumption DEF Procs, SameOwner
<1>0. DOMAIN todo = Procs /\ DOMAIN pc = Procs
  BY DEF TypedInv, TypeOK, Data
<1>1. ASSUME NEW p \in Posters, ReadAccounts(p)  PROVE SameOwner(o)
  BY <1>0, <1>1 DEF ReadAccounts
<1>2. ASSUME NEW p \in Posters, ReadAncestors(p)  PROVE SameOwner(o)
  <2>1. o # p
    BY <1>2 DEF Taking
  <2> QED  BY <1>0, <1>2, <2>1 DEF ReadAncestors
<1>3. ASSUME NEW p \in Posters, Lock(p)  PROVE SameOwner(o)
  <2>1. o # p
    BY <1>3 DEF Taking
  <2> QED  BY <1>0, <1>3, <2>1 DEF Lock
<1>4. ASSUME NEW p \in Posters, ReadBalances(p)  PROVE SameOwner(o)
  BY <1>0, <1>4 DEF ReadBalances
<1>5. ASSUME NEW p \in Posters, Commit(p)  PROVE SameOwner(o)
  BY <1>0, <1>5 DEF Commit, Release
<1>6. ASSUME NEW c \in Controls, NEW l \in Limits, AddLimit(c, l)
      PROVE  SameOwner(o)
  BY <1>6 DEF AddLimit
<1>7. ASSUME NEW q \in Attachers, ListLimits(q)  PROVE SameOwner(o)
  <2>1. o # q
    BY <1>7 DEF Taking
  <2> QED  BY <1>0, <1>7, <2>1 DEF ListLimits
<1>8. ASSUME NEW q \in Attachers, Insert(q)  PROVE SameOwner(o)
  <2>1. o # q
    BY <1>8 DEF Taking
  <2> QED  BY <1>0, <1>8, <2>1 DEF Insert
<1>9. ASSUME NEW q \in Attachers, CommitAttach(q)  PROVE SameOwner(o)
  BY <1>0, <1>9 DEF CommitAttach, Release
<1>10. ASSUME NEW q \in Procs, Abort(q)  PROVE SameOwner(o)
  BY <1>0, <1>10 DEF Abort, Release
<1>11. CASE UNCHANGED vars
  BY <1>11 DEF vars
<1> QED
  BY <1>1, <1>2, <1>3, <1>4, <1>5, <1>6, <1>7, <1>8, <1>9, <1>10, <1>11
  DEF Next

LEMMA PosterTakes ==
  ASSUME TypedInv, NEW p \in Posters, KeysInOrder(p), ReadAncestors(p) \/ Lock(p)
  PROVE  KeysInOrder(p)'
<1>0. p \in DOMAIN todo /\ p \in DOMAIN pc
  BY DEF TypedInv, TypeOK, Data, Procs
<1>1. CASE ReadAncestors(p)
  <2>1. \A k \in Key : <<p, k>> \notin held'
    BY <1>1 DEF ReadAncestors, KeysInOrder
  <2> QED  BY <2>1 DEF KeysInOrder
<1>2. CASE Lock(p)
  <2>1. PICK k \in todo[p] :
          /\ \A m \in todo[p] \ {k} : Before(k, m)
          /\ held' = held \cup {<<p, k>>}
          /\ todo'[p] = todo[p] \ {k}
          /\ pc'[p] = "locking"
    BY <1>0, <1>2 DEF Lock, NextKey
  <2>2. ASSUME NEW j \in Key, NEW m \in todo'[p], <<p, j>> \in held'
        PROVE  Before(j, m)
    BY <2>1, <2>2 DEF KeysInOrder
  <2> QED  BY <2>1, <2>2 DEF KeysInOrder, Before
<1> QED  BY <1>1, <1>2

LEMMA AttacherTakes ==
  ASSUME TypedInv, NEW o \in Attachers, SlotsInOrder(o),
         ListLimits(o) \/ Insert(o)
  PROVE  SlotsInOrder(o)'
<1>0. /\ o \in DOMAIN todo /\ o \in DOMAIN pc /\ todo[o] \subseteq Slots
  BY DEF TypedInv, TypeOK, Data, Procs
<1>1. CASE ListLimits(o)
  <2>1. /\ \A s \in Slots : <<o, s>> \notin inserted'
        /\ \A s, u \in todo'[o] : s[2] = u[2]
    BY <1>0, <1>1 DEF ListLimits, SlotsInOrder
  <2> QED  BY <2>1 DEF SlotsInOrder
<1>2. CASE Insert(o)
  <2>1. PICK s \in todo[o] :
          /\ \A u \in todo[o] : Rank[s[1]] <= Rank[u[1]]
          /\ inserted' = inserted \cup {<<o, s>>}
          /\ todo'[o] = todo[o] \ {s}
          /\ pc'[o] = "inserting"
    BY <1>0, <1>2 DEF Insert, NextSlot
  <2>2. ASSUME NEW u \in todo[o], u # s  PROVE Rank[s[1]] < Rank[u[1]]
    <3>1. s[1] \in Holders /\ u[1] \in Holders
      BY <1>0 DEF Slots
    <3>2. s[2] = u[2] /\ s = <<s[1], s[2]>> /\ u = <<u[1], u[2]>>
      BY <1>0 DEF SlotsInOrder, Slots
    <3>3. s[1] # u[1]
      BY <2>2, <3>2
    <3>4. Rank[s[1]] \in Nat /\ Rank[u[1]] \in Nat /\ Rank[s[1]] # Rank[u[1]]
      BY <3>1, <3>3, RanksAreNat
    <3>5. Rank[s[1]] <= Rank[u[1]]
      BY <2>1
    <3> QED  BY <3>4, <3>5
  <2> QED  BY <2>1, <2>2 DEF SlotsInOrder
<1> QED  BY <1>1, <1>2

LEMMA InOrderStep ==
  ASSUME TypedInv, InOrder, [Next]_vars
  PROVE  InOrder'
<1>1. ASSUME NEW p \in Posters  PROVE KeysInOrder(p)'
  <2>1. p \in Procs /\ p \notin Attachers /\ KeysInOrder(p)
    BY VelocityAssumption DEF Procs, InOrder
  <2>2. CASE ReadAncestors(p) \/ Lock(p)
    BY <2>1, <2>2, PosterTakes
  <2>3. CASE ~ (ReadAncestors(p) \/ Lock(p))
    <3>1. SameOwner(p)
      BY <2>1, <2>3, OthersKeepOwner DEF Taking
    <3> QED  BY <2>1, <3>1, SameOwnerInOrder
  <2> QED  BY <2>2, <2>3
<1>2. ASSUME NEW o \in Attachers  PROVE SlotsInOrder(o)'
  <2>1. o \in Procs /\ o \notin Posters /\ SlotsInOrder(o)
    BY VelocityAssumption DEF Procs, InOrder
  <2>2. CASE ListLimits(o) \/ Insert(o)
    BY <2>1, <2>2, AttacherTakes
  <2>3. CASE ~ (ListLimits(o) \/ Insert(o))
    <3>1. SameOwner(o)
      BY <2>1, <2>3, OthersKeepOwner DEF Taking
    <3> QED  BY <2>1, <3>1, SameOwnerInOrder
  <2> QED  BY <2>2, <2>3
<1> QED  BY <1>1, <1>2 DEF InOrder

\* There are finitely many locks, whatever the number of transactions.
LEMMA LocksFinite == IsFiniteSet(Key) /\ IsFiniteSet(Slots)
<1>0. /\ IsFiniteSet(Holders) /\ IsFiniteSet(Controls) /\ IsFiniteSet(Limits)
      /\ IsFiniteSet(Windows)
  BY RankAssumption
<1>1. IsFiniteSet(Slots)
  BY <1>0, FS_Product DEF Slots
<1> DEFINE A == Holders \X Controls
           B == Limits \X Windows
           f == [x \in A \X B |-> [holder |-> x[1][1], control |-> x[1][2],
                                   limit |-> x[2][1], window |-> x[2][2]]]
<1>2. IsFiniteSet(A) /\ IsFiniteSet(B)
  BY <1>0, FS_Product
<1>3. IsFiniteSet(A \X B)
  <2> HIDE DEF A, B
  <2> QED  BY <1>2, FS_Product
<1>4. f \in Surjection(A \X B, Key)
  <2>1. f \in [A \X B -> Key]
    BY DEF Key
  <2>2. ASSUME NEW k \in Key  PROVE \E x \in A \X B : f[x] = k
    <3> DEFINE x == <<<<k.holder, k.control>>, <<k.limit, k.window>>>>
    <3>1. x \in A \X B
      BY DEF Key
    <3>2. f[x] = k
      BY <3>1 DEF Key
    <3> QED  BY <3>1, <3>2
  <2> QED  BY <2>1, <2>2 DEF Surjection
<1>5. IsFiniteSet(Key)
  <2> HIDE DEF f, A, B
  <2> QED  BY <1>3, <1>4, FS_Surjection
<1> QED  BY <1>1, <1>5

\* Along a cycle of waits the keys, or the rows, would come later and later.
LEMMA NoWaitCycle ==
  ASSUME TypedInv, InOrder
  PROVE  NeverDeadlocks
<1> SUFFICES ASSUME NEW C \in SUBSET Procs, C # {},
                    \A o \in C : WaitsOn(o) \cap C # {}
             PROVE  FALSE
  BY DEF NeverDeadlocks
<1>0. Posters \cap Attachers = {}
  BY VelocityAssumption
<1>1. CASE C \cap Posters # {}
  <2> DEFINE W == {k \in Key : \E p, q \in C \cap Posters :
                                 k \in todo[p] /\ <<q, k>> \in held}
             R == {e \in Key \X Key : Before(e[1], e[2])}
  <2>1. \A p \in C \cap Posters : \E k \in W : k \in todo[p]
    <3> SUFFICES ASSUME NEW p \in C \cap Posters
                 PROVE  \E k \in W : k \in todo[p]
      OBVIOUS
    <3>1. PICK q \in Posters : /\ q \in C
                               /\ \E k \in todo[p] : <<q, k>> \in held
      BY DEF WaitsOn
    <3>2. todo[p] \subseteq Key
      BY DEF TypedInv, TypeOK
    <3> QED  BY <3>1, <3>2
  <2>2. W \in SUBSET Key /\ W # {}
    BY <1>1, <2>1
  <2>3. \A j, k \in Key : <<j, k>> \in R <=> Before(j, k)
    OBVIOUS
  <2>4. PICK k \in W : \A m \in W : <<k, m>> \notin R
    <3>1. \A x \in Key : <<x, x>> \notin R
      BY <2>3, BeforeIsOrder
    <3>2. \A x, y, z \in Key : <<x, y>> \in R /\ <<y, z>> \in R => <<x, z>> \in R
      <4> HIDE DEF R
      <4> QED  BY <2>3, BeforeIsOrder
    <3> HIDE DEF R, W
    <3>3. IsFiniteSet(Key)
      BY LocksFinite
    <3>4. \A T \in SUBSET Key :
             T # {} => \E x \in T : \A y \in T : <<x, y>> \notin R
      BY <3>1, <3>2, <3>3, FiniteMaximal
    <3> QED  BY <2>2, <3>4
  <2>5. PICK q \in C \cap Posters : <<q, k>> \in held
    OBVIOUS
  <2>6. PICK m \in W : m \in todo[q]
    BY <2>1
  <2>7. Before(k, m)
    BY <2>5, <2>6 DEF InOrder, KeysInOrder
  <2> QED  BY <2>3, <2>4, <2>6, <2>7
<1>2. CASE C \cap Posters = {}
  <2>0. \A o \in C : o \in Attachers /\ o \notin Posters
    BY <1>2 DEF Procs
  <2> DEFINE W == {s \in Slots : \E p, q \in C :
                                   s \in todo[p] /\ <<q, s>> \in inserted}
             R == {e \in Slots \X Slots : Rank[e[1][1]] < Rank[e[2][1]]}
  <2>1. \A p \in C : \E s \in W : s \in todo[p]
    <3> SUFFICES ASSUME NEW p \in C
                 PROVE  \E s \in W : s \in todo[p]
      OBVIOUS
    <3>1. PICK q \in Attachers : /\ q \in C
                                 /\ \E s \in todo[p] : <<q, s>> \in inserted
      BY <2>0 DEF WaitsOn
    <3>2. todo[p] \subseteq Slots
      BY <2>0 DEF TypedInv, TypeOK
    <3> QED  BY <3>1, <3>2
  <2>2. W \in SUBSET Slots /\ W # {}
    BY <2>1
  <2>3. \A s, u \in Slots : <<s, u>> \in R <=> Rank[s[1]] < Rank[u[1]]
    OBVIOUS
  <2>4. PICK s \in W : \A u \in W : <<s, u>> \notin R
    <3>0. \A x \in Slots : Rank[x[1]] \in Nat
      BY RanksAreNat DEF Slots
    <3>1. \A x \in Slots : <<x, x>> \notin R
      BY <2>3, <3>0
    <3>2. \A x, y, z \in Slots :
             <<x, y>> \in R /\ <<y, z>> \in R => <<x, z>> \in R
      <4> HIDE DEF R
      <4> QED  BY <2>3, <3>0
    <3> HIDE DEF R, W
    <3>3. IsFiniteSet(Slots)
      BY LocksFinite
    <3>4. \A T \in SUBSET Slots :
             T # {} => \E x \in T : \A y \in T : <<x, y>> \notin R
      BY <3>1, <3>2, <3>3, FiniteMaximal
    <3> QED  BY <2>2, <3>4
  <2>5. PICK q \in C : <<q, s>> \in inserted
    OBVIOUS
  <2>6. PICK u \in W : u \in todo[q]
    BY <2>1
  <2>7. Rank[s[1]] < Rank[u[1]]
    BY <2>0, <2>5, <2>6 DEF InOrder, SlotsInOrder
  <2> QED  BY <2>3, <2>4, <2>6, <2>7
<1> QED  BY <1>1, <1>2

\* Neither the velocity locks of postings nor the rows concurrent attachments
\* insert ever form a cycle of waits, however many transactions there are.
THEOREM NoDeadlock == Spec => []NeverDeadlocks
<1>1. Init => InOrder
  BY VelocityAssumption DEF Init, InOrder, KeysInOrder, SlotsInOrder, Procs
<1>2. TypedInv /\ InOrder /\ [Next]_vars => InOrder'
  BY InOrderStep
<1>3. TypedInv /\ InOrder => NeverDeadlocks
  BY NoWaitCycle
<1> QED
  BY <1>1, <1>2, <1>3, VelocityInitTyped, VelocityStepTyped, PTL DEF Spec
----------------------------------------------------------------------------
(* Versions of the snapshots of a batch *)

\* The versions count the entries that count, one by one: a snapshot's version
\* is new, every version up to the last has its snapshot, and what precedes an
\* entry's snapshot is the one read or that of an earlier entry.
LEMMA RowVersions ==
  ASSUME NEW p \in Posters, NEW k \in Key,
         batch[p] \in Seq(EntryData), read[p][k] \in Row
  PROVE  \A m \in 0..Len(batch[p]) :
           /\ Rows(p, k)[m].version =
                read[p][k].version + Cardinality(Positions(p, k) \cap (1..m))
           /\ \A i \in 0..m : Rows(p, k)[i].version <= Rows(p, k)[m].version
           /\ \A i \in 0..(m - 1) : m \in Positions(p, k) =>
                Rows(p, k)[i].version < Rows(p, k)[m].version
           /\ \A v \in Nat :
                read[p][k].version < v /\ v <= Rows(p, k)[m].version =>
                  \E i \in Positions(p, k) : Rows(p, k)[i].version = v
           /\ \/ Rows(p, k)[m] = read[p][k]
              \/ \E i \in Positions(p, k) : i <= m /\ Rows(p, k)[i] = Rows(p, k)[m]
<1> DEFINE n == Len(batch[p])
           w == Rows(p, k)
           P == Positions(p, k)
           a == read[p][k]
           C(m) == Cardinality(P \cap (1..m))
           Good(m) ==
             /\ w[m].version = a.version + C(m)
             /\ \A i \in 0..m : w[i].version <= w[m].version
             /\ \A i \in 0..(m - 1) : m \in P => w[i].version < w[m].version
             /\ \A v \in Nat : a.version < v /\ v <= w[m].version =>
                  \E i \in P : w[i].version = v
             /\ w[m] = a \/ \E i \in P : i <= m /\ w[i] = w[m]
           N == {m \in Nat : m <= n => Good(m)}
<1>1. /\ n \in Nat /\ P \subseteq 1..n /\ a \in Row /\ a.version \in Nat
      /\ w[0] = a
      /\ \A m \in 0..n : w[m] \in Row /\ w[m].version \in Nat
  <2>1. w \in [0..n -> Row] /\ w[0] = a
    BY RowsChain
  <2>2. n \in Nat /\ P \subseteq 1..n /\ a \in Row
    BY DEF Positions
  <2> HIDE DEF w, n, P, a
  <2> QED  BY <2>1, <2>2 DEF Row
<1>2. \A m \in 1..n :
        /\ m \in P => w[m].version = w[m - 1].version + 1
        /\ m \notin P => w[m] = w[m - 1]
  <2> SUFFICES ASSUME NEW m \in 1..n
               PROVE  /\ m \in P => w[m].version = w[m - 1].version + 1
                      /\ m \notin P => w[m] = w[m - 1]
    OBVIOUS
  <2>1. w[m] = IF m \in P
               THEN [version |-> w[m - 1].version + 1,
                     sums    |-> Add(w[m - 1].sums, batch[p][m])]
               ELSE w[m - 1]
    BY RowsChain
  <2> HIDE DEF w, P
  <2> QED  BY <2>1
<1> HIDE DEF w, P, a, n
<1>3. C(0) = 0 /\ \A m \in 1..n : /\ C(m) \in Nat /\ C(m - 1) \in Nat
                                  /\ m \in P => C(m) = C(m - 1) + 1
                                  /\ m \notin P => C(m) = C(m - 1)
  <2>1. P \cap (1..0) = {}
    OBVIOUS
  <2>2. ASSUME NEW m \in 1..n
        PROVE  /\ C(m) \in Nat /\ C(m - 1) \in Nat
               /\ m \in P => C(m) = C(m - 1) + 1
               /\ m \notin P => C(m) = C(m - 1)
    <3>1. IsFiniteSet(1..m) /\ IsFiniteSet(1..(m - 1))
      BY FS_Interval
    <3>2. IsFiniteSet(P \cap (1..m)) /\ IsFiniteSet(P \cap (1..(m - 1)))
      BY <3>1, FS_Intersection
    <3>3. C(m) \in Nat /\ C(m - 1) \in Nat
      BY <3>2, FS_CardinalityType
    <3>4. m \in P => P \cap (1..m) = (P \cap (1..(m - 1))) \cup {m}
      BY <1>1
    <3>5. m \notin P => P \cap (1..m) = P \cap (1..(m - 1))
      BY <1>1
    <3>6. m \notin P \cap (1..(m - 1))
      BY <1>1
    <3>7. Cardinality((P \cap (1..(m - 1))) \cup {m}) = C(m - 1) + 1
      BY <3>2, <3>6, FS_AddElement
    <3> QED  BY <3>3, <3>4, <3>5, <3>7
  <2> QED  BY <2>1, <2>2, FS_EmptySet
<1> HIDE DEF C
<1>4. 0 \in N
  <2>1. w[0].version = a.version + C(0)
    BY <1>1, <1>3
  <2>2. \A i \in 0..0 : w[i].version <= w[0].version
    BY <1>1
  <2>3. \A i \in 0..(0 - 1) : FALSE
    OBVIOUS
  <2>4. w[0].version = a.version /\ a.version \in Nat
    BY <1>1
  <2>5. \A v \in Nat : ~ (a.version < v /\ v <= w[0].version)
    BY <2>4
  <2>6. Good(0)
    BY <1>1, <2>1, <2>2, <2>3, <2>5
  <2> QED  BY <2>6
<1>5. ASSUME NEW j \in Nat, j \in N  PROVE j + 1 \in N
  <2> SUFFICES ASSUME j + 1 <= n  PROVE Good(j + 1)
    OBVIOUS
  <2> DEFINE m == j + 1
  <2>1. m \in 1..n /\ m - 1 = j /\ j \in 0..n /\ m \in 0..n
    BY <1>1
  <2>2. Good(j)
    BY <1>1, <1>5
  <2>3. \A i \in 0..m : i = m \/ i \in 0..j
    OBVIOUS
  <2>4. /\ w[m].version \in Nat /\ w[j].version \in Nat /\ C(m) \in Nat
        /\ C(j) \in Nat /\ \A i \in 0..j : w[i].version \in Nat
    BY <1>1, <1>3, <2>1
  <2>5. \A i \in P : i \in 1..n /\ i \in Nat
    BY <1>1
  <2>6. CASE m \in P
    <3>1. w[m].version = w[j].version + 1 /\ C(m) = C(j) + 1
      BY <1>2, <1>3, <2>1, <2>6
    <3>2. w[m].version = a.version + C(m)
      <4>1. w[j].version = a.version + C(j) /\ a.version \in Nat
        BY <1>1, <2>2
      <4> HIDE DEF m
      <4> QED  BY <2>4, <3>1, <4>1
    <3>3. \A i \in 0..j : w[i].version < w[m].version
      BY <2>2, <2>4, <3>1
    <3>4. ASSUME NEW v \in Nat, a.version < v, v <= w[m].version
          PROVE  \E i \in P : w[i].version = v
      <4>1. v = w[m].version \/ v <= w[j].version
        BY <2>4, <3>1, <3>4
      <4> QED  BY <2>2, <2>6, <3>4, <4>1
    <3>5. \E i \in P : i <= m /\ w[i] = w[m]
      BY <2>1, <2>6
    <3> HIDE DEF m
    <3>6. \A i \in 0..m : w[i].version <= w[m].version
      BY <2>3, <2>4, <3>3
    <3>7. \A i \in 0..(m - 1) : w[i].version < w[m].version
      BY <2>1, <3>3
    <3>8. Good(m)
      BY <3>2, <3>4, <3>5, <3>6, <3>7
    <3> QED  BY <3>8 DEF m
  <2>7. CASE m \notin P
    <3>1. w[m] = w[j] /\ C(m) = C(j)
      BY <1>2, <1>3, <2>1, <2>7
    <3>2. w[m] = a \/ \E i \in P : i <= m /\ w[i] = w[m]
      BY <2>1, <2>2, <2>5, <3>1
    <3> HIDE DEF m
    <3>3. \A i \in 0..m : w[i].version <= w[m].version
      BY <2>2, <2>3, <2>4, <3>1
    <3>4. Good(m)
      BY <2>2, <2>7, <3>1, <3>2, <3>3
    <3> QED  BY <3>4 DEF m
  <2> QED  BY <2>6, <2>7
<1>6. \A m \in Nat : m \in N
  <2> HIDE DEF N
  <2> QED  BY <1>4, <1>5, NatInduct
<1>7. \A m \in 0..n : Good(m)
  BY <1>1, <1>6
<1> QED  BY <1>7 DEF w, P, a, n, C

----------------------------------------------------------------------------
(* Key by key, entry by entry *)

\* The state of OneByOne after one more entry.
Posted(p, e, r) ==
  LET keys == KeysOf(batch[p], seen[p])
      sums == [k \in keys |-> IF Matches(e, k) THEN Add(r.sums[k], e)
                              ELSE r.sums[k]]
  IN  [ok   |-> r.ok /\ \A k \in keys :
                  Matches(e, k) => Within(k.limit, at[p], sums[k]),
       sums |-> sums]

Progress(p) ==
  [ok : BOOLEAN, sums : [KeysOf(batch[p], seen[p]) -> [Layers -> Int]]]

Unposted(p) ==
  [ok |-> TRUE, sums |-> [k \in KeysOf(batch[p], seen[p]) |-> read[p][k].sums]]

LEMMA OneByOneChain ==
  ASSUME NEW p \in Posters, batch[p] \in Seq(EntryData),
         \A k \in Key : read[p][k] \in Row
  PROVE  \E f : /\ f[0] = Unposted(p)
                /\ \A i \in 0..Len(batch[p]) : f[i] \in Progress(p)
                /\ \A i \in 1..Len(batch[p]) :
                     f[i] = Posted(p, batch[p][i], f[i - 1])
                /\ OneByOne(p) = f[Len(batch[p])]
<1> DEFINE n == Len(batch[p])
           keys == KeysOf(batch[p], seen[p])
           a == Unposted(p)
           R == Progress(p)
           After(i, r) == Posted(p, batch[p][i], r)
           step == [i \in 1..n |-> [r \in R |-> After(i, r)]]
           Fixed(f) == f = [i \in 0..n |-> IF i = 0 THEN a ELSE After(i, f[i - 1])]
<1>1. n \in Nat /\ n \in 0..n /\ \A i \in 1..n : batch[p][i] \in EntryData
  OBVIOUS
<1>2. a \in R
  <2>1. \A k \in keys : read[p][k].sums \in [Layers -> Int]
    BY KeysAreKeys DEF Row
  <2> QED  BY <2>1 DEF Unposted, Progress
<1>3. \A i \in 1..n, r \in R : After(i, r) \in R
  <2> SUFFICES ASSUME NEW i \in 1..n, NEW r \in R  PROVE After(i, r) \in R
    OBVIOUS
  <2> DEFINE e == batch[p][i]
             sums == [k \in keys |-> IF Matches(e, k) THEN Add(r.sums[k], e)
                                     ELSE r.sums[k]]
             fits == \A k \in keys :
                       Matches(e, k) => Within(k.limit, at[p], sums[k])
  <2>1. e \in EntryData /\ \A k \in keys : r.sums[k] \in [Layers -> Int]
    BY <1>1 DEF Progress
  <2>2. sums \in [keys -> [Layers -> Int]]
    <3> HIDE DEF e, keys
    <3> QED  BY <2>1, AddType
  <2>3. (r.ok /\ fits) \in BOOLEAN
    OBVIOUS
  <2>4. After(i, r) = [ok |-> r.ok /\ fits, sums |-> sums]
    BY DEF Posted
  <2> HIDE DEF sums, fits, After
  <2> QED  BY <2>2, <2>3, <2>4 DEF Progress
<1> HIDE DEF a, R
<1>4. \A i \in 1..n : \A r \in R : step[i][r] = After(i, r)
  <2> HIDE DEF After, n
  <2> QED  OBVIOUS
<1>5. PICK f : /\ DOMAIN f = 0..n /\ \A i \in 0..n : f[i] \in R
               /\ f = [i \in 0..n |-> f[i]]
               /\ Chain(f, n, a, step)
  <2>1. \A i \in 1..n : \A r \in R : step[i][r] \in R
    <3> HIDE DEF After, n, step
    <3> QED  BY <1>3, <1>4
  <2> HIDE DEF step, n
  <2> QED  BY <1>1, <1>2, <2>1, ChainExists
<1>6. f[0] = a /\ \A i \in 1..n : f[i] = After(i, f[i - 1])
  <2> SUFFICES ASSUME NEW i \in 1..n  PROVE f[i] = After(i, f[i - 1])
    BY <1>5 DEF Chain
  <2>1. i - 1 \in 0..n
    BY <1>1
  <2> HIDE DEF After, n, step
  <2> QED  BY <1>4, <1>5, <2>1 DEF Chain
<1>7. Fixed(f)
  <2>1. \A i \in 0..n : i = 0 \/ i \in 1..n
    BY <1>1
  <2> HIDE DEF After, n
  <2> QED  BY <1>5, <1>6, <2>1
<1>8. \E g : Fixed(g) /\ OneByOne(p) = g[n]
  <2>1. \E g : Fixed(g)
    BY <1>7
  <2> QED  BY <2>1 DEF OneByOne, Posted, Unposted, a
<1>9. PICK g : Fixed(g) /\ OneByOne(p) = g[n]
  BY <1>8
<1>10. g[0] = a /\ \A i \in 1..n : g[i] = After(i, g[i - 1])
  <2> HIDE DEF After, n
  <2> QED  BY <1>1, <1>9
<1>11. \A i \in 0..n : g[i] \in R
  <2> DEFINE S == {i \in Nat : i <= n => g[i] \in R}
  <2>1. 0 \in S
    BY <1>2, <1>10
  <2>2. ASSUME NEW i \in Nat, i \in S  PROVE i + 1 \in S
    <3> SUFFICES ASSUME i + 1 <= n  PROVE g[i + 1] \in R
      OBVIOUS
    <3>1. i + 1 \in 1..n /\ (i + 1) - 1 = i /\ i <= n
      BY <1>1
    <3> HIDE DEF After
    <3> QED  BY <1>3, <1>10, <2>2, <3>1
  <2> HIDE DEF S
  <2>3. \A i \in Nat : i \in S
    BY <2>1, <2>2, NatInduct
  <2> QED  BY <2>3, <1>1 DEF S
<1> QED  BY <1>9, <1>10, <1>11 DEF a, R

\* After m entries both orders of enforcement stand at the same balances, and
\* both have refused or neither has.
LEMMA SameProgress ==
  ASSUME NEW p \in Posters, batch[p] \in Seq(EntryData),
         \A k \in Key : read[p][k] \in Row,
         NEW f,
         f[0] = Unposted(p),
         \A i \in 0..Len(batch[p]) : f[i] \in Progress(p),
         \A i \in 1..Len(batch[p]) : f[i] = Posted(p, batch[p][i], f[i - 1])
  PROVE  \A m \in 0..Len(batch[p]) :
           /\ \A k \in KeysOf(batch[p], seen[p]) : f[m].sums[k] = Rows(p, k)[m].sums
           /\ f[m].ok <=> \A k \in KeysOf(batch[p], seen[p]) :
                            \A i \in Positions(p, k) \cap (1..m) :
                              Within(k.limit, at[p], Rows(p, k)[i].sums)
<1> DEFINE n == Len(batch[p])
           keys == KeysOf(batch[p], seen[p])
           Fits(k, i) == Within(k.limit, at[p], Rows(p, k)[i].sums)
           Same(m) ==
             /\ \A k \in keys : f[m].sums[k] = Rows(p, k)[m].sums
             /\ f[m].ok <=> \A k \in keys :
                              \A i \in Positions(p, k) \cap (1..m) : Fits(k, i)
           N == {m \in Nat : m <= n => Same(m)}
<1>1. n \in Nat /\ keys \subseteq Key
  BY KeysAreKeys
<1>2. \A k \in keys :
        /\ Rows(p, k)[0] = read[p][k]
        /\ \A m \in 1..n :
             Rows(p, k)[m] =
               IF m \in Positions(p, k)
               THEN [version |-> Rows(p, k)[m - 1].version + 1,
                     sums    |-> Add(Rows(p, k)[m - 1].sums, batch[p][m])]
               ELSE Rows(p, k)[m - 1]
  BY <1>1, RowsChain
<1>3. \A k \in keys, m \in 1..n : m \in Positions(p, k) <=> Matches(batch[p][m], k)
  BY DEF Positions
<1>4. 0 \in N
  <2>1. \A k \in keys : f[0].sums[k] = Rows(p, k)[0].sums
    BY <1>2 DEF Unposted
  <2>2. f[0].ok = TRUE
    BY DEF Unposted
  <2>3. \A k \in keys : Positions(p, k) \cap (1..0) = {}
    OBVIOUS
  <2> QED  BY <2>1, <2>2, <2>3
<1>5. ASSUME NEW j \in Nat, j \in N  PROVE j + 1 \in N
  <2> SUFFICES ASSUME j + 1 <= n  PROVE Same(j + 1)
    OBVIOUS
  <2>0. PICK m \in 1..n : m = j + 1
    BY <1>1
  <2>1. m - 1 = j /\ j \in 0..n /\ m \in 0..n /\ Same(j)
    BY <1>1, <1>5, <2>0
  <2> DEFINE e == batch[p][m]
             sums == [k \in keys |-> IF Matches(e, k) THEN Add(f[j].sums[k], e)
                                     ELSE f[j].sums[k]]
  <2>2. f[m] = [ok   |-> f[j].ok /\ \A k \in keys :
                           Matches(e, k) => Within(k.limit, at[p], sums[k]),
                sums |-> sums]
    <3>1. f[m] = Posted(p, batch[p][m], f[m - 1])
      BY <2>1
    <3>2. f[m] = Posted(p, e, f[j])
      BY <2>1, <3>1
    <3> QED  BY ONLY <3>2 DEF Posted
  <2>3. \A k \in keys : f[m].sums[k] = Rows(p, k)[m].sums
    <3> SUFFICES ASSUME NEW k \in keys
                 PROVE  f[m].sums[k] = Rows(p, k)[m].sums
      OBVIOUS
    <3>1. f[m].sums[k] = IF Matches(e, k) THEN Add(f[j].sums[k], e)
                         ELSE f[j].sums[k]
      <4>1. f[m].sums[k] = sums[k]
        <5> HIDE DEF sums
        <5> QED  BY <2>2
      <4> HIDE DEF e, keys
      <4> QED  BY <4>1
    <3>2. f[j].sums[k] = Rows(p, k)[j].sums
      BY <2>1
    <3>3. CASE Matches(e, k)
      <4>1. m \in Positions(p, k)
        BY <1>3, <3>3
      <4>2. Rows(p, k)[m] =
              [version |-> Rows(p, k)[m - 1].version + 1,
               sums    |-> Add(Rows(p, k)[m - 1].sums, batch[p][m])]
        BY <1>2, <4>1
      <4>3. Rows(p, k)[m].sums = Add(Rows(p, k)[j].sums, e)
        BY <2>1, <4>2
      <4> QED  BY <3>1, <3>2, <3>3, <4>3
    <3>4. CASE ~ Matches(e, k)
      <4>1. m \notin Positions(p, k)
        BY <1>3, <3>4
      <4>2. Rows(p, k)[m] = Rows(p, k)[j]
        BY <1>2, <2>1, <4>1
      <4> QED  BY <3>1, <3>2, <3>4, <4>2
    <3> QED  BY <3>3, <3>4
  <2>4. f[m].ok <=> /\ f[j].ok
                    /\ \A k \in keys : m \in Positions(p, k) => Fits(k, m)
    <3>1. f[m].ok = (f[j].ok /\ \A k \in keys :
                       Matches(e, k) => Within(k.limit, at[p], sums[k]))
      <4> HIDE DEF sums, e, keys
      <4> QED  BY <2>2
    <3>2. \A k \in keys : sums[k] = Rows(p, k)[m].sums
      <4>1. \A k \in keys : f[m].sums[k] = sums[k]
        <5> HIDE DEF sums
        <5> QED  BY <2>2
      <4> QED  BY <2>3, <4>1
    <3> HIDE DEF sums, keys
    <3> QED  BY <1>3, <3>1, <3>2
  <2>5. \A k \in keys : \A i : i \in Positions(p, k) \cap (1..m) <=>
          i \in Positions(p, k) \cap (1..j) \/ (i = m /\ m \in Positions(p, k))
    <3>1. \A i : i \in 1..m <=> i \in 1..j \/ i = m
      BY <2>0
    <3> QED  BY <3>1
  <2> HIDE DEF Fits, keys, e, sums
  <2>6. f[m].ok <=> \A k \in keys :
                      \A i \in Positions(p, k) \cap (1..m) : Fits(k, i)
    <3>1. f[j].ok <=> \A k \in keys :
                        \A i \in Positions(p, k) \cap (1..j) : Fits(k, i)
      BY <2>1
    <3> QED  BY <2>4, <2>5, <3>1
  <2>7. Same(m)
    BY <2>3, <2>6
  <2> QED  BY <2>0, <2>7
<1>6. \A m \in Nat : m \in N
  <2> HIDE DEF N
  <2> QED  BY <1>4, <1>5, NatInduct
<1> QED  BY <1>1, <1>6

\* A batch that enforces its limits key by key accepts and leaves what posting
\* its entries one by one would, for any batch, controls and limits.
LEMMA SequentialBatch ==
  ASSUME TypedInv
  PROVE  BatchIsSequential
<1> SUFFICES ASSUME NEW p \in Posters
             PROVE  /\ Accepts(p) <=> OneByOne(p).ok
                    /\ \A k \in KeysOf(batch[p], seen[p]) :
                         LastRow(p, k).sums = OneByOne(p).sums[k]
  BY DEF BatchIsSequential
<1>1. batch[p] \in Seq(EntryData) /\ \A k \in Key : read[p][k] \in Row
  BY DEF TypedInv, Data
<1>2. PICK f : /\ f[0] = Unposted(p)
               /\ \A i \in 0..Len(batch[p]) : f[i] \in Progress(p)
               /\ \A i \in 1..Len(batch[p]) :
                    f[i] = Posted(p, batch[p][i], f[i - 1])
               /\ OneByOne(p) = f[Len(batch[p])]
  BY <1>1, OneByOneChain
<1> DEFINE n == Len(batch[p])
<1>3. /\ \A k \in KeysOf(batch[p], seen[p]) : f[n].sums[k] = Rows(p, k)[n].sums
      /\ f[n].ok <=> \A k \in KeysOf(batch[p], seen[p]) :
                       \A i \in Positions(p, k) \cap (1..n) :
                         Within(k.limit, at[p], Rows(p, k)[i].sums)
  <2>1. n \in 0..n
    BY <1>1
  <2> QED  BY <1>1, <1>2, <2>1, SameProgress
<1>4. \A k : Positions(p, k) \cap (1..n) = Positions(p, k)
  BY DEF Positions
<1> QED  BY <1>2, <1>3, <1>4 DEF Accepts, LastRow

\* Enforcing a batch key by key, as a posting does, accepts exactly the batches
\* that posting the entries one by one would accept, and leaves the same
\* balances, whatever the limits and the batch.
THEOREM BatchesAreSequential == Spec => []BatchIsSequential
  BY SequentialBatch, VelocityInitTyped, VelocityStepTyped, PTL DEF Spec

----------------------------------------------------------------------------
(* Every balance is the sum of the committed entries *)

\* Posting q has committed entries that count for k.
CountsFor(q, k) == pc[q] = "committed" /\ k \in KeysOf(batch[q], seen[q])

\* The rows of a key are numbered from 1 to the version of its balance.
Numbered(k) ==
  /\ \A r \in history : r.key = k =>
       r.version \in 1..current[k].version
  /\ \A n \in 1..current[k].version :
       \E r \in history : r.key = k /\ r.version = n
  /\ \A r, s \in history :
       r.key = k /\ s.key = k /\ r.version = s.version => r = s

\* Each entry that counts for a key has one row of it.
OnePerEntry(k) ==
  /\ \A r \in history : r.key = k =>
       /\ CountsFor(r.entry[1], k)
       /\ r.entry[2] \in Positions(r.entry[1], k)
       /\ r.entry = <<r.entry[1], r.entry[2]>>
  /\ \A q \in Posters : CountsFor(q, k) => \A i \in Positions(q, k) :
       \E r \in history : r.key = k /\ r.entry = <<q, i>>
  /\ \A r, s \in history :
       r.key = k /\ s.key = k /\ r.entry = s.entry => r = s

\* The sums of row r add its entry to those of the row before it.
Follows(r) ==
  /\ r.version = 1 =>
       r.sums = Add(NoRow.sums, batch[r.entry[1]][r.entry[2]])
  /\ \A s \in history : s.key = r.key /\ r.version = s.version + 1 =>
       r.sums = Add(s.sums, batch[r.entry[1]][r.entry[2]])

\* The balance read next is the newest row.
Newest(k) ==
  /\ current[k].version = 0 => current[k] = NoRow
  /\ \A r \in history :
       r.key = k /\ r.version = current[k].version => r.sums = current[k].sums

Chained(k) ==
  /\ Numbered(k) /\ OnePerEntry(k) /\ Newest(k)
  /\ \A r \in history : r.key = k => Follows(r)

ChainInv == \A k \in Key : Chained(k)

LEMMA PositionsNext ==
  ASSUME NEW q \in Posters, NEW k \in Key, batch'[q] = batch[q]
  PROVE  Positions(q, k)' = Positions(q, k)
<1>1. Positions(q, k)' = {i \in 1..Len(batch'[q]) : Matches(batch'[q][i], k)}
  BY DEF Positions, Matches, HoldersOf
<1> QED  BY <1>1 DEF Positions

LEMMA CountsForNext ==
  ASSUME NEW q \in Posters, NEW k \in Key, batch'[q] = batch[q],
         seen'[q] = seen[q], pc'[q] = "committed" <=> pc[q] = "committed"
  PROVE  CountsFor(q, k)' <=> CountsFor(q, k)
<1>1. KeysOf(batch[q], seen[q])' = KeysOf(batch[q], seen[q])
  BY KeysNext
<1> QED  BY <1>1 DEF CountsFor

\* Committed postings, their rows and the balances are left alone by every
\* step but a commit.
LEMMA OnlyCommitsCount ==
  ASSUME TypedInv, [Next]_vars, ~ \E p \in Posters : Commit(p)
  PROVE  /\ history' = history /\ current' = current
         /\ \A q \in Posters :
              /\ pc'[q] = "committed" <=> pc[q] = "committed"
              /\ pc[q] = "committed" => batch'[q] = batch[q] /\ seen'[q] = seen[q]
<1> USE VelocityAssumption DEF Procs
<1>0. /\ DOMAIN pc = Procs /\ DOMAIN batch = Posters /\ DOMAIN seen = Posters
      /\ pc = [o \in Procs |-> pc[o]]
  BY DEF TypedInv, TypeOK, Data
<1>1. history' = history /\ current' = current
  BY DEF Next, vars, committedVars, ReadAccounts, ReadAncestors, Lock,
     ReadBalances, AddLimit, ListLimits, Insert, CommitAttach, Abort
<1> SUFFICES ASSUME NEW q \in Posters
             PROVE  /\ pc'[q] = "committed" <=> pc[q] = "committed"
                    /\ pc[q] = "committed" =>
                         batch'[q] = batch[q] /\ seen'[q] = seen[q]
  BY <1>1
<1>2. ASSUME NEW p \in Posters, ReadAccounts(p)
      PROVE  /\ pc'[q] = "committed" <=> pc[q] = "committed"
             /\ pc[q] = "committed" => batch'[q] = batch[q] /\ seen'[q] = seen[q]
  BY <1>0, <1>2 DEF ReadAccounts
<1>3. ASSUME NEW p \in Posters, ReadAncestors(p)
      PROVE  /\ pc'[q] = "committed" <=> pc[q] = "committed"
             /\ pc[q] = "committed" => batch'[q] = batch[q] /\ seen'[q] = seen[q]
  BY <1>0, <1>3 DEF ReadAncestors
<1>4. ASSUME NEW p \in Posters, Lock(p) \/ ReadBalances(p)
      PROVE  /\ pc'[q] = "committed" <=> pc[q] = "committed"
             /\ pc[q] = "committed" => batch'[q] = batch[q] /\ seen'[q] = seen[q]
  BY <1>0, <1>4 DEF Lock, ReadBalances, posterVars
<1>5. ASSUME NEW c \in Controls, NEW l \in Limits, AddLimit(c, l)
      PROVE  /\ pc'[q] = "committed" <=> pc[q] = "committed"
             /\ pc[q] = "committed" => batch'[q] = batch[q] /\ seen'[q] = seen[q]
  BY <1>5 DEF AddLimit, posterVars
<1>6. ASSUME NEW o \in Attachers, ListLimits(o) \/ Insert(o) \/ CommitAttach(o)
      PROVE  /\ pc'[q] = "committed" <=> pc[q] = "committed"
             /\ pc[q] = "committed" => batch'[q] = batch[q] /\ seen'[q] = seen[q]
  <2>1. q # o
    OBVIOUS
  <2> QED  BY <1>0, <1>6, <2>1 DEF ListLimits, Insert, CommitAttach, posterVars
<1>7. ASSUME NEW o \in Procs, Abort(o)
      PROVE  /\ pc'[q] = "committed" <=> pc[q] = "committed"
             /\ pc[q] = "committed" => batch'[q] = batch[q] /\ seen'[q] = seen[q]
  BY <1>0, <1>7 DEF Abort, posterVars
<1>8. CASE UNCHANGED vars
  BY <1>8 DEF vars
<1> QED  BY <1>2, <1>3, <1>4, <1>5, <1>6, <1>7, <1>8 DEF Next

LEMMA OthersKeepChained ==
  ASSUME TypedInv, ChainInv, [Next]_vars, ~ \E p \in Posters : Commit(p)
  PROVE  ChainInv'
<1>1. /\ history' = history /\ current' = current
      /\ \A q \in Posters :
           /\ pc'[q] = "committed" <=> pc[q] = "committed"
           /\ pc[q] = "committed" => batch'[q] = batch[q] /\ seen'[q] = seen[q]
  BY OnlyCommitsCount
<1>2. \A r \in history : r.entry[1] \in Posters /\ pc[r.entry[1]] = "committed"
                         /\ r.key \in Key
  BY DEF TypedInv, TypeOK, Data
<1> SUFFICES ASSUME NEW k \in Key  PROVE Chained(k)'
  BY DEF ChainInv
<1>3. Chained(k)
  BY DEF ChainInv
<1>4. \A q \in Posters : /\ CountsFor(q, k)' <=> CountsFor(q, k)
                         /\ CountsFor(q, k) => Positions(q, k)' = Positions(q, k)
  <2> SUFFICES ASSUME NEW q \in Posters
               PROVE  /\ CountsFor(q, k)' <=> CountsFor(q, k)
                      /\ CountsFor(q, k) => Positions(q, k)' = Positions(q, k)
    OBVIOUS
  <2>1. CASE pc[q] = "committed"
    BY <1>1, <2>1, CountsForNext, PositionsNext
  <2>2. CASE pc[q] # "committed"
    BY <1>1, <2>2 DEF CountsFor
  <2> QED  BY <2>1, <2>2
<1>5. Numbered(k)' /\ Newest(k)'
  BY <1>1, <1>3 DEF Chained, Numbered, Newest, NoRow
<1>6. OnePerEntry(k)'
  <2>1. OnePerEntry(k)
    BY <1>3 DEF Chained
  <2>2. \A r \in history' : r.key = k =>
          /\ CountsFor(r.entry[1], k)' /\ r.entry[2] \in Positions(r.entry[1], k)'
          /\ r.entry = <<r.entry[1], r.entry[2]>>
    BY <1>1, <1>2, <1>4, <2>1 DEF OnePerEntry
  <2>3. \A q \in Posters : CountsFor(q, k)' => \A i \in Positions(q, k)' :
          \E r \in history' : r.key = k /\ r.entry = <<q, i>>
    BY <1>1, <1>4, <2>1 DEF OnePerEntry
  <2>4. \A r, s \in history' :
          r.key = k /\ s.key = k /\ r.entry = s.entry => r = s
    BY <1>1, <2>1 DEF OnePerEntry
  <2> QED  BY <2>2, <2>3, <2>4 DEF OnePerEntry
<1>7. ASSUME NEW r \in history, r.key = k  PROVE Follows(r)'
  <2>1. Follows(r)
    BY <1>3, <1>7 DEF Chained
  <2>2. batch'[r.entry[1]] = batch[r.entry[1]]
    BY <1>1, <1>2
  <2>3. PICK b : b = batch[r.entry[1]][r.entry[2]]
    OBVIOUS
  <2>4. b = batch'[r.entry[1]][r.entry[2]] /\ history' = history
    BY <1>1, <2>2, <2>3
  <2>5. /\ r.version = 1 => r.sums = Add(NoRow.sums, b)
        /\ \A s \in history : s.key = r.key /\ r.version = s.version + 1 =>
             r.sums = Add(s.sums, b)
    BY <2>1, <2>3 DEF Follows
  <2> QED  BY <2>4, <2>5 DEF Follows
<1> QED  BY <1>1, <1>5, <1>6, <1>7 DEF Chained

\* What a commit writes for a key: rows numbered on from the balance that was
\* read, each adding its entry to the one before it, the last one the balance.
LEMMA BatchRows ==
  ASSUME TypedInv, FreshInv, NEW p \in Posters, Commit(p),
         NEW k \in KeysOf(batch[p], seen[p])
  PROVE  /\ current'[k] = LastRow(p, k)
         /\ current'[k].version \in Nat /\ current[k].version \in Nat
         /\ current[k].version < current'[k].version
         /\ \A i \in Positions(p, k) :
              /\ Rows(p, k)[i].version \in Nat
              /\ current[k].version < Rows(p, k)[i].version
              /\ Rows(p, k)[i].version <= current'[k].version
         /\ \A n \in Nat :
              current[k].version < n /\ n <= current'[k].version =>
                \E i \in Positions(p, k) : Rows(p, k)[i].version = n
         /\ \A i, j \in Positions(p, k) :
              Rows(p, k)[i].version = Rows(p, k)[j].version => i = j
         /\ \A i \in Positions(p, k) : \E b \in Row :
              /\ Rows(p, k)[i] = [version |-> b.version + 1,
                                  sums |-> Add(b.sums, batch[p][i])]
              /\ \/ b = current[k]
                 \/ \E j \in Positions(p, k) : b = Rows(p, k)[j]
         /\ \E i \in Positions(p, k) : LastRow(p, k) = Rows(p, k)[i]
<1> DEFINE n == Len(batch[p])
           P == Positions(p, k)
           w == Rows(p, k)
           a == read[p][k]
<1>1. k \in Key
  BY KeysAreKeys
<1>2. batch[p] \in Seq(EntryData) /\ a \in Row /\ a = current[k]
      /\ a.version \in Nat
  BY <1>1 DEF TypedInv, Data, FreshInv, Writing, Commit, Row
<1>3. n \in Nat /\ P \subseteq 1..n /\ P # {}
  BY <1>2 DEF Positions, KeysOf
<1>4. /\ \A i \in 0..n : w[i] \in Row /\ w[i].version \in Nat
      /\ w[0] = a
      /\ \A i \in P : w[i] = [version |-> w[i - 1].version + 1,
                              sums    |-> Add(w[i - 1].sums, batch[p][i])]
  <2>1. w \in [0..n -> Row] /\ w[0] = a
    BY <1>1, <1>2, RowsChain
  <2>2. \A i \in P : w[i] = [version |-> w[i - 1].version + 1,
                             sums    |-> Add(w[i - 1].sums, batch[p][i])]
    BY <1>1, <1>2, <1>3, RowsChain
  <2> HIDE DEF w, n, P, a
  <2> QED  BY <2>1, <2>2 DEF Row
<1>5. \A m \in 0..n :
        /\ w[m].version = a.version + Cardinality(P \cap (1..m))
        /\ \A i \in 0..m : w[i].version <= w[m].version
        /\ \A i \in 0..(m - 1) : m \in P => w[i].version < w[m].version
        /\ \A v \in Nat : a.version < v /\ v <= w[m].version =>
             \E i \in P : w[i].version = v
        /\ w[m] = a \/ \E i \in P : i <= m /\ w[i] = w[m]
  BY <1>1, <1>2, RowVersions
<1>6. LastRow(p, k) = w[n]
  BY DEF LastRow
<1>7. current'[k] = Written(k, LastRow(p, k), Cardinality(P))
  BY <1>1 DEF Commit
<1> HIDE DEF n, P, w, a
<1>17. n \in 0..n /\ \A i \in P : i \in 0..n
  BY <1>3
<1>8. \A i \in P : a.version < w[i].version /\ w[i].version <= w[n].version
  <2> SUFFICES ASSUME NEW i \in P
               PROVE  a.version < w[i].version /\ w[i].version <= w[n].version
    OBVIOUS
  <2>1. i \in 0..n /\ 0 \in 0..(i - 1) /\ n \in 0..n
    BY <1>3
  <2> QED  BY <1>4, <1>5, <2>1
<1>9. a.version < w[n].version /\ w[n].version \in Nat /\ w[n] \in Row
  <2>1. w[n] \in Row /\ w[n].version \in Nat
    BY <1>4, <1>17
  <2>2. PICK i \in P : TRUE
    BY <1>3
  <2>3. w[i].version \in Nat
    BY <1>4, <1>17
  <2> QED  BY <1>2, <1>8, <2>1, <2>2, <2>3
<1>10. w[n] # a
  BY <1>9, <1>2
<1>11. \E i \in P : w[n] = w[i]
  BY <1>5, <1>10, <1>17
<1>12. current'[k] = w[n]
  <2>1. P \cap (1..n) = P
    BY <1>3
  <2>2. w[n].version = a.version + Cardinality(P)
    BY <1>5, <1>17, <2>1
  <2>3. Cardinality(P) \in Nat
    <3>1. IsFiniteSet(1..n)
      BY <1>3, FS_Interval
    <3> QED  BY <3>1, <1>3, FS_Subset, FS_CardinalityType
  <2>4. CASE a.version = 0
    BY <1>2, <1>6, <1>7, <2>2, <2>3, <2>4 DEF Written
  <2>5. CASE a.version # 0
    <3>1. w[n].version # Cardinality(P)
      BY <1>2, <2>2, <2>3, <2>5
    <3> QED  BY <1>2, <1>6, <1>7, <2>5, <3>1 DEF Written
  <2> QED  BY <2>4, <2>5
<1>13. \A i, j \in P : w[i].version = w[j].version => i = j
  <2> SUFFICES ASSUME NEW i \in P, NEW j \in P, i < j
               PROVE  w[i].version < w[j].version
    BY <1>3, <1>4
  <2>1. j \in 0..n /\ i \in 0..(j - 1)
    BY <1>3
  <2> QED  BY <1>5, <2>1
<1>14. ASSUME NEW i \in P
       PROVE  \E b \in Row :
                /\ w[i] = [version |-> b.version + 1,
                           sums |-> Add(b.sums, batch[p][i])]
                /\ b = a \/ \E j \in P : b = w[j]
  <2>1. i - 1 \in 0..n
    BY <1>3
  <2>2. w[i - 1] = a \/ \E j \in P : j <= i - 1 /\ w[j] = w[i - 1]
    BY <1>5, <2>1
  <2> QED  BY <1>4, <2>1, <2>2
<1> DEFINE c == current'[k]
<1> HIDE DEF c
<1>15. \A i \in P : w[i].version \in Nat
  BY <1>4, <1>17
<1>16. \A v \in Nat : a.version < v /\ v <= w[n].version =>
             \E i \in P : w[i].version = v
  <2>1. n \in 0..n
    BY <1>3
  <2> QED  BY <1>5, <2>1
<1>18. a = current[k]
  BY <1>2
<1>19. /\ current'[k] = LastRow(p, k)
       /\ current'[k].version \in Nat /\ current[k].version \in Nat
       /\ current[k].version < current'[k].version
       /\ \E i \in P : LastRow(p, k) = w[i]
  BY <1>2, <1>6, <1>9, <1>11, <1>12
<1>20. \A i \in P : /\ w[i].version \in Nat
                     /\ current[k].version < w[i].version
                     /\ w[i].version <= current'[k].version
  BY <1>8, <1>12, <1>15, <1>18
<1>21. \A v \in Nat : current[k].version < v /\ v <= current'[k].version =>
         \E i \in P : w[i].version = v
  BY <1>12, <1>16, <1>18
<1>22. \A i \in P : \E b \in Row :
         /\ w[i] = [version |-> b.version + 1, sums |-> Add(b.sums, batch[p][i])]
         /\ b = current[k] \/ \E j \in P : b = w[j]
  BY <1>14, <1>18
<1> QED  BY <1>13, <1>19, <1>20, <1>21, <1>22 DEF P, w

NewRow(p, k, i) ==
  [key |-> k, at |-> at[p], entry |-> <<p, i>>,
   version |-> Rows(p, k)[i].version, sums |-> Rows(p, k)[i].sums]

\* The rows of one key after a commit.
LEMMA CommittedRows ==
  ASSUME NEW p \in Posters, Commit(p), NEW k \in Key
  PROVE  /\ \A r \in history' : r.key = k =>
              \/ r \in history
              \/ /\ k \in KeysOf(batch[p], seen[p])
                 /\ \E i \in Positions(p, k) : r = NewRow(p, k, i)
         /\ history \subseteq history'
         /\ k \in KeysOf(batch[p], seen[p]) =>
              \A i \in Positions(p, k) : NewRow(p, k, i) \in history'
         /\ k \notin KeysOf(batch[p], seen[p]) => current'[k] = current[k]
<1>1. history' = history \cup NewRows(p)
  BY DEF Commit
<1>2. ASSUME NEW r \in NewRows(p), r.key = k
      PROVE  /\ k \in KeysOf(batch[p], seen[p])
             /\ \E i \in Positions(p, k) : r = NewRow(p, k, i)
  <2>1. PICK m \in KeysOf(batch[p], seen[p]) : \E i \in Positions(p, m) :
           r = [key |-> m, at |-> at[p], entry |-> <<p, i>>,
                version |-> Rows(p, m)[i].version,
                sums |-> Rows(p, m)[i].sums]
    BY NewRowsFrom
  <2>2. m = k
    BY <1>2, <2>1
  <2> QED  BY <2>1, <2>2 DEF NewRow
<1>3. ASSUME k \in KeysOf(batch[p], seen[p]), NEW i \in Positions(p, k)
      PROVE  NewRow(p, k, i) \in NewRows(p)
  BY <1>3 DEF NewRows, NewRow
<1>4. k \notin KeysOf(batch[p], seen[p]) => current'[k] = current[k]
  BY DEF Commit
<1> QED  BY <1>1, <1>2, <1>3, <1>4

LEMMA CommitKeepsChained ==
  ASSUME TypedInv, FreshInv, ChainInv, NEW p \in Posters, Commit(p),
         NEW k \in Key
  PROVE  Chained(k)'
<1> p \in Procs
  BY DEF Procs
<1>1. /\ batch' = batch /\ seen' = seen /\ pc[p] = "writing"
      /\ \A q \in Posters : pc'[q] = IF q = p THEN "committed" ELSE pc[q]
  BY DEF Commit, posterVars, TypedInv, TypeOK, Procs
<1>2. Numbered(k) /\ OnePerEntry(k) /\ Newest(k)
      /\ \A r \in history : r.key = k => Follows(r)
  BY DEF ChainInv, Chained
<1>3. \A r \in history : r.entry[1] \in Posters /\ r.entry[1] # p
  BY <1>1 DEF TypedInv, TypeOK, Data
<1>4. \A q \in Posters :
        /\ Positions(q, k)' = Positions(q, k)
        /\ CountsFor(q, k)' <=> CountsFor(q, k)
                                \/ (q = p /\ k \in KeysOf(batch[p], seen[p]))
  <2> SUFFICES ASSUME NEW q \in Posters
        PROVE  /\ Positions(q, k)' = Positions(q, k)
               /\ CountsFor(q, k)' <=> CountsFor(q, k)
                                \/ (q = p /\ k \in KeysOf(batch[p], seen[p]))
    OBVIOUS
  <2>1. Positions(q, k)' = Positions(q, k)
    BY <1>1, PositionsNext
  <2>2. KeysOf(batch[q], seen[q])' = KeysOf(batch[q], seen[q])
    BY <1>1, KeysNext
  <2> QED  BY <1>1, <2>1, <2>2 DEF CountsFor
<1>5. CASE k \notin KeysOf(batch[p], seen[p])
  <2>1. current'[k] = current[k] /\ history \subseteq history'
        /\ \A r \in history' : r.key = k => r \in history
    BY <1>5, CommittedRows
  <2>2. \A q \in Posters : CountsFor(q, k)' <=> CountsFor(q, k)
    BY <1>4, <1>5
  <2>3. Numbered(k)' /\ Newest(k)'
    BY <1>2, <2>1 DEF Numbered, Newest, NoRow
  <2>4. OnePerEntry(k)'
    <3>1. \A r \in history' : r.key = k =>
            /\ CountsFor(r.entry[1], k)' /\ r.entry[2] \in Positions(r.entry[1], k)'
            /\ r.entry = <<r.entry[1], r.entry[2]>>
      BY <1>2, <1>3, <1>4, <2>1, <2>2 DEF OnePerEntry
    <3>2. \A q \in Posters : CountsFor(q, k)' => \A i \in Positions(q, k)' :
            \E r \in history' : r.key = k /\ r.entry = <<q, i>>
      BY <1>2, <1>4, <2>1, <2>2 DEF OnePerEntry
    <3>3. \A r, s \in history' :
            r.key = k /\ s.key = k /\ r.entry = s.entry => r = s
      BY <1>2, <2>1 DEF OnePerEntry
    <3> QED  BY <3>1, <3>2, <3>3 DEF OnePerEntry
  <2>5. ASSUME NEW r \in history', r.key = k  PROVE Follows(r)'
    <3>1. r \in history /\ Follows(r)
      BY <1>2, <2>1, <2>5
    <3> QED  BY <1>1, <2>1, <2>5, <3>1 DEF Follows, NoRow, Add
  <2> QED  BY <2>3, <2>4, <2>5 DEF Chained
<1>6. CASE k \in KeysOf(batch[p], seen[p])
  <2> DEFINE P == Positions(p, k)
             w == Rows(p, k)
             v == current[k].version
             u == current'[k].version
             New(i) == NewRow(p, k, i)
  <2>1. /\ u \in Nat /\ v \in Nat /\ v < u
        /\ \A i \in P : /\ w[i].version \in Nat
                        /\ v < w[i].version /\ w[i].version <= u
        /\ \A n \in Nat : v < n /\ n <= u => \E i \in P : w[i].version = n
        /\ \A i, j \in P : w[i].version = w[j].version => i = j
    BY <1>6, BatchRows
  <2>2. \A i \in P : \E b \in Row :
          /\ w[i] = [version |-> b.version + 1, sums |-> Add(b.sums, batch[p][i])]
          /\ b = current[k] \/ \E j \in P : b = w[j]
    BY <1>6, BatchRows
  <2>3. \E i \in P : current'[k] = w[i]
    BY <1>6, BatchRows
  <2>4. /\ \A r \in history' : r.key = k =>
             r \in history \/ \E i \in P : r = New(i)
        /\ history \subseteq history'
        /\ \A i \in P : New(i) \in history'
    BY <1>6, CommittedRows
  <2>5. \A i \in P : /\ New(i).key = k /\ New(i).entry = <<p, i>>
                     /\ New(i).version = w[i].version /\ New(i).sums = w[i].sums
                     /\ New(i).entry[1] = p /\ New(i).entry[2] = i
    BY DEF NewRow
  <2>6. \A r \in history : r.key = k => r.version \in 1..v /\ r.version \in Nat
    BY <1>2, <2>1 DEF Numbered
  <2> HIDE DEF P, w, v, u, New
  <2>7. Numbered(k)'
    <3>1. \A r \in history' : r.key = k => r.version \in 1..u
      <4> SUFFICES ASSUME NEW r \in history', r.key = k  PROVE r.version \in 1..u
        OBVIOUS
      <4>1. CASE r \in history
        BY <2>1, <2>6, <4>1
      <4>2. CASE \E i \in P : r = New(i)
        BY <2>1, <2>5, <4>2
      <4> QED  BY <2>4, <4>1, <4>2
    <3>2. \A n \in 1..u : \E r \in history' : r.key = k /\ r.version = n
      <4> SUFFICES ASSUME NEW n \in 1..u
                   PROVE  \E r \in history' : r.key = k /\ r.version = n
        OBVIOUS
      <4>1. CASE n <= v
        <5>1. n \in 1..v
          BY <2>1, <4>1
        <5>2. \E r \in history : r.key = k /\ r.version = n
          BY <1>2, <5>1 DEF Numbered, v
        <5> QED  BY <2>4, <5>2
      <4>2. CASE ~ (n <= v)
        <5>1. PICK i \in P : w[i].version = n
          BY <2>1, <4>2
        <5> QED  BY <2>4, <2>5, <5>1
      <4> QED  BY <4>1, <4>2
    <3>3. \A r, s \in history' :
            r.key = k /\ s.key = k /\ r.version = s.version => r = s
      <4> SUFFICES ASSUME NEW r \in history', NEW s \in history',
                          r.key = k, s.key = k, r.version = s.version
                   PROVE  r = s
        OBVIOUS
      <4>1. CASE r \in history /\ s \in history
        BY <1>2, <4>1 DEF Numbered
      <4>2. CASE r \in history /\ \E i \in P : s = New(i)
        BY <2>1, <2>5, <2>6, <4>2
      <4>3. CASE s \in history /\ \E i \in P : r = New(i)
        BY <2>1, <2>5, <2>6, <4>3
      <4>4. CASE (\E i \in P : r = New(i)) /\ (\E j \in P : s = New(j))
        BY <2>1, <2>5, <4>4
      <4> QED  BY <2>4, <4>1, <4>2, <4>3, <4>4
    <3> QED  BY <3>1, <3>2, <3>3 DEF Numbered, u
  <2>8. OnePerEntry(k)'
    <3>1. CountsFor(p, k)' /\ \A q \in Posters \ {p} :
            CountsFor(q, k)' <=> CountsFor(q, k)
      BY <1>4, <1>6
    <3>2. \A r \in history' : r.key = k =>
            /\ CountsFor(r.entry[1], k)' /\ r.entry[2] \in Positions(r.entry[1], k)'
            /\ r.entry = <<r.entry[1], r.entry[2]>>
      <4> SUFFICES ASSUME NEW r \in history', r.key = k
            PROVE  /\ CountsFor(r.entry[1], k)'
                   /\ r.entry[2] \in Positions(r.entry[1], k)'
                   /\ r.entry = <<r.entry[1], r.entry[2]>>
        OBVIOUS
      <4>1. CASE r \in history
        <5>1. r.entry[1] \in Posters \ {p}
          BY <1>3, <4>1
        <5>2. /\ CountsFor(r.entry[1], k)
              /\ r.entry[2] \in Positions(r.entry[1], k)
              /\ r.entry = <<r.entry[1], r.entry[2]>>
          BY <1>2, <4>1 DEF OnePerEntry
        <5> QED  BY <1>4, <3>1, <5>1, <5>2
      <4>2. ASSUME NEW i \in P, r = New(i)
            PROVE  /\ CountsFor(r.entry[1], k)'
                   /\ r.entry[2] \in Positions(r.entry[1], k)'
                   /\ r.entry = <<r.entry[1], r.entry[2]>>
        <5>1. r.entry[1] = p /\ r.entry[2] = i /\ r.entry = <<p, i>>
          BY <2>5, <4>2
        <5>2. i \in Positions(p, k)'
          BY <1>4 DEF P
        <5> QED  BY <3>1, <5>1, <5>2
      <4> QED  BY <2>4, <4>1, <4>2
    <3>3. \A q \in Posters : CountsFor(q, k)' => \A i \in Positions(q, k)' :
            \E r \in history' : r.key = k /\ r.entry = <<q, i>>
      <4> SUFFICES ASSUME NEW q \in Posters, CountsFor(q, k)',
                          NEW i \in Positions(q, k)'
                   PROVE  \E r \in history' : r.key = k /\ r.entry = <<q, i>>
        OBVIOUS
      <4>0. i \in Positions(q, k)
        BY <1>4
      <4>1. CASE q = p
        <5>1. i \in P
          BY <4>0, <4>1 DEF P
        <5> QED  BY <2>4, <2>5, <4>1, <5>1
      <4>2. CASE q # p
        <5>1. CountsFor(q, k)
          BY <3>1, <4>2
        <5> QED  BY <1>2, <2>4, <4>0, <5>1 DEF OnePerEntry
      <4> QED  BY <4>1, <4>2
    <3>4. \A r, s \in history' :
            r.key = k /\ s.key = k /\ r.entry = s.entry => r = s
      <4> SUFFICES ASSUME NEW r \in history', NEW s \in history',
                          r.key = k, s.key = k, r.entry = s.entry
                   PROVE  r = s
        OBVIOUS
      <4>1. CASE r \in history /\ s \in history
        BY <1>2, <4>1 DEF OnePerEntry
      <4>2. CASE r \in history /\ \E i \in P : s = New(i)
        BY <1>3, <2>5, <4>2
      <4>3. CASE s \in history /\ \E i \in P : r = New(i)
        BY <1>3, <2>5, <4>3
      <4>4. CASE (\E i \in P : r = New(i)) /\ (\E j \in P : s = New(j))
        <5>1. PICK i \in P : r = New(i)
          BY <4>4
        <5>2. PICK j \in P : s = New(j)
          BY <4>4
        <5>3. i = j
          BY <2>5, <5>1, <5>2
        <5> QED  BY <5>1, <5>2, <5>3
      <4> QED  BY <2>4, <4>1, <4>2, <4>3, <4>4
    <3> QED  BY <3>2, <3>3, <3>4 DEF OnePerEntry
  <2>9. Newest(k)'
    <3>1. u # 0
      BY <2>1
    <3>2. ASSUME NEW r \in history', r.key = k, r.version = u
          PROVE  r.sums = current'[k].sums
      <4>1. ~ (r \in history)
        BY <2>1, <2>6, <3>2
      <4>2. PICK i \in P : r = New(i)
        BY <2>4, <3>2, <4>1
      <4>3. PICK j \in P : current'[k] = w[j]
        BY <2>3
      <4>4. w[i].version = w[j].version
        BY <2>5, <3>2, <4>2, <4>3 DEF u
      <4>5. i = j
        BY <2>1, <4>4
      <4> QED  BY <2>5, <4>2, <4>3, <4>5
    <3> QED  BY <3>1, <3>2 DEF Newest, u
  <2>10. ASSUME NEW r \in history', r.key = k  PROVE Follows(r)'
    <3> DEFINE e == batch[r.entry[1]][r.entry[2]]
    <3>1. SUFFICES /\ r.version = 1 => r.sums = Add(NoRow.sums, e)
                   /\ \A s \in history' : s.key = k /\ r.version = s.version + 1 =>
                        r.sums = Add(s.sums, e)
      BY <1>1, <2>10 DEF Follows, NoRow, Add
    <3>2. CASE r \in history
      <4>1. Follows(r) /\ r.version \in 1..v
        BY <1>2, <2>6, <2>10, <3>2
      <4>2. ASSUME NEW s \in history', s.key = k, r.version = s.version + 1
            PROVE  s \in history
        <5>1. ~ \E i \in P : s = New(i)
          BY <2>1, <2>5, <4>1, <4>2
        <5> QED  BY <2>4, <4>2, <5>1
      <4> QED  BY <2>10, <4>1, <4>2 DEF Follows
    <3>3. ASSUME NEW i \in P, r = New(i)
          PROVE  /\ r.version = 1 => r.sums = Add(NoRow.sums, e)
                 /\ \A s \in history' : s.key = k /\ r.version = s.version + 1 =>
                      r.sums = Add(s.sums, e)
      <4>1. e = batch[p][i]
        BY <2>5, <3>3
      <4>2. PICK b \in Row :
              /\ w[i] = [version |-> b.version + 1,
                         sums |-> Add(b.sums, batch[p][i])]
              /\ b = current[k] \/ \E j \in P : b = w[j]
        BY <2>2
      <4>3. r.version = b.version + 1 /\ r.sums = Add(b.sums, e)
            /\ b.version \in Nat
        BY <2>5, <3>3, <4>1, <4>2 DEF Row
      <4>4. ASSUME r.version = 1  PROVE b.sums = NoRow.sums
        <5>1. b.version = 0
          BY <4>3, <4>4
        <5>2. ~ \E j \in P : b = w[j]
          BY <2>1, <5>1
        <5> QED  BY <1>2, <4>2, <5>1, <5>2 DEF Newest
      <4>5. ASSUME NEW s \in history', s.key = k, r.version = s.version + 1
            PROVE  s.sums = b.sums
        <5>1. s.version = b.version
          <6>1. s.version \in Nat
            BY <2>1, <2>4, <2>5, <2>6, <4>5
          <6> QED  BY <4>3, <4>5, <6>1
        <5>2. CASE b = current[k]
          <6>1. s \in history
            BY <2>1, <2>4, <2>5, <4>5, <5>1, <5>2 DEF v
          <6> QED  BY <1>2, <4>5, <5>1, <5>2, <6>1 DEF Newest
        <5>3. ASSUME NEW j \in P, b = w[j]  PROVE s.sums = b.sums
          <6>1. ~ (s \in history)
            BY <2>1, <2>6, <4>5, <5>1, <5>3
          <6>2. PICK m \in P : s = New(m)
            BY <2>4, <4>5, <6>1
          <6>3. m = j
            BY <2>1, <2>5, <5>1, <5>3, <6>2
          <6> QED  BY <2>5, <5>3, <6>2, <6>3
        <5> QED  BY <4>2, <5>2, <5>3
      <4> QED  BY <4>3, <4>4, <4>5
    <3> QED  BY <2>4, <2>10, <3>2, <3>3
  <2> QED  BY <2>7, <2>8, <2>9, <2>10 DEF Chained
<1> QED  BY <1>5, <1>6

LEMMA ChainedStart == Init => ChainInv
<1> SUFFICES ASSUME Init, NEW k \in Key  PROVE Chained(k)
  BY DEF ChainInv
<1>1. /\ history = {} /\ current[k] = NoRow
      /\ \A q \in Posters : pc[q] = "idle"
  BY DEF Init, Procs
<1>2. current[k].version = 0
  BY <1>1 DEF NoRow
<1> QED
  BY <1>1, <1>2 DEF Chained, Numbered, OnePerEntry, Newest, CountsFor

LEMMA ChainedStep ==
  ASSUME TypedInv, FreshInv, ChainInv, [Next]_vars
  PROVE  ChainInv'
<1>1. CASE \E p \in Posters : Commit(p)
  BY <1>1, CommitKeepsChained DEF ChainInv
<1>2. CASE ~ \E p \in Posters : Commit(p)
  BY <1>2, OthersKeepChained
<1> QED  BY <1>1, <1>2

\* The committed entries that count for a key, one by one.
LEMMA CountedEntries ==
  ASSUME NEW k \in Key
  PROVE  Counted(k) = UNION {{p} \X Positions(p, k) :
                               p \in {q \in Posters : CountsFor(q, k)}}
  BY DEF Counted, CountsFor

\* The rows of a key are as many as its entries, and as its version says.
LEMMA RowsCounted ==
  ASSUME TypedInv, ChainInv, NEW k \in Key,
         NEW rows, rows = {r \in history : r.key = k}
  PROVE  /\ {r.entry : r \in rows} = Counted(k)
         /\ IsFiniteSet(Counted(k))
         /\ Cardinality(rows) = Cardinality(Counted(k))
         /\ current[k].version = Cardinality(rows)
<1> DEFINE v == current[k].version
<1>1. Numbered(k) /\ OnePerEntry(k)
  BY DEF ChainInv, Chained
<1>2. v \in Nat
  BY DEF TypedInv, TypeOK
<1>3. {r.entry : r \in rows} = Counted(k)
  <2>1. ASSUME NEW r \in rows  PROVE r.entry \in Counted(k)
    <3>1. CountsFor(r.entry[1], k) /\ r.entry[2] \in Positions(r.entry[1], k)
          /\ r.entry = <<r.entry[1], r.entry[2]>>
      BY <1>1 DEF OnePerEntry
    <3>2. r.entry[1] \in Posters
      BY DEF TypedInv, TypeOK
    <3> QED  BY <3>1, <3>2, CountedEntries
  <2>2. ASSUME NEW e \in Counted(k)  PROVE \E r \in rows : e = r.entry
    <3>1. PICK q \in Posters : CountsFor(q, k) /\ e \in {q} \X Positions(q, k)
      BY CountedEntries
    <3>2. PICK i \in Positions(q, k) : e = <<q, i>>
      BY <3>1
    <3> QED  BY <1>1, <3>1, <3>2 DEF OnePerEntry
  <2> QED  BY <2>1, <2>2
<1>4. IsFiniteSet(rows) /\ Cardinality(rows) = v
  <2> DEFINE f == [n \in 1..v |-> CHOOSE r \in rows : r.version = n]
  <2>1. \A n \in 1..v : f[n] \in rows /\ f[n].version = n
    BY <1>1 DEF Numbered
  <2>2. \A r \in rows : r.version \in 1..v
    BY <1>1 DEF Numbered
  <2>3. \A r, s \in rows : r.version = s.version => r = s
    BY <1>1 DEF Numbered
  <2>4. f \in Bijection(1..v, rows)
    <3>1. f \in [1..v -> rows]
      BY <2>1
    <3>2. \A m, n \in 1..v : f[m] = f[n] => m = n
      BY <2>1
    <3>3. \A r \in rows : \E n \in 1..v : f[n] = r
      BY <2>1, <2>2, <2>3
    <3> HIDE DEF f, v
    <3> QED
      BY <3>1, <3>2, <3>3 DEF Bijection, Injection, Surjection, IsInjective
  <2>5. ExistsBijection(1..v, rows)
    BY <2>4 DEF ExistsBijection
  <2>6. IsFiniteSet(1..v) /\ Cardinality(1..v) = v
    <3> HIDE DEF v
    <3> QED  BY <1>2, FS_Interval
  <2> QED  BY <2>5, <2>6, FS_Bijection
<1>5. IsFiniteSet(Counted(k)) /\ Cardinality(Counted(k)) = Cardinality(rows)
  <2> DEFINE g == [r \in rows |-> r.entry]
  <2>1. \A r, s \in rows : r.entry = s.entry => r = s
    BY <1>1 DEF OnePerEntry
  <2>2. g \in Bijection(rows, Counted(k))
    <3>1. g \in [rows -> Counted(k)] /\ \A e \in Counted(k) : \E r \in rows : g[r] = e
      BY <1>3
    <3>2. \A r, s \in rows : g[r] = g[s] => r = s
      BY <2>1
    <3> HIDE DEF g
    <3> QED  BY <3>1, <3>2 DEF Bijection, Injection, Surjection, IsInjective
  <2> QED  BY <1>4, <2>2, FS_Bijection DEF ExistsBijection
<1> QED  BY <1>3, <1>4, <1>5

\* The sum of the specification follows the recursion of Induction.
LEMMA SumOfSumming ==
  ASSUME NEW E, IsFiniteSet(E), NEW y,
         NEW G, \A e \in E : G[e] = IF batch[e[1]][e[2]].layer = y
                                   THEN batch[e[1]][e[2]].units ELSE 0
  PROVE  \E F : Summing(F, G, E) /\ SumOf(E, y) = F[E]
<1> DEFINE Add1(e, n) == n + IF batch[e[1]][e[2]].layer = y
                             THEN batch[e[1]][e[2]].units ELSE 0
           Rec(F) == F = [s \in SUBSET E |->
                            IF s = {} THEN 0
                            ELSE Add1(CHOOSE x \in s : TRUE,
                                      F[s \ {CHOOSE x \in s : TRUE}])]
<1>1. \A F : Rec(F) <=> Summing(F, G, E)
  <2>1. \A F : \A s \in SUBSET E : s # {} =>
          Add1(CHOOSE x \in s : TRUE, F[s \ {CHOOSE x \in s : TRUE}])
          = F[s \ {CHOOSE x \in s : TRUE}] + G[CHOOSE x \in s : TRUE]
    <3> SUFFICES ASSUME NEW F, NEW s \in SUBSET E, s # {}
          PROVE  Add1(CHOOSE x \in s : TRUE, F[s \ {CHOOSE x \in s : TRUE}])
                 = F[s \ {CHOOSE x \in s : TRUE}] + G[CHOOSE x \in s : TRUE]
      OBVIOUS
    <3>1. (CHOOSE x \in s : TRUE) \in E
      OBVIOUS
    <3> DEFINE c == CHOOSE x \in s : TRUE
    <3> HIDE DEF c
    <3>2. Add1(c, F[s \ {c}]) = F[s \ {c}] + G[c]
      BY <3>1 DEF c
    <3> QED  BY <3>2 DEF c
  <2> HIDE DEF Add1
  <2> QED  BY <2>1 DEF Summing
<1>2. \E F : Rec(F)
  <2> HIDE DEF Rec
  <2> QED  BY <1>1, SumExists
<1>3. \E F : Rec(F) /\ SumOf(E, y) = F[E]
  BY <1>2 DEF SumOf, FoldSet, MapThenFoldSet
<1> HIDE DEF Rec
<1> QED  BY <1>1, <1>3

\* The sums of a row are those of the entries with a row up to it.
LEMMA RowsSum ==
  ASSUME TypedInv, ChainInv, NEW k \in Key,
         NEW rows, rows = {r \in history : r.key = k},
         NEW r \in rows, NEW y \in Layers
  PROVE  r.sums[y] = SumOf({s.entry : s \in {s \in rows : s.version <= r.version}}, y)
<1> DEFINE D == Counted(k)
           V(e) == IF batch[e[1]][e[2]].layer = y
                   THEN batch[e[1]][e[2]].units ELSE 0
           G == [e \in D |-> V(e)]
           E(n) == {s.entry : s \in {s \in rows : s.version <= n}}
           N == {n \in Nat : \A s \in rows : s.version = n => s.sums[y] = SumOf(E(n), y)}
<1>1. /\ Numbered(k) /\ OnePerEntry(k)
      /\ \A s \in rows : Follows(s)
  BY DEF ChainInv, Chained
<1>2. {s.entry : s \in rows} = D /\ IsFiniteSet(D)
  BY RowsCounted
<1>3. \A s \in rows : /\ s.entry \in D /\ s.version \in Nat \ {0}
                      /\ s.entry[1] \in Posters
                      /\ batch[s.entry[1]][s.entry[2]] \in EntryData
                      /\ s.sums \in [Layers -> Int]
  <2> SUFFICES ASSUME NEW s \in rows
               PROVE  /\ s.entry \in D /\ s.version \in Nat \ {0}
                      /\ s.entry[1] \in Posters
                      /\ batch[s.entry[1]][s.entry[2]] \in EntryData
                      /\ s.sums \in [Layers -> Int]
    OBVIOUS
  <2>1. /\ s.entry[1] \in Posters /\ s.entry[2] \in 1..Len(batch[s.entry[1]])
        /\ s.version \in Nat \ {0} /\ s.sums \in [Layers -> Int]
    BY DEF TypedInv, TypeOK
  <2>2. batch[s.entry[1]] \in Seq(EntryData)
    BY <2>1 DEF TypedInv, Data
  <2>3. batch[s.entry[1]][s.entry[2]] \in EntryData
    BY <2>1, <2>2
  <2> QED  BY <1>2, <2>1, <2>3
<1>4. \A e \in D : G[e] = V(e) /\ G[e] \in Int
  <2> SUFFICES ASSUME NEW e \in D  PROVE G[e] = V(e) /\ G[e] \in Int
    OBVIOUS
  <2>1. PICK s \in rows : s.entry = e
    BY <1>2
  <2>2. batch[e[1]][e[2]].units \in Int
    BY <1>3, <2>1 DEF EntryData
  <2> HIDE DEF D
  <2> QED  BY <2>2
<1>5. PICK F : Summing(F, G, D)
  <2> HIDE DEF D, G
  <2> QED  BY <1>2, SumExists
<1>6. \A n : E(n) \in SUBSET D
  BY <1>2
<1> HIDE DEF G, D
<1>7. ASSUME NEW S \in SUBSET D  PROVE SumOf(S, y) = F[S]
  <2>1. IsFiniteSet(S)
    BY <1>2, FS_Subset
  <2>2. \A e \in S : G[e] = IF batch[e[1]][e[2]].layer = y
                            THEN batch[e[1]][e[2]].units ELSE 0
    BY <1>4
  <2>3. PICK J : Summing(J, G, S) /\ SumOf(S, y) = J[S]
    BY <2>1, <2>2, SumOfSumming
  <2>4. \A t \in SUBSET S : F[t] = J[t]
    BY <1>5, <2>1, <2>3, SumUnique
  <2> QED  BY <2>3, <2>4
<1>8. F[{}] = 0 /\ \A S \in SUBSET D : F[S] \in Int
                      /\ \A e \in S : F[S] = F[S \ {e}] + G[e]
  <2>1. {} \in SUBSET D
    OBVIOUS
  <2>2. F[{}] = 0
    BY <1>5, <2>1, SummingStep
  <2>5. \A e \in D : G[e] \in Int
    BY <1>4
  <2>3. \A S \in SUBSET D : F[S] \in Int
    BY <1>2, <1>5, <2>5, SumType
  <2>4. \A S \in SUBSET D : \A e \in S : F[S] = F[S \ {e}] + G[e]
    <3>1. AddsUp(F, G, D)
      BY <1>2, <1>5, <2>5, SumAdds
    <3> QED  BY <3>1 DEF AddsUp
  <2> QED  BY <2>2, <2>3, <2>4
<1>9. 0 \in N
  BY <1>3
<1>10. ASSUME NEW n \in Nat, n \in N  PROVE n + 1 \in N
  <2> SUFFICES ASSUME NEW s \in rows, s.version = n + 1
               PROVE  s.sums[y] = SumOf(E(n + 1), y)
    OBVIOUS
  <2> DEFINE e == s.entry
  <2>1. /\ e \in E(n + 1) /\ e \in D /\ E(n + 1) \in SUBSET D /\ E(n) \in SUBSET D
    BY <1>3, <1>6
  <2>2. E(n + 1) \ {e} = E(n)
    <3>0. /\ \A t \in rows : t.version \in Nat
          /\ \A t \in rows : t.version = n + 1 => t = s
      BY <1>1, <1>3 DEF Numbered
    <3>1. \A t \in rows : t.version <= n + 1 =>
            t.version <= n \/ t = s
      BY ONLY <3>0, <1>10
    <3>2. \A t \in rows : t.version <= n => t.entry # e /\ t.version <= n + 1
      BY <1>1, <1>3 DEF OnePerEntry
    <3> QED  BY <3>1, <3>2
  <2> HIDE DEF E
  <2>3. F[E(n + 1)] = F[E(n)] + V(e)
    BY <1>4, <1>8, <2>1, <2>2
  <2>4. ASSUME NEW sums \in [Layers -> Int]
        PROVE  Add(sums, batch[e[1]][e[2]])[y] = sums[y] + V(e)
    <3>1. PICK d : d = batch[e[1]][e[2]]
      OBVIOUS
    <3>2. d \in EntryData
      BY <1>3, <3>1
    <3>3. Add(sums, d)[y] = IF d.layer = y THEN sums[y] + d.units ELSE sums[y]
      BY <3>2 DEF Add
    <3>4. V(e) = IF d.layer = y THEN d.units ELSE 0
      BY <3>1
    <3>5. sums[y] \in Int /\ d.units \in Int
      BY <3>2 DEF EntryData
    <3>6. PICK v : v = V(e)
      OBVIOUS
    <3>7. PICK b : b = Add(sums, d)[y]
      OBVIOUS
    <3>8. v = IF d.layer = y THEN d.units ELSE 0
      BY <3>4, <3>6
    <3>9. b = IF d.layer = y THEN sums[y] + d.units ELSE sums[y]
      BY ONLY <3>3, <3>7
    <3>10. b = sums[y] + v
      BY ONLY <3>5, <3>8, <3>9
    <3> HIDE DEF V
    <3>11. Add(sums, d)[y] = sums[y] + V(e)
      BY ONLY <3>6, <3>7, <3>10
    <3> QED  BY ONLY <3>1, <3>11
  <2>5. CASE n = 0
    <3>1. s.version = 1
      BY <2>5
    <3>2. s.sums = Add(NoRow.sums, batch[e[1]][e[2]])
      BY <1>1, <3>1 DEF Follows
    <3>3. NoRow.sums \in [Layers -> Int] /\ NoRow.sums[y] = 0
      BY DEF NoRow
    <3>4. s.sums[y] = NoRow.sums[y] + V(e)
      BY <2>4, <3>2, <3>3
    <3>5. E(n) = {}
      BY <1>3, <2>5 DEF E
    <3> QED  BY <1>7, <1>8, <2>1, <2>3, <3>3, <3>4, <3>5
  <2>6. CASE n # 0
    <3>1. n \in 1..current[k].version
      <4>1. s.version \in 1..current[k].version /\ current[k].version \in Nat
        BY <1>1 DEF Numbered, TypedInv, TypeOK
      <4> QED  BY <2>6, <4>1
    <3>2. PICK t \in rows : t.version = n
      BY <1>1, <3>1 DEF Numbered
    <3>3. s.sums = Add(t.sums, batch[e[1]][e[2]])
      BY <1>1, <3>2 DEF Follows
    <3>4. s.sums[y] = t.sums[y] + V(e)
      BY <1>3, <2>4, <3>2, <3>3
    <3>5. t.sums[y] = SumOf(E(n), y)
      BY <1>10, <3>2
    <3> QED  BY <1>7, <2>1, <2>3, <3>4, <3>5
  <2> QED  BY <2>5, <2>6
<1> HIDE DEF N
<1>11. \A n \in Nat : n \in N
  BY <1>9, <1>10, NatInduct
<1>12. r.version \in N
  BY <1>3, <1>11
<1> QED  BY <1>12 DEF N

LEMMA ExactRows ==
  ASSUME TypedInv, ChainInv
  PROVE  VelocityExact
<1> SUFFICES ASSUME NEW k \in Key, NEW rows, rows = {r \in history : r.key = k}
      PROVE  /\ {r.entry : r \in rows} = Counted(k)
             /\ Cardinality(rows) = Cardinality(Counted(k))
             /\ \A r \in rows : \A y \in Layers :
                  r.sums[y] = SumOf({s.entry : s \in {s \in rows :
                                       s.version <= r.version}}, y)
             /\ current[k].version = Cardinality(rows)
             /\ \A r \in rows :
                  r.version = current[k].version => r.sums = current[k].sums
  BY DEF VelocityExact
<1>1. \A r \in rows : \A y \in Layers :
        r.sums[y] = SumOf({s.entry : s \in {s \in rows : s.version <= r.version}}, y)
  BY RowsSum
<1>2. Newest(k)
  BY DEF ChainInv, Chained
<1> QED  BY <1>1, <1>2, RowsCounted DEF Newest

\* Every velocity balance is the sum of exactly the committed entries that
\* count for it, version by version, whatever the postings and attachments that
\* ran between its reads and its write.
THEOREM BalancesAreExact == Spec => []VelocityExact
<1>1. Init => TypedInv /\ FreshInv /\ ChainInv
  BY VelocityInitTyped, FreshInit, ChainedStart
<1>2. TypedInv /\ FreshInv /\ ChainInv /\ [Next]_vars =>
        (TypedInv /\ FreshInv /\ ChainInv)'
  BY VelocityStepTyped, FreshStep, ChainedStep
<1>3. TypedInv /\ FreshInv /\ ChainInv => VelocityExact
  BY ExactRows
<1> QED  BY <1>1, <1>2, <1>3, PTL DEF Spec
=============================================================================
