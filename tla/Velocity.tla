------------------------------ MODULE Velocity ------------------------------
(***************************************************************************)
(* Velocity limits (velocity/): what a posting enforces against which      *)
(* controls, the balances kept for each limit and partition window, and    *)
(* the operations that attach controls and add limits to them.             *)
(*                                                                         *)
(* A posting is the transaction of PostingFence from its read statement    *)
(* on.  The balance locks it holds there are left out: eventually          *)
(* consistent holders have none, and a velocity lock is only ever taken    *)
(* after all of them.  Memberships of accounts with entries are frozen     *)
(* (PostingFence), so the sets above an account are a constant.            *)
(***************************************************************************)
EXTENDS Integers, FiniteSets, Sequences, FiniteSetsExt

CONSTANTS
  Posters,       \* transactions that post one batch each
  Attachers,     \* transactions that attach a control
  Accounts,      \* accounts entries may target
  Sets,          \* account sets
  SetsOf,        \* the sets above each account
  Controls,
  Limits,
  Windows,       \* values of a limit's partition keys
  NoWindow,
  Kinds,         \* what conditions and window expressions see of an entry and
                 \* of its transaction (the holder's own fields are left out)
  Condition,     \* the kinds each control's condition accepts
  WindowOf,      \* window of a limit and a kind, NoWindow if it does not apply
  Ranges,        \* the balance limits of each limit
  Rank,          \* uuid (and window text) order
  Batches,       \* the batches clients post, each the sequence of its entries
  Times,         \* times a posting may begin at
  Attachments,   \* the attach calls clients make
  InitLimits,    \* limits of each control
  InitAttached   \* controls attached before

Holders == Accounts \cup Sets
Procs == Posters \cup Attachers
Layers == 1..3    \* settled, pending, encumbrance
Key == [holder : Holders, control : Controls, limit : Limits, window : Windows]
Slots == Holders \X Controls

ASSUME VelocityAssumption ==
  /\ Posters \cap Attachers = {}
  /\ SetsOf \in [Accounts -> SUBSET Sets]
  /\ Condition \in [Controls -> SUBSET Kinds]
  /\ NoWindow \notin Windows
  /\ WindowOf \in [Limits -> [Kinds -> Windows \cup {NoWindow}]]
  /\ Batches \subseteq
       Seq([account : Accounts, kind : Kinds, layer : Layers, units : Int])
  /\ \A r \in Attachments : r.control \in Controls /\ r.holders \subseteq Holders
  /\ \A l \in Limits : \A r \in Ranges[l] :
       r.layer \in Layers /\ r.side \in {1, -1} /\ r.amount \in Nat
  /\ InitLimits \in [Controls -> SUBSET Limits]
  /\ \A c \in InitAttached : /\ c.holder \in Holders /\ c.control \in Controls
                             /\ c.limits \subseteq InitLimits[c.control]

\* Ids of one kind are distinct, and so are window texts.
ASSUME RankAssumption ==
  \A X \in {Holders, Controls, Limits, Windows} :
    /\ IsFiniteSet(X)
    /\ \A i, j \in X : Rank[i] \in Nat /\ (Rank[i] = Rank[j] => i = j)

VARIABLES
  limitsOf,    \* committed cala_velocity_control_limits
  attached,    \* committed cala_velocity_account_controls, limits evaluated
  history,     \* committed cala_velocity_balance_history
  current,     \* committed cala_velocity_current_balances
  held,        \* granted velocity locks
  inserted,    \* attachment rows inserted and not committed
  pc,          \* phase of each transaction
  todo,        \* keys yet to lock, attachment rows yet to insert
  batch,       \* entries of the posting
  at,          \* the posting's time, or what its timestamp source gives
  seen,        \* attachments the posting has read
  read,        \* velocity balances the posting has read
  plan         \* the attach call, and the limits it has listed

committedVars == <<limitsOf, attached, history, current>>
posterVars == <<batch, at, seen, read>>
vars == <<limitsOf, attached, history, current, held, inserted, pc, todo,
          batch, at, seen, read, plan>>

----------------------------------------------------------------------------
(* Enforcement *)

\* An entry counts towards its account and every set above it.
HoldersOf(a) == {a} \cup SetsOf[a]

\* needs_enforcement and window_for_enforcement: does entry e count for k?
Matches(e, k) ==
  /\ k.holder \in HoldersOf(e.account)
  /\ e.kind \in Condition[k.control]
  /\ WindowOf[k.limit][e.kind] = k.window

\* The keys a batch b counts for under the attachments S.
KeysOf(b, S) ==
  {k \in Key :
     /\ \E c \in S : c.holder = k.holder /\ c.control = k.control
                     /\ k.limit \in c.limits
     /\ \E i \in 1..Len(b) : Matches(b[i], k)}

\* The positions of p's entries that count for k.
Positions(p, k) == {i \in 1..Len(batch[p]) : Matches(batch[p][i], k)}

NoRow == [version |-> 0, sums |-> [y \in Layers |-> 0]]

Add(sums, e) == [sums EXCEPT ![e.layer] = @ + e.units]

\* Variant: every snapshot of a batch starts from the balance that was read.
UnchainedRows(p, k) ==
  [i \in 0..Len(batch[p]) |->
     IF i \notin Positions(p, k) THEN read[p][k]
     ELSE [version |-> read[p][k].version + i,
           sums    |-> Add(read[p][k].sums, batch[p][i])]]

\* The balance of k after each of p's entries, from the one read: an entry that
\* counts chains a snapshot, another leaves it as it is.
Rows(p, k) ==
  LET row[i \in 0..Len(batch[p])] ==
        IF i = 0 THEN read[p][k]
        ELSE IF i \in Positions(p, k)
        THEN [version |-> row[i - 1].version + 1,
              sums    |-> Add(row[i - 1].sums, batch[p][i])]
        ELSE row[i - 1]
  IN  row

\* The balance of k after the batch.
LastRow(p, k) == Rows(p, k)[Len(batch[p])]

\* BalanceWithDirection::available: a layer includes the ones below it.
Available(sums, layer) ==
  CASE layer = 1 -> sums[1]
    [] layer = 2 -> sums[2] + sums[1]
    [] layer = 3 -> sums[3] + sums[2] + sums[1]

Active(r, t) == r.start <= t /\ t < r.end

\* AccountVelocityLimit::enforce.
Within(l, t, sums) ==
  \A r \in Ranges[l] :
    Active(r, t) => r.side * Available(sums, r.layer) <= r.amount

\* Variant: only the balance after the whole batch is enforced.
NetAccepts(p) ==
  \A k \in KeysOf(batch[p], seen[p]) :
    Within(k.limit, at[p], LastRow(p, k).sums)

\* Every snapshot of every key is enforced.
Accepts(p) ==
  \A k \in KeysOf(batch[p], seen[p]) : \A i \in Positions(p, k) :
    Within(k.limit, at[p], Rows(p, k)[i].sums)

----------------------------------------------------------------------------
(* Posting *)

Init ==
  /\ limitsOf = InitLimits
  /\ attached = InitAttached
  /\ history = {}
  /\ current = [k \in Key |-> NoRow]
  /\ held = {}
  /\ inserted = {}
  /\ pc = [o \in Procs |-> "idle"]
  /\ todo = [o \in Procs |-> {}]
  /\ batch = [p \in Posters |-> <<>>]
  /\ at = [p \in Posters |-> 0]
  /\ seen = [p \in Posters |-> {}]
  /\ read = [p \in Posters |-> [k \in Key |-> NoRow]]
  /\ plan = [o \in Attachers |-> [control |-> {}, holders |-> {}, limits |-> {}]]

AttachedTo(H) == {c \in attached : c.holder \in H}

\* The read statement: the controls of the entry accounts.
ReadAccounts(p) ==
  /\ pc[p] = "idle"
  /\ \E b \in Batches, t \in Times :
       /\ batch' = [batch EXCEPT ![p] = b]
       /\ at' = [at EXCEPT ![p] = t]
       /\ seen' = [seen EXCEPT ![p] =
                     AttachedTo({b[i].account : i \in 1..Len(b)})]
  /\ pc' = [pc EXCEPT ![p] = "ancestors"]
  /\ UNCHANGED <<committedVars, held, inserted, todo, read, plan>>

\* The ancestor statement, then the keys to check.  No key, no statement.
ReadAncestors(p) ==
  /\ pc[p] = "ancestors"
  /\ seen' = [seen EXCEPT ![p] = @ \cup
       AttachedTo(UNION {SetsOf[batch[p][i].account] : i \in 1..Len(batch[p])})]
  /\ todo' = [todo EXCEPT ![p] = KeysOf(batch[p], seen'[p])]
  /\ pc' = [pc EXCEPT ![p] = IF todo'[p] = {} THEN "writing" ELSE "locking"]
  /\ UNCHANGED <<committedVars, held, inserted, batch, at, read, plan>>

Before(k, m) ==
  \/ Rank[k.holder] < Rank[m.holder]
  \/ /\ k.holder = m.holder
     /\ \/ Rank[k.control] < Rank[m.control]
        \/ /\ k.control = m.control
           /\ \/ Rank[k.limit] < Rank[m.limit]
              \/ k.limit = m.limit /\ Rank[k.window] < Rank[m.window]

\* Variant: the keys in the order of the map that collected them.
AnyNextKey(p, k) == k \in todo[p]

\* find_for_update sorts the keys it locks.
NextKey(p, k) == k \in todo[p] /\ \A m \in todo[p] \ {k} : Before(k, m)

\* Variant: shared locks, which postings do not exclude each other with.
SharedLock(p) ==
  /\ pc[p] = "locking"
  /\ \E k \in todo[p] :
       /\ NextKey(p, k)
       /\ held' = held \cup {<<p, k>>}
       /\ todo' = [todo EXCEPT ![p] = @ \ {k}]
  /\ UNCHANGED <<committedVars, inserted, pc, posterVars, plan>>

Lock(p) ==
  /\ pc[p] = "locking"
  /\ \E k \in todo[p] :
       /\ NextKey(p, k)
       /\ \A q \in Posters : <<q, k>> \notin held
       /\ held' = held \cup {<<p, k>>}
       /\ todo' = [todo EXCEPT ![p] = @ \ {k}]
  /\ UNCHANGED <<committedVars, inserted, pc, posterVars, plan>>

ReadBalances(p) ==
  /\ pc[p] = "locking" /\ todo[p] = {}
  /\ read' = [read EXCEPT ![p] =
       [k \in Key |-> IF k \in KeysOf(batch[p], seen[p]) THEN current[k]
                      ELSE NoRow]]
  /\ pc' = [pc EXCEPT ![p] = "writing"]
  /\ UNCHANGED <<committedVars, held, inserted, todo, batch, at, seen, plan>>

NewRows(p) ==
  UNION {{[key |-> k, at |-> at[p], entry |-> <<p, i>>,
           version |-> Rows(p, k)[i].version, sums |-> Rows(p, k)[i].sums] :
            i \in Positions(p, k)} : k \in KeysOf(batch[p], seen[p])}

\* UNIQUE (..., partition_window, version) of the history.
VersionTaken(p) ==
  \E r \in NewRows(p), h \in history : r.key = h.key /\ r.version = h.version

\* Variant: the current balance is written by the insert alone.
InsertOnly(k, row, rows) ==
  IF current[k].version = 0 THEN row ELSE current[k]

\* initial_balances inserts the newest of a key's rows if its version is also
\* its rank among them (ON CONFLICT DO NOTHING), the UPDATE takes the others.
Written(k, row, rows) ==
  IF row.version = rows
  THEN IF current[k].version = 0 THEN row ELSE current[k]
  ELSE IF current[k].version = 0 THEN NoRow ELSE row

Release(o) ==
  /\ held' = {h \in held : h[1] # o}
  /\ inserted' = {h \in inserted : h[1] # o}

\* insert_new_snapshots, the rest of the posting and COMMIT.
Commit(p) ==
  /\ pc[p] = "writing"
  /\ Accepts(p)
  /\ ~ VersionTaken(p)
  /\ history' = history \cup NewRows(p)
  /\ current' = [k \in Key |->
       IF k \in KeysOf(batch[p], seen[p])
       THEN Written(k, LastRow(p, k), Cardinality(Positions(p, k)))
       ELSE current[k]]
  /\ pc' = [pc EXCEPT ![p] = "committed"]
  /\ Release(p)
  /\ UNCHANGED <<limitsOf, attached, todo, posterVars, plan>>

----------------------------------------------------------------------------
(* Controls *)

\* add_limit_to_control, UNIQUE per control and limit.
AddLimit(c, l) ==
  /\ l \notin limitsOf[c]
  /\ limitsOf' = [limitsOf EXCEPT ![c] = @ \cup {l}]
  /\ UNCHANGED <<attached, history, current, held, inserted, pc, todo, posterVars, plan>>

\* Variant: the limits of every control.
UnfilteredListLimits(o) ==
  /\ pc[o] = "idle"
  /\ \E r \in Attachments :
       /\ plan' = [plan EXCEPT ![o] = [control |-> r.control,
                     holders |-> r.holders, limits |-> Limits]]
       /\ todo' = [todo EXCEPT ![o] = r.holders \X {r.control}]
  /\ pc' = [pc EXCEPT ![o] = "inserting"]
  /\ UNCHANGED <<committedVars, held, inserted, posterVars>>

\* list_for_control: later limits do not reach this attachment.
ListLimits(o) ==
  /\ pc[o] = "idle"
  /\ \E r \in Attachments :
       /\ plan' = [plan EXCEPT ![o] = [control |-> r.control,
                     holders |-> r.holders, limits |-> limitsOf[r.control]]]
       /\ todo' = [todo EXCEPT ![o] = r.holders \X {r.control}]
  /\ pc' = [pc EXCEPT ![o] = "inserting"]
  /\ UNCHANGED <<committedVars, held, inserted, posterVars>>

\* create_all_in_op sorts by account.
NextSlot(o, s) == s \in todo[o] /\ \A u \in todo[o] : Rank[s[1]] <= Rank[u[1]]

TakenSlot(s) == \E c \in attached : <<c.holder, c.control>> = s

\* One row of the INSERT.  A row another transaction has inserted and not yet
\* committed makes this one wait, a committed one makes it fail.
Insert(o) ==
  /\ pc[o] = "inserting"
  /\ \E s \in todo[o] :
       /\ NextSlot(o, s)
       /\ ~ TakenSlot(s)
       /\ \A q \in Attachers : <<q, s>> \notin inserted
       /\ inserted' = inserted \cup {<<o, s>>}
       /\ todo' = [todo EXCEPT ![o] = @ \ {s}]
  /\ UNCHANGED <<committedVars, held, pc, posterVars, plan>>

CommitAttach(o) ==
  /\ pc[o] = "inserting" /\ todo[o] = {}
  /\ attached' = attached \cup
       {[holder |-> h, control |-> plan[o].control, limits |-> plan[o].limits] :
          h \in plan[o].holders}
  /\ pc' = [pc EXCEPT ![o] = "committed"]
  /\ Release(o)
  /\ UNCHANGED <<limitsOf, history, current, todo, posterVars, plan>>

----------------------------------------------------------------------------
(* Specification *)

\* A refused limit, a unique violation, a lost connection.
Abort(o) ==
  /\ pc[o] \notin {"idle", "committed", "aborted"}
  /\ pc' = [pc EXCEPT ![o] = "aborted"]
  /\ todo' = [todo EXCEPT ![o] = {}]
  /\ Release(o)
  /\ UNCHANGED <<committedVars, posterVars, plan>>

Next ==
  \/ \E p \in Posters :
       \/ ReadAccounts(p) \/ ReadAncestors(p) \/ Lock(p) \/ ReadBalances(p)
       \/ Commit(p)
  \/ \E c \in Controls, l \in Limits : AddLimit(c, l)
  \/ \E o \in Attachers : ListLimits(o) \/ Insert(o) \/ CommitAttach(o)
  \/ \E o \in Procs : Abort(o)

Spec == Init /\ [][Next]_vars

----------------------------------------------------------------------------
(* Properties *)

\* Every variable keeps its shape.
TypeOK ==
  /\ limitsOf \in [Controls -> SUBSET Limits]
  /\ \A c \in attached : /\ c.holder \in Holders /\ c.control \in Controls
                         /\ c.limits \subseteq limitsOf[c.control]
  /\ \A r \in history : /\ r.key \in Key /\ r.version \in Nat \ {0}
                        /\ r.sums \in [Layers -> Int] /\ r.at \in Times
                        /\ r.entry[1] \in Posters
                        /\ r.entry[2] \in 1..Len(batch[r.entry[1]])
  /\ \A k \in Key : current[k].version \in Nat
                   /\ current[k].sums \in [Layers -> Int]
  /\ held \subseteq Posters \X Key
  /\ inserted \subseteq Attachers \X Slots
  /\ pc \in [Procs -> {"idle", "ancestors", "locking", "writing", "inserting",
                       "committed", "aborted"}]
  /\ \A p \in Posters : todo[p] \subseteq Key
  /\ \A o \in Attachers : todo[o] \subseteq Slots

\* The committed entries that count for k: those of postings that had read
\* its control and limit.  A posting in flight when a control is attached
\* does not enforce it, and does not count.
Counted(k) ==
  UNION {{p} \X Positions(p, k) : p \in {q \in Posters :
           pc[q] = "committed" /\ k \in KeysOf(batch[q], seen[q])}}

SumOf(E, y) ==
  FoldSet(LAMBDA e, n : n + IF batch[e[1]][e[2]].layer = y
                            THEN batch[e[1]][e[2]].units ELSE 0, 0, E)

\* Every velocity balance is the sum of exactly the committed entries that
\* count for its window, version by version, whatever the postings and
\* attachments between its reads and its write; the row that is read next is
\* the newest.
VelocityExact ==
  \A k \in Key :
    LET rows == {r \in history : r.key = k} IN
    /\ {r.entry : r \in rows} = Counted(k)
    /\ Cardinality(rows) = Cardinality(Counted(k))
    /\ \A r \in rows : \A y \in Layers :
         r.sums[y] = SumOf({s.entry : s \in {s \in rows : s.version <= r.version}}, y)
    /\ current[k].version = Cardinality(rows)
    /\ \A r \in rows :
         r.version = current[k].version => r.sums = current[k].sums

\* No committed entry took a balance over a limit that applied at its time,
\* in whatever order the entries of a batch come and even if a later one
\* brought it back.
LimitHolds ==
  \A r \in history : Within(r.key.limit, r.at, r.sums)

\* What a posting has read is still the committed velocity balance when it
\* enforces and writes.
BalancesStayFresh ==
  \A p \in Posters : pc[p] = "writing" =>
    \A k \in KeysOf(batch[p], seen[p]) : read[p][k] = current[k]

\* The entries of p one by one, each against all its keys, as separate
\* postings would be.
OneByOne(p) ==
  LET keys == KeysOf(batch[p], seen[p])
      step[n \in 0..Len(batch[p])] ==
        IF n = 0 THEN [ok |-> TRUE, sums |-> [k \in keys |-> read[p][k].sums]]
        ELSE LET e == batch[p][n]
                 sums == [k \in keys |-> IF Matches(e, k)
                                         THEN Add(step[n - 1].sums[k], e)
                                         ELSE step[n - 1].sums[k]]
             IN  [ok |-> step[n - 1].ok /\ \A k \in keys :
                           Matches(e, k) => Within(k.limit, at[p], sums[k]),
                  sums |-> sums]
  IN  step[Len(batch[p])]

\* Enforcing a batch key by key accepts exactly the batches that posting the
\* entries one by one would accept, and leaves the same balances.
BatchIsSequential ==
  \A p \in Posters : pc[p] = "writing" =>
    /\ Accepts(p) <=> OneByOne(p).ok
    /\ \A k \in KeysOf(batch[p], seen[p]) :
         LastRow(p, k).sums = OneByOne(p).sums[k]

\* The transactions o waits for.
WaitsOn(o) ==
  IF o \in Posters
  THEN {q \in Posters \ {o} : \E k \in todo[o] : NextKey(o, k) /\ <<q, k>> \in held}
  ELSE {q \in Attachers \ {o} :
          \E s \in todo[o] : NextSlot(o, s) /\ <<q, s>> \in inserted}

\* Velocity locks and attachment rows are taken in an order all transactions
\* share: no set of them waits for itself.
NeverDeadlocks ==
  \A C \in SUBSET Procs : C # {} => \E o \in C : WaitsOn(o) \cap C = {}
=============================================================================
