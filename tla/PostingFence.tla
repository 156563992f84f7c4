---------------------------- MODULE PostingFence ----------------------------
(***************************************************************************)
(* The posting flow and the membership operations of cala-ledger, run as   *)
(* concurrent Postgres transactions (READ COMMITTED) that synchronise only *)
(* through advisory locks.                                                 *)
(*                                                                         *)
(* A poster is one call of Postings::post_all_in_op: lock statement, read  *)
(* statement, ancestor resolution with its lock batch, ancestor read,      *)
(* write.  An operation is one call of AccountSets::add_member(s) /        *)
(* remove_member: history guard under the member's exclusive lock, graph   *)
(* locks, validation, edge write.  Advisory locks are taken one by one in  *)
(* the order the statements establish and are released when the            *)
(* transaction ends.  A statement reads what is committed when it starts;  *)
(* a transaction's writes become visible together, when it commits.        *)
(*                                                                         *)
(* Abstractions.  One journal and one currency (they are further           *)
(* components of the balance key).  A transaction writes one entry per     *)
(* account of its batch, so <<poster, account>> names the entry.  A        *)
(* balance is the set of entries it has summed and the version of its      *)
(* newest snapshot.  Balances of eventually consistent holders (EC) are    *)
(* written by the rollup alone and stay untouched here.                    *)
(***************************************************************************)
EXTENDS Naturals, FiniteSets

CONSTANTS
  Posters,       \* one call of post_all_in_op each
  Ops,           \* one membership operation each
  Accounts,      \* account ids that entries may target
  Sets,          \* account sets
  EC,            \* the eventually consistent accounts and sets
  Rank,          \* position of an id in uuid order
  Live,          \* accounts committed at the start
  Batches,       \* the sets of accounts a posting's entries may target
  Plans,         \* the membership operations that may be requested
  InitMembers,   \* account memberships at the start: <<set, account>>
  InitSubsets,   \* set memberships at the start: <<set, member set>>
  TemplateMoves, \* a template may be updated while a posting runs
  AwaitCreate    \* clients post to accounts whose creation has committed

Holders == Accounts \cup Sets
Procs   == Posters \cup Ops
Entries == Posters \X Accounts
Balances == [version : Nat, folded : SUBSET Entries]

ASSUME IdsAssumption ==
  /\ Accounts \cap Sets = {}
  /\ Posters \cap Ops = {}
  /\ IsFiniteSet(Accounts) /\ IsFiniteSet(Sets)
  /\ EC \subseteq Holders
  /\ Rank \in [Holders -> Nat \ {0}]
  /\ \A x, y \in Holders : Rank[x] = Rank[y] => x = y

ASSUME InputsAssumption ==
  /\ Live \subseteq Accounts
  /\ Batches \subseteq SUBSET Accounts
  /\ Plans \subseteq [kind : {"add", "remove"},
                      accounts : SUBSET (Sets \X Accounts),
                      sets : SUBSET (Sets \X Sets)]
  /\ InitMembers \subseteq Sets \X Live
  /\ InitSubsets \subseteq Sets \X Sets
  /\ TemplateMoves \in BOOLEAN
  /\ AwaitCreate \in BOOLEAN

VARIABLES
  accounts,    \* committed rows of cala_accounts that are plain accounts
  memberOf,    \* committed cala_account_set_member_accounts
  subsetOf,    \* committed cala_account_set_member_account_sets
  entries,     \* committed cala_entries
  balance,     \* committed cala_current_balances (and the history behind it)
  held,        \* granted advisory locks
  pc,          \* phase of each transaction
  todo,        \* locks the statement in progress has yet to take
  batch,       \* accounts of the posting's entries
  above,       \* ancestor sets the posting has resolved for each account
  read,        \* balances the posting has read
  reprepared,  \* posters that took the stale-template path
  plan         \* the operation a membership transaction performs

committedVars == <<accounts, memberOf, subsetOf, entries, balance>>
posterVars == <<batch, above, read, reprepared>>
vars == <<accounts, memberOf, subsetOf, entries, balance, held, pc, todo,
          batch, above, read, reprepared, plan>>

----------------------------------------------------------------------------
(* Membership graph *)

\* The sets that contain a member of D, D itself included: D closed upward.
Up(D, S) ==
  {t \in Sets : \A C \in SUBSET Sets :
     (D \subseteq C /\ \A e \in S : e[2] \in C => e[1] \in C) => t \in C}

Direct(M, a) == {s \in Sets : <<s, a>> \in M}

Above(a) == Up(Direct(memberOf, a), subsetOf)

\* No cycle, and at most one path from an account or set to any ancestor.
ValidGraph(M, S) ==
  /\ \A e \in S : e[2] \notin Up({e[1]}, S)
  /\ \A e, f \in S :
       (e[2] = f[2] /\ e # f) => Up({e[1]}, S) \cap Up({f[1]}, S) = {}
  /\ \A e, f \in M :
       (e[2] = f[2] /\ e # f) => Up({e[1]}, S) \cap Up({f[1]}, S) = {}

\* The memberships at the start are a graph the operations could have built,
\* and one call is about account memberships or about set memberships.
ASSUME GraphAssumption ==
  /\ ValidGraph(InitMembers, InitSubsets)
  /\ \A r \in Plans : r.sets = {} \/ r.accounts = {}

----------------------------------------------------------------------------
(* Advisory locks *)

Lock == [class : {"ec_set", "balance", "graph", "member"},
         key : Holders \cup {"graph"}, mode : {"share", "exclusive"},
         owner : Procs]

Shared(c, k, o) == [class |-> c, key |-> k, mode |-> "share", owner |-> o]
Exclusive(c, k, o) ==
  [class |-> c, key |-> k, mode |-> "exclusive", owner |-> o]

Conflicts(l, h) ==
  /\ l.class = h.class /\ l.key = h.key /\ l.owner # h.owner
  /\ ~ (l.mode = "share" /\ h.mode = "share")

\* Acquisition order inside one statement: ORDER BY the id, and the two locks
\* of one row in select-list order; the coarse graph lock is a statement of
\* its own and comes first.
Position(l) ==
  CASE l.class = "graph"   -> 0
    [] l.class = "ec_set"  -> 3 * Rank[l.key]
    [] l.class = "balance" -> 3 * Rank[l.key] + 1
    [] l.class = "member"  -> 3 * Rank[l.key] + 2

\* Variant (the fault a run must detect): no ORDER BY in the lock statements.
UnorderedIsNext(l, o) == l \in todo[o]

IsNext(l, o) ==
  /\ l \in todo[o]
  /\ \A k \in todo[o] : Position(l) <= Position(k)

Acquire(o) ==
  \E l \in todo[o] :
    /\ IsNext(l, o)
    /\ \A h \in held : ~ Conflicts(l, h)
    /\ held' = held \cup {l}
    /\ todo' = [todo EXCEPT ![o] = @ \ {l}]
    /\ UNCHANGED <<committedVars, pc, posterVars, plan>>

\* COMMIT and ROLLBACK release every advisory lock of the transaction.
Release(o) == held' = {h \in held : h.owner # o}

----------------------------------------------------------------------------
(* What each transaction locks and writes *)

Plain(A) == A \ EC

Ancestors(p) == UNION {above[p][a] : a \in batch[p]}

\* The pairs the fold involves: non-EC entry accounts and their non-EC
\* ancestors.
Targets(p) == Plain(batch[p] \cup Ancestors(p))

\* Variant: the fan-out stops at the direct memberships.
DirectOwnEntries(p, x) ==
  {<<p, a>> : a \in {b \in batch[p] : x = b \/ x \in Direct(memberOf, b)}}

\* The poster's entries that count towards x.
OwnEntries(p, x) ==
  {<<p, a>> : a \in {b \in batch[p] : x = b \/ x \in above[p][b]}}

\* Variant: balance locks only, no attach fence.
UnfencedEntryLocks(p, A) == {Exclusive("balance", a, p) : a \in Plain(A)}

\* The fence: class-1 SHARED on every entry account, and the balance of the
\* non-EC ones.  The statement JOINs cala_accounts, so only accounts committed
\* when it starts (A) are locked.
EntryLocks(p, A) ==
  {Shared("ec_set", a, p) : a \in A}
    \cup {Exclusive("balance", a, p) : a \in Plain(A)}

\* Variant: ancestors resolved and never locked.
NoAncestorLocks(p, sets) == {}

AncestorLocks(p, sets) == {Exclusive("balance", s, p) : s \in Plain(sets)}

MemberIds(o) ==
  {e[2] : e \in plan[o].accounts} \cup {e[2] : e \in plan[o].sets}

\* The guard's class-1 EXCLUSIVE on every member of the request r.
GuardLocks(o, r) ==
  {Exclusive("ec_set", e[2], o) : e \in r.accounts \cup r.sets}

\* Variant: structure mutations share the coarse lock.
SharedGraphLocks(o) ==
  {Shared("graph", "graph", o)}
    \cup {Exclusive("member", e[2], o) : e \in plan[o].accounts}

\* Structure mutations take the coarse graph lock exclusively; account
\* memberships share it and take their members' class-2 locks.
GraphLocks(o) ==
  IF plan[o].sets # {}
  THEN {Exclusive("graph", "graph", o)}
  ELSE {Shared("graph", "graph", o)}
         \cup {Exclusive("member", e[2], o) : e \in plan[o].accounts}

NoBalance == [version |-> 0, folded |-> {}]
NoPlan == [kind |-> "none", accounts |-> {}, sets |-> {}]

----------------------------------------------------------------------------
(* Initial state *)

\* No initial account has entries.
Init ==
  /\ accounts = Live
  /\ memberOf = InitMembers
  /\ subsetOf = InitSubsets
  /\ entries = {}
  /\ balance = [x \in Holders |-> NoBalance]
  /\ held = {}
  /\ pc = [o \in Procs |-> "idle"]
  /\ todo = [o \in Procs |-> {}]
  /\ batch = [p \in Posters |-> {}]
  /\ above = [p \in Posters |-> [a \in Accounts |-> {}]]
  /\ read = [p \in Posters |-> [x \in Holders |-> NoBalance]]
  /\ reprepared = {}
  /\ plan = [o \in Ops |-> NoPlan]

----------------------------------------------------------------------------
(* Posting *)

\* Prepare the batch and start the lock statement.
Begin(p) ==
  /\ pc[p] = "idle"
  /\ \E A \in Batches :
       /\ AwaitCreate => A \subseteq accounts
       /\ batch' = [batch EXCEPT ![p] = A]
       /\ todo' = [todo EXCEPT ![p] = EntryLocks(p, A \cap accounts)]
  /\ pc' = [pc EXCEPT ![p] = "locking"]
  /\ UNCHANGED <<committedVars, held, above, read, reprepared, plan>>

\* Variant: the accounts of the new body go unlocked.
UnlockedReprepare(p) ==
  /\ TemplateMoves
  /\ pc[p] = "locking" /\ todo[p] = {} /\ p \notin reprepared
  /\ \E A \in Batches :
       /\ AwaitCreate => A \subseteq accounts
       /\ batch' = [batch EXCEPT ![p] = A]
  /\ reprepared' = reprepared \cup {p}
  /\ UNCHANGED <<committedVars, held, pc, todo, above, read, plan>>

\* The lock statement reported a newer template version: prepare again and
\* take the locks of the accounts the new body targets.
Reprepare(p) ==
  /\ TemplateMoves
  /\ pc[p] = "locking" /\ todo[p] = {} /\ p \notin reprepared
  /\ \E A \in Batches :
       /\ AwaitCreate => A \subseteq accounts
       /\ batch' = [batch EXCEPT ![p] = A]
       /\ todo' = [todo EXCEPT ![p] = EntryLocks(p, A \cap accounts) \ held]
  /\ reprepared' = reprepared \cup {p}
  /\ UNCHANGED <<committedVars, held, pc, above, read, plan>>

\* The read statement: accounts, membership probe, balances.  The ancestors at
\* the probed graph epoch are what the set-graph cache will expand to.
Read(p) ==
  /\ pc[p] = "locking" /\ todo[p] = {}
  /\ batch[p] \subseteq accounts
  /\ above' = [above EXCEPT ![p] =
                 [a \in Accounts |-> IF a \in batch[p] THEN Above(a) ELSE {}]]
  /\ read' = [read EXCEPT ![p] =
                [x \in Holders |->
                   IF x \in Plain(batch[p]) THEN balance[x] ELSE NoBalance]]
  /\ pc' = [pc EXCEPT ![p] =
              IF \E a \in batch[p] : Direct(memberOf, a) # {}
              THEN "resolving" ELSE "writing"]
  /\ UNCHANGED <<committedVars, held, todo, batch, reprepared, plan>>

\* Cache hit: the snapshot of the probed epoch, then the lock statement.
ResolveFromCache(p) ==
  /\ pc[p] = "resolving"
  /\ todo' = [todo EXCEPT ![p] = AncestorLocks(p, Ancestors(p))]
  /\ pc' = [pc EXCEPT ![p] = "ancestors"]
  /\ UNCHANGED <<committedVars, held, posterVars, plan>>

\* Cache miss: one statement walks the graph as it is now and takes the locks.
ResolveByWalk(p) ==
  /\ pc[p] = "resolving"
  /\ above' = [above EXCEPT ![p] =
                 [a \in Accounts |-> IF a \in batch[p] THEN Above(a) ELSE {}]]
  /\ todo' = [todo EXCEPT ![p] =
                AncestorLocks(p, UNION {Above(a) : a \in batch[p]})]
  /\ pc' = [pc EXCEPT ![p] = "ancestors"]
  /\ UNCHANGED <<committedVars, held, batch, read, reprepared, plan>>

ReadAncestors(p) ==
  /\ pc[p] = "ancestors" /\ todo[p] = {}
  /\ read' = [read EXCEPT ![p] =
                [x \in Holders |->
                   IF x \in Plain(Ancestors(p)) THEN balance[x]
                   ELSE read[p][x]]]
  /\ pc' = [pc EXCEPT ![p] = "writing"]
  /\ UNCHANGED <<committedVars, held, todo, batch, above, reprepared, plan>>

\* cala_balance_history is UNIQUE in (account, journal, currency, version).
VersionConflict(p) ==
  \E x \in Targets(p) : read[p][x].version < balance[x].version

\* Variant: one version per posting instead of one per entry.
CollapsedFolded(p, x) ==
  [version |-> read[p][x].version + 1,
   folded  |-> read[p][x].folded \cup OwnEntries(p, x)]

\* Fold: one snapshot per entry and balance it counts towards.
Folded(p, x) ==
  [version |-> read[p][x].version + Cardinality(OwnEntries(p, x)),
   folded  |-> read[p][x].folded \cup OwnEntries(p, x)]

\* The write statement and COMMIT.
Commit(p) ==
  /\ pc[p] = "writing"
  /\ ~ VersionConflict(p)
  /\ entries' = entries \cup {<<p, a>> : a \in batch[p]}
  /\ balance' = [x \in Holders |->
                   IF x \in Targets(p) THEN Folded(p, x) ELSE balance[x]]
  /\ pc' = [pc EXCEPT ![p] = "committed"]
  /\ Release(p)
  /\ UNCHANGED <<accounts, memberOf, subsetOf, todo, posterVars, plan>>

----------------------------------------------------------------------------
(* Membership operations *)

Propose(o) ==
  /\ pc[o] = "idle"
  /\ \E r \in Plans :
       /\ plan' = [plan EXCEPT ![o] = r]
       /\ todo' = [todo EXCEPT ![o] = GuardLocks(o, r)]
  /\ pc' = [pc EXCEPT ![o] = "guarding"]
  /\ UNCHANGED <<committedVars, held, posterVars>>

\* Variant: balance history alone, blind to the entries of EC accounts.
BalanceOnlyHasHistory(m) == balance[m].version > 0

HasHistory(m) ==
  balance[m].version > 0 \/ \E e \in entries : e[2] = m

\* The guard's EXISTS, then the graph locks.
CheckHistory(o) ==
  /\ pc[o] = "guarding" /\ todo[o] = {}
  /\ \A m \in MemberIds(o) : ~ HasHistory(m)
  /\ todo' = [todo EXCEPT ![o] = GraphLocks(o)]
  /\ pc' = [pc EXCEPT ![o] = "fencing"]
  /\ UNCHANGED <<committedVars, held, posterVars, plan>>

\* Additions may not make the graph invalid; removals need no validation.
Admissible(o) ==
  plan[o].kind = "add" =>
    ValidGraph(memberOf \cup plan[o].accounts, subsetOf \cup plan[o].sets)

Validate(o) ==
  /\ pc[o] = "fencing" /\ todo[o] = {}
  /\ Admissible(o)
  /\ pc' = [pc EXCEPT ![o] = "applying"]
  /\ UNCHANGED <<committedVars, held, todo, posterVars, plan>>

\* Variant: no foreign key on the member account.
NoForeignKeyInsertable(o) ==
  /\ plan[o].accounts \cap memberOf = {}
  /\ plan[o].sets \cap subsetOf = {}

\* The members' foreign keys and the edges' primary keys.
EdgesInsertable(o) ==
  /\ \A e \in plan[o].accounts : e[2] \in accounts
  /\ plan[o].accounts \cap memberOf = {}
  /\ plan[o].sets \cap subsetOf = {}

\* The edge write and COMMIT.
Apply(o) ==
  /\ pc[o] = "applying"
  /\ \/ /\ plan[o].kind = "add"
        /\ EdgesInsertable(o)
        /\ memberOf' = memberOf \cup plan[o].accounts
        /\ subsetOf' = subsetOf \cup plan[o].sets
     \/ /\ plan[o].kind = "remove"
        /\ memberOf' = memberOf \ plan[o].accounts
        /\ subsetOf' = subsetOf \ plan[o].sets
  /\ pc' = [pc EXCEPT ![o] = "committed"]
  /\ Release(o)
  /\ UNCHANGED <<accounts, entries, balance, todo, posterVars, plan>>

\* Accounts::create_in_op, with or without an initial account set: one
\* transaction, its class-2 lock taken and released inside.
Create(a) ==
  /\ a \notin accounts
  /\ accounts' = accounts \cup {a}
  /\ \/ memberOf' = memberOf
     \/ /\ \A h \in held : ~ (h.class = "member" /\ h.key = a)
        /\ \E s \in Sets : memberOf' = memberOf \cup {<<s, a>>}
  /\ UNCHANGED <<subsetOf, entries, balance, held, pc, todo, posterVars, plan>>

----------------------------------------------------------------------------
(* Failure *)

Running == {o \in Procs : pc[o] \notin {"idle", "committed", "aborted"}}

\* Variant: session locks, which a ROLLBACK does not release.
LeakyAbort(o) ==
  /\ o \in Running
  /\ pc' = [pc EXCEPT ![o] = "aborted"]
  /\ todo' = [todo EXCEPT ![o] = {}]
  /\ UNCHANGED <<committedVars, held, posterVars, plan>>

\* ROLLBACK: a refusal, an error of a later step (velocity, outbox), a lost
\* connection or a crash.
Abort(o) ==
  /\ o \in Running
  /\ pc' = [pc EXCEPT ![o] = "aborted"]
  /\ todo' = [todo EXCEPT ![o] = {}]
  /\ Release(o)
  /\ UNCHANGED <<committedVars, posterVars, plan>>

\* The transactions o is waiting for.
WaitsOn(o) ==
  {h.owner : h \in {g \in held : \E l \in todo[o] :
                                   IsNext(l, o) /\ Conflicts(l, g)}}

\* The transactions of some cycle of waits.
Deadlocked ==
  {o \in Procs : todo[o] # {} /\ \E C \in SUBSET Procs :
     o \in C /\ \A q \in C : WaitsOn(q) \cap C # {}}

\* Steps that end in an error whatever happens next: the deadlock detector's
\* victim, an unknown account, a member with history, an invalid graph, a
\* unique or foreign key violation.
MustAbort(o) ==
  \/ o \in Deadlocked
  \/ /\ todo[o] = {}
     /\ \/ pc[o] = "locking" /\ ~ (batch[o] \subseteq accounts)
        \/ pc[o] = "guarding" /\ \E m \in MemberIds(o) : HasHistory(m)
        \/ pc[o] = "fencing" /\ ~ Admissible(o)
        \/ pc[o] = "applying" /\ ~ EdgesInsertable(o)
        \/ pc[o] = "writing" /\ VersionConflict(o)

Fail(o) == Abort(o) /\ MustAbort(o)

----------------------------------------------------------------------------
(* Specification *)

\* The steps a running transaction takes without waiting for its caller.
Advance(o) ==
  \/ Acquire(o)
  \/ o \in Posters /\ \/ Read(o)
                      \/ ResolveFromCache(o)
                      \/ ResolveByWalk(o)
                      \/ ReadAncestors(o)
                      \/ Commit(o)
  \/ o \in Ops /\ (CheckHistory(o) \/ Validate(o) \/ Apply(o))

Next ==
  \/ \E p \in Posters : Begin(p) \/ Reprepare(p)
  \/ \E o \in Ops : Propose(o)
  \/ \E o \in Procs : Advance(o)
  \/ \E a \in Accounts : Create(a)
  \/ \E o \in Procs : Abort(o)

Spec == Init /\ [][Next]_vars

\* A transaction that has begun keeps executing: each is one async task that
\* awaits only the database.
FairSpec ==
  Spec /\ \A o \in Procs : WF_vars(Advance(o)) /\ WF_vars(Fail(o))

----------------------------------------------------------------------------
(* Properties *)

PosterPhases == {"idle", "locking", "resolving", "ancestors", "writing",
                 "committed", "aborted"}
OpPhases == {"idle", "guarding", "fencing", "applying", "committed", "aborted"}

\* Every variable keeps its shape.
TypeOK ==
  /\ accounts \subseteq Accounts
  /\ memberOf \subseteq Sets \X accounts
  /\ subsetOf \subseteq Sets \X Sets
  /\ entries \subseteq Entries
  /\ balance \in [Holders -> Balances]
  /\ held \subseteq Lock
  /\ pc \in [Procs -> PosterPhases \cup OpPhases]
  /\ \A p \in Posters : pc[p] \in PosterPhases
  /\ \A o \in Ops : pc[o] \in OpPhases
  /\ todo \in [Procs -> SUBSET Lock]
  /\ batch \in [Posters -> SUBSET Accounts]
  /\ above \in [Posters -> [Accounts -> SUBSET Sets]]
  /\ read \in [Posters -> [Holders -> Balances]]
  /\ reprepared \subseteq Posters
  /\ plan \in [Ops -> Plans \cup {NoPlan}]

\* The entries that count towards x under the committed graph.
Counted(x) == {e \in entries : x = e[2] \/ x \in Above(e[2])}

\* The balance of every holder maintained inline has summed exactly the
\* committed entries of the accounts below it in the committed graph: no
\* interleaving of postings and membership operations drops an entry from an
\* ancestor or counts one that was never below it.
InlineBalancesExact ==
  \A x \in Plain(Holders) : balance[x].folded = Counted(x)

\* The versions of a balance count its snapshots: one per entry it has
\* summed, without gaps or reuse.
VersionsDense ==
  \A x \in Holders : balance[x].version = Cardinality(balance[x].folded)

\* A poster that has read works under its locks: class-1 SHARED on every
\* entry account, and the balance lock of everything it is about to write.
LockBeforeRead ==
  \A p \in Posters :
    /\ pc[p] \in {"resolving", "ancestors", "writing"} =>
         EntryLocks(p, batch[p]) \subseteq held
    /\ pc[p] = "writing" => AncestorLocks(p, Ancestors(p)) \subseteq held

\* What a poster has read is still the committed balance when it writes: the
\* UNIQUE constraint of the history never has to refuse a posting.
ReadsStayFresh ==
  \A p \in Posters : pc[p] = "writing" =>
    \A x \in Targets(p) : read[p][x] = balance[x]

\* The guard's answer lasts: from the history check to its commit, no member of
\* an operation gets an entry or a balance.
GuardStillEmpty ==
  \A o \in Ops : pc[o] \in {"fencing", "applying"} =>
    \A m \in MemberIds(o) : ~ HasHistory(m)

\* Concurrent membership operations, each validated against what it read,
\* never commit a cycle or a second path between a member and an ancestor.
GraphStaysValid == ValidGraph(memberOf, subsetOf)

\* The direct memberships of an account change neither once it has entries
\* nor while a posting that has resolved them is in flight.
MembershipFrozen ==
  [][\A a \in accounts :
       \/ Direct(memberOf', a) = Direct(memberOf, a)
       \/ /\ \A e \in entries : e[2] # a
          /\ \A p \in Posters : a \in batch[p] =>
               pc[p] \notin {"resolving", "ancestors", "writing"}]_vars

\* Only a posting that re-prepared against a moved template takes locks out
\* of order: every cycle of waits contains one.
DeadlockNeedsReprepare == Deadlocked # {} => Deadlocked \cap reprepared # {}

\* Every transaction that has begun ends.
Terminates ==
  \A o \in Procs : o \in Running ~> pc[o] \in {"committed", "aborted"}
=============================================================================
