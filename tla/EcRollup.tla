------------------------------ MODULE EcRollup ------------------------------
(***************************************************************************)
(* The streaming rollup of eventually consistent (EC) balances.            *)
(*                                                                         *)
(* Postings enforce velocity, write, and publish one TransactionCreated    *)
(* and then one EntryCreated event per entry; each event takes the next    *)
(* outbox sequence, and concurrent postings interleave theirs.  One        *)
(* resident handler consumes the outbox in sequence order, collects events *)
(* in memory, and lands each batch in a transaction that also advances the *)
(* checkpoint: it loads what the batch lacks, resolves the EC holders, then *)
(* takes their locks, then folds.  Set memberships change beside it, and a *)
(* client awaits a pinned frontier.                                        *)
(*                                                                         *)
(* Abstractions.  A transaction has at most one entry per account, so      *)
(* <<transaction, account>> names the entry; a balance is the number of    *)
(* times it has added each entry.  Account memberships are fixed: they do  *)
(* not change once an account has entries (PostingFence, MembershipFrozen). *)
(* The outbox (sequences, ordered delivery that waits for the transaction  *)
(* that holds the next sequence, a single running handler) is external and *)
(* modelled from what this repository's comments and calls require of it.  *)
(***************************************************************************)
EXTENDS Naturals, Sequences, FiniteSets

CONSTANTS
  Txns, Accounts, Sets,
  EC,            \* eventually consistent accounts and sets
  Targets,       \* the accounts each transaction's entries are written to
  Members,       \* account memberships: <<set, account>>
  InitSubsets,   \* set memberships at the start: <<set, member set>>
  Changes,       \* set membership operations: [kind, edge]
  Lockable,      \* holders a client may lock, and later unlock
  MaxBatch,      \* MAX_EVENTS_PER_BATCH
  MaxCrashes     \* bound on crashes of the handler's process

Holders == EC \cap (Accounts \cup Sets)
Entries == {e \in Txns \X Accounts : e[2] \in Targets[e[1]]}

ASSUME RollupAssumption ==
  /\ IsFiniteSet(Txns) /\ IsFiniteSet(Accounts)
  /\ Accounts \cap Sets = {}
  /\ Targets \in [Txns -> SUBSET Accounts]
  /\ Members \subseteq Sets \X Accounts
  /\ InitSubsets \subseteq Sets \X Sets
  /\ Changes \subseteq [kind : {"add", "remove"}, edge : Sets \X Sets]
  /\ Lockable \subseteq Holders
  /\ MaxBatch \in Nat \ {0}
  /\ MaxCrashes \in Nat

\* The events of other services belong to no transaction.
NoTxn == "none"

ASSUME NoTxnAssumption == NoTxn \notin Txns

VARIABLES
  pc,         \* phase of each posting
  unsent,     \* entries of a posting that have no sequence yet
  stream,     \* the outbox, by sequence
  booksOpen,  \* what the velocity limits of the postings look at
  subsetOf,   \* committed cala_account_set_member_account_sets
  change,     \* phase of each membership operation
  locked,     \* holders with status Locked
  unlocked,   \* holders that have been unlocked again
  checkpoint, \* committed position of the handler
  cursor,     \* last sequence the handler has taken in
  phase,      \* what the handler is doing
  routes,     \* <<entry, holder>> as resolved by the flush in progress
  balance,    \* cala_current_balances of the EC holders
  crashes,    \* crashes so far
  fence       \* the EcRollupStatus a client awaits

postingVars == <<pc, unsent, stream, booksOpen>>
graphVars == <<subsetOf, change>>
accountVars == <<locked, unlocked>>
handlerVars == <<checkpoint, cursor, phase, routes, balance, crashes>>
vars == <<pc, unsent, stream, booksOpen, subsetOf, change, locked, unlocked,
          checkpoint, cursor, phase, routes, balance, crashes, fence>>

----------------------------------------------------------------------------
(* Membership and events *)

Up(D, S) ==
  {t \in Sets : \A C \in SUBSET Sets :
     (D \subseteq C /\ \A e \in S : e[2] \in C => e[1] \in C) => t \in C}

\* Variant: the direct memberships only.
DirectFeedsOf(a) ==
  {x \in Holders : x = a \/ <<x, a>> \in Members}

\* The EC holders an account's entries count for: its EC ancestor sets and, if
\* it is an EC leaf, itself.
FeedsOf(a) ==
  {x \in Holders : x = a \/ x \in Up({s \in Sets : <<s, a>> \in Members}, subsetOf)}

TxCreated(t)    == [kind |-> "transaction", txn |-> t, entry |-> <<>>]
EntryCreated(e) == [kind |-> "entry", txn |-> e[1], entry |-> e]
Other           == [kind |-> "other", txn |-> NoTxn, entry |-> <<>>]

Committed == {t \in Txns : pc[t] = "committed"}

NoFence == [frontier |-> 0, sequenced |-> {}, closed |-> FALSE]

\* A transaction that rolled back leaves its sequences without a payload.
HasPayload(i) == stream[i].txn \in Committed \cup {NoTxn}

\* Variant: a sequence without a committed row is taken for a gap at once.
EagerSettled(i) == TRUE

\* Variant: the sequences of a rolled-back transaction are waited for.
PatientSettled(i) == stream[i].txn \in Committed \cup {NoTxn}

\* Delivery does not pass a sequence whose transaction is still in flight.
Settled(i) == stream[i].txn \notin {t \in Txns : pc[t] = "publishing"}

Init ==
  /\ pc = [t \in Txns |-> "idle"]
  /\ unsent = [t \in Txns |-> {}]
  /\ stream = <<>>
  /\ booksOpen = TRUE
  /\ subsetOf = InitSubsets
  /\ change = [c \in Changes |-> "idle"]
  /\ locked = {} /\ unlocked = {}
  /\ checkpoint = 0 /\ cursor = 0
  /\ phase = "collecting"
  /\ routes = {}
  /\ balance = [x \in Holders |-> [e \in Entries |-> 0]]
  /\ crashes = 0
  /\ fence = NoFence

----------------------------------------------------------------------------
(* Postings *)

\* Validation refuses locked accounts and ancestors; velocity enforcement
\* refuses once the period is closed.
Enforce(t) ==
  /\ pc[t] = "idle"
  /\ booksOpen
  /\ \A a \in Targets[t] : FeedsOf(a) \cap locked = {}
  /\ pc' = [pc EXCEPT ![t] = "enforced"]
  /\ UNCHANGED <<unsent, stream, booksOpen, graphVars, accountVars,
                 handlerVars, fence>>

PublishTransaction(t) ==
  /\ pc[t] = "enforced"
  /\ pc' = [pc EXCEPT ![t] = "publishing"]
  /\ unsent' = [unsent EXCEPT ![t] = {<<t, a>> : a \in Targets[t]}]
  /\ stream' = Append(stream, TxCreated(t))
  /\ UNCHANGED <<booksOpen, graphVars, accountVars, handlerVars, fence>>

PublishEntry(t) ==
  /\ \E e \in unsent[t] :
       /\ unsent' = [unsent EXCEPT ![t] = @ \ {e}]
       /\ stream' = Append(stream, EntryCreated(e))
  /\ UNCHANGED <<pc, booksOpen, graphVars, accountVars, handlerVars, fence>>

Finish(t) ==
  /\ pc[t] = "publishing" /\ unsent[t] = {}
  /\ pc' = [pc EXCEPT ![t] = "committed"]
  /\ UNCHANGED <<unsent, stream, booksOpen, graphVars, accountVars,
                 handlerVars, fence>>

Rollback(t) ==
  /\ pc[t] \in {"enforced", "publishing"}
  /\ pc' = [pc EXCEPT ![t] = "aborted"]
  /\ unsent' = [unsent EXCEPT ![t] = {}]
  /\ UNCHANGED <<stream, booksOpen, graphVars, accountVars, handlerVars, fence>>

----------------------------------------------------------------------------
(* The handler *)

Landing == (checkpoint + 1)..cursor

\* The batch accumulated from the events taken in since the checkpoint.
CollectedTxns ==
  {stream[i].txn : i \in {j \in Landing : HasPayload(j)
                                          /\ stream[j].kind = "transaction"}}

CollectedEntries ==
  {stream[i].entry : i \in {j \in Landing : HasPayload(j)
                                            /\ stream[j].kind = "entry"}}

\* Variant: once a group is incomplete all of it is loaded.
WholeGroupMissing ==
  {e \in Entries : e[1] \in CollectedTxns
     /\ \E f \in Entries : f[1] = e[1] /\ f \notin CollectedEntries}

\* Entries the flush must load: expected by a collected transaction and not
\* collected with it.
Missing == {e \in Entries : e[1] \in CollectedTxns} \ CollectedEntries

\* Variant: no top-up from the database.
StreamOnlyTimes(e) ==
  IF e[1] \in CollectedTxns /\ e \in CollectedEntries THEN 1 ELSE 0

\* Variant: stragglers are folded where they land.
StragglerTimes(e) ==
  (IF e \in CollectedEntries THEN 1 ELSE 0) + (IF e \in Missing THEN 1 ELSE 0)

\* How often the flush adds e: once if it was collected beside its
\* transaction, once if it was loaded.  A straggler, whose transaction landed
\* before, is dropped.
Times(e) ==
  (IF e[1] \in CollectedTxns /\ e \in CollectedEntries THEN 1 ELSE 0)
    + (IF e \in Missing THEN 1 ELSE 0)

Rolled == {e \in Entries : Times(e) > 0}

Collected == Cardinality(CollectedTxns) + Cardinality(CollectedEntries)

\* Take in the next event; at most MaxBatch collected events share a landing.
Deliver ==
  /\ phase = "collecting"
  /\ cursor < Len(stream) /\ Settled(cursor + 1)
  /\ Collected < MaxBatch
  /\ cursor' = cursor + 1
  /\ UNCHANGED <<postingVars, graphVars, accountVars, checkpoint, phase, routes,
                 balance, crashes, fence>>

\* Flush, first statements: load the missing entries and resolve the EC holders
\* of the entry accounts in the committed graph.
Resolve ==
  /\ phase = "collecting" /\ checkpoint < cursor
  /\ phase' = "resolved"
  /\ routes' = {r \in Rolled \X Holders : r[2] \in FeedsOf(r[1][2])}
  /\ UNCHANGED <<postingVars, graphVars, accountVars, checkpoint, cursor,
                 balance, crashes, fence>>

Involved == {r[2] : r \in routes}

Guarded == {c.edge[2] : c \in {d \in Changes : change[d] = "guarded"}}

\* Lock statement (class-1 SHARED, which a membership guard's EXCLUSIVE delays)
\* and balance read; a locked holder is an error.
LockInvolved ==
  /\ phase = "resolved"
  /\ Involved \cap (Guarded \cup locked) = {}
  /\ phase' = "folding"
  /\ UNCHANGED <<postingVars, graphVars, accountVars, checkpoint, cursor,
                 routes, balance, crashes, fence>>

\* Variant: the checkpoint names the next event instead of the last one.
NextLand ==
  /\ phase = "folding"
  /\ phase' = "collecting"
  /\ checkpoint' = cursor + 1 /\ cursor' = cursor + 1
  /\ balance' = [x \in Holders |->
                   [e \in Entries |->
                      balance[x][e] + (IF <<e, x>> \in routes THEN Times(e) ELSE 0)]]
  /\ routes' = {}
  /\ UNCHANGED <<postingVars, graphVars, accountVars, crashes, fence>>

\* Fold, write, advance the checkpoint and commit, in one transaction.
Land ==
  /\ phase = "folding"
  /\ phase' = "collecting"
  /\ checkpoint' = cursor
  /\ balance' = [x \in Holders |->
                   [e \in Entries |->
                      balance[x][e] + (IF <<e, x>> \in routes THEN Times(e) ELSE 0)]]
  /\ routes' = {}
  /\ UNCHANGED <<postingVars, graphVars, accountVars, cursor, crashes, fence>>

\* The batch and the flush transaction are lost; the next run starts from the
\* committed checkpoint.
Restart ==
  /\ cursor' = checkpoint
  /\ phase' = "collecting"
  /\ routes' = {}
  /\ UNCHANGED <<postingVars, graphVars, accountVars, checkpoint, balance, fence>>

Crash == crashes < MaxCrashes /\ crashes' = crashes + 1 /\ Restart

\* Variant: a flush that fails is not retried.
StuckFlushFails ==
  /\ phase = "resolved" /\ Involved \cap locked # {}
  /\ phase' = "failed"
  /\ UNCHANGED <<postingVars, graphVars, accountVars, checkpoint, cursor,
                 routes, balance, crashes, fence>>

\* BalanceError::AccountLocked fails the flush and with it the run of the job,
\* which is retried.
FlushFails ==
  /\ phase = "resolved"
  /\ Involved \cap Guarded = {} /\ Involved \cap locked # {}
  /\ crashes' = crashes
  /\ Restart

----------------------------------------------------------------------------
(* Set memberships, account status, the client *)

\* EXCLUSIVE on the member, then the history check (a set has no entries).
GuardChange(c) ==
  /\ change[c] = "idle"
  /\ c.edge[2] \notin Guarded
  /\ ~ (phase = "folding" /\ c.edge[2] \in Involved)
  /\ c.edge[2] \in Holders => \A e \in Entries : balance[c.edge[2]][e] = 0
  /\ (c.edge \in subsetOf) = (c.kind = "remove")
  /\ change' = [change EXCEPT ![c] = "guarded"]
  /\ UNCHANGED <<postingVars, subsetOf, accountVars, handlerVars, fence>>

\* Edge write, event, commit.
ApplyChange(c) ==
  /\ change[c] = "guarded"
  /\ change' = [change EXCEPT ![c] = "committed"]
  /\ subsetOf' = IF c.kind = "add" THEN subsetOf \cup {c.edge}
                                   ELSE subsetOf \ {c.edge}
  /\ stream' = Append(stream, Other)
  /\ UNCHANGED <<pc, unsent, booksOpen, accountVars, handlerVars, fence>>

LockAccount(x) ==
  /\ x \in Lockable \ (locked \cup unlocked)
  /\ locked' = locked \cup {x}
  /\ UNCHANGED <<postingVars, graphVars, unlocked, handlerVars, fence>>

UnlockAccount(x) ==
  /\ x \in locked
  /\ locked' = locked \ {x}
  /\ unlocked' = unlocked \cup {x}
  /\ UNCHANGED <<postingVars, graphVars, handlerVars, fence>>

CloseBooks ==
  /\ booksOpen
  /\ booksOpen' = FALSE
  /\ UNCHANGED <<pc, unsent, stream, graphVars, accountVars, handlerVars, fence>>

\* Variant: the highest committed sequence.
CommittedFrontier ==
  CHOOSE n \in 0..Len(stream) :
    /\ n = 0 \/ HasPayload(n)
    /\ \A i \in (n + 1)..Len(stream) : ~ HasPayload(i)

\* The highest sequence assigned so far, committed or not.
Frontier == Len(stream)

\* CalaLedger::ec_rollup_status pins the frontier, once; "sequenced" and
\* "closed" record what was true at that moment.
Pin ==
  /\ fence = NoFence /\ stream # <<>>
  /\ fence' = [frontier |-> Frontier,
               sequenced |-> {t \in Txns : \E i \in 1..Len(stream) : stream[i].txn = t},
               closed |-> ~ booksOpen]
  /\ UNCHANGED <<postingVars, graphVars, accountVars, handlerVars>>

----------------------------------------------------------------------------
(* Specification *)

Publish(t) == PublishTransaction(t) \/ PublishEntry(t) \/ Finish(t)

Handle == Resolve \/ LockInvolved \/ Land \/ FlushFails

Next ==
  \/ \E t \in Txns : Enforce(t) \/ Publish(t) \/ Rollback(t)
  \/ Deliver \/ Handle \/ Crash
  \/ \E c \in Changes : GuardChange(c) \/ ApplyChange(c)
  \/ \E x \in Lockable : LockAccount(x) \/ UnlockAccount(x)
  \/ CloseBooks \/ Pin

Spec == Init /\ [][Next]_vars

\* Transactions that hold sequences end, a guarded membership operation ends,
\* and the resident job keeps running.
FairSpec ==
  /\ Spec
  /\ \A t \in Txns : WF_vars(Publish(t))
  /\ \A c \in Changes : WF_vars(ApplyChange(c))
  /\ WF_vars(Deliver) /\ WF_vars(Handle)

----------------------------------------------------------------------------
(* Properties *)

\* Every variable keeps its shape; the checkpoint never passes the handler's
\* position nor that position the end of the stream.
TypeOK ==
  /\ pc \in [Txns -> {"idle", "enforced", "publishing", "committed", "aborted"}]
  /\ unsent \in [Txns -> SUBSET Entries]
  /\ \A i \in 1..Len(stream) :
       stream[i] \in {TxCreated(t) : t \in Txns}
                       \cup {EntryCreated(e) : e \in Entries} \cup {Other}
  /\ subsetOf \subseteq Sets \X Sets
  /\ change \in [Changes -> {"idle", "guarded", "committed"}]
  /\ locked \subseteq Lockable /\ unlocked \subseteq Lockable
  /\ cursor \in 0..Len(stream)
  /\ checkpoint \in 0..cursor
  /\ phase \in {"collecting", "resolved", "folding"}
  /\ routes \subseteq Entries \X Holders
  /\ balance \in [Holders -> [Entries -> Nat]]
  /\ crashes \in 0..MaxCrashes

Applied ==
  {t \in Committed : \E i \in 1..checkpoint : stream[i] = TxCreated(t)}

\* The promise (ExactRollup): however events interleave, batches split groups
\* and the handler crashes, each posted transaction is applied at most once,
\* whole, to the holders its accounts feed at that moment.
Promise == INSTANCE ExactRollup
  WITH posted <- Committed, applied <- Applied, balance <- balance,
       feeds <- {f \in Accounts \X Holders : f[2] \in FeedsOf(f[1])}

AppliesExactly == Promise!Spec

\* Every event at or below the committed checkpoint is folded: an entry of a
\* committed transaction is in its EC leaf exactly once as soon as the
\* checkpoint has passed any event of its transaction, and never before.
FoldedToCheckpoint ==
  \A e \in Entries : e[2] \in Holders =>
    balance[e[2]][e] =
      IF e[1] \in Committed /\ \E i \in 1..checkpoint : stream[i].txn = e[1]
      THEN 1 ELSE 0

\* Set memberships that change under a lagging rollup never make it count an
\* entry twice.
NeverTwice == \A x \in Holders, e \in Entries : balance[x][e] <= 1

\* await_completion: when the checkpoint reaches the pinned frontier, every
\* posting that had a sequence when it was pinned has ended, and is folded into
\* its leaves if it committed.
FenceCovers ==
  (fence # NoFence /\ checkpoint >= fence.frontier) =>
    \A t \in fence.sequenced :
      /\ pc[t] \in {"committed", "aborted"}
      /\ pc[t] = "committed" =>
           \A a \in Targets[t] \cap Holders : balance[a][<<t, a>>] = 1

\* Promised of await_completion: once the books were closed before the frontier
\* was pinned and the wait is over, no posting that saw the period open is
\* still to come.
NoStraggler ==
  (fence.closed /\ checkpoint >= fence.frontier) =>
    \A t \in Txns : pc[t] \notin {"enforced", "publishing"}

\* Promised of the live closure: the balance of an EC set holds just what
\* those of its EC members hold.
SetHoldsItsMembers ==
  \A s \in Sets \cap Holders, e \in Entries :
    balance[s][e] > 0 <=>
      \E m \in Holders : /\ <<s, m>> \in Members \cup subsetOf
                         /\ balance[m][e] > 0

\* A pinned frontier is reached, unless a client leaves a holder locked.
CatchesUp ==
  <>[](locked = {}) => (fence # NoFence ~> checkpoint >= fence.frontier)
=============================================================================
