# A TLA+ model of cala-ledger

cala-ledger is a double-entry ledger as a library over PostgreSQL. What makes it
hard is not the arithmetic but the concurrency: postings, changes of the
account-set graph, account creation, an in-process cache of the graph and a
background rollup run as independent database transactions (READ COMMITTED) that
meet only in advisory locks, unique constraints and the order of an event
stream. This directory models these parts, model-checks them on small instances
with TLC and proves the central ones for all instances with TLAPS.

Paths below are relative to `src/cala-ledger/src/`.

## 1. Inventory

| Component | State it keeps | Operations | What is hard | What makes it correct |
|---|---|---|---|---|
| Posting flow (`posting/`) | entries, balances, history, advisory locks of the transaction | prepare, lock, re-prepare, read, resolve ancestors, fold, enforce velocity, write, publish | lock order, snapshots of statements, stale templates, accounts created meanwhile | inline balances are exact; nothing is read before it is locked; nothing overwritten that was not read |
| Account sets (`account_set/`, `account_set_member/`) | membership edges, graph epoch | create, add and remove accounts and sets, in bulk | history checks against postings in flight; two operations valid alone and invalid together | membership frozen once there is activity; graph acyclic with one path to each ancestor |
| Graph cache (`account_set/graph_cache.rs`) | snapshot of the set graph with its epoch | resolve, refresh on use and by timer | epoch, probe and overlay are read in different statements; refreshes race | an answer is that of the recursive walk; the cache catches up |
| EC rollup (`ec_rollup.rs`, `balance/mod.rs`) | checkpoint, batch, EC balances | collect, flush, checkpoint, await a frontier | interleaved sequences, batches that split groups, crashes, locked accounts, changing sets | each posting applied once, whole, before the awaited frontier |
| Effective balances (`balance/effective/`) | rows per effective date | pass of a posting or of the rollup, as-of, range and modified-since queries | back-dating rewrites rows; positions move; times go backwards | rows equal a replay from nothing; ranges add up; a poller misses nothing |
| Settled balances (`balance/`) | current balance, history | fold entries into versions | as the posting flow | versions dense, one per entry |
| Graph validation (`account_set/graph_validation.rs`, `graph_cache.rs`) | none (pure, over what is read) | duplicate path, cycle, depth over a bulk request | only a part of the graph is read; precedence of errors, exact depth bound, which edge is blamed | agrees with a reference definition over the whole graph |
| Listings (`account_set_member/`, `account_set/`, `balance/`, `entry/`) | none (queries) | keyset pages over members, sets, balances, ranges, entries | ties in a sort key, missing values, two tables merged, rows committed between pages | a walk shows every row that was there throughout, once, in order; a page has the next rows and tells whether there are more |
| Velocity (`velocity/`) | limits, controls, window balances | attach, enforce a batch | controls attached under postings in flight; windows; chained snapshots | limits never exceeded; versions dense |
| Template cache (`posting/template_cache.rs`) | templates by code | resolve, probe, refresh | stale between preparation and lock | a posting never commits a stale body |
| Accounts, journals, templates, entries, transactions | event-sourced records | create, update, lock, unlock | account status read by postings and rollup | see posting flow and rollup |
| CEL interpreter, parameters, core types | none | evaluate, coerce | data, not control | out of scope |
| Outbox (`obix`), jobs, PostgreSQL | sequences, locks | external | ordered delivery, lock waits | modelled from use, marked external |

The components interact as follows. A posting takes, in one statement, a shared
lock on each entry account and an exclusive lock on each balance it will write;
it resolves ancestors through the graph cache (or a recursive walk), locks those
balances too, reads and writes. A membership operation takes the exclusive side
of the entry-account lock on its member, looks for activity, takes the graph
locks, validates and writes edges; a structure operation also advances the graph
epoch. Postings publish events whose sequences the rollup consumes in order; the
rollup is the only writer of eventually consistent (EC) balances.

`PROJECT.json` lists the hazards at the lines where they bite, with the
properties that cover each.

## 2. Modules

| Module | Models | Kind |
|---|---|---|
| `PostingFence` | posting flow and membership operations with their lock protocol | detailed |
| `PostingFenceProofs` | the proofs about it, and that its locks are taken in one order | TLAPS |
| `AncestorResolution` | what a resolution promises: the walk's answer at an instant since the probe | abstract |
| `SetGraphCache` | graph cache, refresh tasks, coarse graph lock | detailed; implements `AncestorResolution` |
| `SetGraphCacheProofs` | the proofs about it, the refinement among them | TLAPS |
| `GraphValidation` | the checks of a request for memberships, and what it ought to be told | operators, with their reference |
| `GraphProofs` | the proofs that the checks compute their reference | TLAPS |
| `Listings` | the twelve paginated listings written in this repository | operators over the tables |
| `Memberships` | both, with creation, attach, removal, postings and a client that pages | composition |
| `MembershipsProofs` | the proofs about it | TLAPS |
| `ExactRollup` | what the rollup promises: each posted transaction applied once, whole | abstract |
| `EcRollup` | postings as event publishers, outbox, handler, checkpoint, frontier | detailed; implements `ExactRollup` |
| `EcRollupProofs` | the proofs about it, the refinement among them | TLAPS |
| `EffectiveBalance` | the rows of one effective balance, its replay and queries | detailed |
| `EffectiveBalanceProofs` | the proofs about it | TLAPS |
| `Velocity` | limits and controls, enforcement of a batch, velocity balances | detailed |
| `VelocityProofs` | the proofs about it | TLAPS |
| `Induction` | induction over naturals and finite sets, lists, sums, chains and closures, for the proofs | TLAPS |
| `MC*` | the small instances, one module per component | for TLC |

`PostingFence` and `SetGraphCache` cut the system at ancestor resolution: the
first takes the resolution as one atomic step under the posting's locks, the
second justifies it. `PostingFence!MembershipFrozen` justifies in turn that
`EcRollup` holds account memberships fixed, and `EffectiveBalance` rests on the
balance lock of `PostingFence` when it makes a write of rows one step, and on the
order and the frontier of `EcRollup` when it folds a stream.
`Memberships` looks at what the fence takes as given: that the checks decide
validity. It takes changes of memberships as one step each and postings as two;
section *Memberships* says which of that `PostingFence` justifies.

### PostingFence

| Code | Definition |
|---|---|
| `post_all_in_op`, prepare and lock | `Begin`, then `Acquire` once per lock in the order of the statement (`IsNext`, `Position`) |
| stale template | `Reprepare` (only with `TemplateMoves`) |
| `read_posting_state_in_op` | `Read`: probe and balances from the committed state |
| `resolve_from_probe_in_op`, `walk_mappings_and_lock_in_op` | `ResolveFromCache`, `ResolveByWalk` with `AncestorLocks` |
| `read_ancestor_state_in_op` | `ReadAncestors` |
| `insert_postings_and_balances_in_op`, COMMIT | `Commit`; the UNIQUE constraint of the history is `VersionConflict` |
| `add_member(s)`, `remove_member`, sets and accounts | `Propose`, `CheckHistory`, `Validate`, `Apply` |
| account creation | `Create` |
| rollback for any reason | `Abort`; what must fail is `MustAbort` |

The two lock classes are the EC-set namespace on accounts ("member") and the
balance and graph namespaces. A statement reads what is committed when it runs,
which is READ COMMITTED; locks go away with the transaction.

### SetGraphCache

A resolver is a posting (no graph lock), an account attach (shared) or a
structure operation (exclusive, sees its own edges). `Probe` reads seeds and
epoch; `LoadStale` falls back to `Walk` and spawns a refresh; `LoadCurrent`
expands in memory or goes on to `Overlay` for seeds the snapshot does not know.
A refresh is `TryLock`, `Fetch`, `Install`, so that another may run and the graph
may change between any two. A resolver runs one transaction after another.
`graphs` is a history variable: the graphs each resolver could have seen since its
probe. The overlay reads what is above an unknown set by a statement of its own,
later than the snapshot it is laid over, so such an answer may mix two instants:
`AncestorResolution` promises it less (`Between`).

### GraphValidation

`Up`, `Down` and the rounds of `Ordered` are the traversal, Kahn's algorithm and
its depths; `EdgesConnectedTo` is what the cache hands over, `AffectedAccountMemberships`
what is read of the accounts. `MeetingAncestors`, `RepeatedContainment`,
`FirstOnCycle`, `FirstDepthOverflow` (the binary search) and `ReachesTwice` are the
checks, `SetVerdict` and `AccountVerdict` the outcome for the two kinds of request.
The reference, `DueError`, knows none of this: it enumerates all chains of containment
(`Chains`) and asks for one that ends where it began, for two with the same ends and
for one with too many edges.

### Listings

A row is its sort key, a tuple; a page is a `Keyset` query over one table or a merge
of two, of one row more than the page has. Eight of the twelve listings share this form; the two of members
merge two tables, the one by external id with a predicate of its own for missing values;
the two of ranges count balances and not the rows these give. The two listings of members return as `end_cursor` the row
*beyond* the page (`WithCursorBeyond`); the client of the model goes on from the last
member it was given (`NextCursor`), as the tests do, and ends at a member without
external id, whose cursor would start the listing over. The reference, `Listed`, is the
set of rows a listing is of, and knows neither cursors nor limits; `PagesExact` measures
every page by it.

### Memberships

A change of memberships is one action, with its verdict read over either source of the
existing edges (`Existing`). Creating an account inside a set takes no graph lock and
makes no check, so it is two steps, `InsertAccount` and `CommitAccount`, with set
memberships committed between them.

A posting is two steps as well: `Resolve` locks its account and finds the sets above it,
`Write` folds its entry into those, `AbortPosting` does not. Between the two any change may
commit that the locks let through. An operation whose member is the account waits for the
posting (`InFlight`; `PostingFence!MembershipFrozen` is the same on the level of locks). An
operation whose member is a *set* does not, whatever is posted below it: its history check
locks the set in a namespace in which postings lock accounts (finding 1), so a posting that
has resolved the old ancestry writes to it after the new edge is committed. `astray` keeps
the entries for which that happened (`Overtaken`), and `SetHistoryIsItsMembers` claims
nothing of them above the direct sets of their account; of all other entries it claims that
they are in exactly the sets above, and of every entry that it is in the direct ones. An
operation on a set is still one step, though the code checks the history and writes the
edge in two statements. A posting that commits between the two is written after the check
and resolved before the edge is committed: its history and the edge end up as they do for a
posting that is in flight over the whole operation, which is a behaviour of the model. The
locks, step by step, are the subject of `PostingFence`.

`StartWalk` and `ReadPage` are a client reading any listing, in pages of any size,
while transactions commit with times before or after its cursor. The tables begin with
what these transactions may have left in them (`TablesAssumption`): rows of the type of
their columns, one per membership, a sound graph, and in every set the history of the
accounts below it.

### EcRollup

`Enforce`, `PublishTransaction`, `PublishEntry`, `Finish`, `Rollback` are a
posting as a source of events. `Deliver` collects an event, `Resolve` reads the
routes of the batch, `LockInvolved` takes the holders' locks and reads their
balances and status, `Land` commits balances and checkpoint together, `FlushFails`
and `Crash` fall back to the checkpoint. `GuardChange` and `ApplyChange` are a set
attach or removal with its history check, `CloseBooks` and `Pin` the client that
closes a period and awaits it.

### EffectiveBalance

`Begin` fixes the time a posting writes (`NOW()` is when its transaction began).
`Write` is the whole of `update_effective_balances` for one balance: one `Pass` per
date in ascending order at which the batch has an entry of the balance (`Involved`), each
with the destructive read (`Future`, `LastRow`), the sort (`Precedes`), the replay with its
running difference (`Replay`, `Shift`, `Rebase`) and the renumbering. `Replayed` is the
replay after each of its updates, `Applied` the rows after each of the groups. `Panics` are
the panics of a pass: the `unreachable!()` of the sort (`Unsortable`), and a deleted row that
is replayed before any entry, where the code finds no entry to start from or no difference
(`Rootless`). The first alone is excluded by the read, whose rows are all dated after the
pass; the second rests on the loop over the groups, which leaves out a date without an entry.

`kind` says which of two kinds the account is. One that posts inline writes in its own
transaction (`Post`). For an eventually consistent one a posting only enters the stream
(`Publish`), and `Fold`, the rollup's pass over the next transaction of it, writes any time
later, with the time the *posting's* transaction began (`transaction.created_at`,
`ec_rollup.rs:215`), so the age of such a row has no bound. The stream stands for the outbox
and `folded` for the checkpoint; sequences are taken at commit here, which only makes a
pinned frontier cover less, and a flush of several transactions is several steps, of which
`IsCaughtUp` waits for the last.

The consumer of `list_modified_since` keeps to its contract: `Pin` pins the frontier,
`Poll` waits for the rollup to come to it and asks from the watermark minus the overlap.
Its watermark is then the time of the *pin*, not that of the poll or of the newest row
it got. With that it misses nothing for either kind of account; a consumer that does not
wait misses rows of eventually consistent accounts whatever its overlap (section 4). For an
inline account the stream is empty and the wait is none.

Amounts are bags of entry ids, which shows both a missing and a repeated entry;
debit and credit are one amount, and the time stamps of single layers are left out.

### Velocity

`ReadAccounts` and `ReadAncestors` are the two statements in which a posting reads
controls. `Matches` is what a control's condition and a limit's condition, currency
and window expressions decide, `KeysOf` what a batch must check, `Lock` (in the order
of `Before`) and `ReadBalances` the two statements of `find_for_update`. `Positions`
are the entries of a batch that count for a key, `Rows` the chain of snapshots they
make and `LastRow` its end, `Within` the enforcement of one (`Available` by layer),
`Commit` the write with its two branches (`Written`). `ListLimits`, `Insert` and
`CommitAttach` are an attach, whose rows wait at their unique index; `AddLimit`
changes a control and never what is already attached. `OneByOne`, the reference for
a batch, enforces entry after entry.

## 3. Runs

| Run | Question | Instance |
|---|---|---|
| `fence_members` | Can operations that are valid alone commit an invalid graph? Does a posting overwrite what it has not read? Does the attach fence freeze memberships with activity? | 2 postings, 2 operations (of 6, on sets and accounts, single and bulk), 2 accounts (one EC), 3 sets |
| `fence_create` | Are postings to accounts created meanwhile and re-prepared postings still fenced and balances exact, is re-preparation the only source of deadlock, does every transaction end? | 2 postings, 1 operation, 3 accounts (one not created), 2 sets |
| `fence_exact` (violation) | finding 1 below | as `fence_members`, 1 posting, 1 operation |
| `cache_resolve` | Does the cache implement `AncestorResolution` while sets are created, the structure changes and refreshes race or fail; does a fenced answer last; does the snapshot catch up? | 2 resolvers, 2 refresh tasks, 1 failed read, chain of 3 sets, one created, 2 structure changes |
| `memberships_clients` | Is every request told what the whole graph says, and the right edge blamed? Does creation without a lock keep the graph valid? Does a walk miss nothing, is each page the next rows? Is a set's history its members'? | five scenes, 99,268 states: every valid graph of 4 sets and an account up to naming, every request of up to 2 memberships (of 3, among 5 sets, on a chain); an account created while set memberships are added; 14 walks over 12 listings in pages of 1 and 2 under 2 transactions; 5 transactions that post to an account and move it and the sets above it |
| `rollup_fixed` | Is every posting applied once, whole, as far as the checkpoint says, through interleaving, split batches, aborts and a crash? | 2 postings with 3 entries, batches of 2, 1 crash |
| `rollup_changing` | With sets attached and holders locked: nothing twice, and is a pinned frontier reached? | 2 postings, 1 attach, 1 lockable set, 1 crash |
| `rollup_straggler`, `rollup_stale` (violation) | findings 2 and 3 | smallest instances |
| `effective_replay` | Are rows a replay from nothing, ranges right, every deleted row replayed; is a consumer that waits for its pinned frontier current, though rows carry times past? | an inline account and an eventually consistent one, 2 postings open, 3 calls of 6 batches (2 for the latter) of up to 2 postings over 3 dates and 3 layers, one with a date without an entry; a rollup with any lag, clock to 3, transactions of up to one tick; 213,000 states |
| `effective_newest` (violation) | finding 4 | the same |
| `velocity_batches` | Are velocity balances exact and limits held entry by entry, is a batch equivalent to single postings, does nobody wait in circles? | 2 batches (of 4, up to 3 entries), 2 bulk attaches, 2 accounts below a set, 2 limits, 2 windows |

Why the bounds are enough. Every hazard of the fence is between one posting and one
operation, two operations, or two postings that share a balance; the third set is there
because a double path needs two ways up, and the eventually consistent account because it
has entries and no balance. In the cache two mutations around a refresh, and a refresh
around a resolution, are all the orders a single-flight refresh can meet. A second way up to
a set needs four sets at most (the diamond), the depth bound is set to 2 so that a request
of three can cross it at each of its edges, and a page of one or two splits every listing at
ties and at its missing values. A batch of two splits every group of three events in every
way. Back-dating needs a date before, at and after one with rows, and a third call to replay
replayed rows. For a row to be written with a time before any open transaction's, the clock
must pass the longest duration by one, and a consumer that has missed it needs a second poll.
The two posters are interchangeable (symmetry). Two batches over one set show all the velocity lock does; a batch needs three
entries to break a limit and come back below it in one window while another window is
enforced. All safety properties of the runs are proved beyond the bounds (section 5), some
of them under an assumption given there.

`CHECK_DEADLOCK FALSE` is given everywhere: transactions end, the bounded inputs
are used up, and the system then rests.

Fairness. `PostingFence!FairSpec` asks that a transaction that has begun takes
its next step when it can, and that the database ends one that cannot: each is an
async task that awaits only the database, and PostgreSQL's deadlock detector and
constraint errors end the others. Clients are not obliged to begin anything.
`SetGraphCache!FairSpec` asks it of the timer (an endless loop) and of spawned
refresh tasks, not of resolvers. `EcRollup!FairSpec` asks it of a posting that
holds sequences (it commits or is rolled back), of a guarded operation and of the
resident job; `CatchesUp` there is conditional on no client leaving a holder
locked, because such a holder does fail every flush (`balance/repo.rs:709`).

Every property has a variant of the code (`PROJECT.json`, "mutants") under which
its run fails; the variants stand in the modules before the definition they vary.

## 4. Where code and documentation disagree

1. **Attaching a set is not fenced** (`fence_exact`). The history check locks its
   member in the namespace postings share-lock their *entry accounts* in; when
   the member is a set, no posting holds that lock. A posting in flight below the
   set is neither seen nor waited for, and its entry never reaches the new parent.
   `InlineBalancesExact` holds, and is proved, when only accounts are attached.
2. **Sequences are taken after enforcement** (`rollup_straggler`).
   `EcRollupStatus::await_completion` documents the opposite order; a posting
   between its enforcement and its publication escapes the awaited frontier.
3. **Routes are read before locks** (`rollup_stale`). A set attached between the
   rollup's read of memberships and its locks misses that batch: the check sees
   no history yet and the flush does not see the edge.
4. **The newest row is not always returned** (`effective_newest`). Rows are
   numbered in the order of the balance's lock and stamped with the time their
   transaction began. A query from between two such stamps returns an older row.
   A consumer that keeps of each date the row numbered highest is safe
   (`PollerIsCurrent`).

Met while modelling, with no run of their own: the lock statement skips an account
whose creation has not committed, so `LockBeforeRead` needs `AwaitCreate`
(clients post to accounts they know are committed); the `end_cursor` of the two
listings of members is that of the row fetched beyond the page, so that a client that
goes on from it skips a member (`account_set_member/repo.rs:384`), and a cursor
without external id starts the listing over (`account_set_member/repo.rs:479`); the
entries of a transaction are read as one page of the default size, whether or not there
is another (`entry/mod.rs:130`); entries of two postings of one batch at one date
are ordered by their sequence within each posting and not by the order of the
input (`posting/mod.rs:55` says the latter), so `RowsReplay` asks for the order by
date, call and sequence only. And `modified_at` does not mark when a row was written, to
within the duration of a transaction, as the contract of `list_modified_since` says
(`balance/effective/mod.rs:192`, 203): the rollup stamps the rows of eventually consistent
accounts and sets with the time of the posting it folds (`ec_rollup.rs:215`,
`balance/mod.rs:390`, `balance/effective/mod.rs:327`), any time after it. An overlap for
open transactions does not cover that. The fence that the contract asks for besides does,
if the consumer's watermark is the time it pinned the frontier; so `PollerIsCurrent` asks
for both.

## 5. Proofs

`PostingFenceProofs` proves, for any finite sets of accounts and account sets and
any postings, operations and inputs:

| Theorem | Property | Assumes |
|---|---|---|
| `TypeCorrect` | `TypeOK` | |
| `ReadsAreLocked` | `LockBeforeRead` | `AwaitCreate` |
| `GuardLasts` | `GuardStillEmpty` | `AwaitCreate`, `AccountPlansOnly` |
| `MembershipsAreFrozen` | `MembershipFrozen` | `AwaitCreate` |
| `ReadsAreFresh` | `ReadsStayFresh` | `AwaitCreate` |
| `VersionsAreDense` | `VersionsDense` | `AwaitCreate` |
| `GraphIsValid` | `GraphStaysValid` | |
| `BalancesAreExact` | `InlineBalancesExact` | `AwaitCreate`, `AccountPlansOnly` |

`AccountPlansOnly` (no operation changes set memberships) is exactly the case
finding 1 leaves: without it `BalancesAreExact` is false. The direct memberships of an
account are frozen even so: for a member that is an account the fence does hold
(`GuardEmpty`), whatever is done to the sets above it. `IdsAssumption`, `InputsAssumption` and
`GraphAssumption` (the initial graph is valid; one call changes account memberships or
set memberships, as `add_members` and `add_member_sets` do) hold for all of them.

None of the properties is inductive alone. The invariant is built in three
layers. `ProtocolInv`: types, no two conflicting locks held (`Compatible`), a
posting past its lock phase holds the locks of all it will touch (`Fenced`), an
operation past its guard holds the exclusive locks of its members (`Guarding`).
`FenceInv` adds that entries belong to committed accounts and that a guarded
member has no activity: a posting would need the shared lock the operation
excludes. `ExactInv` adds that what a posting resolved is still the committed
ancestry (`Resolved`: a change of it needs the exclusive lock the posting's shared
one excludes), that what it read is still the committed balance (`Fresh`: a writer
needs the balance lock), and the equation itself. Beside them, `Numbered` has every
balance made of entries of committed postings, so that the ones a commit adds are new
to it and `Fresh` gives the count; and `GraphInv` has an operation hold its graph locks
and its validation hold until it commits (`Validated`): of two operations that apply,
neither changes set memberships, by the coarse lock, and no account is in both, by the
member locks, so what one commits leaves the other's graph valid. Three frame lemmas say
which actions leave which variables alone; each inductive step then has one case
per action and, under it, one per conjunct the action can disturb.

It also proves `DeadlockOnlyByReprepare` (`DeadlockNeedsReprepare`): however
many postings, membership changes and creations run, a set of them in which each waits
for a lock of another has one that has prepared its postings again. Every lock has a
`Place`: the statement that takes it (`Stage`), then its position within the statement.
Places are bounded, because ids are finite. A transaction that has not prepared again
holds only locks placed before those it has still to take (`HeldFirst`); of the locks a
cycle waits for take the one placed highest: who holds it waits for a higher one still.

`VelocityProofs` proves, for any postings, attaches, controls, limits, windows and
batches of any length, from `VelocityAssumption` and `RankAssumption` (the ids of what
is locked are finitely many and have an order):

| Theorem | Property |
|---|---|
| `VelocityTypeCorrect` | `TypeOK` |
| `BalancesAreFresh` | `BalancesStayFresh` |
| `LimitsHold` | `LimitHolds` |
| `BalancesAreExact` | `VelocityExact` |
| `BatchesAreSequential` | `BatchIsSequential` |
| `NoDeadlock` | `NeverDeadlocks` |

The invariant behind freshness is `FreshInv`: no key is locked twice (`Exclusive`), a
posting that locks holds all but its `todo` (`Locking`), one that writes holds its keys
and has read what is committed (`Writing`). A commit writes only keys its posting holds,
so none another has read. For exactness, `ChainInv` adds that the versions of a key are
numbered from 1 without gaps (`Numbered`), that no entry has two of them (`OnePerEntry`),
that each is its predecessor with one entry more (`Follows`) and that the current balance
is the last (`Newest`); `VelocityExact` is then the sum along that chain. A batch is
enforced key by key and `OneByOne` entry by entry; both are shown to be the same fold
seen from one key (`Positions`), where an entry that does not count for the key changes
nothing.

`SetGraphCacheProofs` proves, for any resolvers, refresh tasks, sets and memberships,
from `GraphAssumption` and `OwnerAssumption` (no resolver is the mark of a free lock):

| Theorem | Property |
|---|---|
| `TypeCorrect` | `TypeOK` |
| `SnapshotCommitted` | `SnapshotIsCommitted` |
| `AnswersLast` | `FencedAnswerLasts` |
| `Implements` | `Resolves` |

`CacheInv` says of the snapshot and of what every refresh has read that it was
committed at its epoch; `FenceInv` that under the coarse lock a probe's epoch, a loaded
snapshot and an answer remain those of the graph. For the refinement, `PhaseInv` fixes
how far a question has come, and `CurrentInv` that whatever it may be answered from (its
own view, a snapshot or a refresh of the probe's epoch, the snapshot loaded for the
overlay) is a graph it could have seen since its probe. A transaction with an edge of its
own never loads a snapshot: the probe's epoch is ahead of every committed one.
`PromiseStep` then maps each action to one of `AncestorResolution` or to a stutter.

`EcRollupProofs` proves, for any postings, accounts, sets, batch size, crashes, locked
holders and client that closes a period, from `RollupAssumption` and
`NoTxnAssumption` (an event of another service belongs to no transaction):

| Theorem | Property | Assumes |
|---|---|---|
| `TypeCorrect` | `TypeOK` | |
| `NothingTwice` | `NeverTwice` | |
| `FoldsToCheckpoint` | `FoldedToCheckpoint` | |
| `FrontierCovers` | `FenceCovers` | |
| `SetsHoldMembers` | `SetHoldsItsMembers` | `Changes = {}`, `MembersEC` |
| `Implements` | `AppliesExactly` | `Changes = {}` |

`RollupAssumption` says that no id is an account and a set, as ids are minted. Only the last
two need set memberships at rest; with them moving they are false (finding 3). `MembersEC`:
a set that is eventually consistent contains no set that is not. The argument follows the
stream. `StreamInv`: the first event of a posting is its transaction's, a posting that has
not published is absent from the stream, and nothing is delivered past a posting that has
not ended. Hence a batch takes up a posting exactly when it collects its first event
(`Collecting`), so that each entry of the batch is folded once, whether it was collected
with the batch or loaded because it came later (`TimesOf`), and an event whose transaction
an earlier batch took up is dropped. `FoldInv` says what that makes of the committed leaves:
an entry is in them once if the checkpoint has passed its transaction's first event and
otherwise not at all; a crash changes neither side. `Pinned` adds that every posting holding
a sequence at the pin stays below the frontier until it ends, and `RoutedToAll` that with
fixed memberships the batch is routed to everything the accounts feed. Under the mapping,
`Finish` is the abstract posting, `Land` its application or, with nothing to fold, a
stutter.

`EffectiveBalanceProofs` proves, for any layers, days, posters and batches of any length,
for an inline account and for an eventually consistent one, from `EffectiveAssumption`
(finitely many posters, no transaction open for longer than the consumer's overlap):

| Theorem | Property |
|---|---|
| `TypeCorrect` | `TypeOK` |
| `PassesNeverPanic` | `NeverPanics` |
| `RowsAreReplay` | `RowsReplay` |
| `RangesExact` | `RangesAddUp` |
| `PollerCurrent` | `PollerIsCurrent` |

The invariant says what the rows *are*: there is a line `t` of the ids of all posted
entries, ordered by date, call and sequence (`Earlier`), and row `a` has the date, the
sums, the last ids and the version of the first `a` entries of it (`Ledger`, `Book`). A
pass keeps this because the new line is the old one with the group spliced in behind its
date (`Spliced`), and each step of the replay extends what is already written of the new
line: an entry is folded into the sums up to it (`AddStep`); a deleted row had the sums
up to it without the group and the difference has the group's, which are disjoint
(`ShiftStep`, `IdsSplit`). The sort is shown to yield the new entries and then the deleted
rows in their order (`UpdatesAre`), and so an entry first: there is one, because the loop
takes only groups in which the balance is involved, and deleted rows lie after its date; no
pass panics then. A batch is its passes by date (`GroupStep`), since no earlier pass of it deletes at
or adds to a later date. `RowsReplay` and `RangesAddUp` are then read off the line. For
the consumer, `HeldOf` says that it has the newest row of a date, or one older than a row
written with a time within `MaxDuration` of its watermark, which its next question is bound
to find: a pass either leaves the newest row of a date as it is or writes a higher one with
the time of its posting (`Changed`). That this time is recent enough is `Bounds` for an open
transaction, and for the rollup `Ahead`: what it has still to fold began no earlier than
`MaxDuration` before the watermark, and what lies beyond a pinned frontier no earlier than
that before the pin, because whatever began earlier had ended, and was within the frontier.
When the rollup has come to the frontier, the second is the first for the new watermark.

`MembershipsProofs` proves, for any finitely many sets, any accounts, requests, postings
and listings and any depth, from `GraphAssumption`, `MenuAssumption`, `BoundAssumption`
(a client asks for pages of a row or more), `NumbersAssumption` (rows are sorted by
numbers) and `TablesAssumption`:

| Theorem | Property |
|---|---|
| `TypeCorrect` | `TypeOK` |
| `HistoryIsMembers` | `SetHistoryIsItsMembers` |
| `GraphIsSound` | `GraphSound` |
| `VerdictIsDue` | `VerdictExact` |
| `BlameIsTheFirst` | `BlamesFirst` |
| `WalksAreComplete` | `WalkComplete` |
| `PagesAreExact` | `PagesExact` |

*What commits.* The proof must show that the checks of a request, as they are computed,
imply the reference they are measured by; its lemmas are in `GraphProofs`. Both are read as
*routes*: chains of edges from the bottom up. `SoundIsValid` says that the reference's
enumeration (`Chains`) asks exactly this: no route returns, none of sets is too long, no two
have the same ends, among the routes of up to `Longest` edges, one more than there are sets;
a longer one would have come back to a set. On the side of the code, `Up` and `Down` are the
ends of routes (`UpIs`, `DownIs`), and when Kahn's algorithm orders all nodes no route
returns and the rounds bound its length (`OrderBounds`). Two routes with the same ends part
at some member (`RoutesPart`); if that member is a set, `MeetingAncestors` has found it, if
an account, `RepeatedContainment`. What the checks read is a part of the graph that no edge
enters or leaves (`IsNear`), so a bad route through a new edge lies within it, and one
without is excluded by the invariant (`SetsStayValid`). For accounts, the walk of
`ReachesTwice` comes to a set twice whenever there are two ways to it (`WalkFinds`); where
it does not, the new memberships are valid (`MembersStayValid`). An account created in one
set gets one new edge at the bottom of routes that were unique before
(`NewAccountStaysValid`), whatever has been committed since it was inserted.

*What is refused* takes the other direction: a refusal must be due. Kahn's algorithm leaves
a node out only if some route returns (`OrderedIsAcyclic`), and the reference's bounded
enumeration then sees that cycle (`CycleIsSeen`); the rounds it takes are the length of a
route there is (`DepthIsReached`, `DepthIsSeen`); a set that two ancestors meet in, or an
account that is contained again, has two routes to it (`DoubleIsSeen`); and the walk of an
account's memberships comes to a set twice only by two ways (`WalkIsFair`,
`ReachesTwiceIs`). `SetVerdictIsDue` and `AccountVerdictIsDue` put this in the order of the
errors. *Whom it blames*: the code walks down from each proposed edge and takes the first
that comes back, which is the first on a loop (`LoopIsBelow`, `BelowIsLoop`, `ClosesIs`,
`CycleIsFirst`); for the depth it bisects the prefixes of the request, and as a longer
prefix has all the routes of a shorter (`FewerEdges`) the bisection ends at the first that
is too deep (`BisectsToFirst`, `OverflowIsFirst`).

*What a client reads.* `WalkInv` says of a walk that what was seen is in order and not
beyond the cursor, that the cursor is its last row, and that every row there throughout has
been seen or lies after the cursor; this last part is what `WalkComplete` does not say and
its induction needs. `PageIs` gives each of the twelve queries one meaning (`IsPage`): a
page is the first rows, in order, of those after the cursor, and announces more just when
more are left. `PagesExact` is this at every cursor a walk comes to. Sort keys of one
listing are numbers in tuples of one width, hence totally ordered (`Compares`); two tables
of which each gives a row more than the page are enough for their merge (`MergeFetches`),
and a page is full or holds all there is (`HeadsAreLimit`); the predicate on external ids,
which does not compare the column for missing ones, is the order's on every cursor a client
comes back with (`ExternalAfter`); the balances of one holder are read by currency and
sorted with the holder (`OneHolderIs`). The rows of a listing only grow (`ListedGrows`), but
for a removal, after which the walk is held to what is still listed (`RemoveMemberWalks`).

`Inv`, for the first three, adds to them that a membership is one row between known nodes,
that an account inserted and not committed has at most one membership (`PendingOK`), and
that a posting in flight knows its account's direct sets (`PostingsOK`): operations on the
account wait for it, and only those change them. The history needs that whatever is above an
account with entries has history too, which for the entries not astray is the property
itself. An edge comes or goes only while its member has no history, so what is above an
account with such entries does not change (`SameUp`, `FoldedStays`), and an entry whose
posting was not overtaken is folded into all that is above its account when it is written
(`FoldedEntry`, `WriteKeeps`). An overtaken one is folded at least into the direct sets, and
these stay, as the account has history from then on (`DirectStays`).

Recursive functions. The provers have no induction principle that takes a predicate;
`Induction` states induction with sets instead (a set that contains 0 and with each number
the next contains them all), derived from the well-foundedness of the naturals, and
with it that recursively defined functions exist, that a strict order on a finite set
lists it, what sums over finite sets and lists are, and that a set grown step by step
within a finite one is closed after as many steps as that has members. The replay, the
batches, the velocity sums and the traversals of graphs are proved by it.

Model-checked only: liveness (`Terminates` and the two `CatchesUp`), which is
outside this prover's reach, as is ENABLED.

## 6. Not modelled

The CEL interpreter, parameters and core types (data; their results are inputs of the
models); the listings the es-entity library generates; metadata updates; wiring,
configuration and migration; the performance suite, fuzz targets and examples. One journal,
and one currency outside the listings: they are further components of each key. The account
status a posting reads is not fenced and no doc says it is. Several membership calls in one
client transaction take their locks in the client's order. Advisory lock keys are the ids
themselves, not their 32-bit hashes: a collision adds waiting, never permission, though it
can add a deadlock. `READ COMMITTED` is taken as given.

## 7. Plan

1. Done: `PostingFence`, `SetGraphCache`, `EcRollup`, `EffectiveBalance`, `Velocity` with
   all their safety properties proved; `GraphValidation`, `Listings`, `Memberships` too.
2. `TemplateCache` and the account lifecycle (lock and unlock against postings).
3. `PostingFence` with several membership calls in one transaction.
