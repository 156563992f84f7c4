-------------------------- MODULE EffectiveBalance --------------------------
(***************************************************************************)
(* The cumulative effective balance of one account (or account set) in one *)
(* currency.  A posting carries an effective date that may lie before      *)
(* dates already posted to; the rows after it are then deleted, shifted by *)
(* the new entries and inserted again, so that each row still sums all     *)
(* entries up to it.                                                       *)
(*                                                                         *)
(* The account posts inline or is eventually consistent.  Inline, several  *)
(* postings are open at once; each writes under the lock of the balance,   *)
(* so writes are one step each, with the time its transaction began: these *)
(* times may go backwards.  Eventually consistent, a posting only enters   *)
(* the stream; the rollup folds it any time later, in the order of the     *)
(* stream, and still with the time the posting's transaction began.  A     *)
(* consumer waits for the rollup to reach a frontier it pinned and then    *)
(* polls the rows modified since its watermark, with an overlap.           *)
(*                                                                         *)
(* Amounts are bags of entry ids: what has been summed, how often.         *)
(***************************************************************************)
EXTENDS Integers, Sequences, FiniteSets, Bags

CONSTANTS
  Layers,       \* settled, pending, encumbrance
  Days,         \* effective dates
  Posters,
  Batches,      \* inputs by kind of account: sequences of postings,
                \* [effective, layers]
  MaxCalls,     \* bound on the transactions begun
  MaxTime,      \* bound on the clock
  MaxDuration,  \* longest time a database transaction stays open
  Overlap       \* how far before its watermark a consumer asks

\* How the account posts.
Kinds == {"inline", "eventual"}

Posting == [effective : Days, layers : Seq(Layers)]

ASSUME EffectiveAssumption ==
  /\ Days \subseteq Nat /\ Layers # {}
  /\ IsFiniteSet(Posters) /\ MaxCalls \in Nat /\ MaxTime \in Nat \ {0}
  /\ MaxDuration \in Nat /\ Overlap \in Nat
  /\ MaxDuration <= Overlap
  /\ \A k \in Kinds : \A b \in Batches[k] : b \in Seq(Posting)

VARIABLES
  rows,       \* cala_cumulative_effective_balances of the balance
  posted,     \* history: the entries in the order of the input, by id
  calls,      \* history: batches written
  panicked,   \* whether a task has panicked
  kind,       \* of the account
  stream,     \* the postings of an eventually consistent account in the order
              \* of the outbox, as [posting, at]
  folded,     \* how far the rollup has come in the stream
  clock,
  begun,      \* history: transactions begun
  began,      \* per poster: when its transaction began, 0 when it has none
  pin,        \* the frontier the consumer waits for and when it pinned it
  watermark,  \* when it pinned the frontier of its last poll
  seen        \* per day, the row the consumer last got

balance == <<rows, posted, calls, panicked>>
rollup == <<kind, stream, folded>>
consumer == <<pin, watermark, seen>>
vars == <<balance, rollup, clock, begun, began, consumer>>

NoPin == [at |-> 0, frontier |-> 0]

UNASSIGNED_ENTRY_ID == 0
NoRow == [allTime |-> 0]
NoDiff == [version |-> 0]

\* A set in the ascending order of a total order on it.
Sorted(S, Less(_, _)) ==
  [i \in 1..Cardinality(S) |-> CHOOSE x \in S : Cardinality({y \in S : Less(y, x)}) = i - 1]

----------------------------------------------------------------------------
(* Snapshots.                                                              *)

\* A snapshot before its first entry.
FirstSnapshot(now) ==
  [entry    |-> UNASSIGNED_ENTRY_ID,
   version  |-> 0,
   modified |-> now,
   amount   |-> [l \in Layers |-> EmptyBag],
   by       |-> [l \in Layers |-> UNASSIGNED_ENTRY_ID]]

\* Variant: the version stays.
UnversionedSnapshot(now, s, e) ==
  [entry    |-> e.id,
   version  |-> s.version,
   modified |-> now,
   amount   |-> [s.amount EXCEPT ![e.layer] = @ (+) SetToBag({e.id})],
   by       |-> [s.by EXCEPT ![e.layer] = e.id]]

\* Fold one entry into a snapshot.
UpdateSnapshot(now, s, e) ==
  [entry    |-> e.id,
   version  |-> s.version + 1,
   modified |-> now,
   amount   |-> [s.amount EXCEPT ![e.layer] = @ (+) SetToBag({e.id})],
   by       |-> [s.by EXCEPT ![e.layer] = e.id]]

\* The layer of the entry that wrote the snapshot.
Touched(s) == CHOOSE l \in Layers : s.by[l] = s.entry

\* The first entry of a replay starts the difference from the entry ids that
\* hold below the shifted rows.
StartDiff(now, s, e) ==
  UpdateSnapshot(now, [FirstSnapshot(now) EXCEPT !.entry = s.entry, !.by = s.by], e)

\* Variant: a replayed row keeps the entry ids it had.
KeepingShift(now, s, diff) ==
  [s EXCEPT !.modified = now, !.amount = [l \in Layers |-> s.amount[l] (+) diff.amount[l]]]

\* Shift a deleted row by what the new entries add.
Shift(now, s, diff) ==
  [s EXCEPT !.modified = now,
            !.amount = [l \in Layers |-> s.amount[l] (+) diff.amount[l]],
            !.by = [diff.by EXCEPT ![Touched(s)] = s.entry]]

----------------------------------------------------------------------------
(* One pass: all entries of a batch at one date.                           *)

\* The rows a pass deletes and replays.
Future(R, day) == {r \in R : r.effective > day}

\* The row it continues from.
LastRow(R, day) ==
  LET past == {r \in R : r.effective <= day} IN
  IF past = {} THEN NoRow
  ELSE CHOOSE r \in past : \A o \in past : o.allTime <= r.allTime

EntryUpdate(day, e) == [effective |-> day, kind |-> "entry", entry |-> e, rank |-> e.sequence]
RowUpdate(r) ==
  [effective |-> r.effective, kind |-> "snapshot", snapshot |-> r.snapshot,
   rank |-> r.snapshot.version]

\* Entries of one date by their sequence, in the order of the batch where
\* sequences are equal; deleted rows of one date by version.
Precedes(u, v) ==
  \/ u.effective < v.effective
  \/ /\ u.effective = v.effective
     /\ \/ u.rank < v.rank
        \/ u.rank = v.rank /\ u.kind = "entry" /\ v.kind = "entry" /\ u.entry.id < v.entry.id

Pending(R, g) ==
  {EntryUpdate(g.day, e) : e \in g.entries} \cup {RowUpdate(r) : r \in Future(R, g.day)}

Updates(R, g) == Sorted(Pending(R, g), Precedes)

\* The sort meets an entry and a deleted row of one date.
Unsortable(U) ==
  \E u, v \in U : u.kind = "entry" /\ v.kind = "snapshot" /\ u.effective = v.effective

\* The replay meets a deleted row before any entry: it has nothing to start
\* from, or no difference to shift the row by.
Rootless(U) ==
  \E v \in U : v.kind = "snapshot" /\ \A u \in U : u.kind = "entry" => ~ Precedes(u, v)

Panics(R, g) == Unsortable(Pending(R, g)) \/ Rootless(Pending(R, g))

\* Versions start again on another date.
Rebase(s, day, next) == IF day = next THEN s ELSE [s EXCEPT !.version = 0]

Replay(now, acc, u) ==
  LET base == Rebase(acc.last, acc.day, u.effective) IN
  IF u.kind = "entry"
  THEN LET next == UpdateSnapshot(now, base, u.entry) IN
       [last |-> next, day |-> u.effective,
        diff |-> IF acc.diff = NoDiff THEN StartDiff(now, next, u.entry)
                 ELSE UpdateSnapshot(now, acc.diff, u.entry),
        out  |-> Append(acc.out, [effective |-> u.effective, snapshot |-> next])]
  ELSE LET shifted == Shift(now, u.snapshot, acc.diff) IN
       [last |-> base, day |-> u.effective,
        diff |-> [acc.diff EXCEPT !.by = [@ EXCEPT ![Touched(u.snapshot)] = u.snapshot.entry]],
        out  |-> Append(acc.out, [effective |-> u.effective, snapshot |-> shifted])]

\* The replay after each of the updates.
Replayed(now, start, updates) ==
  LET acc[i \in 0..Len(updates)] ==
        IF i = 0 THEN start ELSE Replay(now, acc[i - 1], updates[i])
  IN  acc

\* The rows after one pass: read, replay, number and insert.
Pass(now, R, g) ==
  LET last    == LastRow(R, g.day)
      updates == Updates(R, g)
      start   == IF last = NoRow
                 THEN [last |-> FirstSnapshot(now), day |-> g.day, diff |-> NoDiff, out |-> <<>>]
                 ELSE [last |-> last.snapshot, day |-> last.effective, diff |-> NoDiff, out |-> <<>>]
      out     == Replayed(now, start, updates)[Len(updates)].out
  IN (R \ Future(R, g.day)) \cup
     {[effective |-> out[i].effective, allTime |-> i + last.allTime, snapshot |-> out[i].snapshot]
        : i \in DOMAIN out}

----------------------------------------------------------------------------
(* A batch.                                                                *)

\* The last id after each posting of a batch, when n were given before.
LastIds(b, n) ==
  LET upto[i \in 0..Len(b)] == IF i = 0 THEN n ELSE upto[i - 1] + Len(b[i].layers) IN upto

\* The entries of a batch, numbered in the order of the input from n on.
Entries(b, n) ==
  LET upto == LastIds(b, n) IN
  UNION {{[id |-> upto[i - 1] + k, layer |-> b[i].layers[k], sequence |-> k,
           effective |-> b[i].effective, call |-> calls + 1, posting |-> i]
            : k \in DOMAIN b[i].layers} : i \in DOMAIN b}

ById(e, f) == e.id < f.id
ByDate(c, d) == c < d

\* One group per date of the batch, in ascending order; at some of the dates
\* the batch may have no entry of this balance.
DatesOf(b) == Sorted({b[i].effective : i \in DOMAIN b}, ByDate)

Groups(b, es) ==
  LET ds == DatesOf(b) IN
  [i \in DOMAIN ds |-> [day |-> ds[i], entries |-> {e \in es : e.effective = ds[i]}]]

\* Variant: involved in the batch is involved in each of its groups.
InvolvedInBatch(groups, i) == \E h \in DOMAIN groups : groups[h].entries # {}

\* The balance takes part in the groups that have an entry of it.
Involved(groups, i) == groups[i].entries # {}

ApplyGroup(now, st, groups, i) ==
  IF ~ Involved(groups, i) THEN st
  ELSE IF st.panic \/ Panics(st.rows, groups[i]) THEN [st EXCEPT !.panic = TRUE]
  ELSE [st EXCEPT !.rows = Pass(now, st.rows, groups[i])]

\* The rows after each of the groups.
Applied(now, groups) ==
  LET state[i \in 0..Len(groups)] ==
        IF i = 0 THEN [rows |-> rows, panic |-> FALSE]
        ELSE ApplyGroup(now, state[i - 1], groups, i)
  IN  state

ApplyBatch(now, b, es) == Applied(now, Groups(b, es))[Len(Groups(b, es))]

----------------------------------------------------------------------------
(* Queries.                                                                *)

\* ORDER BY effective DESC, version DESC LIMIT 1.
Latest(R) ==
  IF R = {} THEN NoRow
  ELSE CHOOSE r \in R : \A o \in R :
         \/ o.effective < r.effective
         \/ o.effective = r.effective /\ o.snapshot.version <= r.snapshot.version

\* Variant: the opening balance includes the first day of the range.
IncludedOpening(from) == Latest({r \in rows : r.effective <= from})

Opening(from) == Latest({r \in rows : r.effective < from})

Find(day) == Latest({r \in rows : r.effective <= day})

\* What the range [from, until] reports: the period is the difference of the
\* bounds, its version the difference of their positions.
BalanceRange(from, until) ==
  LET open == Opening(from)  close == Find(until) IN
  [version |-> close.allTime - open.allTime,
   period  |-> [l \in Layers |->
     IF open = NoRow THEN close.snapshot.amount[l]
     ELSE close.snapshot.amount[l] (-) open.snapshot.amount[l]]]

\* The rows modified since, the last one of each day.
ModifiedSince(since) ==
  LET hits == {r \in rows : r.snapshot.modified >= since} IN
  {r \in hits : \A o \in hits : o.effective = r.effective => o.allTime <= r.allTime}

Newest(day) ==
  LET R == {r \in rows : r.effective = day} IN
  IF R = {} THEN NoRow ELSE CHOOSE r \in R : \A o \in R : o.allTime <= r.allTime

----------------------------------------------------------------------------

Init ==
  /\ rows = {} /\ posted = <<>> /\ calls = 0 /\ panicked = FALSE
  /\ kind \in Kinds /\ stream = <<>> /\ folded = 0
  /\ clock = 1 /\ begun = 0 /\ began = [p \in Posters |-> 0]
  /\ pin = NoPin /\ watermark = 0 /\ seen = [d \in Days |-> NoRow]

Begin(p) ==
  /\ began[p] = 0
  /\ begun < MaxCalls
  /\ begun' = begun + 1
  /\ began' = [began EXCEPT ![p] = clock]
  /\ UNCHANGED <<balance, rollup, clock, consumer>>

\* The batch is folded into the rows, which get the time `now`.
Write(now, b) ==
  LET es    == Entries(b, Len(posted))
      after == ApplyBatch(now, b, es)
  IN
  /\ calls' = calls + 1
  /\ IF after.panic
     THEN panicked' = TRUE /\ UNCHANGED <<rows, posted>>
     ELSE /\ rows' = after.rows
          /\ posted' = posted \o Sorted(es, ById)
          /\ UNCHANGED panicked

\* Inline: the batch is written under the lock of the balance and commits.
Post(p, b) ==
  /\ kind = "inline" /\ began[p] > 0
  /\ began' = [began EXCEPT ![p] = 0]
  /\ Write(began[p], b)
  /\ UNCHANGED <<rollup, clock, begun, consumer>>

\* Eventually consistent: its postings enter the stream and commit.
Publish(p, b) ==
  /\ kind = "eventual" /\ began[p] > 0
  /\ began' = [began EXCEPT ![p] = 0]
  /\ stream' = stream \o [i \in DOMAIN b |-> [posting |-> b[i], at |-> began[p]]]
  /\ UNCHANGED <<balance, kind, folded, clock, begun, consumer>>

\* The rollup folds the next posting of the stream; the rows get the time of
\* the posting's transaction.  A flush of several is several of these steps.
Fold ==
  /\ folded < Len(stream)
  /\ folded' = folded + 1
  /\ Write(stream[folded + 1].at, <<stream[folded + 1].posting>>)
  /\ UNCHANGED <<kind, stream, clock, begun, began, consumer>>

\* No transaction stays open longer than MaxDuration.
Tick ==
  /\ clock < MaxTime
  /\ \A p \in Posters : began[p] > 0 => clock - began[p] < MaxDuration
  /\ clock' = clock + 1
  /\ UNCHANGED <<balance, rollup, begun, began, consumer>>

\* The consumer pins the end of the stream.
Pin ==
  /\ pin = NoPin
  /\ pin' = [at |-> clock, frontier |-> Len(stream)]
  /\ UNCHANGED <<balance, rollup, clock, begun, began, watermark, seen>>

\* Variant: the last posting may be outstanding.
AlmostCaughtUp == folded + 1 >= pin.frontier

\* The rollup has come to the pinned frontier.
IsCaughtUp == folded >= pin.frontier

\* Variant: the consumer asks from its watermark on.
PlainSince == watermark

\* The consumer asks with an overlap.
Since == watermark - Overlap

\* It may be given what it has again, or a row it has a later one of.
LaterOf(r, got) ==
  CHOOSE m \in {r} \cup got : \A o \in {r} \cup got : o.allTime <= m.allTime

\* The consumer has waited for its frontier and asks.
Poll ==
  LET got == ModifiedSince(Since) IN
  /\ pin # NoPin /\ IsCaughtUp
  /\ seen' = [d \in Days |-> LaterOf(seen[d], {r \in got : r.effective = d})]
  /\ watermark' = pin.at
  /\ pin' = NoPin
  /\ UNCHANGED <<balance, rollup, clock, begun, began>>

Next ==
  \/ \E p \in Posters : Begin(p)
  \/ \E p \in Posters, b \in Batches[kind] : Post(p, b)
  \/ \E p \in Posters, b \in Batches[kind] : Publish(p, b)
  \/ Fold
  \/ Tick
  \/ Pin
  \/ Poll

Spec == Init /\ [][Next]_vars

----------------------------------------------------------------------------
(* Properties.                                                             *)

\* Rows and what the consumer keeps of them are well formed.
TypeOK ==
  /\ \A r \in rows \cup {seen[d] : d \in Days} : r # NoRow =>
       /\ r.effective \in Days /\ r.allTime \in Nat \ {0}
       /\ r.snapshot.entry \in DOMAIN posted
       /\ r.snapshot.version \in Nat \ {0}
       /\ r.snapshot.modified \in 1..clock
       /\ \A l \in Layers : /\ IsABag(r.snapshot.amount[l])
                            /\ r.snapshot.by[l] \in {UNASSIGNED_ENTRY_ID} \cup DOMAIN posted
  /\ calls \in Nat /\ begun \in 0..MaxCalls /\ clock \in 1..MaxTime
  /\ began \in [Posters -> 0..clock]
  /\ kind \in Kinds
  /\ stream \in Seq([posting : Posting, at : 1..clock])
  /\ folded \in 0..Len(stream)
  /\ watermark \in 0..clock
  /\ pin = NoPin \/ pin \in [at : 1..clock, frontier : 0..Len(stream)]

\* The entries of a layer at and before a row.
UpTo(r, l) ==
  {o.snapshot.entry : o \in {q \in rows : /\ q.allTime <= r.allTime
                                          /\ posted[q.snapshot.entry].layer = l}}

\* However entries were back-dated, the rows are a replay of all entries from
\* nothing: one row for each entry at its date, numbered without gaps over all
\* dates and from 1 within a date, later calls after earlier ones within a
\* date, and each row with the sum and the last entry of each layer up to it
\* (re_calculate_snapshots shifts deleted rows instead of replaying them).
RowsReplay ==
  /\ Cardinality(rows) = Len(posted)
  /\ {r.allTime : r \in rows} = DOMAIN posted
  /\ {r.snapshot.entry : r \in rows} = DOMAIN posted
  /\ \A r \in rows :
       /\ r.effective = posted[r.snapshot.entry].effective
       /\ r.snapshot.version = Cardinality({o \in rows : /\ o.effective = r.effective
                                                         /\ o.allTime <= r.allTime})
       /\ \A l \in Layers :
            /\ r.snapshot.amount[l] = SetToBag(UpTo(r, l))
            /\ r.snapshot.by[l] \in
                 IF UpTo(r, l) = {} THEN {UNASSIGNED_ENTRY_ID}
                 ELSE {o.snapshot.entry : o \in {q \in rows :
                         /\ q.snapshot.entry \in UpTo(r, l)
                         /\ \A m \in rows : m.snapshot.entry \in UpTo(r, l)
                                              => m.allTime <= q.allTime}}
  /\ \A r, o \in rows : r.allTime < o.allTime =>
       \/ r.effective < o.effective
       \/ LET e == posted[r.snapshot.entry]  f == posted[o.snapshot.entry] IN
          /\ r.effective = o.effective
          /\ e.call <= f.call
          /\ (e.call = f.call /\ e.posting = f.posting) => e.sequence < f.sequence

\* However a batch spreads over dates, with entries of the balance at some of
\* them only, no pass deletes rows that it cannot replay: none is replayed
\* before an entry (re_calculate_snapshots takes its first snapshot from an
\* entry and expects a difference), and none has the date of the entries (the
\* sort declares it unreachable).
NeverPanics == ~panicked

\* A range reports exactly the entries dated within it, by layer and in
\* number, whatever was posted in which order.
RangesAddUp ==
  \A from, until \in Days :
    (from <= until /\ Find(until) # NoRow) =>
      LET within == {n \in DOMAIN posted : posted[n].effective \in from..until} IN
      /\ BalanceRange(from, until).version = Cardinality(within)
      /\ \A l \in Layers :
           BalanceRange(from, until).period[l] = SetToBag({n \in within : posted[n].layer = l})

\* A consumer that waits for the rollup to come to the frontier it pinned, asks
\* from its watermark minus the overlap, and keeps of two rows of a date the
\* one numbered higher, holds the newest row of every date after each poll:
\* although postings write with the time they began at, the rollup writes rows
\* with times long past, and rows are deleted and written again between polls
\* (the contract of list_modified_since, with its fence).
PollerIsCurrent == [][Poll => \A d \in Days : seen'[d] = Newest(d)]_vars

\* What list_modified_since says it returns to a consumer that keeps to its
\* contract: of each date the newest row overall, not merely of those modified
\* since.
ReturnsNewest == \A r \in ModifiedSince(Since) : r = Newest(r.effective)
=============================================================================
