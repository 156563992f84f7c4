------------------------------ MODULE Listings ------------------------------
(***************************************************************************)
(* The paginated listings over memberships, balances and entries: keyset   *)
(* queries that a client reads page by page while the tables change.       *)
(*                                                                         *)
(* A row is known by its sort key, a tuple of numbers that is unique in    *)
(* its listing; a descending column is negated.  Identifiers, names,       *)
(* currencies and dates are numbers.  Every query reads one row more than  *)
(* the page holds, to know whether there is a next page.                   *)
(***************************************************************************)
EXTENDS Integers, Sequences, FiniteSets, SequencesExt

CONSTANTS
  Name(_),        \* the name of a set, which sets may share
  ExternalId(_),  \* the external id of an account or a set, or
  NoValue,        \*   none: also a bound or a date that is not given
  Today           \* the date of the database's clock

VARIABLES
  setMembers,     \* rows [set, member, at]: member is a set
  accountMembers, \* rows [set, member, at]: member is an account
  history         \* rows [holder, entry, account, currency, effective, at]: an
                  \*   entry on account, folded into the balance of holder

tables == <<setMembers, accountMembers, history>>

----------------------------------------------------------------------------
(* Keyset pages *)

Before(a, b) ==
  \E i \in DOMAIN a : a[i] < b[i] /\ \A j \in 1..(i - 1) : a[j] = b[j]

Start == << >>

After(K, cursor) == {k \in K : cursor = Start \/ Before(cursor, k)}

Limit(K, n) == {k \in K : Cardinality({j \in K : Before(j, k)}) < n}

InOrder(K) ==
  [i \in 1..Cardinality(K) |->
     CHOOSE k \in K : Cardinality({j \in K : Before(j, k)}) = i - 1]

\* entities.last() of a page, or of the rows fetched for it.
LastOf(K, cursor) ==
  IF K = {} THEN cursor ELSE CHOOSE k \in K : \A j \in K : ~Before(k, j)

\* Variant: a full page is taken for one with more to come.
FullPaged(fetched, cursor, first) ==
  [entities      |-> InOrder(Limit(fetched, first)),
   has_next_page |-> Cardinality(fetched) >= first,
   end_cursor    |-> LastOf(Limit(fetched, first), cursor)]

\* A page from the rows fetched: first of them, and whether there are more.
Paged(fetched, cursor, first) ==
  [entities      |-> InOrder(Limit(fetched, first)),
   has_next_page |-> Cardinality(fetched) > first,
   end_cursor    |-> LastOf(Limit(fetched, first), cursor)]

Keyset(K, cursor, first) ==
  Paged(Limit(After(K, cursor), first + 1), cursor, first)

----------------------------------------------------------------------------
(* Members of a set *)

\* These two return the cursor of the row beyond the page.
WithCursorBeyond(page, fetched, cursor) ==
  [page EXCEPT !.end_cursor = LastOf(fetched, cursor)]

NewestFirst(rows, s) == {<<0 - m.at, 0 - m.member>> : m \in {r \in rows : r.set = s}}

\* Variant: a cursor that compares only the time.
UntiedMembersByCreatedAt(l, cursor, first) ==
  LET later(K) == {k \in K : cursor = Start \/ cursor[1] < k[1]}
  IN  Keyset(later(NewestFirst(accountMembers \cup setMembers, l.of)),
             Start, first)

MembersByCreatedAt(l, cursor, first) ==
  LET some(rows) == Limit(After(NewestFirst(rows, l.of), cursor), first + 1)
      fetched == Limit(some(accountMembers) \cup some(setMembers), first + 1)
  IN  WithCursorBeyond(Paged(fetched, cursor, first), fetched, cursor)

\* NULLS LAST.
ByExternalId(rows, s) ==
  {<<IF ExternalId(m.member) = NoValue THEN 1 ELSE 0,
     IF ExternalId(m.member) = NoValue THEN 0 ELSE ExternalId(m.member),
     m.member>> : m \in {r \in rows : r.set = s}}

\* The predicate of the query: a cursor without external id selects all.
MembersByExternalId(l, cursor, first) ==
  LET after(K) == {k \in K : \/ cursor = Start \/ cursor[1] = 1
                             \/ k[1] = 1
                             \/ k[2] > cursor[2]
                             \/ k[2] = cursor[2] /\ k[3] > cursor[3]}
      some(rows) == Limit(after(ByExternalId(rows, l.of)), first + 1)
      fetched == Limit(some(accountMembers) \cup some(setMembers), first + 1)
  IN  WithCursorBeyond(Paged(fetched, cursor, first), fetched, cursor)

----------------------------------------------------------------------------
(* Sets of a member *)

ByName(rows, x) == {<<Name(m.set), m.set>> : m \in {r \in rows : r.member = x}}

SetsOfAccount(l, cursor, first) ==
  Keyset(ByName(accountMembers, l.of), cursor, first)

SetsOfSet(l, cursor, first) ==
  Keyset(ByName(setMembers, l.of), cursor, first)

----------------------------------------------------------------------------
(* Balances: one for each holder and currency with history *)

ByCurrency(x) == {<<h.currency>> : h \in {r \in history : r.holder = x}}

ByHolder(X) ==
  {<<h.holder, h.currency>> : h \in {r \in history : r.holder \in X}}

BalancesOfAccount(l, cursor, first) ==
  Keyset(ByCurrency(l.of), cursor, first)

BalancesOfAccounts(l, cursor, first) ==
  Keyset(ByHolder(l.of), cursor, first)

\* DISTINCT ON the balance: its row of the last date no later than d.
AsOf(X, d) == {<<h.holder, h.currency>> :
                 h \in {r \in history : r.holder \in X /\ r.effective <= d}}

EffectiveOfAccount(l, cursor, first) ==
  Keyset({<<b[2]>> : b \in AsOf({l.of}, l.date)}, cursor, first)

EffectiveOfAccounts(l, cursor, first) ==
  Keyset(AsOf(l.of, l.date), cursor, first)

\* COALESCE($5, NOW()::DATE)
Until(l) == IF l.until = NoValue THEN Today ELSE l.until

\* The limit is on the balances, of which each gives up to two rows, one for
\* the opening and one for the closing; a balance without the latter is left
\* out of the page, not out of the count.
Ranges(ids, X, l, cursor, first) ==
  LET opening == ids \cap AsOf(X, l.from - 1)
      closing == ids \cap AsOf(X, Until(l))
      page    == Limit(closing, first)
  IN  [entities      |-> InOrder(page),
       has_next_page |-> Cardinality(opening \cup closing) > first,
       end_cursor    |-> LastOf(page, cursor)]

RangesOfAccount(l, cursor, first) ==
  LET of(b) == <<l.of, b[1]>>
      ids   == Limit(After({<<b[2]>> : b \in AsOf({l.of}, Until(l))}, cursor),
                     first + 1)
      page  == Ranges({of(b) : b \in ids}, {l.of}, l, Start, first)
  IN  [page EXCEPT !.entities = [i \in DOMAIN @ |-> <<@[i][2]>>],
                   !.end_cursor = IF @ = Start THEN cursor ELSE <<@[2]>>]

RangesOfAccounts(l, cursor, first) ==
  LET ids == Limit(After(AsOf(l.of, Until(l)), cursor), first + 1)
  IN  Ranges(ids, l.of, l, cursor, first)

----------------------------------------------------------------------------
(* Entries *)

Directed(l, K) == IF l.descending THEN {<<0 - k[1], 0 - k[2]>> : k \in K} ELSE K

\* Joined over the entry that each balance version folded.
FoldedInto(s) == {<<h.at, h.entry>> : h \in {r \in history : r.holder = s}}

EntriesOfSet(l, cursor, first) ==
  Keyset(Directed(l, FoldedInto(l.of)), cursor, first)

AtLeast(x, bound) == bound = NoValue \/ x >= bound
AtMost(x, bound) == bound = NoValue \/ x <= bound

Chosen(l) ==
  {<<h.at, h.entry>> : h \in {r \in history :
     /\ r.holder = r.account
     /\ AtLeast(r.at, l.created_at_from)
     /\ AtMost(r.at, l.created_at_to)
     /\ AtLeast(r.effective, l.effective_from)
     /\ AtMost(r.effective, l.effective_to)}}

EntriesOfJournal(l, cursor, first) ==
  Keyset(Directed(l, Chosen(l)), cursor, first)

----------------------------------------------------------------------------
(* What a client walks *)

Queries ==
  {"members_by_created_at", "members_by_external_id", "sets_of_account",
   "sets_of_set", "balances_of_account", "balances_of_accounts",
   "effective_of_account", "effective_of_accounts", "ranges_of_account",
   "ranges_of_accounts", "entries_of_set", "entries_of_journal"}

\* The reference for the pages of a listing: its rows, by their sort keys.
Listed(l) ==
  CASE l.query = "members_by_created_at" ->
         NewestFirst(accountMembers, l.of) \cup NewestFirst(setMembers, l.of)
    [] l.query = "members_by_external_id" ->
         ByExternalId(accountMembers, l.of) \cup ByExternalId(setMembers, l.of)
    [] l.query = "sets_of_account" -> ByName(accountMembers, l.of)
    [] l.query = "sets_of_set" -> ByName(setMembers, l.of)
    [] l.query = "balances_of_account" -> ByCurrency(l.of)
    [] l.query = "balances_of_accounts" -> ByHolder(l.of)
    [] l.query = "effective_of_account" -> {<<b[2]>> : b \in AsOf({l.of}, l.date)}
    [] l.query = "effective_of_accounts" -> AsOf(l.of, l.date)
    [] l.query = "ranges_of_account" -> {<<b[2]>> : b \in AsOf({l.of}, Until(l))}
    [] l.query = "ranges_of_accounts" -> AsOf(l.of, Until(l))
    [] l.query = "entries_of_set" -> Directed(l, FoldedInto(l.of))
    [] l.query = "entries_of_journal" -> Directed(l, Chosen(l))

Page(l, cursor, first) ==
  CASE l.query = "members_by_created_at"  -> MembersByCreatedAt(l, cursor, first)
    [] l.query = "members_by_external_id" -> MembersByExternalId(l, cursor, first)
    [] l.query = "sets_of_account"      -> SetsOfAccount(l, cursor, first)
    [] l.query = "sets_of_set"          -> SetsOfSet(l, cursor, first)
    [] l.query = "balances_of_account"  -> BalancesOfAccount(l, cursor, first)
    [] l.query = "balances_of_accounts" -> BalancesOfAccounts(l, cursor, first)
    [] l.query = "effective_of_account" -> EffectiveOfAccount(l, cursor, first)
    [] l.query = "effective_of_accounts" ->
         EffectiveOfAccounts(l, cursor, first)
    [] l.query = "ranges_of_account"    -> RangesOfAccount(l, cursor, first)
    [] l.query = "ranges_of_accounts"   -> RangesOfAccounts(l, cursor, first)
    [] l.query = "entries_of_set"       -> EntriesOfSet(l, cursor, first)
    [] l.query = "entries_of_journal"   -> EntriesOfJournal(l, cursor, first)

\* Client: asks for the next page from the cursor it was given, but for
\* members from that of the last one it has seen.
NextCursor(l, page) ==
  IF l.query \in {"members_by_created_at", "members_by_external_id"}
  THEN Last(page.entities) ELSE page.end_cursor

\* A member without external id makes a cursor that starts over.
Continues(l, page) ==
  /\ page.has_next_page
  /\ ~(l.query = "members_by_external_id" /\ Last(page.entities)[1] = 1)
=============================================================================
