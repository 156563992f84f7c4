---------------------------- MODULE Memberships ----------------------------
(***************************************************************************)
(* Account sets as their clients see them: requests for new memberships    *)
(* pass the checks of GraphValidation, memberships of anything with        *)
(* history are frozen, postings are folded into every set above their      *)
(* account, and a client reads a listing page by page meanwhile.           *)
(*                                                                         *)
(* A change of memberships is a committed transaction (PostingFence has    *)
(* its steps and locks).  Two kinds of transaction are not serial with     *)
(* these and are two steps.  The creation of an account in a set takes no  *)
(* lock that another waits for: insert and commit.  A posting has resolved *)
(* the sets above its account before it writes; an operation on that       *)
(* account waits for it, but an operation on a set below which the account *)
(* is does not (their locks are in namespaces no posting of the account    *)
(* shares).  A posting that comes between such an operation's history      *)
(* check and its edge has the outcome of one in flight over both.          *)
(*                                                                         *)
(* A refused request changes nothing and is no step.  Rows carry the time  *)
(* their transaction began, which may be before that of rows already       *)
(* there.  One journal; sets are synchronous.                              *)
(***************************************************************************)
EXTENDS GraphValidation, Listings

CONSTANTS
  Tables,  \* initial contents of the tables, and the scene
  Menu,    \* scene -> what its clients ask for (see MenuAssumption)
  PageSizes,
  MaxTime

VARIABLES
  scene,    \* the part of the menu that clients order from
  created,  \* accounts that exist
  pending,  \* accounts inserted and not committed: [account, rows]
  postings, \* postings in flight, with the sets found above their account
  astray,   \* history: entries for whose account other sets were above when
            \* they were written
  now,      \* the time at which transactions begin
  changes,  \* transactions that have changed something, a bound
  walk      \* a listing in progress, or NoWalk

inflight == <<pending, postings>>
vars == <<tables, scene, created, inflight, astray, now, changes, walk>>

NoWalk == [listing |-> NoValue]

ASSUME MenuAssumption ==
  \A s \in DOMAIN Menu :
    /\ Menu[s].setRequests \subseteq Seq(Sets \X Sets)
    /\ Menu[s].accountRequests \subseteq Seq(Sets \X Accounts)
    /\ Menu[s].creations \subseteq Accounts \X SUBSET Sets
    /\ Menu[s].removals \subseteq Sets \X (Sets \cup Accounts)
    /\ Menu[s].postings \subseteq Accounts \X Int \X Int
    /\ \A l \in Range(Menu[s].listings) : l.query \in Queries
    /\ Menu[s].changes \in Nat
    /\ DOMAIN Menu[s] = {"setRequests", "accountRequests", "creations",
                         "removals", "postings", "listings", "changes"}

\* Clients ask for pages of a row or more: of one of none there is no last row
\* to go on from.
ASSUME BoundAssumption ==
  MaxTime \in Nat \ {0} /\ PageSizes \subseteq Nat \ {0}

\* What rows are sorted by are numbers.
ASSUME NumbersAssumption ==
  /\ Sets \cup Accounts \subseteq Int
  /\ \A s \in Sets : Name(s) \in Int
  /\ \A x \in Sets \cup Accounts : ExternalId(x) \in Int \cup {NoValue}

----------------------------------------------------------------------------

Ends(rows) == {<<r.set, r.member>> : r \in rows}
SetEdges == Ends(setMembers)
AccountEdges == Ends(accountMembers)

\* Over the cached edges around the request or over the whole table.
Existing(P) == {EdgesConnectedTo(P, SetEdges), SetEdges}

\* A membership is one row (UNIQUE).
Unique(rows) ==
  \A r, q \in rows : r.set = q.set /\ r.member = q.member => r = q

\* What the columns may hold, with the accounts X and times up to t.
MembershipRows(members, t) == [set : Sets, member : members, at : 1..t]
Postings(X, t) == [account : X, currency : Int, effective : Int, at : 1..t,
                   direct : SUBSET Sets, above : SUBSET Sets]
HistoryRows(X, t) == [holder : Sets \cup X, entry : Nat \ {0}, account : X,
                      currency : Int, effective : Int, at : 1..t]

\* The rows of every set in H are those of the accounts that S leads to it.
HeldBy(s, h) == [h EXCEPT !.holder = s]
Folded(H, S) ==
  \A s \in Sets :
    {h \in H : h.holder = s}
      = {HeldBy(s, h) : h \in
           {g \in H : g.holder = g.account /\ s \in Up({g.account}, S)}}

Ids(H) == {h.entry : h \in H}

\* The tables begin with what these transactions may have left in them.
ASSUME TablesAssumption ==
  \A t \in Tables :
    LET graph == Ends(t.setMembers) \cup Ends(t.accountMembers)
    IN  /\ t.scene \in DOMAIN Menu
        /\ t.created \subseteq Accounts
        /\ t.setMembers \subseteq MembershipRows(Sets, 1)
        /\ t.accountMembers \subseteq MembershipRows(t.created, 1)
        /\ t.history \subseteq HistoryRows(t.created, 1)
        /\ \A rows \in {t.setMembers, t.accountMembers} :
             IsFiniteSet(rows) /\ Unique(rows)
        /\ IsFiniteSet(t.history)
        /\ Ids(t.history) = 1..Cardinality(Ids(t.history))
        /\ Folded(t.history, graph)
        /\ Sound(graph)

HasHistory(x) == \E h \in history : h.holder = x

\* Variant: postings and operations on their accounts do not share a lock.
Unfenced(x) == FALSE

\* A posting of an account is in flight: its entry accounts are locked against
\* operations on them.
InFlight(x) == \E p \in postings : p.account = x

Rows(P, at) == {[set |-> P[i][1], member |-> P[i][2], at |-> at] : i \in DOMAIN P}

Init ==
  /\ \E t \in Tables : /\ scene = t.scene
                       /\ setMembers = t.setMembers
                       /\ accountMembers = t.accountMembers
                       /\ created = t.created
                       /\ history = t.history
  /\ pending = {}
  /\ postings = {}
  /\ astray = {}
  /\ now = 1
  /\ changes = 0
  /\ walk = NoWalk

Asking == changes < Menu[scene].changes

\* A bound on what changes the tables.
Commit == /\ Asking
          /\ changes' = changes + 1
          /\ UNCHANGED <<scene, now>>

\* Postings below a member are neither waited for nor seen.
AddMemberSets(P, at) ==
  /\ Commit
  /\ \A i \in DOMAIN P : ~HasHistory(P[i][2])
  /\ \E existing \in Existing(P) : SetVerdict(P, existing, AccountEdges) = Ok
  /\ setMembers' = setMembers \cup Rows(P, at)
  /\ UNCHANGED <<accountMembers, history, created, inflight, astray, walk>>

AddMembers(Q, at) ==
  /\ Commit
  /\ \A i \in DOMAIN Q : /\ Q[i][2] \in created
                         /\ ~HasHistory(Q[i][2])
                         /\ ~InFlight(Q[i][2])
  /\ AccountVerdict(Q, SetEdges, AccountEdges) = Ok
  /\ accountMembers' = accountMembers \cup Rows(Q, at)
  /\ UNCHANGED <<setMembers, history, created, inflight, astray, walk>>

\* Variant: two initial sets, if no set above holds both by now.
UnfencedPlaceable(S) ==
  \A s, r \in S : s # r => Up({s}, SetEdges) \cap Up({r}, SetEdges) = {}

\* The sets an account may be created in: initial_account_set is an Option.
Placeable(S) == Cardinality(S) <= 1

\* No graph lock is taken, no check is made.
InsertAccount(x, S, at) ==
  /\ Commit
  /\ x \notin created
  /\ \A p \in pending : p.account # x
  /\ Placeable(S)
  /\ pending' = pending \cup
       {[account |-> x,
         rows    |-> {[set |-> s, member |-> x, at |-> at] : s \in S}]}
  /\ UNCHANGED <<tables, created, postings, astray, walk>>

CommitAccount(p) ==
  /\ pending' = pending \ {p}
  /\ created' = created \cup {p.account}
  /\ accountMembers' = accountMembers \cup p.rows
  /\ UNCHANGED <<setMembers, history, scene, postings, astray, now, changes, walk>>

AbortAccount(p) ==
  /\ pending' = pending \ {p}
  /\ UNCHANGED <<tables, scene, created, postings, astray, now, changes, walk>>

Without(rows, e) == {r \in rows : <<r.set, r.member>> # e}

\* What the walk in progress can still be held to.
Watch == walk' = IF walk = NoWalk \/ walk.done THEN walk
                 ELSE [walk EXCEPT !.throughout =
                         {k \in @ : \E l \in {walk.listing} : k \in Listed(l)'}]

\* Removing what is not a member deletes no row.  Of postings only those of the
\* member itself are waited for.
RemoveMember(e) ==
  /\ Commit
  /\ ~HasHistory(e[2]) /\ ~InFlight(e[2])
  /\ setMembers' = Without(setMembers, e)
  /\ accountMembers' = Without(accountMembers, e)
  /\ UNCHANGED <<history, created, inflight, astray>>
  /\ Watch

DirectSets(x) == {e[1] : e \in {f \in AccountEdges : f[2] = x}}

\* A posting has locked its account and resolved the sets above it.
Resolve(x, currency, effective, at) ==
  /\ Commit
  /\ x \in created
  /\ postings' = postings \cup
       {[account |-> x, currency |-> currency, effective |-> effective, at |-> at,
         direct |-> DirectSets(x), above |-> Up(DirectSets(x), SetEdges)]}
  /\ UNCHANGED <<tables, created, pending, astray, walk>>

\* By now other sets are above those its account is in.
Overtaken(p) == Up(p.direct, SetEdges) # p.above

\* Its entry is folded into its account and every set it had found above.
Write(p) ==
  LET n == Cardinality(Ids(history)) + 1 IN
  /\ postings' = postings \ {p}
  /\ history' = history \cup
       {[holder |-> h, entry |-> n, account |-> p.account, currency |-> p.currency,
         effective |-> p.effective, at |-> p.at] : h \in {p.account} \cup p.above}
  /\ astray' = IF Overtaken(p) THEN astray \cup {n} ELSE astray
  /\ UNCHANGED <<setMembers, accountMembers, scene, created, pending, now, changes, walk>>

AbortPosting(p) ==
  /\ postings' = postings \ {p}
  /\ UNCHANGED <<tables, scene, created, pending, astray, now, changes, walk>>

Tick == /\ now < MaxTime
        /\ now' = now + 1
        /\ UNCHANGED <<tables, scene, created, inflight, astray, changes, walk>>

StartWalk(l, first) ==
  /\ walk = NoWalk
  /\ walk' = [listing |-> l, first |-> first, cursor |-> Start, seen |-> << >>,
              throughout |-> Listed(l), done |-> FALSE]
  /\ UNCHANGED <<tables, scene, created, inflight, astray, now, changes>>

ReadPage ==
  /\ walk # NoWalk
  /\ ~walk.done
  /\ LET page == Page(walk.listing, walk.cursor, walk.first)
     IN  walk' = IF Continues(walk.listing, page)
                 THEN [walk EXCEPT !.seen = @ \o page.entities,
                                   !.cursor = NextCursor(walk.listing, page)]
                 ELSE IF page.has_next_page THEN NoWalk
                 ELSE [walk EXCEPT !.seen = @ \o page.entities, !.done = TRUE]
  /\ UNCHANGED <<tables, scene, created, inflight, astray, now, changes>>

Next ==
  \/ \E at \in 1..now :
       \/ \E P \in Menu[scene].setRequests : AddMemberSets(P, at)
       \/ \E Q \in Menu[scene].accountRequests : AddMembers(Q, at)
       \/ \E c \in Menu[scene].creations : InsertAccount(c[1], c[2], at)
       \/ \E p \in Menu[scene].postings : Resolve(p[1], p[2], p[3], at)
  \/ \E p \in pending : CommitAccount(p) \/ AbortAccount(p)
  \/ \E p \in postings : Write(p) \/ AbortPosting(p)
  \/ \E e \in Menu[scene].removals : RemoveMember(e)
  \/ Tick
  \/ \E i \in DOMAIN Menu[scene].listings, first \in PageSizes :
       StartWalk(Menu[scene].listings[i], first)
  \/ ReadPage

Spec == Init /\ [][Next]_vars

----------------------------------------------------------------------------
(* Properties *)

\* The tables hold what their columns may hold and no membership twice
\* (UNIQUE, which no request that passed the checks runs into), and no account
\* is created that exists already or is about to.
TypeOK ==
  /\ scene \in DOMAIN Menu
  /\ created \subseteq Accounts
  /\ setMembers \subseteq MembershipRows(Sets, now) /\ Unique(setMembers)
  /\ accountMembers \subseteq MembershipRows(created, now) /\ Unique(accountMembers)
  /\ history \subseteq HistoryRows(created, now)
  /\ \A p \in pending : /\ p.account \in Accounts \ created
                        /\ p.rows \subseteq MembershipRows({p.account}, now)
                        /\ \A q \in pending : q.account = p.account => q = p
  /\ postings \subseteq Postings(created, now)
  /\ astray \subseteq Ids(history)
  /\ now \in 1..MaxTime
  /\ changes \in 0..Menu[scene].changes
  /\ walk # NoWalk => /\ walk.listing \in Range(Menu[scene].listings)
                      /\ walk.first \in PageSizes
                      /\ walk.done \in BOOLEAN

\* validate_set_memberships and assert_no_double_membership say of every
\* request what counting the chains of containment over the whole graph says,
\* and in that order: a cycle, a second chain to a set or an account, a chain
\* too deep; although they read only a part of the graph, from the cache or
\* from the table.
VerdictExact ==
  Asking /\ walk = NoWalk =>
    /\ \A P \in Menu[scene].setRequests : \A existing \in Existing(P) :
         SetVerdict(P, existing, AccountEdges).error
           = DueError(P, SetEdges \cup AccountEdges)
    /\ \A Q \in Menu[scene].accountRequests :
         AccountVerdict(Q, SetEdges, AccountEdges).error
           = DueError(Q, SetEdges \cup AccountEdges)

\* The committed graph is valid, also when an account comes to be in the set it
\* was created in without a lock or a check, and set memberships are committed
\* between its insert and its commit, which cannot see it: one initial set is
\* as many as that allows (the argument on NewAccount::initial_account_set).
GraphSound == Sound(SetEdges \cup AccountEdges)

\* The edge an error names is the first that is on a cycle, or the first with
\* which the edges up to it are too deep (first_depth_overflow), as its comment
\* says, over either read.
BlamesFirst ==
  Asking /\ walk = NoWalk =>
    \A P \in Menu[scene].setRequests : \A existing \in Existing(P) :
      LET verdict == SetVerdict(P, existing, AccountEdges)
          upto(n) == Chains(Occurrences(SubSeq(P, 1, n), SetEdges))
          onCycle(i) == \E c \in upto(Len(P)) :
                          Top(c) = Bottom(c) /\ <<i, P[i]>> \in ToSet(c)
          blamed(Bad(_)) == /\ Bad(verdict.edge)
                            /\ \A j \in 1..(verdict.edge - 1) : ~Bad(j)
          tooDeep(n) == TooDeep(upto(n))
      IN  /\ verdict.error = "MembershipCycleDetected" => blamed(onCycle)
          /\ verdict.error = "MembershipDepthExceeded" => blamed(tooDeep)

\* A client that has read a listing to its end, over pages of any size, has
\* seen every row that was there all the while, each row once, and all in
\* order, whatever was committed between its pages (also with a time before
\* that of its cursor); until then its cursor is a row it has seen.
WalkComplete ==
  walk # NoWalk =>
    /\ walk.cursor = Start \/ walk.cursor \in ToSet(walk.seen)
    /\ walk.done => walk.throughout \subseteq ToSet(walk.seen)
    /\ walk.done => \A i, j \in DOMAIN walk.seen :
                     i < j => Before(walk.seen[i], walk.seen[j])

\* The next page of a walk has the first rows of those of its listing after
\* the cursor, as many as it may, and announces another if and only if one of
\* them is left: whether the rows are of one table or merged of two, of which
\* each is read up to the size of the page, whether balances are counted or the
\* rows they give, and wherever missing values sort.
PagesExact ==
  walk # NoWalk =>
    LET page == Page(walk.listing, walk.cursor, walk.first)
        rest == After(Listed(walk.listing), walk.cursor)
    IN  /\ ToSet(page.entities) = Limit(rest, walk.first)
        /\ page.has_next_page <=> Cardinality(rest) > walk.first

\* The entries written to the sets that were above their account then.
Kept == {h \in history : h.entry \notin astray}

\* What was ever folded into a set is what was entered on the accounts now in
\* it, but for entries whose posting was overtaken by an operation on a set
\* above their account: no membership changes in a way that would leave history
\* behind or take on history it has not folded, and no operation on an account
\* overtakes a posting of it.  Those entries too are in every set their account
\* is a direct member of.
SetHistoryIsItsMembers ==
  /\ Folded(Kept, SetEdges \cup AccountEdges)
  /\ \A h \in history : h.holder = h.account =>
       \A s \in DirectSets(h.account) : HeldBy(s, h) \in history
=============================================================================
