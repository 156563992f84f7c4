--------------------------- MODULE MCMemberships ---------------------------
(***************************************************************************)
(* Five scenes.  "build": every valid graph of four sets and an account,   *)
(* up to naming, and every request of up to two memberships.  "import": a  *)
(* chain, and every request of three more among five sets.  "create":      *)
(* accounts created in a set while set memberships are added.  "read":     *)
(* every listing, read in pages while two transactions change the tables.  *)
(* "post": memberships at, above and below an account change while it      *)
(* posts.                                                                  *)
(***************************************************************************)
EXTENDS Memberships

MCSets == 1..5
Built == 1..4
MCAccounts == 11..14
NoneValue == 0
MCName(s) == IF s = 2 THEN 2 ELSE 1
MCExternalId(x) == IF x = 12 THEN NoneValue ELSE 20 - x

Timed(E) == {[set |-> e[1], member |-> e[2], at |-> 1] : e \in E}

\* Up to naming, a container comes before its members.
Downward == {e \in Built \X Built : e[1] < e[2]}
Graphs == {S \in SUBSET Downward : Sound(S)}
Holding(S) == {T \in SUBSET Built : Sound(S \cup {<<s, 11>> : s \in T})}

Scene(name, S, T) ==
  [scene          |-> name,
   setMembers     |-> Timed(S),
   accountMembers |-> Timed({<<s, 11>> : s \in T}),
   created        |-> {11},
   history        |-> {}]

BuildTables ==
  UNION {{Scene("build", S, T) : T \in Holding(S)} : S \in Graphs}

ImportTables ==
  {Scene("import", S, {}) :
     S \in {{}, {<<1, 2>>}, {<<1, 2>>, <<2, 3>>}}}

\* An entry on account 11.
Entry(holder, n, currency, effective) ==
  [holder |-> holder, entry |-> n, account |-> 11, currency |-> currency,
   effective |-> effective, at |-> 1]

ReadTables ==
  [scene |-> "read",
   setMembers |-> Timed({<<1, 2>>, <<3, 2>>}),
   accountMembers |-> Timed({<<1, 11>>, <<1, 12>>, <<3, 11>>}),
   created |-> {11, 12, 13},
   history |-> {Entry(h, 1, 1, 2) : h \in {11, 1, 3}}
                 \cup {Entry(h, 2, 2, 1) : h \in {11, 1, 3}}]

CreateTables == {Scene("create", S, {}) : S \in Graphs}

PostTables == {Scene("post", S, {2}) : S \in {{}, {<<1, 2>>}}}

MCTables ==
  BuildTables \cup ImportTables \cup CreateTables \cup PostTables \cup {ReadTables}

SetPairs == Built \X Built
Requests(Pairs, n) == UNION {[1..k -> Pairs] : k \in 1..n}

Build ==
  [setRequests |-> Requests(SetPairs, 2),
   accountRequests |-> Requests(Built \X {11}, 2),
   creations |-> {}, removals |-> {}, postings |-> {}, listings |-> << >>,
   changes |-> 1]

Apart == {e \in MCSets \X MCSets : e[1] # e[2]}
Import == [Build EXCEPT !.setRequests = [1..3 -> Apart],
                        !.accountRequests = {}]

Create ==
  [Build EXCEPT !.setRequests = [1..1 -> SetPairs],
                !.accountRequests = {},
                !.creations = {12} \X {S \in SUBSET Built : Cardinality(S) <= 2},
                !.changes = 2]

Of(query, x) == [query |-> query, of |-> x]
Dated(query, x, d) == [query |-> query, of |-> x, date |-> d]
InRange(query, x, f, u) == [query |-> query, of |-> x, from |-> f, until |-> u]

EntriesOf(desc) ==
  [query |-> "entries_of_set", of |-> 1, descending |-> desc]
Entries(from, until, desc) ==
  [query |-> "entries_of_journal", descending |-> desc,
   created_at_from |-> from, created_at_to |-> NoneValue,
   effective_from |-> NoneValue, effective_to |-> until]

Read ==
  [setRequests |-> {<< <<1, 4>> >>, << <<2, 4>> >>},
   accountRequests |-> {<< <<1, 13>>, <<3, 13>> >>, << <<2, 13>> >>},
   creations |-> {<<14, {1}>>, <<14, {}>>},
   removals |-> {<<1, 2>>, <<1, 11>>, <<1, 12>>},
   postings |-> {<<11, 1, 1>>, <<12, 1, 2>>, <<12, 2, 1>>},
   listings |-> <<
     Of("members_by_created_at", 1), Of("members_by_external_id", 1),
     Of("sets_of_account", 11), Of("sets_of_set", 2),
     Of("balances_of_account", 1), Of("balances_of_accounts", {1, 11, 12}),
     Dated("effective_of_account", 1, 1),
     Dated("effective_of_accounts", {1, 11, 12}, 1),
     InRange("ranges_of_account", 1, 2, NoneValue),
     InRange("ranges_of_accounts", {1, 11, 12}, 2, 2),
     EntriesOf(FALSE), EntriesOf(TRUE),
     Entries(NoneValue, 1, FALSE), Entries(2, NoneValue, TRUE)>>,
   changes |-> 2]

Posting ==
  [Build EXCEPT !.setRequests = {<< <<1, 2>> >>, << <<3, 1>> >>},
                !.accountRequests = {<< <<2, 11>> >>, << <<3, 11>> >>},
                !.removals = {<<1, 2>>, <<2, 11>>},
                !.postings = {<<11, 1, 1>>},
                !.changes = 5]

MCMenu == [build |-> Build, import |-> Import, create |-> Create, read |-> Read,
           post |-> Posting]
=============================================================================
