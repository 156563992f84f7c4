--------------------------- MODULE SetGraphCache ---------------------------
(***************************************************************************)
(* The epoch-validated cache of the account-set graph in one process, the  *)
(* refreshes that fill it and the transactions that resolve ancestors      *)
(* through it: postings (no graph lock), account attaches (coarse lock     *)
(* SHARED) and structure mutations (coarse lock EXCLUSIVE, one edge added  *)
(* or removed in the transaction).                                         *)
(*                                                                         *)
(* Abstractions.  One journal.  Which accounts a transaction resolves for  *)
(* matters only through their direct memberships, its seeds.  A set is     *)
(* created, and committed, without parents.  A resolver runs one           *)
(* transaction after another.                                              *)
(***************************************************************************)
EXTENDS Integers, FiniteSets

CONSTANTS
  Resolvers,    \* transactions
  Tasks,        \* slots for spawned refresh tasks
  Sets,         \* account sets
  InitSets,     \* the sets committed at the start
  Edges,        \* set memberships <<set, member set>> that may be requested
  InitEdges,    \* those committed at the start
  Seeds,        \* the direct memberships transactions may resolve from
  MaxEpoch,     \* bound on the structure changes that commit
  MaxErrors     \* bound on the refresh reads that fail

ASSUME GraphAssumption ==
  /\ InitSets \subseteq Sets
  /\ Edges \subseteq Sets \X Sets
  /\ InitEdges \subseteq Edges \cap (InitSets \X InitSets)
  /\ Seeds \subseteq (SUBSET Sets) \ {{}}
  /\ MaxEpoch \in Nat /\ MaxErrors \in Nat

VARIABLES
  sets, edges, epoch,  \* committed sets, set memberships, graph epoch
  sharers, owner,      \* holders of the coarse lock
  mine,                \* the edges as a structure mutation sees them
  snapshot,            \* SetGraphCacheInner::snapshot
  task, data,          \* refresh tasks and what they have read
  errors,
  pc, probe, local,    \* a resolver's phase, probe and loaded snapshot
  result,
  graphs               \* history: the graphs a resolver saw since its probe

dbVars == <<sets, edges, epoch>>
lockVars == <<sharers, owner, mine>>
refreshVars == <<snapshot, task, data, errors>>
vars == <<dbVars, lockVars, refreshVars, pc, probe, local, result, graphs>>

NoOne == "nobody"

ASSUME OwnerAssumption == NoOne \notin Resolvers

COLD_EPOCH == -1
Cold == [epoch |-> COLD_EPOCH, edges |-> {}, known |-> {}]
NoProbe == [epoch |-> COLD_EPOCH, seeds |-> {}]

Up(D, S) ==
  {t \in Sets : \A C \in SUBSET Sets :
     (D \subseteq C /\ \A e \in S : e[2] \in C => e[1] \in C) => t \in C}

\* A transaction reads its own uncommitted edge and epoch bump.
View(r) == IF owner = r THEN mine ELSE edges
EpochView(r) == IF owner = r THEN epoch + 1 ELSE epoch

\* The question has been put and not been answered.
Asking(r) == probe[r].seeds # {} /\ result[r] = {}

Init ==
  /\ sets = InitSets /\ edges = InitEdges /\ epoch = 0
  /\ sharers = {} /\ owner = NoOne /\ mine = {}
  /\ snapshot = Cold
  /\ task = [t \in Tasks |-> "idle"]
  /\ data = [t \in Tasks |-> Cold]
  /\ errors = 0
  /\ pc = [r \in Resolvers |-> "idle"]
  /\ probe = [r \in Resolvers |-> NoProbe]
  /\ local = [r \in Resolvers |-> Cold]
  /\ result = [r \in Resolvers |-> {}]
  /\ graphs = [r \in Resolvers |-> {}]

----------------------------------------------------------------------------
(* Transactions *)

CreateSet(s) ==
  /\ s \notin sets
  /\ sets' = sets \cup {s}
  /\ UNCHANGED <<edges, epoch, lockVars, refreshVars, pc, probe, local, result,
                 graphs>>

\* A posting resolves without any graph lock.
BeginPosting(r) ==
  /\ pc[r] = "idle"
  /\ pc' = [pc EXCEPT ![r] = "ready"]
  /\ UNCHANGED <<dbVars, lockVars, refreshVars, probe, local, result, graphs>>

\* Variant (the fault a run must detect): the attach skips the coarse lock.
UnlockedBeginAttach(r) ==
  /\ pc[r] = "idle"
  /\ sharers' = sharers \cup {r}
  /\ pc' = [pc EXCEPT ![r] = "ready"]
  /\ UNCHANGED <<dbVars, owner, mine, refreshVars, probe, local, result,
                 graphs>>

\* An account attach resolves under the coarse lock, SHARED.
BeginAttach(r) ==
  /\ pc[r] = "idle"
  /\ owner = NoOne
  /\ sharers' = sharers \cup {r}
  /\ pc' = [pc EXCEPT ![r] = "ready"]
  /\ UNCHANGED <<dbVars, owner, mine, refreshVars, probe, local, result,
                 graphs>>

\* Variant: the coarse lock taken over the holders of its shared mode.
BargingBeginStructure(r) ==
  /\ pc[r] = "idle"
  /\ epoch < MaxEpoch
  /\ owner = NoOne
  /\ owner' = r
  /\ \E e \in Edges \cap (sets \X sets) :
       mine' = IF e \in edges THEN edges \ {e} ELSE edges \cup {e}
  /\ pc' = [pc EXCEPT ![r] = "ready"]
  /\ UNCHANGED <<dbVars, sharers, refreshVars, probe, local, result, graphs>>

\* A structure mutation: the coarse lock EXCLUSIVE, the edge written and the
\* epoch bumped, not committed yet.  Removal is by primary key, addition of an
\* edge that exists fails.
BeginStructure(r) ==
  /\ pc[r] = "idle"
  /\ epoch < MaxEpoch
  /\ owner = NoOne /\ sharers = {}
  /\ owner' = r
  /\ \E e \in Edges \cap (sets \X sets) :
       mine' = IF e \in edges THEN edges \ {e} ELSE edges \cup {e}
  /\ pc' = [pc EXCEPT ![r] = "ready"]
  /\ UNCHANGED <<dbVars, sharers, refreshVars, probe, local, result, graphs>>

\* Direct memberships and epoch, in one statement.
Probe(r) ==
  /\ pc[r] = "ready"
  /\ \E D \in Seeds \cap SUBSET sets :
       probe' = [probe EXCEPT ![r] = [epoch |-> EpochView(r), seeds |-> D]]
  /\ graphs' = [graphs EXCEPT ![r] = {View(r)}]
  /\ pc' = [pc EXCEPT ![r] = "probed"]
  /\ UNCHANGED <<dbVars, lockVars, refreshVars, local, result>>

\* In-memory expansion over the edges S: unknown when it meets a set outside
\* known, in which case the walk answers.
Expand(r, S, known) ==
  LET found == Up(probe[r].seeds, S)
  IN  IF found \subseteq known
      THEN /\ result' = [result EXCEPT ![r] = found]
           /\ pc' = [pc EXCEPT ![r] = "resolved"]
      ELSE /\ pc' = [pc EXCEPT ![r] = "walk"]
           /\ UNCHANGED result

\* spawn_refresh; with every slot taken the trigger adds nothing.
Spawn ==
  \/ \E t \in Tasks :
       /\ task[t] = "idle"
       /\ task' = [task EXCEPT ![t] = "spawned"]
  \/ (\A t \in Tasks : task[t] # "idle") /\ UNCHANGED task

LoadStale(r) ==
  /\ pc[r] = "probed"
  /\ snapshot.epoch # probe[r].epoch
  /\ Spawn
  /\ pc' = [pc EXCEPT ![r] = "walk"]
  /\ UNCHANGED <<dbVars, lockVars, snapshot, data, errors, probe, local,
                 result, graphs>>

LoadCurrent(r) ==
  /\ pc[r] = "probed"
  /\ snapshot.epoch = probe[r].epoch
  /\ \/ /\ probe[r].seeds \subseteq snapshot.known
        /\ Expand(r, snapshot.edges, snapshot.known)
        /\ UNCHANGED local
     \/ /\ ~ (probe[r].seeds \subseteq snapshot.known)
        /\ local' = [local EXCEPT ![r] = snapshot]
        /\ pc' = [pc EXCEPT ![r] = "overlay"]
        /\ UNCHANGED result
  /\ UNCHANGED <<dbVars, lockVars, refreshVars, probe, graphs>>

\* The op-local supplement for seeds the loaded snapshot does not know, read
\* by a statement of its own.
Overlay(r) ==
  LET missing == probe[r].seeds \ local[r].known
      above   == {e \in View(r) : e[2] \in missing}
  IN  /\ pc[r] = "overlay"
      /\ Expand(r, local[r].edges \cup above, local[r].known \cup missing)
      /\ local' = [local EXCEPT ![r] = Cold]
      /\ UNCHANGED <<dbVars, lockVars, refreshVars, probe, graphs>>

\* The recursive walk, one statement.
Walk(r) ==
  /\ pc[r] = "walk"
  /\ result' = [result EXCEPT ![r] = Up(probe[r].seeds, View(r))]
  /\ pc' = [pc EXCEPT ![r] = "resolved"]
  /\ UNCHANGED <<dbVars, lockVars, refreshVars, probe, local, graphs>>

\* Variant: a removal forgets the epoch.
RemovalUnbumped(new) == IF new \subseteq edges THEN epoch ELSE epoch + 1

\* The epoch a structure change commits with its edges.
Bumped(new) == epoch + 1

\* COMMIT or ROLLBACK: the coarse lock is released; a structure mutation's
\* edge and epoch become visible, or never do.
End(r) ==
  /\ pc[r] # "idle"
  /\ pc' = [pc EXCEPT ![r] = "idle"]
  /\ sharers' = sharers \ {r}
  /\ probe' = [probe EXCEPT ![r] = NoProbe]
  /\ local' = [local EXCEPT ![r] = Cold]
  /\ result' = [result EXCEPT ![r] = {}]
  /\ IF owner = r
     THEN /\ owner' = NoOne /\ mine' = {}
          /\ \/ edges' = mine /\ epoch' = Bumped(mine)
             \/ UNCHANGED <<edges, epoch>>
     ELSE UNCHANGED <<owner, mine, edges, epoch>>
  /\ graphs' = [q \in Resolvers |->
       IF q = r THEN {}
       ELSE IF Asking(q) THEN graphs[q] \cup {View(q)'} ELSE graphs[q]]
  /\ UNCHANGED <<sets, refreshVars>>

----------------------------------------------------------------------------
(* Refresh *)

\* Variant: no refresh but the first without a trigger.
ColdTimer ==
  /\ snapshot = Cold
  /\ \E t \in Tasks : task[t] = "idle"
  /\ Spawn
  /\ UNCHANGED <<dbVars, lockVars, snapshot, data, errors, pc, probe, local,
                 result, graphs>>

\* The 60 s timer.
Timer ==
  /\ \E t \in Tasks : task[t] = "idle"
  /\ Spawn
  /\ UNCHANGED <<dbVars, lockVars, snapshot, data, errors, pc, probe, local,
                 result, graphs>>

\* Single flight: a task that finds refresh_lock taken is dropped.
TryLock(t) ==
  /\ task[t] = "spawned"
  /\ task' = [task EXCEPT ![t] =
       IF \E u \in Tasks : task[u] \in {"fetching", "fetched"}
       THEN "idle" ELSE "fetching"]
  /\ UNCHANGED <<dbVars, lockVars, snapshot, data, errors, pc, probe, local,
                 result, graphs>>

\* Variant: the read sees the open transaction's rows.
DirtyFetch(t) ==
  /\ task[t] = "fetching"
  /\ data' = [data EXCEPT ![t] =
       IF owner = NoOne
       THEN [epoch |-> epoch, edges |-> edges, known |-> sets]
       ELSE [epoch |-> epoch + 1, edges |-> mine, known |-> sets]]
  /\ task' = [task EXCEPT ![t] = "fetched"]
  /\ UNCHANGED <<dbVars, lockVars, snapshot, errors, pc, probe, local, result,
                 graphs>>

\* Epoch, sets and edges in one statement on the pool, or an error.
Fetch(t) ==
  /\ task[t] = "fetching"
  /\ \/ /\ data' = [data EXCEPT ![t] =
              [epoch |-> epoch, edges |-> edges, known |-> sets]]
        /\ task' = [task EXCEPT ![t] = "fetched"]
        /\ UNCHANGED errors
     \/ /\ errors < MaxErrors
        /\ errors' = errors + 1
        /\ task' = [task EXCEPT ![t] = "idle"]
        /\ UNCHANGED data
  /\ UNCHANGED <<dbVars, lockVars, snapshot, pc, probe, local, result, graphs>>

Install(t) ==
  /\ task[t] = "fetched"
  /\ snapshot' = IF data[t].epoch >= snapshot.epoch THEN data[t] ELSE snapshot
  /\ task' = [task EXCEPT ![t] = "idle"]
  /\ data' = [data EXCEPT ![t] = Cold]
  /\ UNCHANGED <<dbVars, lockVars, errors, pc, probe, local, result, graphs>>

----------------------------------------------------------------------------
(* Specification *)

Resolve(r) ==
  Probe(r) \/ LoadStale(r) \/ LoadCurrent(r) \/ Overlay(r) \/ Walk(r)

Refresh(t) == TryLock(t) \/ Fetch(t) \/ Install(t)

Next ==
  \/ \E s \in Sets : CreateSet(s)
  \/ \E r \in Resolvers :
       BeginPosting(r) \/ BeginAttach(r) \/ BeginStructure(r)
  \/ \E r \in Resolvers : Resolve(r) \/ End(r)
  \/ Timer
  \/ \E t \in Tasks : Refresh(t)

Spec == Init /\ [][Next]_vars

\* The timer ticks for ever and the runtime runs every spawned task.
FairSpec == Spec /\ WF_vars(Timer) /\ \A t \in Tasks : WF_vars(Refresh(t))

----------------------------------------------------------------------------
(* Properties *)

Snapshots == [epoch : Int, edges : SUBSET Edges, known : SUBSET Sets]

\* Every variable keeps its shape, memberships are between committed sets and
\* the modes of the coarse lock exclude each other.
TypeOK ==
  /\ sets \subseteq Sets /\ edges \subseteq Edges \cap (sets \X sets)
  /\ epoch \in Nat
  /\ sharers \subseteq Resolvers /\ owner \in Resolvers \cup {NoOne}
  /\ owner # NoOne => sharers = {}
  /\ mine \subseteq Edges
  /\ snapshot \in Snapshots
  /\ task \in [Tasks -> {"idle", "spawned", "fetching", "fetched"}]
  /\ data \in [Tasks -> Snapshots] /\ errors \in 0..MaxErrors
  /\ pc \in [Resolvers -> {"idle", "ready", "probed", "overlay", "walk",
                           "resolved"}]
  /\ probe \in [Resolvers -> [epoch : Int, seeds : SUBSET Sets]]
  /\ local \in [Resolvers -> Snapshots]
  /\ result \in [Resolvers -> SUBSET Sets]
  /\ graphs \in [Resolvers -> SUBSET SUBSET Edges]

\* A snapshot of the current epoch has the committed edges, and at no time
\* does it hold an epoch that is not committed: a transaction's own edges
\* never reach the others through the cache.
SnapshotIsCommitted ==
  /\ snapshot.epoch <= epoch
  /\ snapshot.epoch = epoch => snapshot.edges = edges

\* Under the coarse lock the answer stays that of the committed graph, the
\* transaction's own edge included, until the transaction ends.
FencedAnswerLasts ==
  \A r \in Resolvers :
    pc[r] = "resolved" /\ (r \in sharers \/ owner = r) =>
      result[r] = Up(probe[r].seeds, View(r))

\* Once structure mutations stop, the cache catches up and stays current:
\* dropped triggers and failed reads are made up for.
CatchesUp == <>[](snapshot.epoch = epoch)

\* Refinement: what AncestorResolution promises.  A transaction that goes on to
\* its overlay has met a set created since the last refresh.
Promise == INSTANCE AncestorResolution WITH
  view <- [r \in Resolvers |-> View(r)],
  seeds <- [r \in Resolvers |-> probe[r].seeds],
  seen <- graphs,
  young <- {r \in Resolvers : pc[r] = "overlay"},
  answer <- [r \in Resolvers |-> IF result[r] = {} THEN {} ELSE {result[r]}]

\* The cache implements AncestorResolution: whatever refresh, snapshot, overlay
\* or walk an answer came from, it is the walk's at one instant since the probe,
\* or for a set created meanwhile between what was above throughout and what
\* was ever above.
Resolves == Promise!Spec
=============================================================================
