------------------------ MODULE SetGraphCacheProofs ------------------------
(***************************************************************************)
(* Proofs about SetGraphCache, for any resolvers, refresh tasks, sets and  *)
(* memberships: what the cache may hold, what the coarse lock fences, and  *)
(* that the cache implements AncestorResolution.                           *)
(***************************************************************************)
EXTENDS SetGraphCache, TLAPS

USE DEF NoOne

----------------------------------------------------------------------------
(* Ancestors *)

LEMMA UpInSets == ASSUME NEW D, NEW S PROVE Up(D, S) \in SUBSET Sets
  BY DEF Up

LEMMA UpContains ==
  ASSUME NEW D \in SUBSET Sets, NEW S
  PROVE  D \subseteq Up(D, S)
  BY DEF Up

\* More memberships, no fewer ancestors.
LEMMA UpGrows ==
  ASSUME NEW D, NEW S, NEW T, S \subseteq T
  PROVE  Up(D, S) \subseteq Up(D, T)
<1> SUFFICES ASSUME NEW s \in Up(D, S), NEW C \in SUBSET Sets,
                    D \subseteq C, \A e \in T : e[2] \in C => e[1] \in C
             PROVE  s \in C
  BY DEF Up
<1>1. \A e \in S : e[2] \in C => e[1] \in C
  OBVIOUS
<1> QED  BY <1>1 DEF Up

----------------------------------------------------------------------------
(* Types *)

\* With the set memberships a structure mutation has written.
Typed ==
  /\ TypeOK
  /\ mine \subseteq sets \X sets

LEMMA ColdType ==
  Cold \in Snapshots /\ NoProbe \in [epoch : Int, seeds : SUBSET Sets]
  BY DEF Cold, NoProbe, COLD_EPOCH, Snapshots

LEMMA TypedInit == Init => Typed
  BY GraphAssumption, ColdType DEF Init, Typed, TypeOK

LEMMA TypedStep == Typed /\ [Next]_vars => Typed'
<1> SUFFICES ASSUME Typed, [Next]_vars PROVE Typed'
  OBVIOUS
<1> USE DEF Typed, TypeOK
<1>1. ASSUME NEW s \in Sets, CreateSet(s)  PROVE Typed'
  BY <1>1 DEF CreateSet, lockVars, refreshVars
<1>2. ASSUME NEW r \in Resolvers, BeginPosting(r)  PROVE Typed'
  BY <1>2 DEF BeginPosting, dbVars, lockVars, refreshVars
<1>3. ASSUME NEW r \in Resolvers, BeginAttach(r)  PROVE Typed'
  BY <1>3, OwnerAssumption DEF BeginAttach, dbVars, refreshVars
<1>4. ASSUME NEW r \in Resolvers, BeginStructure(r)  PROVE Typed'
  BY <1>4 DEF BeginStructure, dbVars, refreshVars
<1>5. ASSUME NEW r \in Resolvers, Probe(r)  PROVE Typed'
  BY <1>5 DEF Probe, dbVars, lockVars, refreshVars, View, EpochView
<1>6. ASSUME NEW r \in Resolvers, LoadStale(r)  PROVE Typed'
  BY <1>6 DEF LoadStale, Spawn, dbVars, lockVars
<1>7. ASSUME NEW r \in Resolvers, LoadCurrent(r)  PROVE Typed'
  <2> DEFINE found == Up(probe[r].seeds, snapshot.edges)
  <2>1. found \in SUBSET Sets
    BY UpInSets
  <2> HIDE DEF found
  <2>2. /\ UNCHANGED <<dbVars, lockVars, refreshVars, probe, graphs>>
        /\ \/ UNCHANGED local \/ local' = [local EXCEPT ![r] = snapshot]
        /\ \/ UNCHANGED result \/ result' = [result EXCEPT ![r] = found]
        /\ \E c \in {"overlay", "walk", "resolved"} : pc' = [pc EXCEPT ![r] = c]
    BY <1>7 DEF LoadCurrent, Expand, found
  <2> QED  BY <2>1, <2>2 DEF dbVars, lockVars, refreshVars
<1>8. ASSUME NEW r \in Resolvers, Overlay(r)  PROVE Typed'
  <2> DEFINE missing == probe[r].seeds \ local[r].known
             above   == {e \in View(r) : e[2] \in missing}
             found   == Up(probe[r].seeds, local[r].edges \cup above)
  <2>1. found \in SUBSET Sets
    BY UpInSets
  <2>2. Cold \in Snapshots
    BY ColdType
  <2> HIDE DEF found
  <2>3. /\ UNCHANGED <<dbVars, lockVars, refreshVars, probe, graphs>>
        /\ local' = [local EXCEPT ![r] = Cold]
        /\ \/ UNCHANGED result \/ result' = [result EXCEPT ![r] = found]
        /\ \E c \in {"walk", "resolved"} : pc' = [pc EXCEPT ![r] = c]
    BY <1>8 DEF Overlay, Expand, found
  <2> QED  BY <2>1, <2>2, <2>3 DEF dbVars, lockVars, refreshVars
<1>9. ASSUME NEW r \in Resolvers, Walk(r)  PROVE Typed'
  BY <1>9, UpInSets DEF Walk, dbVars, lockVars, refreshVars
<1>10. ASSUME NEW r \in Resolvers, End(r)  PROVE Typed'
  <2>1. graphs' \in [Resolvers -> SUBSET SUBSET Edges]
    BY <1>10 DEF End, View, Bumped
  <2>2. /\ UNCHANGED <<sets, refreshVars>>
        /\ pc' = [pc EXCEPT ![r] = "idle"]
        /\ sharers' = sharers \ {r}
        /\ probe' = [probe EXCEPT ![r] = NoProbe]
        /\ local' = [local EXCEPT ![r] = Cold]
        /\ result' = [result EXCEPT ![r] = {}]
    BY <1>10 DEF End
  <2>3. /\ owner' \in Resolvers \cup {NoOne} /\ mine' \in SUBSET Edges
        /\ edges' \in SUBSET Edges /\ epoch' \in Nat
        /\ edges' \subseteq sets \X sets /\ mine' \subseteq sets \X sets
        /\ owner' = NoOne \/ owner' = owner
    BY <1>10 DEF End, Bumped
  <2> QED  BY <2>1, <2>2, <2>3, ColdType DEF refreshVars
<1>11. ASSUME Timer  PROVE Typed'
  BY <1>11 DEF Timer, Spawn, dbVars, lockVars
<1>12. ASSUME NEW t \in Tasks, TryLock(t)  PROVE Typed'
  BY <1>12 DEF TryLock, dbVars, lockVars
<1>13. ASSUME NEW t \in Tasks, Fetch(t)  PROVE Typed'
  <2>1. [epoch |-> epoch, edges |-> edges, known |-> sets] \in Snapshots
    BY DEF Snapshots
  <2>2. data' \in [Tasks -> Snapshots] /\ errors' \in 0..MaxErrors
    BY <1>13, <2>1, GraphAssumption DEF Fetch
  <2>3. task' \in [Tasks -> {"idle", "spawned", "fetching", "fetched"}]
    BY <1>13 DEF Fetch
  <2> QED  BY <1>13, <2>2, <2>3 DEF Fetch, dbVars, lockVars
<1>14. ASSUME NEW t \in Tasks, Install(t)  PROVE Typed'
  BY <1>14 DEF Install, dbVars, lockVars, Cold, COLD_EPOCH, Snapshots
<1>15. CASE UNCHANGED vars
  BY <1>15 DEF vars, dbVars, lockVars, refreshVars
<1> QED
  BY <1>1, <1>2, <1>3, <1>4, <1>5, <1>6, <1>7, <1>8, <1>9, <1>10, <1>11,
     <1>12, <1>13, <1>14, <1>15 DEF Next, Resolve, Refresh

\* Every variable of the cache keeps its shape (graph_cache.rs).
THEOREM TypeCorrect == Spec => []TypeOK
  BY TypedInit, TypedStep, PTL DEF Spec, Typed

LEMMA TypedAlways == Spec => []Typed
  BY TypedInit, TypedStep, PTL DEF Spec

----------------------------------------------------------------------------
(* The snapshot *)

\* What has been read of the graph was committed.
Committed(g) ==
  /\ g.epoch <= epoch
  /\ g.epoch = epoch => g.edges = edges

CacheInv ==
  /\ Committed(snapshot)
  /\ \A t \in Tasks : Committed(data[t])

\* Steps that neither end a transaction nor belong to a refresh.
LEMMA GraphKept ==
  ASSUME [Next]_vars
  PROVE  \/ UNCHANGED <<edges, epoch, snapshot, data>>
         \/ \E r \in Resolvers : End(r)
         \/ \E t \in Tasks : Fetch(t) \/ Install(t)
  BY DEF Next, Resolve, Refresh, CreateSet, BeginPosting, BeginAttach,
     BeginStructure, Probe, LoadStale, LoadCurrent, Overlay, Walk, Timer,
     TryLock, dbVars, lockVars, refreshVars, vars

LEMMA CacheInit == Init => CacheInv
  BY DEF Init, CacheInv, Committed, Cold, COLD_EPOCH

LEMMA CacheStep == Typed /\ CacheInv /\ [Next]_vars => CacheInv'
<1> SUFFICES ASSUME Typed, CacheInv, [Next]_vars PROVE CacheInv'
  OBVIOUS
<1>1. CASE UNCHANGED <<edges, epoch, snapshot, data>>
  BY <1>1 DEF CacheInv, Committed
<1>2. ASSUME NEW r \in Resolvers, End(r)  PROVE CacheInv'
  <2>1. UNCHANGED <<snapshot, data>>
    BY <1>2 DEF End, refreshVars
  <2>2. CASE UNCHANGED <<edges, epoch>>
    BY <2>1, <2>2 DEF CacheInv, Committed
  <2>3. CASE epoch' = epoch + 1
    <3>1. ASSUME NEW g \in Snapshots, Committed(g)
          PROVE  g.epoch <= epoch' /\ g.epoch # epoch'
      BY <2>3, <3>1 DEF Committed, Typed, TypeOK, Snapshots
    <3> QED  BY <2>1, <3>1 DEF CacheInv, Committed, Typed, TypeOK
  <2> QED  BY <1>2, <2>2, <2>3 DEF End, Bumped
<1>3. ASSUME NEW t \in Tasks, Fetch(t)  PROVE CacheInv'
  BY <1>3 DEF Fetch, dbVars, CacheInv, Committed, Typed, TypeOK
<1>4. ASSUME NEW t \in Tasks, Install(t)  PROVE CacheInv'
  BY <1>4 DEF Install, dbVars, CacheInv, Committed, Cold, COLD_EPOCH, Typed,
     TypeOK
<1> QED  BY <1>1, <1>2, <1>3, <1>4, GraphKept

LEMMA CacheAlways == Spec => []CacheInv
  BY CacheInit, CacheStep, TypedAlways, PTL DEF Spec

\* Nothing uncommitted reaches the snapshot, and at the current epoch it has
\* the current edges (refresh, install).
THEOREM SnapshotCommitted == Spec => []SnapshotIsCommitted
<1>1. CacheInv => SnapshotIsCommitted
  BY DEF CacheInv, Committed, SnapshotIsCommitted
<1> QED  BY <1>1, CacheAlways, PTL

----------------------------------------------------------------------------
(* Transactions under the coarse lock *)

Fencing(r) == r \in sharers \/ owner = r

\* What a transaction under the coarse lock has read is its view of the graph.
Fenced(r) ==
  /\ pc[r] \in {"probed", "overlay", "walk", "resolved"} =>
       probe[r].epoch = EpochView(r)
  /\ pc[r] = "overlay" => local[r].edges = View(r)
  /\ pc[r] = "resolved" => result[r] = Up(probe[r].seeds, View(r))

FenceInv == \A r \in Resolvers : Fencing(r) => Fenced(r)

LEMMA FenceInit == Init => FenceInv
  BY DEF Init, FenceInv, Fenced

LEMMA FenceStep == Typed /\ CacheInv /\ FenceInv /\ [Next]_vars => FenceInv'
<1> SUFFICES ASSUME Typed, CacheInv, FenceInv, [Next]_vars,
                    NEW q \in Resolvers, Fencing(q)'
             PROVE  Fenced(q)'
  BY DEF FenceInv
<1> DEFINE Same == UNCHANGED <<edges, epoch, owner, mine, sharers>>
           Mine == UNCHANGED <<pc[q], probe[q], local[q], result[q]>>
<1>1. ASSUME Same, Mine  PROVE Fenced(q)'
  <2>1. Fencing(q)
    BY <1>1 DEF Fencing
  <2>2. UNCHANGED <<View(q), EpochView(q)>>
    BY <1>1 DEF View, EpochView
  <2> QED  BY <1>1, <2>1, <2>2 DEF FenceInv, Fenced
<1>2. ASSUME pc'[q] \in {"idle", "ready"}  PROVE Fenced(q)'
  BY <1>2 DEF Fenced
<1>3. ASSUME NEW r \in Resolvers, BeginPosting(r) \/ BeginAttach(r)
      PROVE  Fenced(q)'
  <2>1. CASE q = r
    BY <1>2, <1>3, <2>1 DEF BeginPosting, BeginAttach, Typed, TypeOK
  <2>2. CASE q # r
    <3>1. Mine /\ Fencing(q) /\ UNCHANGED <<edges, epoch, owner, mine>>
      BY <1>3, <2>2 DEF BeginPosting, BeginAttach, dbVars, lockVars, Fencing,
         Typed, TypeOK
    <3> QED  BY <3>1 DEF FenceInv, Fenced, View, EpochView
  <2> QED  BY <2>1, <2>2
<1>4. ASSUME NEW r \in Resolvers, BeginStructure(r)  PROVE Fenced(q)'
  <2>1. q = r
    BY <1>4 DEF BeginStructure, Fencing
  <2> QED  BY <1>2, <1>4, <2>1 DEF BeginStructure, Typed, TypeOK
<1>5. ASSUME NEW r \in Resolvers, Resolve(r)  PROVE Fenced(q)'
  <2>1. Same
    BY <1>5 DEF Resolve, Probe, LoadStale, LoadCurrent, Overlay, Walk, dbVars,
       lockVars
  <2>2. CASE q # r
    <3>1. Mine
      BY <1>5, <2>2 DEF Resolve, Probe, LoadStale, LoadCurrent, Overlay, Walk,
         Expand, Typed, TypeOK
    <3> QED  BY <1>1, <2>1, <3>1
  <2>3. CASE q = r
    <3>1. Fencing(q) /\ Fenced(q) /\ UNCHANGED <<View(q), EpochView(q)>>
      BY <2>1 DEF Fencing, FenceInv, View, EpochView
    <3>2. CASE Probe(q)
      BY <3>1, <3>2 DEF Probe, Fenced, Typed, TypeOK
    <3>3. CASE LoadStale(q)
      BY <3>1, <3>3 DEF LoadStale, Fenced, Typed, TypeOK
    <3>4. CASE LoadCurrent(q)
      <4>1. snapshot.epoch = EpochView(q)
        BY <3>1, <3>4 DEF LoadCurrent, Fenced
      <4>2. snapshot.edges = View(q)
        BY <4>1 DEF CacheInv, Committed, View, EpochView, Typed, TypeOK
      <4> QED  BY <3>1, <3>4, <4>2 DEF LoadCurrent, Expand, Fenced, Typed, TypeOK
    <3>5. CASE Overlay(q)
      <4> DEFINE above == {e \in View(q) : e[2] \in probe[q].seeds \ local[q].known}
      <4>1. local[q].edges \cup above = View(q)
        BY <3>1, <3>5 DEF Overlay, Fenced
      <4>2. /\ pc[q] = "overlay" /\ probe' = probe
            /\ \/ pc' = [pc EXCEPT ![q] = "walk"]
               \/ /\ pc' = [pc EXCEPT ![q] = "resolved"]
                  /\ result' = [result EXCEPT ![q] =
                       Up(probe[q].seeds, local[q].edges \cup above)]
        BY <3>5 DEF Overlay, Expand
      <4> HIDE DEF above
      <4>3. probe[q].epoch = EpochView(q)
        BY <3>1, <4>2 DEF Fenced
      <4>4. CASE pc' = [pc EXCEPT ![q] = "walk"]
        BY <3>1, <4>2, <4>3, <4>4 DEF Fenced, Typed, TypeOK
      <4>5. CASE /\ pc' = [pc EXCEPT ![q] = "resolved"]
                 /\ result' = [result EXCEPT ![q] = Up(probe[q].seeds, View(q))]
        BY <3>1, <4>2, <4>3, <4>5 DEF Fenced, Typed, TypeOK
      <4> QED  BY <4>1, <4>2, <4>4, <4>5
    <3>6. CASE Walk(q)
      BY <3>1, <3>6 DEF Walk, Fenced, Typed, TypeOK
    <3> QED  BY <1>5, <2>3, <3>2, <3>3, <3>4, <3>5, <3>6 DEF Resolve
  <2> QED  BY <2>2, <2>3
<1>6. ASSUME NEW r \in Resolvers, End(r)  PROVE Fenced(q)'
  <2>1. CASE q = r
    BY <1>2, <1>6, <2>1 DEF End, Typed, TypeOK
  <2>2. CASE q # r
    <3>1. owner # r /\ Fencing(q)
      BY <1>6, <2>2, OwnerAssumption DEF End, Fencing, Typed, TypeOK
    <3>2. Mine /\ UNCHANGED <<edges, epoch, owner, mine>>
      BY <1>6, <2>2, <3>1 DEF End, Typed, TypeOK
    <3> QED  BY <3>1, <3>2 DEF FenceInv, Fenced, View, EpochView
  <2> QED  BY <2>1, <2>2
<1>7. CASE \/ \E s \in Sets : CreateSet(s)
           \/ Timer
           \/ \E t \in Tasks : Refresh(t)
           \/ UNCHANGED vars
  BY <1>1, <1>7 DEF CreateSet, Timer, Refresh, TryLock, Fetch, Install, vars,
     dbVars, lockVars
<1> QED  BY <1>3, <1>4, <1>5, <1>6, <1>7 DEF Next

\* An answer given under the coarse lock, shared or exclusive, is that of the
\* graph until the transaction ends (resolve_from_probe_in_op).
THEOREM AnswersLast == Spec => []FencedAnswerLasts
<1>1. FenceInv => FencedAnswerLasts
  BY DEF FenceInv, Fenced, Fencing, FencedAnswerLasts
<1> QED  BY <1>1, FenceInit, FenceStep, TypedAlways, CacheAlways, PTL DEF Spec

----------------------------------------------------------------------------
(* The refinement *)

\* How far a question has come.
Phase(q) ==
  /\ pc[q] \in {"idle", "ready"} => probe[q].seeds = {} /\ result[q] = {}
  /\ pc[q] \in {"probed", "overlay", "walk"} =>
       probe[q].seeds # {} /\ probe[q].epoch >= 0 /\ result[q] = {}
  /\ pc[q] = "resolved" => probe[q].seeds # {} /\ result[q] # {}

\* What was read of the graph at the probe's epoch is a graph the resolver
\* could see.
Seen(q, g) == g.epoch = probe[q].epoch => g.edges \in graphs[q]

\* So is all that a question is answered from.
Current(q) ==
  /\ pc[q] \in {"probed", "overlay", "walk"} => View(q) \in graphs[q]
  /\ pc[q] = "probed" /\ owner # q =>
       Seen(q, snapshot) /\ \A t \in Tasks : Seen(q, data[t])
  /\ pc[q] = "overlay" => local[q].edges \in graphs[q]

PhaseInv == \A q \in Resolvers : Phase(q)
CurrentInv == \A q \in Resolvers : Current(q)

LEMMA PhaseInit == Init => PhaseInv
  BY DEF Init, PhaseInv, Phase, NoProbe

LEMMA PhaseStep == Typed /\ PhaseInv /\ [Next]_vars => PhaseInv'
<1> SUFFICES ASSUME Typed, PhaseInv, [Next]_vars, NEW q \in Resolvers
             PROVE  Phase(q)'
  BY DEF PhaseInv
<1> DEFINE Same == UNCHANGED <<pc[q], probe[q], result[q]>>
<1>1. ASSUME Same  PROVE Phase(q)'
  BY <1>1 DEF PhaseInv, Phase
<1>2. ASSUME NEW r \in Resolvers,
             BeginPosting(r) \/ BeginAttach(r) \/ BeginStructure(r)
      PROVE  Phase(q)'
  BY <1>2 DEF BeginPosting, BeginAttach, BeginStructure, PhaseInv, Phase,
     Typed, TypeOK
<1>3. ASSUME NEW r \in Resolvers, Probe(r)  PROVE Phase(q)'
  <2>1. \E D \in (SUBSET Sets) \ {{}} :
          probe' = [probe EXCEPT ![r] = [epoch |-> EpochView(r), seeds |-> D]]
    BY <1>3, GraphAssumption DEF Probe
  <2>2. EpochView(r) >= 0
    BY DEF EpochView, Typed, TypeOK
  <2>3. /\ pc[r] = "ready" /\ pc' = [pc EXCEPT ![r] = "probed"]
        /\ UNCHANGED result
    BY <1>3 DEF Probe
  <2> QED  BY <2>1, <2>2, <2>3 DEF PhaseInv, Phase, Typed, TypeOK
<1>4. ASSUME NEW r \in Resolvers, LoadStale(r)  PROVE Phase(q)'
  BY <1>4 DEF LoadStale, PhaseInv, Phase, Typed, TypeOK
<1>5. ASSUME NEW r \in Resolvers, NEW S, NEW known,
             pc[r] \in {"probed", "overlay"}, UNCHANGED probe,
             Expand(r, S, known)
      PROVE  Phase(q)'
  <2> DEFINE found == Up(probe[r].seeds, S)
  <2>1. found # {}
    BY <1>5, UpContains DEF PhaseInv, Phase, Typed, TypeOK
  <2>2. \/ pc' = [pc EXCEPT ![r] = "walk"] /\ UNCHANGED result
        \/ /\ pc' = [pc EXCEPT ![r] = "resolved"]
           /\ result' = [result EXCEPT ![r] = found]
    BY <1>5 DEF Expand
  <2> HIDE DEF found
  <2> QED  BY <1>5, <2>1, <2>2 DEF PhaseInv, Phase, Typed, TypeOK
<1>6. ASSUME NEW r \in Resolvers, LoadCurrent(r)  PROVE Phase(q)'
  <2>1. CASE Expand(r, snapshot.edges, snapshot.known)
    BY <1>5, <1>6, <2>1 DEF LoadCurrent
  <2>2. CASE pc' = [pc EXCEPT ![r] = "overlay"] /\ UNCHANGED result
    BY <1>6, <2>2 DEF LoadCurrent, PhaseInv, Phase, Typed, TypeOK
  <2> QED  BY <1>6, <2>1, <2>2 DEF LoadCurrent
<1>7. ASSUME NEW r \in Resolvers, Overlay(r)  PROVE Phase(q)'
  BY <1>5, <1>7 DEF Overlay
<1>8. ASSUME NEW r \in Resolvers, Walk(r)  PROVE Phase(q)'
  <2> DEFINE found == Up(probe[r].seeds, View(r))
  <2>1. found # {}
    BY <1>8, UpContains DEF Walk, PhaseInv, Phase, Typed, TypeOK
  <2>2. /\ pc[r] = "walk" /\ pc' = [pc EXCEPT ![r] = "resolved"]
        /\ result' = [result EXCEPT ![r] = found] /\ UNCHANGED probe
    BY <1>8 DEF Walk
  <2> HIDE DEF found
  <2> QED  BY <2>1, <2>2 DEF PhaseInv, Phase, Typed, TypeOK
<1>9. ASSUME NEW r \in Resolvers, End(r)  PROVE Phase(q)'
  BY <1>9 DEF End, NoProbe, PhaseInv, Phase, Typed, TypeOK
<1>10. CASE \/ \E s \in Sets : CreateSet(s)
            \/ Timer
            \/ \E t \in Tasks : Refresh(t)
            \/ UNCHANGED vars
  BY <1>1, <1>10 DEF CreateSet, Timer, Refresh, TryLock, Fetch, Install, vars
<1> QED
  BY <1>2, <1>3, <1>4, <1>6, <1>7, <1>8, <1>9, <1>10 DEF Next, Resolve

LEMMA CurrentInit == Init => CurrentInv
  BY DEF Init, CurrentInv, Current

LEMMA CurrentStep ==
  Typed /\ CacheInv /\ FenceInv /\ PhaseInv /\ CurrentInv /\ [Next]_vars
    => CurrentInv'
<1> SUFFICES ASSUME Typed, CacheInv, FenceInv, PhaseInv, CurrentInv,
                    [Next]_vars, NEW q \in Resolvers
             PROVE  Current(q)'
  BY DEF CurrentInv
<1> DEFINE Read == UNCHANGED <<snapshot, data>>
           Mine == UNCHANGED <<pc[q], probe[q], local[q], result[q], graphs[q]>>
           Graph == UNCHANGED <<edges, epoch, owner, mine>>
<1>1. ASSUME Read, Mine, Graph  PROVE Current(q)'
  <2>1. UNCHANGED View(q)
    BY <1>1 DEF View
  <2> QED  BY <1>1, <2>1 DEF CurrentInv, Current, Seen
<1>2. ASSUME pc'[q] \in {"idle", "ready", "walk", "resolved"},
             pc'[q] = "walk" => View(q)' \in graphs'[q]
      PROVE  Current(q)'
  BY <1>2 DEF Current
<1>3. ASSUME NEW r \in Resolvers, BeginPosting(r) \/ BeginAttach(r)
      PROVE  Current(q)'
  <2>1. CASE q = r
    BY <1>2, <1>3, <2>1 DEF BeginPosting, BeginAttach, Typed, TypeOK
  <2>2. CASE q # r
    BY <1>1, <1>3, <2>2 DEF BeginPosting, BeginAttach, dbVars, lockVars,
       refreshVars, Typed, TypeOK
  <2> QED  BY <2>1, <2>2
<1>4. ASSUME NEW r \in Resolvers, BeginStructure(r)  PROVE Current(q)'
  <2>1. CASE q = r
    BY <1>2, <1>4, <2>1 DEF BeginStructure, Typed, TypeOK
  <2>2. CASE q # r
    <3>1. /\ Mine /\ Read /\ owner # q
          /\ UNCHANGED edges
      BY <1>4, <2>2, OwnerAssumption DEF BeginStructure, dbVars, refreshVars,
         Typed, TypeOK
    <3>2. owner' = r
      BY <1>4 DEF BeginStructure
    <3> QED  BY <2>2, <3>1, <3>2 DEF CurrentInv, Current, Seen, View
  <2> QED  BY <2>1, <2>2
<1>5. ASSUME NEW r \in Resolvers, Resolve(r)  PROVE Current(q)'
  <2>1. Graph
    BY <1>5 DEF Resolve, Probe, LoadStale, LoadCurrent, Overlay, Walk, dbVars,
       lockVars
  <2>2. Read
    BY <1>5 DEF Resolve, Probe, LoadStale, LoadCurrent, Overlay, Walk,
       refreshVars
  <2>3. CASE q # r
    <3>1. Mine
      BY <1>5, <2>3 DEF Resolve, Probe, LoadStale, LoadCurrent, Overlay, Walk,
         Expand, Typed, TypeOK
    <3> QED  BY <1>1, <2>1, <2>2, <3>1
  <2>4. CASE q = r /\ Probe(q)
    <3>1. /\ pc' = [pc EXCEPT ![q] = "probed"]
          /\ graphs' = [graphs EXCEPT ![q] = {View(q)}]
          /\ probe'[q].epoch = EpochView(q)
      BY <2>4 DEF Probe, Typed, TypeOK
    <3>2. UNCHANGED View(q)
      BY <2>1 DEF View
    <3>3. graphs'[q] = {View(q)} /\ pc'[q] = "probed"
      BY <3>1 DEF Typed, TypeOK
    <3>4. ASSUME owner # q, NEW g, Committed(g), g.epoch = probe'[q].epoch
          PROVE  g.edges \in graphs'[q]
      BY <3>1, <3>3, <3>4 DEF Committed, EpochView, View
    <3> QED  BY <2>1, <2>2, <3>2, <3>3, <3>4 DEF Current, Seen, CacheInv
  <2>5. CASE q = r /\ ~ Probe(q)
    <3>1. UNCHANGED graphs /\ UNCHANGED View(q) /\ View(q) \in graphs[q]
      BY <1>5, <2>1, <2>5 DEF Resolve, LoadStale, LoadCurrent, Overlay, Walk,
         View, CurrentInv, Current
    <3>2. CASE pc'[q] \in {"walk", "resolved"}
      BY <1>2, <3>1, <3>2
    <3>3. CASE pc' = [pc EXCEPT ![q] = "overlay"] /\ LoadCurrent(q)
      <4>1. pc[q] = "probed" /\ snapshot.epoch = probe[q].epoch
        BY <3>3 DEF LoadCurrent
      <4>2. local'[q] = snapshot /\ pc'[q] = "overlay"
        BY <3>3 DEF LoadCurrent, Expand, Typed, TypeOK
      <4>3. owner # q
        BY <4>1 DEF FenceInv, Fenced, Fencing, EpochView, CacheInv, Committed,
           Typed, TypeOK
      <4>4. snapshot.edges \in graphs[q]
        BY <4>1, <4>3 DEF CurrentInv, Current, Seen
      <4> QED  BY <3>1, <4>2, <4>4 DEF Current
    <3> QED
      BY <1>5, <2>5, <3>2, <3>3 DEF Resolve, LoadStale, LoadCurrent, Overlay,
         Walk, Expand, Typed, TypeOK
  <2> QED  BY <2>3, <2>4, <2>5
<1>6. ASSUME NEW r \in Resolvers, End(r)  PROVE Current(q)'
  <2>1. CASE q = r
    BY <1>2, <1>6, <2>1 DEF End, Typed, TypeOK
  <2>2. CASE q # r
    <3>1. /\ UNCHANGED <<pc[q], probe[q], local[q], result[q]>> /\ Read
          /\ owner' = q => owner = q
      BY <1>6, <2>2, OwnerAssumption DEF End, refreshVars, Typed, TypeOK
    <3>2. owner' # q => owner # q
      BY <1>6, <2>2 DEF End
    <3>3. CASE Asking(q)
      <4>1. graphs'[q] = graphs[q] \cup {View(q)'}
        BY <1>6, <2>2, <3>3 DEF End
      <4> QED  BY <3>1, <3>2, <4>1 DEF CurrentInv, Current, Seen
    <3>4. CASE ~ Asking(q)
      BY <1>2, <3>1, <3>4 DEF Asking, PhaseInv, Phase, Typed, TypeOK
    <3> QED  BY <3>3, <3>4
  <2> QED  BY <2>1, <2>2
<1>7. ASSUME NEW t \in Tasks, Fetch(t)  PROVE Current(q)'
  <2>1. Mine /\ Graph /\ UNCHANGED <<View(q), snapshot>>
    BY <1>7 DEF Fetch, dbVars, lockVars, View
  <2>2. ASSUME NEW u \in Tasks, pc[q] = "probed", owner # q
        PROVE  Seen(q, data[u])'
    <3>1. View(q) = edges /\ View(q) \in graphs[q]
      BY <2>2 DEF View, CurrentInv, Current
    <3>2. data'[u] = data[u] \/ data'[u].edges = edges
      BY <1>7 DEF Fetch, Typed, TypeOK
    <3> QED  BY <2>1, <2>2, <3>1, <3>2 DEF CurrentInv, Current, Seen
  <2> QED  BY <2>1, <2>2 DEF CurrentInv, Current, Seen
<1>8. ASSUME NEW t \in Tasks, Install(t)  PROVE Current(q)'
  <2>1. Mine /\ Graph /\ UNCHANGED View(q)
    BY <1>8 DEF Install, dbVars, lockVars, View
  <2>2. /\ snapshot' \in {snapshot, data[t]}
        /\ \A u \in Tasks : data'[u] = data[u] \/ data'[u] = Cold
    BY <1>8 DEF Install, Typed, TypeOK
  <2>3. pc[q] = "probed" => Cold.epoch # probe[q].epoch
    BY DEF Cold, COLD_EPOCH, PhaseInv, Phase
  <2> QED  BY <2>1, <2>2, <2>3 DEF CurrentInv, Current, Seen
<1>9. CASE \/ \E s \in Sets : CreateSet(s)
           \/ Timer
           \/ \E t \in Tasks : TryLock(t)
           \/ UNCHANGED vars
  BY <1>1, <1>9 DEF CreateSet, Timer, TryLock, vars, dbVars, lockVars,
     refreshVars
<1> QED
  BY <1>3, <1>4, <1>5, <1>6, <1>7, <1>8, <1>9 DEF Next, Refresh

\* The state of AncestorResolution, read off that of the cache.
Views == [q \in Resolvers |-> View(q)]
Questions == [q \in Resolvers |-> probe[q].seeds]
Young == {q \in Resolvers : pc[q] = "overlay"}
Answers == [q \in Resolvers |-> IF result[q] = {} THEN {} ELSE {result[q]}]

LEMMA SameUp ==
  ASSUME NEW D, NEW S PROVE Promise!Up(D, S) = Up(D, S)
  BY DEF Up, Promise!Up

LEMMA SameAsking ==
  ASSUME NEW q \in Resolvers PROVE Promise!Asking(q) <=> Asking(q)
  BY DEF Asking, Promise!Asking

LEMMA PromiseInit == Init => Promise!Init
<1> SUFFICES ASSUME Init PROVE Promise!Init
  OBVIOUS
<1>1. \A q \in Resolvers : View(q) \in SUBSET (Sets \X Sets)
  BY GraphAssumption DEF Init, View
<1> QED  BY <1>1 DEF Init, Promise!Init, Promise!Graphs, NoProbe

\* An answer that is the walk's at one instant since the probe.
LEMMA ExactAnswer ==
  ASSUME Typed, NEW r \in Resolvers, NEW g \in graphs[r],
         Asking(r), pc[r] # "overlay",
         result' = [result EXCEPT ![r] = Up(probe[r].seeds, g)],
         UNCHANGED <<Views, probe, graphs, Young>>
  PROVE  Promise!Answer(r)
<1> DEFINE A == Up(probe[r].seeds, g)
<1>1. A # {}
  BY UpContains DEF Asking, Typed, TypeOK
<1>2. A \in Promise!Exact(r)
  BY SameUp DEF Promise!Exact
<1>3. result' = [result EXCEPT ![r] = A]
  OBVIOUS
<1> HIDE DEF A
<1>4. Answers' = [Answers EXCEPT ![r] = {A}]
  BY <1>1, <1>3 DEF Answers, Typed, TypeOK
<1>5. r \notin Young /\ Young' = Young \ {r}
  BY DEF Young
<1> QED
  BY <1>2, <1>4, <1>5, SameAsking DEF Promise!Answer, Views, Questions, Young,
     Answers

\* An answer from a snapshot and what is above the sets it does not know.
LEMMA BetweenAnswer ==
  ASSUME Typed, NEW r \in Resolvers, Asking(r), pc[r] = "overlay",
         local[r].edges \in graphs[r], View(r) \in graphs[r],
         NEW above, above \subseteq View(r),
         result' =
           [result EXCEPT ![r] = Up(probe[r].seeds, local[r].edges \cup above)],
         pc' = [pc EXCEPT ![r] = "resolved"],
         UNCHANGED <<Views, probe, graphs>>
  PROVE  Promise!Answer(r)
<1> DEFINE D == probe[r].seeds
           A == Up(D, local[r].edges \cup above)
<1>1. A # {} /\ A \in SUBSET Sets
  <2>1. D \in SUBSET Sets /\ D # {}
    BY DEF Asking, Typed, TypeOK
  <2>2. D \subseteq A /\ A \in SUBSET Sets
    BY <2>1, UpContains, UpInSets
  <2> QED  BY <2>1, <2>2
<1>2. A \subseteq Up(D, UNION graphs[r])
  BY UpGrows
<1>3. Up(D, local[r].edges) \subseteq A
  BY UpGrows
<1>4. result' = [result EXCEPT ![r] = A]
  OBVIOUS
<1> HIDE DEF A
<1>5. Up(D, local[r].edges) \in Promise!Exact(r)
  BY SameUp DEF Promise!Exact
<1>6. A \in Promise!Between(r)
  BY <1>1, <1>2, <1>3, <1>5, SameUp DEF Promise!Between
<1>7. Answers' = [Answers EXCEPT ![r] = {A}]
  BY <1>1, <1>4 DEF Answers, Typed, TypeOK
<1>8. r \in Young /\ Young' = Young \ {r}
  BY DEF Young, Typed, TypeOK
<1> QED
  BY <1>6, <1>7, <1>8, SameAsking DEF Promise!Answer, Views, Questions, Young,
     Answers

LEMMA PromiseStep ==
  Typed /\ CacheInv /\ FenceInv /\ PhaseInv /\ CurrentInv /\ [Next]_vars
    => [Promise!Next]_(Promise!vars)
<1> SUFFICES ASSUME Typed, CacheInv, FenceInv, PhaseInv, CurrentInv,
                    [Next]_vars
             PROVE  Promise!Next \/ UNCHANGED Promise!vars
  OBVIOUS
<1>1. ASSUME UNCHANGED <<Views, probe, graphs, Young, result>>
      PROVE  UNCHANGED Promise!vars
  BY <1>1 DEF Promise!vars, Views, Young
<1>2. ASSUME NEW r \in Resolvers, BeginPosting(r) \/ BeginAttach(r)
      PROVE  UNCHANGED Promise!vars
  <2>1. UNCHANGED Young
    BY <1>2 DEF BeginPosting, BeginAttach, Young, Typed, TypeOK
  <2>2. UNCHANGED Views
    BY <1>2 DEF BeginPosting, BeginAttach, dbVars, lockVars, Views, View
  <2> QED  BY <1>1, <1>2, <2>1, <2>2 DEF BeginPosting, BeginAttach
<1>3. ASSUME NEW r \in Resolvers, BeginStructure(r)  PROVE Promise!Next
  <2>1. ~ Asking(r)
    BY <1>3 DEF BeginStructure, Asking, PhaseInv, Phase
  <2>2. mine' \in SUBSET (Sets \X Sets)
    BY <1>3 DEF BeginStructure, Typed, TypeOK
  <2>3. \A q \in Resolvers :
          View(q)' = IF q = r THEN mine' ELSE View(q)
    BY <1>3, OwnerAssumption DEF BeginStructure, dbVars, View
  <2>4. Views' = [Views EXCEPT ![r] = mine']
    BY <2>3 DEF Views
  <2>5. UNCHANGED Young
    BY <1>3 DEF BeginStructure, Young, Typed, TypeOK
  <2>6. UNCHANGED <<Questions, graphs, Answers>>
    BY <1>3 DEF BeginStructure, Questions, Answers
  <2>7. Promise!Change(r)
    BY <2>1, <2>2, <2>4, <2>5, <2>6, SameAsking DEF Promise!Change,
       Promise!Graphs, Views, Young, Questions, Answers
  <2> QED  BY <2>7 DEF Promise!Next
<1>4. ASSUME NEW r \in Resolvers, Resolve(r)
      PROVE  Promise!Next \/ UNCHANGED Promise!vars
  <2>1. UNCHANGED Views
    BY <1>4 DEF Resolve, Probe, LoadStale, LoadCurrent, Overlay, Walk, dbVars,
       lockVars, Views, View
  <2>2. CASE Probe(r)
    <3>1. PICK D \in (SUBSET Sets) \ {{}} :
            probe' = [probe EXCEPT ![r] = [epoch |-> EpochView(r), seeds |-> D]]
      BY <2>2, GraphAssumption DEF Probe
    <3>2. Questions[r] = {} /\ Questions' = [Questions EXCEPT ![r] = D]
      BY <2>2, <3>1 DEF Probe, Questions, PhaseInv, Phase, Typed, TypeOK
    <3>3. graphs' = [graphs EXCEPT ![r] = {Views[r]}]
      BY <2>2 DEF Probe, Views
    <3>4. UNCHANGED <<Young, Answers>>
      BY <2>2 DEF Probe, Young, Answers, Typed, TypeOK
    <3>5. Promise!Ask(r)
      BY <2>1, <3>2, <3>3, <3>4 DEF Promise!Ask, Views, Young, Questions,
         Answers
    <3> QED  BY <3>5 DEF Promise!Next
  <2>3. CASE LoadStale(r)
    <3>1. UNCHANGED Young
      BY <2>3 DEF LoadStale, Young, Typed, TypeOK
    <3> QED  BY <1>1, <2>1, <2>3, <3>1 DEF LoadStale
  <2>4. CASE LoadCurrent(r)
    <3>1. pc[r] = "probed" /\ snapshot.epoch = probe[r].epoch /\ Asking(r)
      BY <2>4 DEF LoadCurrent, Asking, PhaseInv, Phase
    <3>2. owner # r
      BY <3>1 DEF FenceInv, Fenced, Fencing, EpochView, CacheInv, Committed,
         Typed, TypeOK
    <3>3. snapshot.edges \in graphs[r]
      BY <3>1, <3>2 DEF CurrentInv, Current, Seen
    <3>4. UNCHANGED <<probe, graphs>>
      BY <2>4 DEF LoadCurrent
    <3>5. CASE pc' = [pc EXCEPT ![r] = "overlay"] /\ UNCHANGED result
      <4>1. Young' = Young \cup {r}
        BY <3>5 DEF Young, Typed, TypeOK
      <4>2. Promise!Meet(r)
        BY <2>1, <3>1, <3>4, <3>5, <4>1, SameAsking DEF Promise!Meet, Views,
           Young, Questions, Answers
      <4> QED  BY <4>2 DEF Promise!Next
    <3>6. CASE pc' = [pc EXCEPT ![r] = "walk"] /\ UNCHANGED result
      <4>1. UNCHANGED Young
        BY <3>1, <3>6 DEF Young, Typed, TypeOK
      <4> QED  BY <1>1, <2>1, <3>4, <3>6, <4>1
    <3>7. CASE /\ pc' = [pc EXCEPT ![r] = "resolved"]
               /\ result' =
                    [result EXCEPT ![r] = Up(probe[r].seeds, snapshot.edges)]
      <4>1. UNCHANGED Young
        BY <3>1, <3>7 DEF Young, Typed, TypeOK
      <4>2. Promise!Answer(r)
        BY <2>1, <3>1, <3>3, <3>4, <3>7, <4>1, ExactAnswer
      <4> QED  BY <4>2 DEF Promise!Next
    <3> QED  BY <2>4, <3>5, <3>6, <3>7 DEF LoadCurrent, Expand
  <2>5. CASE Overlay(r)
    <3> DEFINE above ==
                 {e \in View(r) : e[2] \in probe[r].seeds \ local[r].known}
    <3>1. pc[r] = "overlay" /\ Asking(r) /\ UNCHANGED <<probe, graphs>>
      BY <2>5 DEF Overlay, Asking, PhaseInv, Phase
    <3>2. View(r) \in graphs[r] /\ local[r].edges \in graphs[r]
      BY <3>1 DEF CurrentInv, Current
    <3>3. above \subseteq View(r)
      OBVIOUS
    <3>4. \/ pc' = [pc EXCEPT ![r] = "walk"] /\ UNCHANGED result
          \/ /\ pc' = [pc EXCEPT ![r] = "resolved"]
             /\ result' = [result EXCEPT ![r] =
                  Up(probe[r].seeds, local[r].edges \cup above)]
      BY <2>5 DEF Overlay, Expand
    <3> HIDE DEF above
    <3>5. CASE pc' = [pc EXCEPT ![r] = "walk"] /\ UNCHANGED result
      <4>1. Young' = Young \ {r}
        BY <3>5 DEF Young, Typed, TypeOK
      <4>2. Promise!Fallback(r)
        BY <2>1, <3>1, <3>5, <4>1 DEF Promise!Fallback, Views, Young,
           Questions, Answers
      <4> QED  BY <4>2 DEF Promise!Next
    <3>6. CASE /\ pc' = [pc EXCEPT ![r] = "resolved"]
               /\ result' = [result EXCEPT ![r] =
                    Up(probe[r].seeds, local[r].edges \cup above)]
      <4>1. Promise!Answer(r)
        BY <2>1, <3>1, <3>2, <3>3, <3>6, BetweenAnswer
      <4> QED  BY <4>1 DEF Promise!Next
    <3> QED  BY <3>4, <3>5, <3>6
  <2>6. CASE Walk(r)
    <3>1. pc[r] = "walk" /\ Asking(r) /\ UNCHANGED <<probe, graphs>>
      BY <2>6 DEF Walk, Asking, PhaseInv, Phase
    <3>2. View(r) \in graphs[r]
      BY <3>1 DEF CurrentInv, Current
    <3>3. UNCHANGED Young
      BY <2>6 DEF Walk, Young, Typed, TypeOK
    <3>4. result' = [result EXCEPT ![r] = Up(probe[r].seeds, View(r))]
      BY <2>6 DEF Walk
    <3>5. Promise!Answer(r)
      BY <2>1, <3>1, <3>2, <3>3, <3>4, ExactAnswer
    <3> QED  BY <3>5 DEF Promise!Next
  <2> QED  BY <1>4, <2>2, <2>3, <2>4, <2>5, <2>6 DEF Resolve
<1>5. ASSUME NEW r \in Resolvers, End(r)  PROVE Promise!Next
  <2>1. \A q \in Resolvers : View(q)' \in SUBSET (Sets \X Sets)
    BY <1>5, TypedStep DEF View, Typed, TypeOK
  <2>2. Questions' = [Questions EXCEPT ![r] = {}]
    BY <1>5 DEF End, Questions, NoProbe, Typed, TypeOK
  <2>3. Young' = Young \ {r}
    BY <1>5 DEF End, Young, Typed, TypeOK
  <2>4. Answers' = [Answers EXCEPT ![r] = {}]
    BY <1>5 DEF End, Answers, Typed, TypeOK
  <2>5. graphs' = [q \in Resolvers |->
          IF q = r THEN {}
          ELSE IF Promise!Asking(q) THEN graphs[q] \cup {Views'[q]}
          ELSE graphs[q]]
    BY <1>5, SameAsking DEF End, Views
  <2>6. Promise!End(r)
    BY <2>1, <2>2, <2>3, <2>4, <2>5 DEF Promise!End, Promise!Graphs, Views,
       Young, Questions, Answers
  <2> QED  BY <2>6 DEF Promise!Next
<1>6. CASE \/ \E s \in Sets : CreateSet(s)
           \/ Timer
           \/ \E t \in Tasks : Refresh(t)
           \/ UNCHANGED vars
  <2>1. UNCHANGED <<edges, owner, mine, pc, probe, graphs, result>>
    BY <1>6 DEF CreateSet, Timer, Refresh, TryLock, Fetch, Install, vars,
       dbVars, lockVars
  <2>2. UNCHANGED <<Views, Young>>
    BY <2>1 DEF Views, View, Young
  <2> QED  BY <1>1, <2>1, <2>2
<1> QED  BY <1>2, <1>3, <1>4, <1>5, <1>6 DEF Next

\* Whatever refresh, snapshot, overlay or walk answers a transaction
\* (resolve_from_probe_in_op), the cache implements AncestorResolution.
THEOREM Implements == Spec => Resolves
<1>1. Spec => [](Typed /\ CacheInv /\ FenceInv /\ PhaseInv /\ CurrentInv)
  BY TypedInit, TypedStep, CacheInit, CacheStep, FenceInit, FenceStep,
     PhaseInit, PhaseStep, CurrentInit, CurrentStep, PTL DEF Spec
<1> QED
  BY <1>1, PromiseInit, PromiseStep, PTL DEF Spec, Resolves, Promise!Spec
=============================================================================
