------------------------- MODULE PostingFenceProofs -------------------------
(***************************************************************************)
(* Proofs about PostingFence, for every number of posters, operations,     *)
(* accounts and sets, every membership graph and every order of locks.     *)
(***************************************************************************)
EXTENDS PostingFence, Induction, TLAPS

USE IdsAssumption, InputsAssumption DEF Holders, Procs

----------------------------------------------------------------------------
(* Typing *)

LEMMA UpType == ASSUME NEW D, NEW S PROVE Up(D, S) \in SUBSET Sets
  BY DEF Up

LEMMA AboveType == ASSUME NEW a PROVE Above(a) \in SUBSET Sets
  BY UpType DEF Above

LEMMA EntryLocksType ==
  ASSUME NEW p \in Posters, NEW A \in SUBSET Accounts
  PROVE  EntryLocks(p, A) \in SUBSET Lock
  BY DEF EntryLocks, Lock, Shared, Exclusive, Plain

LEMMA AncestorLocksType ==
  ASSUME NEW p \in Posters, NEW S \in SUBSET Sets
  PROVE  AncestorLocks(p, S) \in SUBSET Lock
  BY DEF AncestorLocks, Lock, Exclusive, Plain

LEMMA GuardLocksType ==
  ASSUME NEW o \in Ops, NEW r \in Plans
  PROVE  GuardLocks(o, r) \in SUBSET Lock
  BY DEF GuardLocks, Lock, Exclusive

LEMMA GraphLocksType ==
  ASSUME TypeOK, NEW o \in Ops
  PROVE  GraphLocks(o) \in SUBSET Lock
  BY DEF TypeOK, GraphLocks, Lock, Exclusive, Shared, NoPlan

LEMMA OwnEntriesType ==
  ASSUME TypeOK, NEW p \in Posters, NEW x \in Holders
  PROVE  /\ OwnEntries(p, x) \in SUBSET Entries
         /\ IsFiniteSet(OwnEntries(p, x))
<1> DEFINE B == {b \in batch[p] : x = b \/ x \in above[p][b]}
<1>1. batch[p] \in SUBSET Accounts
  BY DEF TypeOK
<1>2. IsFiniteSet(B)
  BY <1>1, FS_Subset
<1>3. OwnEntries(p, x) = {<<p, a>> : a \in B}
  BY DEF OwnEntries
<1>4. IsFiniteSet({<<p, a>> : a \in B})
  <2> DEFINE f == [a \in B |-> <<p, a>>]
  <2>1. f \in Surjection(B, {<<p, a>> : a \in B})
    BY DEF Surjection
  <2> QED  BY <1>2, <2>1, FS_Surjection
<1>5. OwnEntries(p, x) \in SUBSET Entries
  BY <1>1, <1>3 DEF Entries
<1> QED  BY <1>3, <1>4, <1>5

LEMMA FoldedType ==
  ASSUME TypeOK, NEW p \in Posters, NEW x \in Holders
  PROVE  Folded(p, x) \in Balances
<1>1. read[p][x] \in Balances
  BY DEF TypeOK
<1>2. OwnEntries(p, x) \in SUBSET Entries /\ Cardinality(OwnEntries(p, x)) \in Nat
  BY OwnEntriesType, FS_CardinalityType
<1> QED  BY <1>1, <1>2 DEF Folded, Balances

\* Every reachable state is type-correct.
LEMMA InitTyped == Init => TypeOK
<1> SUFFICES ASSUME Init PROVE TypeOK
  OBVIOUS
<1>1. NoBalance \in Balances
  BY DEF NoBalance, Balances
<1> QED
  BY <1>1 DEF Init, TypeOK, PosterPhases, OpPhases

LEMMA StepTyped == TypeOK /\ [Next]_vars => TypeOK'
<1> SUFFICES ASSUME TypeOK, [Next]_vars PROVE TypeOK'
  OBVIOUS
<1> USE DEF TypeOK, PosterPhases, OpPhases
<1>1. ASSUME NEW p \in Posters, Begin(p) PROVE TypeOK'
  <2>1. PICK A \in Batches :
          /\ batch' = [batch EXCEPT ![p] = A]
          /\ todo' = [todo EXCEPT ![p] = EntryLocks(p, A \cap accounts)]
    BY <1>1 DEF Begin
  <2>2. EntryLocks(p, A \cap accounts) \in SUBSET Lock
    BY EntryLocksType
  <2>3. batch' \in [Posters -> SUBSET Accounts]
    BY <2>1
  <2>4. todo' \in [Procs -> SUBSET Lock]
    BY <2>1, <2>2
  <2>5. UNCHANGED <<accounts, memberOf, subsetOf, entries, balance, held,
                    above, read, reprepared, plan>>
    BY <1>1 DEF Begin, committedVars
  <2>6. pc' = [pc EXCEPT ![p] = "locking"]
    BY <1>1 DEF Begin
  <2> QED  BY <2>3, <2>4, <2>5, <2>6
<1>2. ASSUME NEW p \in Posters, Reprepare(p) PROVE TypeOK'
  <2>1. PICK A \in Batches :
          /\ batch' = [batch EXCEPT ![p] = A]
          /\ todo' = [todo EXCEPT ![p] =
                        EntryLocks(p, A \cap accounts) \ held]
    BY <1>2 DEF Reprepare
  <2>2. EntryLocks(p, A \cap accounts) \in SUBSET Lock
    BY EntryLocksType
  <2>3. batch' \in [Posters -> SUBSET Accounts]
    BY <2>1
  <2>4. todo' \in [Procs -> SUBSET Lock]
    BY <2>1, <2>2
  <2>5. UNCHANGED <<accounts, memberOf, subsetOf, entries, balance, held, pc,
                    above, read, plan>>
    BY <1>2 DEF Reprepare, committedVars
  <2>6. reprepared' = reprepared \cup {p}
    BY <1>2 DEF Reprepare
  <2> QED  BY <2>3, <2>4, <2>5, <2>6
<1>3. ASSUME NEW o \in Ops, Propose(o) PROVE TypeOK'
  <2>1. PICK r \in Plans :
          /\ plan' = [plan EXCEPT ![o] = r]
          /\ todo' = [todo EXCEPT ![o] = GuardLocks(o, r)]
    BY <1>3 DEF Propose
  <2>2. GuardLocks(o, r) \in SUBSET Lock
    BY GuardLocksType
  <2> QED  BY <1>3, <2>1, <2>2 DEF Propose, committedVars, posterVars
<1>4. ASSUME NEW o \in Procs, Acquire(o) PROVE TypeOK'
  BY <1>4 DEF Acquire, committedVars, posterVars
<1>5. ASSUME NEW p \in Posters, Read(p) PROVE TypeOK'
  <2>1. \A a \in Accounts : Above(a) \in SUBSET Sets
    BY AboveType
  <2>2. NoBalance \in Balances
    BY DEF NoBalance, Balances
  <2>3. above' \in [Posters -> [Accounts -> SUBSET Sets]]
    BY <1>5, <2>1 DEF Read
  <2>4. read' \in [Posters -> [Holders -> Balances]]
    BY <1>5, <2>2 DEF Read
  <2> QED  BY <1>5, <2>3, <2>4 DEF Read, committedVars
<1>6. ASSUME NEW p \in Posters, ResolveFromCache(p) PROVE TypeOK'
  <2>1. Ancestors(p) \in SUBSET Sets
    BY DEF Ancestors
  <2>2. AncestorLocks(p, Ancestors(p)) \in SUBSET Lock
    BY <2>1, AncestorLocksType
  <2> QED  BY <1>6, <2>2 DEF ResolveFromCache, committedVars, posterVars
<1>7. ASSUME NEW p \in Posters, ResolveByWalk(p) PROVE TypeOK'
  <2>1. \A a \in Accounts : Above(a) \in SUBSET Sets
    BY AboveType
  <2>2. AncestorLocks(p, UNION {Above(a) : a \in batch[p]}) \in SUBSET Lock
    BY <2>1, AncestorLocksType
  <2>3. above' \in [Posters -> [Accounts -> SUBSET Sets]]
    BY <1>7, <2>1 DEF ResolveByWalk
  <2> QED  BY <1>7, <2>2, <2>3 DEF ResolveByWalk, committedVars
<1>8. ASSUME NEW p \in Posters, ReadAncestors(p) PROVE TypeOK'
  <2>1. read' \in [Posters -> [Holders -> Balances]]
    BY <1>8 DEF ReadAncestors
  <2> QED  BY <1>8, <2>1 DEF ReadAncestors, committedVars
<1>9. ASSUME NEW p \in Posters, Commit(p) PROVE TypeOK'
  <2>1. entries' \subseteq Entries
    BY <1>9 DEF Commit, Entries
  <2>2. balance' \in [Holders -> Balances]
    BY <1>9, FoldedType DEF Commit
  <2>3. held' \subseteq Lock
    BY <1>9 DEF Commit, Release
  <2> QED  BY <1>9, <2>1, <2>2, <2>3 DEF Commit, posterVars
<1>10. ASSUME NEW o \in Ops, CheckHistory(o) PROVE TypeOK'
  <2>1. GraphLocks(o) \in SUBSET Lock
    BY GraphLocksType
  <2> QED  BY <1>10, <2>1 DEF CheckHistory, committedVars, posterVars
<1>11. ASSUME NEW o \in Ops, Validate(o) PROVE TypeOK'
  BY <1>11 DEF Validate, committedVars, posterVars
<1>12. ASSUME NEW o \in Ops, Apply(o) PROVE TypeOK'
  <2>1. plan[o] \in Plans
    BY <1>12 DEF Apply, NoPlan
  <2>2. memberOf' \subseteq Sets \X accounts /\ subsetOf' \subseteq Sets \X Sets
    BY <1>12, <2>1 DEF Apply, EdgesInsertable
  <2> QED  BY <1>12, <2>2 DEF Apply, Release, posterVars
<1>13. ASSUME NEW a \in Accounts, Create(a) PROVE TypeOK'
  BY <1>13 DEF Create, posterVars
<1>14. ASSUME NEW o \in Procs, Abort(o) PROVE TypeOK'
  BY <1>14 DEF Abort, Release, committedVars, posterVars
<1>15. CASE UNCHANGED vars
  BY <1>15 DEF vars
<1> QED
  BY <1>1, <1>2, <1>3, <1>4, <1>5, <1>6, <1>7, <1>8, <1>9, <1>10, <1>11,
     <1>12, <1>13, <1>14, <1>15 DEF Next, Advance

\* The shapes of the locks, snapshots and graph rows never change, whatever
\* the transactions interleave.
THEOREM TypeCorrect == Spec => []TypeOK
  BY InitTyped, StepTyped, PTL DEF Spec

----------------------------------------------------------------------------
(* Who changes what                                                        *)

HasRead(p) == pc[p] \in {"resolving", "ancestors", "writing"}

\* The locks of o survive the step.
Kept(o) == \A l \in held : l.owner = o => l \in held'

SamePoster(p) ==
  /\ pc'[p] = pc[p] /\ todo'[p] = todo[p] /\ batch'[p] = batch[p]
  /\ above'[p] = above[p] /\ read'[p] = read[p]
  /\ Kept(p)

SameOp(o) ==
  /\ pc'[o] = pc[o] /\ todo'[o] = todo[o] /\ plan'[o] = plan[o]
  /\ Kept(o)

PosterStep(p) ==
  \/ Begin(p) \/ Reprepare(p) \/ Acquire(p) \/ Read(p) \/ ResolveFromCache(p)
  \/ ResolveByWalk(p) \/ ReadAncestors(p) \/ Commit(p) \/ Abort(p)

OpStep(o) ==
  Propose(o) \/ Acquire(o) \/ CheckHistory(o) \/ Validate(o) \/ Apply(o)
    \/ Abort(o)

\* A step is one actor's: a poster's own actions, or nothing of it changes.
LEMMA PosterFrame ==
  ASSUME TypeOK, [Next]_vars, NEW p \in Posters
  PROVE  SamePoster(p) \/ PosterStep(p)
<1> SUFFICES ASSUME ~ PosterStep(p) PROVE SamePoster(p)
  OBVIOUS
<1> USE DEF SamePoster, Kept, TypeOK, committedVars, posterVars
<1>1. ASSUME NEW q \in Posters, Begin(q) PROVE SamePoster(p)
  <2>1. p # q
    BY <1>1 DEF PosterStep
  <2> QED  BY <1>1, <2>1 DEF Begin
<1>2. ASSUME NEW q \in Posters, Reprepare(q) PROVE SamePoster(p)
  <2>1. p # q
    BY <1>2 DEF PosterStep
  <2> QED  BY <1>2, <2>1 DEF Reprepare
<1>3. ASSUME NEW o \in Ops, Propose(o) PROVE SamePoster(p)
  BY <1>3 DEF Propose
<1>4. ASSUME NEW o \in Procs, Acquire(o) PROVE SamePoster(p)
  <2>1. p # o
    BY <1>4 DEF PosterStep
  <2> QED  BY <1>4, <2>1 DEF Acquire
<1>5. ASSUME NEW q \in Posters, Read(q) PROVE SamePoster(p)
  <2>1. p # q
    BY <1>5 DEF PosterStep
  <2> QED  BY <1>5, <2>1 DEF Read
<1>6. ASSUME NEW q \in Posters, ResolveFromCache(q) PROVE SamePoster(p)
  <2>1. p # q
    BY <1>6 DEF PosterStep
  <2> QED  BY <1>6, <2>1 DEF ResolveFromCache
<1>7. ASSUME NEW q \in Posters, ResolveByWalk(q) PROVE SamePoster(p)
  <2>1. p # q
    BY <1>7 DEF PosterStep
  <2> QED  BY <1>7, <2>1 DEF ResolveByWalk
<1>8. ASSUME NEW q \in Posters, ReadAncestors(q) PROVE SamePoster(p)
  <2>1. p # q
    BY <1>8 DEF PosterStep
  <2> QED  BY <1>8, <2>1 DEF ReadAncestors
<1>9. ASSUME NEW q \in Posters, Commit(q) PROVE SamePoster(p)
  <2>1. p # q
    BY <1>9 DEF PosterStep
  <2> QED  BY <1>9, <2>1 DEF Commit, Release
<1>10. ASSUME NEW o \in Ops, CheckHistory(o) PROVE SamePoster(p)
  BY <1>10 DEF CheckHistory
<1>11. ASSUME NEW o \in Ops, Validate(o) PROVE SamePoster(p)
  BY <1>11 DEF Validate
<1>12. ASSUME NEW o \in Ops, Apply(o) PROVE SamePoster(p)
  BY <1>12 DEF Apply, Release
<1>13. ASSUME NEW a \in Accounts, Create(a) PROVE SamePoster(p)
  BY <1>13 DEF Create
<1>14. ASSUME NEW o \in Procs, Abort(o) PROVE SamePoster(p)
  <2>1. p # o
    BY <1>14 DEF PosterStep
  <2> QED  BY <1>14, <2>1 DEF Abort, Release
<1>15. CASE UNCHANGED vars
  BY <1>15 DEF vars
<1> QED
  BY <1>1, <1>2, <1>3, <1>4, <1>5, <1>6, <1>7, <1>8, <1>9, <1>10, <1>11,
     <1>12, <1>13, <1>14, <1>15 DEF Next, Advance

LEMMA OpFrame ==
  ASSUME TypeOK, [Next]_vars, NEW o \in Ops
  PROVE  SameOp(o) \/ OpStep(o)
<1> SUFFICES ASSUME ~ OpStep(o) PROVE SameOp(o)
  OBVIOUS
<1> USE DEF SameOp, Kept, TypeOK, committedVars, posterVars
<1>1. ASSUME NEW q \in Posters, Begin(q) PROVE SameOp(o)
  BY <1>1 DEF Begin
<1>2. ASSUME NEW q \in Posters, Reprepare(q) PROVE SameOp(o)
  BY <1>2 DEF Reprepare
<1>3. ASSUME NEW q \in Ops, Propose(q) PROVE SameOp(o)
  <2>1. o # q
    BY <1>3 DEF OpStep
  <2> QED  BY <1>3, <2>1 DEF Propose
<1>4. ASSUME NEW q \in Procs, Acquire(q) PROVE SameOp(o)
  <2>1. o # q
    BY <1>4 DEF OpStep
  <2> QED  BY <1>4, <2>1 DEF Acquire
<1>5. ASSUME NEW q \in Posters, Read(q) PROVE SameOp(o)
  BY <1>5 DEF Read
<1>6. ASSUME NEW q \in Posters, ResolveFromCache(q) PROVE SameOp(o)
  BY <1>6 DEF ResolveFromCache
<1>7. ASSUME NEW q \in Posters, ResolveByWalk(q) PROVE SameOp(o)
  BY <1>7 DEF ResolveByWalk
<1>8. ASSUME NEW q \in Posters, ReadAncestors(q) PROVE SameOp(o)
  BY <1>8 DEF ReadAncestors
<1>9. ASSUME NEW q \in Posters, Commit(q) PROVE SameOp(o)
  BY <1>9 DEF Commit, Release
<1>10. ASSUME NEW q \in Ops, CheckHistory(q) PROVE SameOp(o)
  <2>1. o # q
    BY <1>10 DEF OpStep
  <2> QED  BY <1>10, <2>1 DEF CheckHistory
<1>11. ASSUME NEW q \in Ops, Validate(q) PROVE SameOp(o)
  <2>1. o # q
    BY <1>11 DEF OpStep
  <2> QED  BY <1>11, <2>1 DEF Validate
<1>12. ASSUME NEW q \in Ops, Apply(q) PROVE SameOp(o)
  <2>1. o # q
    BY <1>12 DEF OpStep
  <2> QED  BY <1>12, <2>1 DEF Apply, Release
<1>13. ASSUME NEW a \in Accounts, Create(a) PROVE SameOp(o)
  BY <1>13 DEF Create
<1>14. ASSUME NEW q \in Procs, Abort(q) PROVE SameOp(o)
  <2>1. o # q
    BY <1>14 DEF OpStep
  <2> QED  BY <1>14, <2>1 DEF Abort, Release
<1>15. CASE UNCHANGED vars
  BY <1>15 DEF vars
<1> QED
  BY <1>1, <1>2, <1>3, <1>4, <1>5, <1>6, <1>7, <1>8, <1>9, <1>10, <1>11,
     <1>12, <1>13, <1>14, <1>15 DEF Next, Advance

\* Only a COMMIT of a posting writes entries and balances, only the COMMIT of
\* an operation or a creation writes the graph.
LEMMA DataFrame ==
  ASSUME [Next]_vars
  PROVE  /\ \/ entries' = entries /\ balance' = balance
            \/ \E q \in Posters : Commit(q)
         /\ \/ accounts' = accounts /\ memberOf' = memberOf
               /\ subsetOf' = subsetOf
            \/ \E o \in Ops : Apply(o)
            \/ \E a \in Accounts : Create(a)
  BY DEF Next, Advance, Begin, Reprepare, Propose, Acquire, Read,
         ResolveFromCache, ResolveByWalk, ReadAncestors, Commit, CheckHistory,
         Validate, Apply, Create, Abort, vars, committedVars

----------------------------------------------------------------------------
(* The lock protocol                                                       *)

Compatible == \A g, h \in held : ~ Conflicts(g, h)

\* Where a posting stands with its locks.
Fenced(p) ==
  /\ pc[p] = "locking" => EntryLocks(p, batch[p]) \subseteq held \cup todo[p]
  /\ HasRead(p) => EntryLocks(p, batch[p]) \subseteq held
  /\ pc[p] = "ancestors" =>
       AncestorLocks(p, Ancestors(p)) \subseteq held \cup todo[p]
  /\ pc[p] = "writing" => AncestorLocks(p, Ancestors(p)) \subseteq held
  /\ pc[p] = "locking" \/ HasRead(p) => batch[p] \subseteq accounts

\* Where an operation stands with its guard.
Guarding(o) ==
  /\ pc[o] = "guarding" => GuardLocks(o, plan[o]) \subseteq held \cup todo[o]
  /\ pc[o] \in {"fencing", "applying"} => GuardLocks(o, plan[o]) \subseteq held
  /\ pc[o] \in {"guarding", "fencing", "applying"} => plan[o] \in Plans

LEMMA UpEmpty == ASSUME NEW S PROVE Up({}, S) = {}
  BY DEF Up

LEMMA LockOwners ==
  /\ \A p, A : \A l \in EntryLocks(p, A) : l.owner = p
  /\ \A p, S : \A l \in AncestorLocks(p, S) : l.owner = p
  /\ \A o, r : \A l \in GuardLocks(o, r) : l.owner = o
  BY DEF EntryLocks, AncestorLocks, GuardLocks, Shared, Exclusive

LEMMA CompatibleStep ==
  ASSUME TypeOK, Compatible, [Next]_vars
  PROVE  Compatible'
<1>1. ASSUME NEW o \in Procs, Acquire(o) PROVE Compatible'
  <2>1. PICK l \in todo[o] :
          /\ \A h \in held : ~ Conflicts(l, h)
          /\ held' = held \cup {l}
    BY <1>1 DEF Acquire
  <2> QED  BY <2>1 DEF Compatible, Conflicts
<1>2. CASE held' \subseteq held
  BY <1>2 DEF Compatible, Conflicts
<1>3. ASSUME NEW p \in Posters,
             \/ Begin(p) \/ Reprepare(p) \/ Read(p) \/ ReadAncestors(p)
             \/ ResolveFromCache(p) \/ ResolveByWalk(p) \/ Commit(p)
      PROVE  held' \subseteq held
  BY <1>3 DEF Begin, Reprepare, Read, ResolveFromCache, ResolveByWalk,
     ReadAncestors, Commit, Release
<1>4. ASSUME NEW o \in Ops, Propose(o) \/ CheckHistory(o) \/ Validate(o) \/ Apply(o)
      PROVE  held' \subseteq held
  BY <1>4 DEF Propose, CheckHistory, Validate, Apply, Release
<1>5. ASSUME NEW o \in Procs, Abort(o)  PROVE held' \subseteq held
  BY <1>5 DEF Abort, Release
<1>6. ASSUME NEW a \in Accounts, Create(a)  PROVE held' \subseteq held
  BY <1>6 DEF Create
<1>7. ASSUME UNCHANGED vars  PROVE held' \subseteq held
  BY <1>7 DEF vars
<1> QED
  BY <1>1, <1>2, <1>3, <1>4, <1>5, <1>6, <1>7 DEF Next, Advance

LEMMA FencedStep ==
  ASSUME AwaitCreate, TypeOK, [Next]_vars, NEW p \in Posters, Fenced(p)
  PROVE  Fenced(p)'
<1>0. accounts \subseteq accounts'
  <2>1. ASSUME NEW o \in Procs, Advance(o) \/ Abort(o)
        PROVE  accounts \subseteq accounts'
    BY <2>1 DEF Advance, Acquire, Read, ResolveFromCache, ResolveByWalk,
       ReadAncestors, Commit, CheckHistory, Validate, Apply, Abort, committedVars
  <2>2. ASSUME NEW q \in Posters, Begin(q) \/ Reprepare(q)
        PROVE  accounts \subseteq accounts'
    BY <2>2 DEF Begin, Reprepare, committedVars
  <2>3. ASSUME NEW o \in Ops, Propose(o)  PROVE accounts \subseteq accounts'
    BY <2>3 DEF Propose, committedVars
  <2>4. ASSUME NEW a \in Accounts, Create(a)  PROVE accounts \subseteq accounts'
    BY <2>4 DEF Create
  <2>5. ASSUME UNCHANGED vars  PROVE accounts \subseteq accounts'
    BY <2>5 DEF vars
  <2> QED  BY <2>1, <2>2, <2>3, <2>4, <2>5 DEF Next
<1> USE DEF TypeOK
<1>1. CASE SamePoster(p)
  <2>1. Ancestors(p)' = Ancestors(p)
    BY <1>1 DEF SamePoster, Ancestors
  <2> QED
    BY <1>0, <1>1, <2>1, LockOwners DEF SamePoster, Kept, Fenced, HasRead
<1>2. CASE Begin(p)
  <2>1. PICK A \in Batches :
          /\ A \subseteq accounts
          /\ batch' = [batch EXCEPT ![p] = A]
          /\ todo' = [todo EXCEPT ![p] = EntryLocks(p, A \cap accounts)]
    BY <1>2 DEF Begin
  <2>2. A \cap accounts = A
    BY <2>1
  <2>3. pc'[p] = "locking"
    BY <1>2 DEF Begin
  <2> QED  BY <1>0, <2>1, <2>2, <2>3 DEF Fenced, HasRead
<1>3. CASE Reprepare(p)
  <2>1. PICK A \in Batches :
          /\ A \subseteq accounts
          /\ batch' = [batch EXCEPT ![p] = A]
          /\ todo' = [todo EXCEPT ![p] =
                        EntryLocks(p, A \cap accounts) \ held]
    BY <1>3 DEF Reprepare
  <2>2. A \cap accounts = A
    BY <2>1
  <2>3. pc'[p] = "locking" /\ held' = held
    BY <1>3 DEF Reprepare
  <2> QED  BY <1>0, <2>1, <2>2, <2>3 DEF Fenced, HasRead
<1>4. CASE Acquire(p)
  <2>1. /\ held' \cup todo'[p] = held \cup todo[p]
        /\ held \subseteq held'
    BY <1>4 DEF Acquire
  <2>2. /\ UNCHANGED <<pc, batch, above>>
        /\ Ancestors(p)' = Ancestors(p)
    BY <1>4 DEF Acquire, posterVars, Ancestors
  <2> QED  BY <1>0, <2>1, <2>2 DEF Fenced, HasRead
<1>5. CASE Read(p)
  <2>1. EntryLocks(p, batch[p]) \subseteq held
    BY <1>5 DEF Read, Fenced
  <2>2. UNCHANGED <<held, batch>> /\ batch[p] \subseteq accounts
    BY <1>5 DEF Read
  <2>3. CASE pc'[p] = "resolving"
    BY <1>0, <2>1, <2>2, <2>3 DEF Fenced, HasRead
  <2>4. CASE pc'[p] = "writing"
    <3>1. \A a \in batch[p] : Direct(memberOf, a) = {}
      BY <1>5, <2>4 DEF Read
    <3>2. \A a \in batch[p] : Above(a) = {}
      BY <3>1, UpEmpty DEF Above
    <3>3. \A a \in batch[p] : above'[p][a] = {}
      BY <1>5, <3>2 DEF Read
    <3>4. AncestorLocks(p, Ancestors(p)') = {}
      BY <2>2, <3>3 DEF AncestorLocks, Ancestors, Plain
    <3> QED
      BY <1>0, <2>1, <2>2, <2>4, <3>4 DEF Fenced, HasRead
  <2> QED  BY <1>5, <2>3, <2>4 DEF Read
<1>6. CASE ResolveFromCache(p)
  <2>1. Ancestors(p)' = Ancestors(p)
    BY <1>6 DEF ResolveFromCache, posterVars, Ancestors
  <2> QED
    BY <1>0, <1>6, <2>1
    DEF ResolveFromCache, posterVars, Fenced, HasRead
<1>7. CASE ResolveByWalk(p)
  <2>1. Ancestors(p)' = UNION {Above(a) : a \in batch[p]}
    BY <1>7 DEF ResolveByWalk, Ancestors
  <2> QED
    BY <1>0, <1>7, <2>1 DEF ResolveByWalk, Fenced, HasRead
<1>8. CASE ReadAncestors(p)
  <2>1. Ancestors(p)' = Ancestors(p)
    BY <1>8 DEF ReadAncestors, Ancestors
  <2> QED
    BY <1>0, <1>8, <2>1 DEF ReadAncestors, Fenced, HasRead
<1>9. CASE Commit(p) \/ Abort(p)
  BY <1>9 DEF Commit, Abort, Fenced, HasRead
<1> QED
  BY <1>1, <1>2, <1>3, <1>4, <1>5, <1>6, <1>7, <1>8, <1>9, PosterFrame
  DEF PosterStep

LEMMA GuardingStep ==
  ASSUME TypeOK, [Next]_vars, NEW o \in Ops, Guarding(o)
  PROVE  Guarding(o)'
<1> USE DEF TypeOK
<1>1. CASE SameOp(o)
  BY <1>1, LockOwners DEF SameOp, Kept, Guarding
<1>2. CASE Propose(o)
  <2>1. PICK r \in Plans :
          /\ plan' = [plan EXCEPT ![o] = r]
          /\ todo' = [todo EXCEPT ![o] = GuardLocks(o, r)]
    BY <1>2 DEF Propose
  <2>2. pc'[o] = "guarding"
    BY <1>2 DEF Propose
  <2> QED  BY <2>1, <2>2 DEF Guarding
<1>3. CASE Acquire(o)
  <2>1. /\ held' \cup todo'[o] = held \cup todo[o]
        /\ held \subseteq held'
    BY <1>3 DEF Acquire
  <2>2. UNCHANGED <<pc, plan>>
    BY <1>3 DEF Acquire
  <2> QED  BY <2>1, <2>2 DEF Guarding
<1>4. CASE CheckHistory(o)
  BY <1>4 DEF CheckHistory, Guarding
<1>5. CASE Validate(o)
  BY <1>5 DEF Validate, Guarding
<1>6. CASE Apply(o) \/ Abort(o)
  BY <1>6 DEF Apply, Abort, Guarding
<1> QED
  BY <1>1, <1>2, <1>3, <1>4, <1>5, <1>6, OpFrame DEF OpStep

ProtocolInv ==
  /\ TypeOK
  /\ Compatible
  /\ \A p \in Posters : Fenced(p)
  /\ \A o \in Ops : Guarding(o)

LEMMA ProtocolInitial == Init => ProtocolInv
  BY InitTyped DEF Init, ProtocolInv, Compatible, Fenced, Guarding, HasRead

LEMMA ProtocolStep ==
  ASSUME AwaitCreate
  PROVE  ProtocolInv /\ [Next]_vars => ProtocolInv'
<1> SUFFICES ASSUME ProtocolInv, [Next]_vars PROVE ProtocolInv'
  OBVIOUS
<1> USE DEF ProtocolInv
<1>1. TypeOK'
  BY StepTyped
<1>2. Compatible'
  BY CompatibleStep
<1>3. \A p \in Posters : Fenced(p)'
  BY FencedStep
<1>4. \A o \in Ops : Guarding(o)'
  BY GuardingStep
<1> QED  BY <1>1, <1>2, <1>3, <1>4

\* When clients post only to accounts whose creation has committed, a posting
\* reads, resolves and writes only under the locks that protect what it reads.
THEOREM ReadsAreLocked ==
  ASSUME AwaitCreate PROVE Spec => []LockBeforeRead
<1>1. ProtocolInv => LockBeforeRead
  BY DEF ProtocolInv, Fenced, HasRead, LockBeforeRead
<1> QED
  BY <1>1, ProtocolInitial, ProtocolStep, PTL DEF Spec

----------------------------------------------------------------------------
(* The attach fence                                                        *)

\* The answer of a guard lasts for the members that are accounts: postings lock
\* those, and not the sets above them.
GuardEmpty(o) ==
  pc[o] \in {"fencing", "applying"} =>
    \A m \in MemberIds(o) \cap Accounts : ~ HasHistory(m)

EntriesLive == \A e \in entries : e[2] \in accounts

FenceInv ==
  /\ ProtocolInv
  /\ EntriesLive
  /\ \A o \in Ops : GuardEmpty(o)

\* SHARED and EXCLUSIVE on one account exclude each other: no posting that has
\* read the account runs while an operation is past its guard.
LEMMA FenceExcludes ==
  ASSUME ProtocolInv, NEW p \in Posters, HasRead(p),
         NEW o \in Ops, pc[o] \in {"fencing", "applying"}
  PROVE  batch[p] \cap MemberIds(o) = {}
<1> SUFFICES ASSUME NEW m \in batch[p], m \in MemberIds(o) PROVE FALSE
  OBVIOUS
<1>1. Shared("ec_set", m, p) \in held
  BY DEF ProtocolInv, Fenced, EntryLocks
<1>2. Exclusive("ec_set", m, o) \in held
  <2>1. Exclusive("ec_set", m, o) \in GuardLocks(o, plan[o])
    BY DEF MemberIds, GuardLocks
  <2> QED  BY <2>1 DEF ProtocolInv, Guarding
<1>3. Conflicts(Shared("ec_set", m, p), Exclusive("ec_set", m, o))
  BY DEF Conflicts, Shared, Exclusive
<1> QED  BY <1>1, <1>2, <1>3 DEF ProtocolInv, Compatible

LEMMA GuardEmptyStep ==
  ASSUME FenceInv, [Next]_vars, NEW o \in Ops
  PROVE  GuardEmpty(o)'
<1> USE DEF FenceInv, ProtocolInv
<1>1. CASE SameOp(o)
  <2> SUFFICES ASSUME pc[o] \in {"fencing", "applying"},
                      NEW m \in MemberIds(o) \cap Accounts
               PROVE  ~ HasHistory(m)'
    BY <1>1 DEF SameOp, GuardEmpty, MemberIds
  <2>1. ~ HasHistory(m)
    BY DEF GuardEmpty
  <2>2. CASE entries' = entries /\ balance' = balance
    BY <2>1, <2>2 DEF HasHistory
  <2>3. ASSUME NEW q \in Posters, Commit(q) PROVE ~ HasHistory(m)'
    <3>1. HasRead(q)
      BY <2>3 DEF Commit, HasRead
    <3>2. m \notin batch[q]
      BY <3>1, FenceExcludes
    <3>3. m \notin Ancestors(q)
      BY DEF TypeOK, Ancestors
    <3>4. balance'[m] = balance[m]
      BY <2>3, <3>2, <3>3 DEF Commit, Targets, Plain
    <3>5. \A e \in entries' : e \in entries \/ e[2] # m
      BY <2>3, <3>2 DEF Commit
    <3> QED  BY <2>1, <3>4, <3>5 DEF HasHistory
  <2> QED  BY <2>2, <2>3, DataFrame
<1>2. CASE CheckHistory(o)
  BY <1>2 DEF CheckHistory, GuardEmpty, MemberIds, HasHistory, committedVars
<1>3. CASE Validate(o)
  BY <1>3 DEF Validate, GuardEmpty, MemberIds, HasHistory, committedVars
<1>4. CASE Acquire(o)
  BY <1>4 DEF Acquire, GuardEmpty, MemberIds, HasHistory, committedVars
<1>5. CASE Propose(o) \/ Apply(o) \/ Abort(o)
  BY <1>5 DEF TypeOK, Propose, Apply, Abort, GuardEmpty
<1> QED
  BY <1>1, <1>2, <1>3, <1>4, <1>5, OpFrame DEF OpStep

LEMMA EntriesLiveStep ==
  ASSUME FenceInv, [Next]_vars PROVE EntriesLive'
<1>1. accounts \subseteq accounts'
  BY DEF Next, Advance, Begin, Reprepare, Propose, Acquire, Read,
     ResolveFromCache, ResolveByWalk, ReadAncestors, Commit, CheckHistory,
     Validate, Apply, Create, Abort, vars, committedVars
<1>2. CASE entries' = entries
  BY <1>1, <1>2 DEF FenceInv, EntriesLive
<1>3. ASSUME NEW q \in Posters, Commit(q) PROVE EntriesLive'
  <2>1. batch[q] \subseteq accounts
    BY <1>3 DEF FenceInv, ProtocolInv, Fenced, HasRead, Commit
  <2> QED  BY <1>1, <1>3, <2>1 DEF Commit, FenceInv, EntriesLive
<1> QED  BY <1>2, <1>3, DataFrame

LEMMA FenceInitial == Init => FenceInv
  BY ProtocolInitial DEF Init, FenceInv, EntriesLive, GuardEmpty

LEMMA FenceStep ==
  ASSUME AwaitCreate
  PROVE  FenceInv /\ [Next]_vars => FenceInv'
<1> SUFFICES ASSUME FenceInv, [Next]_vars PROVE FenceInv'
  OBVIOUS
<1>1. ProtocolInv'
  BY ProtocolStep DEF FenceInv
<1>2. \A o \in Ops : GuardEmpty(o)'
  BY GuardEmptyStep
<1> QED  BY <1>1, <1>2, EntriesLiveStep DEF FenceInv

\* One step leaves the direct memberships of an account alone once it has
\* entries, and while a posting that has read them is in flight.
LEMMA MembershipStep ==
  ASSUME FenceInv, [Next]_vars
  PROVE  \A a \in accounts :
           \/ Direct(memberOf', a) = Direct(memberOf, a)
           \/ /\ \A e \in entries : e[2] # a
              /\ \A p \in Posters : a \in batch[p] => ~ HasRead(p)
<1> USE DEF FenceInv, ProtocolInv
<1>1. CASE memberOf' = memberOf
  BY <1>1
<1>2. ASSUME NEW o \in Ops, Apply(o)
      PROVE  \A a \in accounts :
               \/ Direct(memberOf', a) = Direct(memberOf, a)
               \/ a \in MemberIds(o)
  <2>1. \A a : a \notin MemberIds(o) =>
          \A e \in plan[o].accounts : e[2] # a
    BY DEF MemberIds
  <2>2. /\ memberOf' \subseteq memberOf \cup plan[o].accounts
        /\ memberOf \subseteq memberOf' \cup plan[o].accounts
    BY <1>2 DEF Apply
  <2> QED  BY <2>1, <2>2 DEF Direct
<1>3. ASSUME NEW o \in Ops, Apply(o), NEW a \in MemberIds(o) \cap Accounts
      PROVE  /\ \A e \in entries : e[2] # a
             /\ \A p \in Posters : a \in batch[p] => ~ HasRead(p)
  <2>1. pc[o] = "applying"
    BY <1>3 DEF Apply
  <2> QED  BY <1>3, <2>1, FenceExcludes DEF GuardEmpty, HasHistory
<1>4. ASSUME NEW n \in Accounts, Create(n)
      PROVE  \A a \in accounts :
               Direct(memberOf', a) = Direct(memberOf, a)
  BY <1>4 DEF Create, Direct
<1>5. accounts \subseteq Accounts
  BY DEF TypeOK
<1> QED
  BY <1>1, <1>2, <1>3, <1>4, <1>5, DataFrame

\* No step changes the sets an account is a member of under a posting that
\* has resolved them, nor after the account's first entry, also when the sets
\* themselves are attached and removed meanwhile.
THEOREM MembershipsAreFrozen ==
  ASSUME AwaitCreate PROVE Spec => MembershipFrozen
<1>1. FenceInv /\ [Next]_vars =>
        [\A a \in accounts :
           \/ Direct(memberOf', a) = Direct(memberOf, a)
           \/ /\ \A e \in entries : e[2] # a
              /\ \A p \in Posters : a \in batch[p] =>
                   pc[p] \notin {"resolving", "ancestors", "writing"}]_vars
  BY MembershipStep DEF HasRead
<1> QED
  BY <1>1, FenceInitial, FenceStep, PTL DEF Spec, MembershipFrozen

\* Every operation is on account memberships.
AccountPlansOnly == \A r \in Plans : r.sets = {}

LEMMA MembersAreAccounts ==
  ASSUME AccountPlansOnly, TypeOK, NEW o \in Ops, plan[o] \in Plans
  PROVE  MemberIds(o) \subseteq Accounts
  BY DEF AccountPlansOnly, MemberIds

\* The history guard of an operation on account memberships stays true until
\* the operation commits.
THEOREM GuardLasts ==
  ASSUME AwaitCreate, AccountPlansOnly PROVE Spec => []GuardStillEmpty
<1>1. FenceInv => GuardStillEmpty
  BY MembersAreAccounts DEF FenceInv, ProtocolInv, Guarding, GuardEmpty, GuardStillEmpty
<1> QED
  BY <1>1, FenceInitial, FenceStep, PTL DEF Spec

\* With account memberships only, the sets stay where they are.
LEMMA SubsetsStay ==
  ASSUME AccountPlansOnly, FenceInv, [Next]_vars
  PROVE  subsetOf' = subsetOf
<1> USE DEF FenceInv, ProtocolInv
<1>1. ASSUME NEW o \in Ops, Apply(o)  PROVE subsetOf' = subsetOf
  <2>1. plan[o].sets = {}
    BY <1>1 DEF Apply, Guarding, AccountPlansOnly
  <2> QED  BY <1>1, <2>1 DEF Apply
<1>2. ASSUME NEW n \in Accounts, Create(n)  PROVE subsetOf' = subsetOf
  BY <1>2 DEF Create
<1> QED  BY <1>1, <1>2, DataFrame

----------------------------------------------------------------------------
(* Exact balances                                                          *)

\* The ancestors a posting works with are those of the committed graph.
Resolved(p) == HasRead(p) => \A a \in batch[p] : above[p][a] = Above(a)

\* The balances a posting has read are the committed ones.
Fresh(p) ==
  /\ HasRead(p) => \A x \in Plain(batch[p]) : read[p][x] = balance[x]
  /\ pc[p] = "writing" =>
       \A x \in Plain(Ancestors(p)) : read[p][x] = balance[x]

ExactInv ==
  /\ FenceInv
  /\ \A p \in Posters : Resolved(p) /\ Fresh(p)
  /\ InlineBalancesExact

\* A posting about to write holds the balance lock of every target.
LEMMA TargetsLocked ==
  ASSUME ProtocolInv, NEW p \in Posters, pc[p] = "writing",
         NEW x \in Targets(p)
  PROVE  Exclusive("balance", x, p) \in held
<1>1. x \in Plain(batch[p]) \/ x \in Plain(Ancestors(p))
  BY DEF Targets, Plain
<1>2. CASE x \in Plain(batch[p])
  BY <1>2 DEF ProtocolInv, Fenced, HasRead, EntryLocks
<1>3. CASE x \in Plain(Ancestors(p))
  BY <1>3 DEF ProtocolInv, Fenced, AncestorLocks
<1> QED  BY <1>1, <1>2, <1>3

LEMMA BalanceLocksExclude ==
  ASSUME ProtocolInv, NEW p \in Posters, NEW q \in Posters, p # q, NEW x,
         Exclusive("balance", x, p) \in held
  PROVE  Exclusive("balance", x, q) \notin held
  BY DEF ProtocolInv, Compatible, Conflicts, Exclusive

LEMMA AboveStable ==
  ASSUME subsetOf' = subsetOf, NEW a,
         Direct(memberOf', a) = Direct(memberOf, a)
  PROVE  Above(a)' = Above(a)
  BY DEF Above, Up, Direct

LEMMA ResolvedStep ==
  ASSUME AccountPlansOnly, ExactInv, [Next]_vars, NEW p \in Posters
  PROVE  Resolved(p)'
<1> USE DEF ExactInv, FenceInv, ProtocolInv
<1>1. CASE SamePoster(p)
  <2> SUFFICES ASSUME HasRead(p), NEW a \in batch[p]
               PROVE  above[p][a] = Above(a)'
    BY <1>1 DEF SamePoster, Resolved, HasRead
  <2>1. a \in accounts
    BY DEF Fenced
  <2>2. subsetOf' = subsetOf /\ Direct(memberOf', a) = Direct(memberOf, a)
    BY <2>1, MembershipStep, SubsetsStay
  <2> QED  BY <2>2, AboveStable DEF Resolved
<1>2. CASE Read(p)
  <2>1. \A a \in batch[p] : above'[p][a] = Above(a)
    BY <1>2 DEF Read, TypeOK
  <2> QED
    BY <1>2, <2>1 DEF Read, Resolved, Above, committedVars
<1>3. CASE ResolveByWalk(p)
  <2>1. \A a \in batch[p] : above'[p][a] = Above(a)
    BY <1>3 DEF ResolveByWalk, TypeOK
  <2> QED
    BY <1>3, <2>1 DEF ResolveByWalk, Resolved, Above, committedVars
<1>4. CASE ResolveFromCache(p)
  BY <1>4 DEF ResolveFromCache, Resolved, HasRead, Above, committedVars,
              posterVars
<1>5. CASE ReadAncestors(p)
  BY <1>5 DEF ReadAncestors, Resolved, HasRead, Above, committedVars
<1>6. CASE Acquire(p)
  BY <1>6 DEF Acquire, Resolved, HasRead, Above, committedVars, posterVars
<1>7. CASE Begin(p) \/ Reprepare(p) \/ Commit(p) \/ Abort(p)
  BY <1>7 DEF TypeOK, Begin, Reprepare, Commit, Abort, Resolved, HasRead
<1> QED
  BY <1>1, <1>2, <1>3, <1>4, <1>5, <1>6, <1>7, PosterFrame DEF PosterStep

LEMMA FreshStep ==
  ASSUME ProtocolInv, [Next]_vars, NEW p \in Posters, Fresh(p)
  PROVE  Fresh(p)'
<1> USE DEF ProtocolInv
<1>1. CASE SamePoster(p)
  <2>1. Ancestors(p)' = Ancestors(p)
    BY <1>1 DEF SamePoster, Ancestors
  <2>2. CASE balance' = balance
    BY <1>1, <2>1, <2>2 DEF SamePoster, Fresh, HasRead
  <2>3. ASSUME NEW q \in Posters, Commit(q) PROVE Fresh(p)'
    <3>1. pc[q] = "writing" /\ pc'[q] = "committed"
      BY <2>3 DEF Commit, TypeOK
    <3>2. CASE p = q
      BY <1>1, <3>1, <3>2 DEF SamePoster
    <3>3. CASE p # q
      <4>1. ASSUME HasRead(p), NEW x \in Plain(batch[p])
            PROVE  balance'[x] = balance[x]
        <5>1. Exclusive("balance", x, p) \in held
          BY <4>1 DEF Fenced, EntryLocks
        <5>2. x \notin Targets(q)
          BY <3>1, <3>3, <5>1, BalanceLocksExclude, TargetsLocked
        <5>3. x \in Holders
          BY <4>1 DEF Plain, TypeOK
        <5> QED  BY <2>3, <5>2, <5>3 DEF Commit
      <4>2. ASSUME pc[p] = "writing", NEW x \in Plain(Ancestors(p))
            PROVE  balance'[x] = balance[x]
        <5>1. Exclusive("balance", x, p) \in held
          BY <4>2 DEF Fenced, AncestorLocks
        <5>2. x \notin Targets(q)
          BY <3>1, <3>3, <5>1, BalanceLocksExclude, TargetsLocked
        <5>3. x \in Holders
          BY <4>2 DEF Plain, Ancestors, TypeOK
        <5> QED  BY <2>3, <5>2, <5>3 DEF Commit
      <4> QED
        BY <1>1, <2>1, <4>1, <4>2 DEF SamePoster, Fresh, HasRead
    <3> QED  BY <3>2, <3>3
  <2> QED  BY <2>2, <2>3, DataFrame
<1>2. CASE Read(p)
  <2>1. UNCHANGED <<balance, batch>>
    BY <1>2 DEF Read, committedVars
  <2>2. \A x \in Plain(batch[p]) : read'[p][x] = balance[x]
    BY <1>2 DEF Read, TypeOK, Plain
  <2>3. pc'[p] = "writing" => Ancestors(p)' = {}
    <3> SUFFICES ASSUME pc'[p] = "writing" PROVE Ancestors(p)' = {}
      OBVIOUS
    <3>1. \A a \in batch[p] : Direct(memberOf, a) = {}
      BY <1>2 DEF Read, TypeOK
    <3>2. \A a \in batch[p] : Above(a) = {}
      BY <3>1, UpEmpty DEF Above
    <3>3. \A a \in batch[p] : above'[p][a] = {}
      BY <1>2, <3>2 DEF Read, TypeOK
    <3> QED  BY <2>1, <3>3 DEF Ancestors
  <2> QED  BY <2>1, <2>2, <2>3 DEF Fresh, Plain
<1>3. CASE ResolveFromCache(p)
  <2>1. HasRead(p) /\ pc'[p] = "ancestors"
    BY <1>3 DEF ResolveFromCache, HasRead, TypeOK
  <2> QED
    BY <1>3, <2>1 DEF ResolveFromCache, Fresh, committedVars, posterVars
<1>4. CASE ResolveByWalk(p)
  <2>1. HasRead(p) /\ pc'[p] = "ancestors"
    BY <1>4 DEF ResolveByWalk, HasRead, TypeOK
  <2> QED
    BY <1>4, <2>1 DEF ResolveByWalk, Fresh, committedVars
<1>5. CASE ReadAncestors(p)
  <2>1. UNCHANGED <<balance, batch, above>> /\ HasRead(p)
    BY <1>5 DEF ReadAncestors, HasRead, committedVars
  <2>2. Ancestors(p)' = Ancestors(p)
    BY <2>1 DEF Ancestors
  <2>3. \A x \in Plain(Ancestors(p)) : read'[p][x] = balance[x]
    BY <1>5 DEF ReadAncestors, TypeOK, Plain, Ancestors
  <2>4. \A x \in Plain(batch[p]) : read'[p][x] = balance[x]
    BY <1>5, <2>1 DEF ReadAncestors, TypeOK, Plain, Ancestors, Fresh
  <2> QED  BY <2>1, <2>2, <2>3, <2>4 DEF Fresh
<1>6. CASE Acquire(p)
  <2>1. UNCHANGED <<pc, balance, batch, above, read>>
    BY <1>6 DEF Acquire, committedVars, posterVars
  <2> QED  BY <2>1 DEF Fresh, HasRead, Ancestors
<1>7. CASE Begin(p) \/ Reprepare(p) \/ Commit(p) \/ Abort(p)
  BY <1>7 DEF TypeOK, Begin, Reprepare, Commit, Abort, Fresh, HasRead
<1> QED
  BY <1>1, <1>2, <1>3, <1>4, <1>5, <1>6, <1>7, PosterFrame DEF PosterStep

\* No posting that has read is overtaken: what it read is what it overwrites,
\* operations on set memberships included.
THEOREM ReadsAreFresh ==
  ASSUME AwaitCreate PROVE Spec => []ReadsStayFresh
<1> DEFINE FreshInv == ProtocolInv /\ \A p \in Posters : Fresh(p)
<1>1. Init => FreshInv
  BY ProtocolInitial DEF Init, Fresh, HasRead
<1>2. FreshInv /\ [Next]_vars => FreshInv'
  BY ProtocolStep, FreshStep
<1>3. FreshInv => ReadsStayFresh
  BY DEF Fresh, HasRead, ReadsStayFresh, Targets, Plain
<1> QED
  BY <1>1, <1>2, <1>3, PTL DEF Spec

----------------------------------------------------------------------------
(* Dense versions                                                          *)

\* A balance has summed entries of committed postings alone, one version each.
Numbered ==
  \A x \in Holders :
    /\ \A e \in balance[x].folded : pc[e[1]] = "committed"
    /\ IsFiniteSet(balance[x].folded)
    /\ balance[x].version = Cardinality(balance[x].folded)

LEMMA NumberedInit == Init => Numbered
<1> SUFFICES ASSUME Init, NEW x \in Holders
             PROVE  /\ \A e \in balance[x].folded : pc[e[1]] = "committed"
                    /\ IsFiniteSet(balance[x].folded)
                    /\ balance[x].version = Cardinality(balance[x].folded)
  BY DEF Numbered
<1>1. balance[x].folded = {} /\ balance[x].version = 0
  BY DEF Init, NoBalance
<1> QED  BY <1>1, FS_EmptySet

LEMMA CommittedStays ==
  ASSUME TypeOK, [Next]_vars, NEW p \in Posters, pc[p] = "committed"
  PROVE  pc'[p] = "committed"
<1>1. CASE SamePoster(p)
  BY <1>1 DEF SamePoster
<1>2. CASE Acquire(p)
  BY <1>2 DEF Acquire
<1>3. CASE PosterStep(p) /\ ~ Acquire(p)
  BY <1>3 DEF PosterStep, Begin, Reprepare, Read, ResolveFromCache,
     ResolveByWalk, ReadAncestors, Commit, Abort, Running
<1> QED  BY <1>1, <1>2, <1>3, PosterFrame

LEMMA NumberedStep ==
  ASSUME ProtocolInv, \A p \in Posters : Fresh(p), Numbered, [Next]_vars
  PROVE  Numbered'
<1> USE DEF ProtocolInv
<1> SUFFICES ASSUME NEW x \in Holders
             PROVE  /\ \A e \in balance'[x].folded : pc'[e[1]] = "committed"
                    /\ IsFiniteSet(balance'[x].folded)
                    /\ balance'[x].version = Cardinality(balance'[x].folded)
  BY DEF Numbered
<1> DEFINE old == balance[x].folded
<1>1. /\ \A e \in old : e[1] \in Posters /\ pc[e[1]] = "committed"
      /\ IsFiniteSet(old) /\ balance[x].version = Cardinality(old)
  <2>1. old \subseteq Entries
    BY DEF TypeOK, Balances
  <2> QED  BY <2>1 DEF Numbered, Entries
<1>2. \A e \in old : pc'[e[1]] = "committed"
  BY <1>1, CommittedStays
<1>3. CASE balance'[x] = balance[x]
  BY <1>1, <1>2, <1>3
<1>4. ASSUME NEW q \in Posters, Commit(q), x \in Targets(q)
      PROVE  /\ \A e \in balance'[x].folded : pc'[e[1]] = "committed"
             /\ IsFiniteSet(balance'[x].folded)
             /\ balance'[x].version = Cardinality(balance'[x].folded)
  <2> DEFINE new == OwnEntries(q, x)
  <2>1. pc[q] = "writing" /\ pc'[q] = "committed"
    BY <1>4 DEF Commit, TypeOK
  <2>2. read[q][x] = balance[x]
    BY <1>4, <2>1 DEF Fresh, HasRead, Targets, Plain
  <2>3. /\ balance'[x].folded = old \cup new
        /\ balance'[x].version = Cardinality(old) + Cardinality(new)
    BY <1>1, <1>4, <2>2 DEF Commit, Folded
  <2>4. IsFiniteSet(new) /\ \A e \in new : e[1] = q
    BY OwnEntriesType DEF OwnEntries
  <2>5. old \cap new = {}
    BY <1>1, <2>1, <2>4
  <2>6. /\ IsFiniteSet(old \cup new)
        /\ Cardinality(old \cup new) = Cardinality(old) + Cardinality(new)
    <3>1. /\ IsFiniteSet(old \cup new)
          /\ Cardinality(old \cup new) =
               Cardinality(old) + Cardinality(new) - Cardinality(old \cap new)
      BY <1>1, <2>4, FS_Union
    <3>2. /\ Cardinality(old \cap new) = 0
          /\ Cardinality(old) \in Nat /\ Cardinality(new) \in Nat
      BY <1>1, <2>4, <2>5, FS_EmptySet, FS_CardinalityType
    <3> QED  BY <3>1, <3>2
  <2>7. \A e \in old \cup new : pc'[e[1]] = "committed"
    BY <1>2, <2>1, <2>4
  <2> QED  BY <2>3, <2>6, <2>7
<1>5. ASSUME NEW q \in Posters, Commit(q), x \notin Targets(q)
      PROVE  balance'[x] = balance[x]
  BY <1>5 DEF Commit
<1> QED  BY <1>3, <1>4, <1>5, DataFrame

\* The history of a balance has one version per entry it has summed, without
\* gaps or reuse, however postings that share an ancestor interleave.
THEOREM VersionsAreDense ==
  ASSUME AwaitCreate PROVE Spec => []VersionsDense
<1> DEFINE DenseInv ==
      ProtocolInv /\ (\A p \in Posters : Fresh(p)) /\ Numbered
<1>1. Init => DenseInv
  BY ProtocolInitial, NumberedInit DEF Init, Fresh, HasRead
<1>2. DenseInv /\ [Next]_vars => DenseInv'
  BY ProtocolStep, FreshStep, NumberedStep
<1>3. DenseInv => VersionsDense
  BY DEF Numbered, VersionsDense
<1> QED
  BY <1>1, <1>2, <1>3, PTL DEF Spec

----------------------------------------------------------------------------
(* The equation                                                            *)

LEMMA ExactStep ==
  ASSUME AccountPlansOnly, ExactInv, [Next]_vars
  PROVE  InlineBalancesExact'
<1> USE DEF ExactInv, FenceInv, ProtocolInv
<1>1. \A e \in entries : Above(e[2])' = Above(e[2])
  <2> SUFFICES ASSUME NEW e \in entries PROVE Above(e[2])' = Above(e[2])
    OBVIOUS
  <2>1. subsetOf' = subsetOf /\ Direct(memberOf', e[2]) = Direct(memberOf, e[2])
    BY MembershipStep, SubsetsStay DEF EntriesLive
  <2> QED  BY <2>1, AboveStable
<1>2. CASE entries' = entries /\ balance' = balance
  <2>1. \A x : Counted(x)' = Counted(x)
    BY <1>1, <1>2 DEF Counted
  <2> QED  BY <1>2, <2>1 DEF InlineBalancesExact
<1>3. ASSUME NEW q \in Posters, Commit(q) PROVE InlineBalancesExact'
  <2>1. pc[q] = "writing" /\ HasRead(q)
    BY <1>3 DEF Commit, HasRead
  <2>2. \A a : Above(a)' = Above(a)
    BY <1>3 DEF Commit, Above
  <2>3. \A a \in batch[q] : above[q][a] = Above(a)
    BY <2>1 DEF Resolved
  <2>4. entries' = entries \cup {<<q, a>> : a \in batch[q]}
    BY <1>3 DEF Commit
  <2>5. \A x : Counted(x)' = Counted(x) \cup OwnEntries(q, x)
    BY <2>2, <2>3, <2>4 DEF Counted, OwnEntries
  <2> SUFFICES ASSUME NEW x \in Plain(Holders)
               PROVE  balance'[x].folded = Counted(x)'
    BY DEF InlineBalancesExact
  <2>6. x \in Holders /\ balance[x].folded = Counted(x)
    BY DEF InlineBalancesExact, Plain
  <2>7. CASE x \in Targets(q)
    <3>1. read[q][x] = balance[x]
      BY <2>1, <2>7 DEF Targets, Plain, Fresh
    <3>2. balance'[x] = Folded(q, x)
      BY <1>3, <2>6, <2>7 DEF Commit
    <3> QED  BY <2>5, <2>6, <3>1, <3>2 DEF Folded
  <2>8. CASE x \notin Targets(q)
    <3>1. balance'[x] = balance[x]
      BY <1>3, <2>6, <2>8 DEF Commit
    <3>2. OwnEntries(q, x) = {}
      BY <2>8 DEF OwnEntries, Targets, Plain, Ancestors
    <3> QED  BY <2>5, <2>6, <3>1, <3>2
  <2> QED  BY <2>7, <2>8
<1> QED  BY <1>2, <1>3, DataFrame

LEMMA ExactInitial == Init => ExactInv
<1> SUFFICES ASSUME Init PROVE ExactInv
  OBVIOUS
<1>1. InlineBalancesExact
  BY DEF Init, InlineBalancesExact, Counted, NoBalance, Plain
<1>2. \A p \in Posters : Resolved(p) /\ Fresh(p)
  BY DEF Init, Resolved, Fresh, HasRead
<1> QED  BY <1>1, <1>2, FenceInitial DEF ExactInv

LEMMA ExactInductive ==
  ASSUME AwaitCreate, AccountPlansOnly
  PROVE  ExactInv /\ [Next]_vars => ExactInv'
<1> SUFFICES ASSUME ExactInv, [Next]_vars PROVE ExactInv'
  OBVIOUS
<1>1. FenceInv'
  BY FenceStep DEF ExactInv
<1>2. \A p \in Posters : Resolved(p)' /\ Fresh(p)'
  BY ResolvedStep, FreshStep DEF ExactInv, FenceInv
<1> QED  BY <1>1, <1>2, ExactStep DEF ExactInv

\* Inline balances sum exactly the entries below them in the committed graph,
\* whatever postings, membership operations on accounts, creations, template
\* updates and rollbacks interleave.
THEOREM BalancesAreExact ==
  ASSUME AwaitCreate, AccountPlansOnly PROVE Spec => []InlineBalancesExact
<1>1. ExactInv => InlineBalancesExact
  BY DEF ExactInv
<1> QED
  BY <1>1, ExactInitial, ExactInductive, PTL DEF Spec

----------------------------------------------------------------------------
(* The membership graph                                                    *)

\* Where an operation stands with its graph locks, and with its validation.
Validated(o) ==
  /\ pc[o] = "fencing" => GraphLocks(o) \subseteq held \cup todo[o]
  /\ pc[o] = "applying" => GraphLocks(o) \subseteq held /\ Admissible(o)

GraphInv ==
  /\ TypeOK
  /\ Compatible
  /\ \A o \in Ops : Guarding(o) /\ Validated(o)
  /\ GraphStaysValid

LEMMA UpMonotone ==
  ASSUME NEW D, NEW S, NEW T, S \subseteq T
  PROVE  Up(D, S) \subseteq Up(D, T)
  BY DEF Up

\* A part of a valid graph is valid.
LEMMA PartIsValid ==
  ASSUME NEW M, NEW S, ValidGraph(M, S),
         NEW N, NEW T, N \subseteq M, T \subseteq S
  PROVE  ValidGraph(N, T)
<1>1. \A D : Up(D, T) \subseteq Up(D, S)
  BY UpMonotone
<1>2. \A e \in T : e[2] \notin Up({e[1]}, T)
  BY <1>1 DEF ValidGraph
<1>3. \A e, f \in T : (e[2] = f[2] /\ e # f) =>
        Up({e[1]}, T) \cap Up({f[1]}, T) = {}
  <2>1. \A e, f \in S : (e[2] = f[2] /\ e # f) =>
          Up({e[1]}, S) \cap Up({f[1]}, S) = {}
    BY DEF ValidGraph
  <2> QED  BY <1>1, <2>1
<1>4. \A e, f \in N : (e[2] = f[2] /\ e # f) =>
        Up({e[1]}, T) \cap Up({f[1]}, T) = {}
  <2>1. \A e, f \in M : (e[2] = f[2] /\ e # f) =>
          Up({e[1]}, S) \cap Up({f[1]}, S) = {}
    BY DEF ValidGraph
  <2> QED  BY <1>1, <2>1
<1> QED  BY <1>2, <1>3, <1>4 DEF ValidGraph

\* Account memberships are valid together if those of each account are part of
\* one of two valid sets of them.
LEMMA ApartIsValid ==
  ASSUME NEW K, NEW L, NEW S, ValidGraph(K, S), ValidGraph(L, S), NEW G,
         \A e, f \in G : e[2] = f[2] =>
           (e \in K /\ f \in K) \/ (e \in L /\ f \in L)
  PROVE  ValidGraph(G, S)
<1>1. ASSUME NEW e \in G, NEW f \in G, e[2] = f[2], e # f
      PROVE  Up({e[1]}, S) \cap Up({f[1]}, S) = {}
  <2>1. (e \in K /\ f \in K) \/ (e \in L /\ f \in L)
    BY <1>1
  <2> QED  BY <1>1, <2>1 DEF ValidGraph
<1>2. /\ \A e \in S : e[2] \notin Up({e[1]}, S)
      /\ \A e, f \in S : (e[2] = f[2] /\ e # f) =>
           Up({e[1]}, S) \cap Up({f[1]}, S) = {}
  BY DEF ValidGraph
<1> QED  BY <1>1, <1>2 DEF ValidGraph

\* A first membership of an account is valid.
LEMMA FirstIsValid ==
  ASSUME NEW M, NEW S, ValidGraph(M, S), NEW s, NEW a,
         \A e \in M : e[2] # a,
         NEW G, G \subseteq M \cup {<<s, a>>}
  PROVE  ValidGraph(G, S)
<1>1. ASSUME NEW e \in G, NEW f \in G, e[2] = f[2], e # f
      PROVE  Up({e[1]}, S) \cap Up({f[1]}, S) = {}
  <2>1. e \in M /\ f \in M
    BY <1>1
  <2> QED  BY <1>1, <2>1 DEF ValidGraph
<1>2. /\ \A e \in S : e[2] \notin Up({e[1]}, S)
      /\ \A e, f \in S : (e[2] = f[2] /\ e # f) =>
           Up({e[1]}, S) \cap Up({f[1]}, S) = {}
  BY DEF ValidGraph
<1> QED  BY <1>1, <1>2 DEF ValidGraph

\* Two operations that apply are about account memberships, of other accounts.
LEMMA GraphLocksExclude ==
  ASSUME GraphInv, NEW o \in Ops, NEW q \in Ops, o # q,
         pc[o] = "applying", pc[q] = "applying"
  PROVE  /\ plan[o].sets = {} /\ plan[q].sets = {}
         /\ \A e \in plan[o].accounts, f \in plan[q].accounts : e[2] # f[2]
<1> USE DEF GraphInv
<1>1. GraphLocks(o) \subseteq held /\ GraphLocks(q) \subseteq held
  BY DEF Validated
<1>2. plan[o].sets = {}
  <2> SUFFICES ASSUME plan[o].sets # {} PROVE FALSE
    OBVIOUS
  <2>1. Exclusive("graph", "graph", o) \in held
    BY <1>1 DEF GraphLocks
  <2>2. \/ Exclusive("graph", "graph", q) \in held
        \/ Shared("graph", "graph", q) \in held
    BY <1>1 DEF GraphLocks
  <2> QED  BY <2>1, <2>2 DEF Compatible, Conflicts, Exclusive, Shared
<1>3. plan[q].sets = {}
  <2> SUFFICES ASSUME plan[q].sets # {} PROVE FALSE
    OBVIOUS
  <2>1. Exclusive("graph", "graph", q) \in held
    BY <1>1 DEF GraphLocks
  <2>2. Shared("graph", "graph", o) \in held
    BY <1>1, <1>2 DEF GraphLocks
  <2> QED  BY <2>1, <2>2 DEF Compatible, Conflicts, Exclusive, Shared
<1>4. ASSUME NEW e \in plan[o].accounts, NEW f \in plan[q].accounts,
             e[2] = f[2]
      PROVE  FALSE
  <2>1. Exclusive("member", e[2], o) \in held
    BY <1>1, <1>2 DEF GraphLocks
  <2>2. Exclusive("member", e[2], q) \in held
    BY <1>1, <1>3, <1>4 DEF GraphLocks
  <2> QED  BY <2>1, <2>2 DEF Compatible, Conflicts, Exclusive
<1> QED  BY <1>2, <1>3, <1>4

\* What the COMMIT of another operation writes keeps a validated one valid.
LEMMA OthersKeepAdmissible ==
  ASSUME GraphInv, NEW o \in Ops, pc[o] = "applying",
         NEW q \in Ops, q # o, Apply(q), plan'[o] = plan[o]
  PROVE  Admissible(o)'
<1> SUFFICES ASSUME plan[o].kind = "add"
             PROVE  ValidGraph(memberOf' \cup plan[o].accounts,
                               subsetOf' \cup plan[o].sets)
  BY DEF Admissible
<1>1. /\ pc[q] = "applying"
      /\ \/ /\ plan[q].kind = "add"
            /\ memberOf' = memberOf \cup plan[q].accounts
            /\ subsetOf' = subsetOf \cup plan[q].sets
         \/ /\ memberOf' = memberOf \ plan[q].accounts
            /\ subsetOf' = subsetOf \ plan[q].sets
  BY DEF Apply
<1>2. /\ plan[o].sets = {} /\ plan[q].sets = {}
      /\ \A e \in plan[q].accounts, f \in plan[o].accounts : e[2] # f[2]
  BY <1>1, GraphLocksExclude
<1>3. subsetOf' \cup plan[o].sets \subseteq subsetOf
  BY <1>1, <1>2
<1>4. ValidGraph(memberOf \cup plan[o].accounts, subsetOf)
  <2>1. Admissible(o)
    BY DEF GraphInv, Validated
  <2>2. ValidGraph(memberOf \cup plan[o].accounts,
                   subsetOf \cup plan[o].sets)
    BY <2>1 DEF Admissible
  <2> QED  BY <2>2, PartIsValid
<1>5. CASE plan[q].kind = "add" /\ memberOf' = memberOf \cup plan[q].accounts
  <2>1. Admissible(q)
    BY <1>1 DEF GraphInv, Validated
  <2>2. ValidGraph(memberOf \cup plan[q].accounts,
                   subsetOf \cup plan[q].sets)
    BY <1>5, <2>1 DEF Admissible
  <2>3. ValidGraph(memberOf \cup plan[q].accounts, subsetOf)
    BY <2>2, PartIsValid
  <2>4. \A e, f \in memberOf' \cup plan[o].accounts : e[2] = f[2] =>
          \/ /\ e \in memberOf \cup plan[q].accounts
             /\ f \in memberOf \cup plan[q].accounts
          \/ /\ e \in memberOf \cup plan[o].accounts
             /\ f \in memberOf \cup plan[o].accounts
    BY <1>2, <1>5
  <2>5. ValidGraph(memberOf' \cup plan[o].accounts, subsetOf)
    BY <1>4, <2>3, <2>4, ApartIsValid
  <2> QED  BY <1>3, <2>5, PartIsValid
<1>6. CASE memberOf' = memberOf \ plan[q].accounts
  <2>1. memberOf' \cup plan[o].accounts \subseteq
          memberOf \cup plan[o].accounts
    BY <1>6
  <2> QED  BY <1>3, <1>4, <2>1, PartIsValid
<1> QED  BY <1>1, <1>5, <1>6

\* So does the initial set of an account that is created meanwhile.
LEMMA CreationsKeepAdmissible ==
  ASSUME GraphInv, NEW o \in Ops, pc[o] = "applying",
         NEW a \in Accounts, Create(a), plan'[o] = plan[o]
  PROVE  Admissible(o)'
<1> SUFFICES ASSUME plan[o].kind = "add"
             PROVE  ValidGraph(memberOf' \cup plan[o].accounts,
                               subsetOf' \cup plan[o].sets)
  BY DEF Admissible
<1> DEFINE M == memberOf \cup plan[o].accounts
<1>1. ValidGraph(M, subsetOf \cup plan[o].sets)
  BY DEF GraphInv, Validated, Admissible
<1>2. subsetOf' = subsetOf /\ a \notin accounts
  BY DEF Create
<1>3. CASE memberOf' = memberOf
  BY <1>1, <1>2, <1>3
<1>4. ASSUME NEW s \in Sets, memberOf' = memberOf \cup {<<s, a>>},
             \A h \in held : ~ (h.class = "member" /\ h.key = a)
      PROVE  ValidGraph(memberOf' \cup plan[o].accounts,
                        subsetOf' \cup plan[o].sets)
  <2>1. \A e \in memberOf : e[2] # a
    BY <1>2 DEF GraphInv, TypeOK
  <2>2. ASSUME NEW e \in plan[o].accounts, e[2] = a PROVE FALSE
    <3>1. plan[o] \in Plans
      BY DEF GraphInv, Guarding
    <3>2. plan[o].sets = {}
      BY <2>2, <3>1, GraphAssumption
    <3>3. Exclusive("member", a, o) \in held
      BY <2>2, <3>2 DEF GraphInv, Validated, GraphLocks
    <3> QED  BY <1>4, <3>3 DEF Exclusive
  <2>3. \A e \in M : e[2] # a
    BY <2>1, <2>2
  <2>4. memberOf' \cup plan[o].accounts \subseteq M \cup {<<s, a>>}
    BY <1>4
  <2> HIDE DEF M
  <2>5. PICK G, T : /\ G = memberOf' \cup plan[o].accounts
                    /\ T = subsetOf \cup plan[o].sets
    OBVIOUS
  <2>6. /\ ValidGraph(M, T) /\ (\A e \in M : e[2] # a)
        /\ G \subseteq M \cup {<<s, a>>}
    BY <1>1, <2>3, <2>4, <2>5
  <2>7. ValidGraph(G, T)
    BY ONLY <2>6, FirstIsValid
  <2>8. ValidGraph(memberOf' \cup plan[o].accounts,
                   subsetOf \cup plan[o].sets)
    BY <2>5, <2>7
  <2> QED  BY <1>2, <2>8
<1> QED  BY <1>3, <1>4 DEF Create

LEMMA GraphLockOwners ==
  ASSUME NEW o PROVE \A l \in GraphLocks(o) : l.owner = o
  BY DEF GraphLocks, Shared, Exclusive

LEMMA ValidatedStep ==
  ASSUME GraphInv, [Next]_vars, NEW o \in Ops
  PROVE  Validated(o)'
<1> USE DEF GraphInv
<1>1. CASE SameOp(o)
  <2>1. GraphLocks(o)' = GraphLocks(o)
    BY <1>1 DEF SameOp, GraphLocks
  <2>2. pc'[o] = pc[o] /\ todo'[o] = todo[o] /\ Kept(o) /\ plan'[o] = plan[o]
    BY <1>1 DEF SameOp
  <2>3. pc[o] = "fencing" => GraphLocks(o) \subseteq held' \cup todo[o]
    BY <2>2, GraphLockOwners DEF Validated, Kept
  <2>4. pc[o] = "applying" => GraphLocks(o) \subseteq held'
    BY <2>2, GraphLockOwners DEF Validated, Kept
  <2>5. ASSUME pc[o] = "applying" PROVE Admissible(o)'
    <3>1. Admissible(o)
      BY <2>5 DEF Validated
    <3>2. CASE memberOf' = memberOf /\ subsetOf' = subsetOf
      BY <2>2, <3>1, <3>2 DEF Admissible
    <3>3. ASSUME NEW q \in Ops, Apply(q) PROVE Admissible(o)'
      <4>1. q # o
        BY <2>2, <2>5, <3>3 DEF Apply, TypeOK
      <4> QED  BY <2>2, <2>5, <3>3, <4>1, OthersKeepAdmissible
    <3>4. ASSUME NEW a \in Accounts, Create(a) PROVE Admissible(o)'
      BY <2>2, <2>5, <3>4, CreationsKeepAdmissible
    <3> QED  BY <3>2, <3>3, <3>4, DataFrame
  <2> QED  BY <2>1, <2>2, <2>3, <2>4, <2>5 DEF Validated
<1>2. CASE CheckHistory(o)
  <2>1. GraphLocks(o)' = GraphLocks(o)
    BY <1>2 DEF CheckHistory, GraphLocks
  <2>2. pc'[o] = "fencing" /\ todo'[o] = GraphLocks(o)
    BY <1>2 DEF CheckHistory, TypeOK
  <2> QED  BY <2>1, <2>2 DEF Validated
<1>3. CASE Acquire(o)
  <2>1. /\ held' \cup todo'[o] = held \cup todo[o]
        /\ held \subseteq held'
    BY <1>3 DEF Acquire, TypeOK
  <2>2. UNCHANGED <<pc, plan, memberOf, subsetOf>>
    BY <1>3 DEF Acquire, committedVars
  <2>3. GraphLocks(o)' = GraphLocks(o) /\ (Admissible(o)' <=> Admissible(o))
    BY <2>2 DEF GraphLocks, Admissible
  <2> QED  BY <2>1, <2>2, <2>3 DEF Validated
<1>4. CASE Validate(o)
  <2>1. UNCHANGED <<held, plan, memberOf, subsetOf>>
    BY <1>4 DEF Validate, committedVars
  <2>2. GraphLocks(o)' = GraphLocks(o) /\ (Admissible(o)' <=> Admissible(o))
    BY <2>1 DEF GraphLocks, Admissible
  <2>3. GraphLocks(o) \subseteq held /\ Admissible(o) /\ pc'[o] = "applying"
    BY <1>4 DEF Validate, Validated, TypeOK
  <2> QED  BY <2>1, <2>2, <2>3 DEF Validated
<1>5. CASE Propose(o) \/ Apply(o) \/ Abort(o)
  <2>1. pc'[o] \in {"guarding", "committed", "aborted"}
    BY <1>5 DEF Propose, Apply, Abort, TypeOK
  <2> QED  BY <2>1 DEF Validated
<1> QED
  BY <1>1, <1>2, <1>3, <1>4, <1>5, OpFrame DEF OpStep

LEMMA ValidStep ==
  ASSUME GraphInv, [Next]_vars PROVE GraphStaysValid'
<1> USE DEF GraphInv, GraphStaysValid
<1>1. CASE memberOf' = memberOf /\ subsetOf' = subsetOf
  BY <1>1
<1>2. ASSUME NEW o \in Ops, Apply(o) PROVE ValidGraph(memberOf', subsetOf')
  <2>1. CASE /\ plan[o].kind = "add"
             /\ memberOf' = memberOf \cup plan[o].accounts
             /\ subsetOf' = subsetOf \cup plan[o].sets
    BY <1>2, <2>1 DEF Apply, Validated, Admissible
  <2>2. CASE memberOf' \subseteq memberOf /\ subsetOf' \subseteq subsetOf
    BY <2>2, PartIsValid
  <2> QED  BY <1>2, <2>1, <2>2 DEF Apply
<1>3. ASSUME NEW a \in Accounts, Create(a)
      PROVE  ValidGraph(memberOf', subsetOf')
  <2>1. subsetOf' = subsetOf /\ \A e \in memberOf : e[2] # a
    BY <1>3 DEF Create, TypeOK
  <2>2. CASE memberOf' = memberOf
    BY <2>1, <2>2
  <2>3. ASSUME NEW s \in Sets, memberOf' = memberOf \cup {<<s, a>>}
        PROVE  ValidGraph(memberOf', subsetOf')
    <3>1. ValidGraph(memberOf', subsetOf)
      BY <2>1, <2>3, FirstIsValid
    <3> QED  BY <2>1, <3>1
  <2> QED  BY <1>3, <2>2, <2>3 DEF Create
<1> QED  BY <1>1, <1>2, <1>3, DataFrame

\* Concurrent membership operations and creations, each checked against the
\* graph as it was, leave no cycle and no second path behind.
THEOREM GraphIsValid == Spec => []GraphStaysValid
<1>1. Init => GraphInv
  BY InitTyped, GraphAssumption
  DEF Init, GraphInv, Compatible, Guarding, Validated, GraphStaysValid
<1>2. GraphInv /\ [Next]_vars => GraphInv'
  <2> SUFFICES ASSUME GraphInv, [Next]_vars PROVE GraphInv'
    OBVIOUS
  <2>1. TypeOK' /\ Compatible'
    BY StepTyped, CompatibleStep DEF GraphInv
  <2>2. \A o \in Ops : Guarding(o)' /\ Validated(o)'
    BY GuardingStep, ValidatedStep DEF GraphInv
  <2> QED  BY <2>1, <2>2, ValidStep DEF GraphInv
<1>3. GraphInv => GraphStaysValid
  BY DEF GraphInv
<1> QED
  BY <1>1, <1>2, <1>3, PTL DEF Spec

----------------------------------------------------------------------------
(***************************************************************************)
(* Why the posting flow and the membership operations do not deadlock      *)
(* among themselves, for every number of transactions: all their lock      *)
(* statements follow one total order of the locks, and only the second     *)
(* lock statement of a posting that re-prepares can break it.              *)
(***************************************************************************)

\* The statements of a transaction come in this order: the lock statement or
\* the history guard, then the graph locks, then the ancestors' balances.
Stage(l) ==
  CASE l.class = "ec_set" \/ (l.class = "balance" /\ l.key \in Accounts) -> 0
    [] l.class \in {"graph", "member"} -> 1
    [] l.class = "balance" /\ l.key \notin Accounts -> 2

\* More than every position inside a statement.
Ceiling == CHOOSE c \in Nat \ {0} : \A x \in Holders : 3 * Rank[x] + 3 <= c

\* The place of a lock in the order of all locks.
Place(l) == Stage(l) * Ceiling + Position(l)

\* The locks the statements take.
Proper(l) ==
  /\ l \in Lock
  /\ l.class = "graph" => l.key = "graph"
  /\ l.class # "graph" => l.key \in Holders

LEMMA CeilingAbove ==
  /\ Ceiling \in Nat \ {0}
  /\ \A x \in Holders : 3 * Rank[x] + 3 <= Ceiling
<1>1. IsFiniteSet(Holders)
  BY FS_Union
<1>2. Rank \in [Holders -> Nat]
  OBVIOUS
<1>3. PICK b \in Nat : \A x \in Holders : Rank[x] <= b
  BY <1>1, <1>2, FiniteBound
<1>4. 3 * b + 3 \in Nat \ {0} /\ \A x \in Holders : 3 * Rank[x] + 3 <= 3 * b + 3
  BY <1>2, <1>3
<1> QED  BY <1>4 DEF Ceiling

\* Positions and stages are small naturals.
LEMMA PositionBounds ==
  ASSUME NEW l, Proper(l)
  PROVE  /\ Position(l) \in Nat
         /\ Position(l) < Ceiling
         /\ Stage(l) \in {0, 1, 2}
<1>1. l.class \in {"ec_set", "balance", "graph", "member"}
  BY DEF Proper, Lock
<1>2. ASSUME l.class # "graph"
      PROVE  Rank[l.key] \in Nat /\ 3 * Rank[l.key] + 3 <= Ceiling
  BY <1>2, CeilingAbove DEF Proper
<1>3. CASE l.class = "graph"
  BY <1>3, CeilingAbove DEF Position, Stage
<1>4. CASE l.class = "ec_set"
  BY <1>2, <1>4, CeilingAbove DEF Position, Stage
<1>5. CASE l.class = "balance"
  BY <1>2, <1>5, CeilingAbove DEF Position, Stage
<1>6. CASE l.class = "member"
  BY <1>2, <1>6, CeilingAbove DEF Position, Stage
<1> QED  BY <1>1, <1>3, <1>4, <1>5, <1>6

\* The place of a lock is a bounded natural, and a later stage or a later
\* position is a greater place.
LEMMA PlaceOrder ==
  ASSUME NEW k, Proper(k), NEW l, Proper(l)
  PROVE  /\ Place(l) \in Nat /\ Place(l) <= 3 * Ceiling
         /\ Stage(k) < Stage(l) => Place(k) < Place(l)
         /\ Stage(k) = Stage(l) /\ Position(k) < Position(l) =>
              Place(k) < Place(l)
<1> DEFINE c == Ceiling
           pk == Position(k)
           pl == Position(l)
<1>1. /\ c \in Nat /\ pk \in Nat /\ pl \in Nat
      /\ pk < c /\ pl < c
      /\ Stage(k) \in {0, 1, 2} /\ Stage(l) \in {0, 1, 2}
  BY CeilingAbove, PositionBounds
<1>2. Place(k) = Stage(k) * c + pk /\ Place(l) = Stage(l) * c + pl
  BY DEF Place
<1>3. /\ 0 * c = 0 /\ 1 * c = c /\ 2 * c = c + c
  BY <1>1
<1> HIDE DEF c, pk, pl
<1>4. /\ \/ Stage(k) = 0 /\ Place(k) = pk
         \/ Stage(k) = 1 /\ Place(k) = c + pk
         \/ Stage(k) = 2 /\ Place(k) = c + c + pk
      /\ \/ Stage(l) = 0 /\ Place(l) = pl
         \/ Stage(l) = 1 /\ Place(l) = c + pl
         \/ Stage(l) = 2 /\ Place(l) = c + c + pl
  <2>1. CASE Stage(k) = 0
    BY <1>1, <1>2, <1>3, <2>1
  <2>2. CASE Stage(k) = 1
    BY <1>1, <1>2, <1>3, <2>2
  <2>3. CASE Stage(k) = 2
    BY <1>1, <1>2, <1>3, <2>3
  <2> QED  BY <1>1, <2>1, <2>2, <2>3
<1>5. 3 * c = c + c + c
  BY <1>1
<1>6. Place(l) \in Nat /\ Place(l) <= 3 * c
  BY <1>1, <1>4, <1>5
<1>7. Stage(k) < Stage(l) => Place(k) < Place(l)
  BY <1>1, <1>4
<1>8. Stage(k) = Stage(l) /\ pk < pl => Place(k) < Place(l)
  BY <1>1, <1>4
<1> QED  BY <1>6, <1>7, <1>8 DEF c, pk, pl

\* Inside a stage the position tells the locks apart.
LEMMA PositionInjective ==
  ASSUME NEW k, Proper(k), NEW l, Proper(l),
         Position(k) = Position(l)
  PROVE  k.class = l.class /\ k.key = l.key
<1>1. /\ k.class \in {"ec_set", "balance", "graph", "member"}
      /\ l.class \in {"ec_set", "balance", "graph", "member"}
  BY DEF Proper, Lock
<1>2. \A m : Proper(m) /\ m.class # "graph" =>
        Rank[m.key] \in Nat \ {0} /\ m.key \in Holders
  BY DEF Proper
<1>3. k.class = l.class
  BY <1>1, <1>2 DEF Position
<1>4. CASE k.class = "graph"
  BY <1>3, <1>4 DEF Proper
<1>5. CASE k.class # "graph"
  <2>1. Rank[k.key] = Rank[l.key]
    <3>1. k.class \in {"ec_set", "balance", "member"}
      BY <1>1, <1>5
    <3>2. Rank[k.key] \in Nat /\ Rank[l.key] \in Nat
      BY <1>2, <1>3, <1>5
    <3>3. \/ Position(k) = 3 * Rank[k.key] /\ Position(l) = 3 * Rank[l.key]
          \/ /\ Position(k) = 3 * Rank[k.key] + 1
             /\ Position(l) = 3 * Rank[l.key] + 1
          \/ /\ Position(k) = 3 * Rank[k.key] + 2
             /\ Position(l) = 3 * Rank[l.key] + 2
      BY <1>3, <3>1 DEF Position
    <3> DEFINE m == Rank[k.key]
               n == Rank[l.key]
    <3> HIDE DEF m, n
    <3>4. m \in Nat /\ n \in Nat
      BY <3>2 DEF m, n
    <3>5. 3 * m = 3 * n \/ 3 * m + 1 = 3 * n + 1 \/ 3 * m + 2 = 3 * n + 2
      BY <3>3 DEF m, n
    <3>6. m = n
      BY <3>4, <3>5
    <3> QED  BY <3>6 DEF m, n
  <2>2. k.key \in Holders /\ l.key \in Holders
    BY <1>2, <1>3, <1>5
  <2>3. k.key = l.key
    BY <2>1, <2>2
  <2> QED  BY <1>3, <2>3
<1> QED  BY <1>4, <1>5

----------------------------------------------------------------------------
(* The invariant *)

\* A statement takes locks of one stage, one per key.
OneStatement(T) ==
  /\ \A l \in T : Proper(l)
  /\ \A k, l \in T : Stage(k) = Stage(l)
  /\ \A k, l \in T : k.class = l.class /\ k.key = l.key => k = l

\* What o holds it took before what it has still to take.
HeldFirst(o) ==
  \A h \in held, l \in todo[o] : h.owner = o => Place(h) < Place(l)

\* Until its first statement is done, o has locks of the first stage only.
FirstStage(o) ==
  /\ pc[o] = "idle" => todo[o] = {} /\ \A h \in held : h.owner # o
  /\ pc[o] \in {"locking", "resolving", "guarding"} =>
       /\ \A h \in held : h.owner = o => Stage(h) = 0
       /\ \A l \in todo[o] : Stage(l) = 0

Ordered(o) ==
  /\ OneStatement(todo[o])
  /\ \A l \in todo[o] : l.owner = o
  /\ FirstStage(o)
  /\ o \notin reprepared => HeldFirst(o)

OrderInv == (\A h \in held : Proper(h)) /\ \A o \in Procs : Ordered(o)

----------------------------------------------------------------------------
(* What the statements lock *)

LEMMA EntryStatement ==
  ASSUME NEW p \in Posters, NEW A \in SUBSET Accounts
  PROVE  /\ OneStatement(EntryLocks(p, A))
         /\ \A l \in EntryLocks(p, A) : l.owner = p /\ Stage(l) = 0
<1>1. \A l \in EntryLocks(p, A) : l.owner = p /\ Stage(l) = 0 /\ Proper(l)
  BY DEF EntryLocks, Shared, Exclusive, Plain, Stage, Proper, Lock
<1>2. \A k, l \in EntryLocks(p, A) :
         k.class = l.class /\ k.key = l.key => k = l
  BY DEF EntryLocks, Shared, Exclusive, Plain
<1> QED  BY <1>1, <1>2 DEF OneStatement

LEMMA AncestorStatement ==
  ASSUME NEW p \in Posters, NEW S \in SUBSET Sets
  PROVE  /\ OneStatement(AncestorLocks(p, S))
         /\ \A l \in AncestorLocks(p, S) : l.owner = p /\ Stage(l) = 2
<1>1. \A l \in AncestorLocks(p, S) : l.owner = p /\ Stage(l) = 2 /\ Proper(l)
  BY DEF AncestorLocks, Exclusive, Plain, Stage, Proper, Lock
<1>2. \A k, l \in AncestorLocks(p, S) :
         k.class = l.class /\ k.key = l.key => k = l
  BY DEF AncestorLocks, Exclusive, Plain
<1> QED  BY <1>1, <1>2 DEF OneStatement

LEMMA GuardStatement ==
  ASSUME NEW o \in Ops, NEW r \in Plans
  PROVE  /\ OneStatement(GuardLocks(o, r))
         /\ \A l \in GuardLocks(o, r) : l.owner = o /\ Stage(l) = 0
<1>1. \A l \in GuardLocks(o, r) : l.owner = o /\ Stage(l) = 0 /\ Proper(l)
  BY DEF GuardLocks, Exclusive, Stage, Proper, Lock
<1>2. \A k, l \in GuardLocks(o, r) :
         k.class = l.class /\ k.key = l.key => k = l
  BY DEF GuardLocks, Exclusive
<1> QED  BY <1>1, <1>2 DEF OneStatement

LEMMA GraphStatement ==
  ASSUME TypeOK, NEW o \in Ops
  PROVE  /\ OneStatement(GraphLocks(o))
         /\ \A l \in GraphLocks(o) : l.owner = o /\ Stage(l) = 1
<1>1. plan[o].accounts \subseteq Sets \X Accounts
  BY DEF TypeOK, NoPlan
<1>2. \A l \in GraphLocks(o) : l.owner = o /\ Stage(l) = 1 /\ Proper(l)
  BY <1>1 DEF GraphLocks, Exclusive, Shared, Stage, Proper, Lock
<1>3. \A k, l \in GraphLocks(o) :
         k.class = l.class /\ k.key = l.key => k = l
  BY DEF GraphLocks, Exclusive, Shared
<1> QED  BY <1>2, <1>3 DEF OneStatement

----------------------------------------------------------------------------
(* The invariant is inductive *)

\* One lock granted keeps the order: the rest of the statement comes later.
LEMMA AcquireOrder ==
  ASSUME TypeOK, OrderInv, NEW o \in Procs, Acquire(o)
  PROVE  OrderInv'
<1>1. PICK l \in todo[o] :
        /\ IsNext(l, o)
        /\ held' = held \cup {l}
        /\ todo' = [todo EXCEPT ![o] = @ \ {l}]
        /\ pc' = pc /\ reprepared' = reprepared
  BY DEF Acquire, committedVars, posterVars
<1>2. Ordered(o) /\ Proper(l) /\ l.owner = o
  BY <1>1 DEF OrderInv, Ordered, OneStatement
<1>3. todo'[o] = todo[o] \ {l} /\ \A q \in Procs \ {o} : todo'[q] = todo[q]
  BY <1>1 DEF TypeOK
<1>4. \A k \in todo[o] \ {l} : Place(l) < Place(k)
  <2> SUFFICES ASSUME NEW k \in todo[o], k # l  PROVE Place(l) < Place(k)
    OBVIOUS
  <2>1. Proper(k) /\ Stage(l) = Stage(k) /\ Position(l) <= Position(k)
    BY <1>1, <1>2 DEF IsNext, Ordered, OneStatement
  <2>2. Position(l) # Position(k)
    BY <1>1, <1>2, <2>1, PositionInjective DEF Ordered, OneStatement
  <2>3. Position(l) < Position(k)
    BY <1>2, <2>1, <2>2, PositionBounds
  <2> QED  BY <1>2, <2>1, <2>3, PlaceOrder
<1>5. ASSUME NEW q \in Procs, q # o  PROVE Ordered(q)'
  <2>1. Ordered(q) /\ todo'[q] = todo[q]
    BY <1>3, <1>5 DEF OrderInv
  <2>2. \A h \in held' : h.owner = q => h \in held
    BY <1>1, <1>2, <1>5
  <2> QED
    BY <1>1, <2>1, <2>2
    DEF Ordered, OneStatement, FirstStage, HeldFirst, Place, Proper, Stage,
        Position
<1>6. Ordered(o)'
  <2>1. OneStatement(todo'[o]) /\ \A k \in todo'[o] : k.owner = o
    BY <1>2, <1>3 DEF Ordered, OneStatement
  <2>2. FirstStage(o)'
    BY <1>1, <1>2, <1>3 DEF Ordered, FirstStage
  <2>3. o \notin reprepared => HeldFirst(o)'
    BY <1>1, <1>2, <1>3, <1>4 DEF Ordered, HeldFirst
  <2> QED  BY <1>1, <2>1, <2>2, <2>3 DEF Ordered
<1> QED  BY <1>1, <1>2, <1>5, <1>6 DEF OrderInv

\* o has nothing new to take, and holds what it held or less.
Shrinks(o) ==
  /\ \A h \in held' : h.owner = o => h \in held
  /\ todo'[o] \subseteq todo[o]
  /\ o \notin reprepared' => o \notin reprepared
  /\ pc'[o] = "idle" => pc[o] = "idle"
  /\ pc'[o] \in {"locking", "resolving", "guarding"} =>
       pc[o] \in {"locking", "resolving", "guarding"}

LEMMA ShrinkOrder ==
  ASSUME NEW o \in Procs, Ordered(o), Shrinks(o)
  PROVE  Ordered(o)'
<1>1. OneStatement(todo'[o]) /\ \A l \in todo'[o] : l.owner = o
  BY DEF Shrinks, Ordered, OneStatement
<1>2. FirstStage(o)'
  BY DEF Shrinks, Ordered, FirstStage
<1>3. o \notin reprepared' => HeldFirst(o)'
  BY DEF Shrinks, Ordered, HeldFirst
<1> QED  BY <1>1, <1>2, <1>3 DEF Ordered

\* o, done with its last statement, starts the next.
LEMMA StartOrder ==
  ASSUME NEW o \in Procs, Ordered(o), \A h \in held : Proper(h),
         held' = held, pc'[o] # "idle",
         OneStatement(todo'[o]), \A l \in todo'[o] : l.owner = o,
         \/ o \in reprepared'
         \/ \A h \in held, l \in todo'[o] : h.owner = o => Stage(h) < Stage(l),
         pc'[o] \in {"locking", "resolving", "guarding"} =>
           /\ \A h \in held : h.owner = o => Stage(h) = 0
           /\ \A l \in todo'[o] : Stage(l) = 0
  PROVE  Ordered(o)'
<1>1. FirstStage(o)'
  BY DEF FirstStage
<1>2. o \notin reprepared' => HeldFirst(o)'
  <2> SUFFICES ASSUME o \notin reprepared',
                      NEW h \in held, NEW l \in todo'[o], h.owner = o
               PROVE  Place(h) < Place(l)
    BY DEF HeldFirst
  <2>1. Proper(h) /\ Proper(l) /\ Stage(h) < Stage(l)
    BY DEF OneStatement
  <2> QED  BY <2>1, PlaceOrder
<1> QED  BY <1>1, <1>2 DEF Ordered

LEMMA PosterOrder ==
  ASSUME TypeOK, OrderInv, NEW p \in Posters, PosterStep(p), ~ Acquire(p)
  PROVE  Ordered(p)'
<1>a. /\ todo \in [Procs -> SUBSET Lock] /\ pc \in [Procs -> PosterPhases \cup OpPhases]
      /\ above \in [Posters -> [Accounts -> SUBSET Sets]]
      /\ batch \in [Posters -> SUBSET Accounts]
  BY DEF TypeOK
<1>0. Ordered(p) /\ (\A h \in held : Proper(h)) /\ p \in Procs
  BY DEF OrderInv
<1>1. CASE Begin(p)
  <2>1. PICK A \in Batches : todo'[p] = EntryLocks(p, A \cap accounts)
    BY <1>a, <1>1 DEF Begin
  <2>2. /\ OneStatement(todo'[p])
        /\ \A l \in todo'[p] : l.owner = p /\ Stage(l) = 0
    BY <2>1, EntryStatement
  <2>3. /\ held' = held /\ pc'[p] = "locking"
        /\ \A h \in held : h.owner # p
    BY <1>a, <1>0, <1>1 DEF Begin, Ordered, FirstStage
  <2> QED  BY <1>0, <2>2, <2>3, StartOrder
<1>2. CASE Reprepare(p)
  <2>0. PICK A \in Batches :
          todo' = [todo EXCEPT ![p] = EntryLocks(p, A \cap accounts) \ held]
    BY <1>2 DEF Reprepare
  <2>1. todo'[p] = EntryLocks(p, A \cap accounts) \ held
    BY <1>a, <1>0, <2>0
  <2>2. /\ OneStatement(EntryLocks(p, A \cap accounts))
        /\ \A l \in EntryLocks(p, A \cap accounts) :
             l.owner = p /\ Stage(l) = 0
    BY EntryStatement
  <2>3. /\ OneStatement(todo'[p])
        /\ \A l \in todo'[p] : l.owner = p /\ Stage(l) = 0
    BY <2>1, <2>2 DEF OneStatement
  <2>4. /\ held' = held /\ pc'[p] = "locking" /\ p \in reprepared'
        /\ \A h \in held : h.owner = p => Stage(h) = 0
    BY <1>a, <1>0, <1>2 DEF Reprepare, Ordered, FirstStage
  <2> QED  BY <1>0, <2>3, <2>4, StartOrder
<1>3. CASE Read(p)
  <2>1. Shrinks(p)
    BY <1>3 DEF Shrinks, Read
  <2> QED  BY <1>0, <2>1, ShrinkOrder
<1>4. CASE ResolveFromCache(p) \/ ResolveByWalk(p)
  <2>1. PICK S \in SUBSET Sets : todo'[p] = AncestorLocks(p, S)
    <3>1. Ancestors(p) \in SUBSET Sets
      BY <1>a DEF Ancestors
    <3>2. UNION {Above(a) : a \in batch[p]} \in SUBSET Sets
      BY AboveType
    <3> QED  BY <1>a, <1>4, <3>1, <3>2 DEF ResolveFromCache, ResolveByWalk
  <2>2. /\ OneStatement(todo'[p])
        /\ \A l \in todo'[p] : l.owner = p /\ Stage(l) = 2
    BY <2>1, AncestorStatement
  <2>3. /\ held' = held /\ pc'[p] = "ancestors"
        /\ \A h \in held : h.owner = p => Stage(h) = 0
    BY <1>a, <1>0, <1>4 DEF ResolveFromCache, ResolveByWalk, Ordered, FirstStage
  <2> QED  BY <1>0, <2>2, <2>3, StartOrder
<1>5. CASE ReadAncestors(p)
  <2>1. Shrinks(p)
    BY <1>5 DEF Shrinks, ReadAncestors
  <2> QED  BY <1>0, <2>1, ShrinkOrder
<1>6. CASE Commit(p)
  <2>1. Shrinks(p)
    BY <1>6 DEF Shrinks, Commit, Release, posterVars
  <2> QED  BY <1>0, <2>1, ShrinkOrder
<1>7. CASE Abort(p)
  <2>1. Shrinks(p)
    BY <1>7 DEF Shrinks, Abort, Release, posterVars
  <2> QED  BY <1>0, <2>1, ShrinkOrder
<1> QED
  BY <1>1, <1>2, <1>3, <1>4, <1>5, <1>6, <1>7 DEF PosterStep

LEMMA OpOrder ==
  ASSUME TypeOK, OrderInv, NEW o \in Ops, OpStep(o), ~ Acquire(o)
  PROVE  Ordered(o)'
<1>a. todo \in [Procs -> SUBSET Lock] /\ pc \in [Procs -> PosterPhases \cup OpPhases]
  BY DEF TypeOK
<1>0. Ordered(o) /\ (\A h \in held : Proper(h)) /\ o \in Procs
  BY DEF OrderInv
<1>1. CASE Propose(o)
  <2>1. PICK r \in Plans : todo'[o] = GuardLocks(o, r)
    BY <1>a, <1>1 DEF Propose
  <2>2. /\ OneStatement(todo'[o])
        /\ \A l \in todo'[o] : l.owner = o /\ Stage(l) = 0
    BY <2>1, GuardStatement
  <2>3. /\ held' = held /\ pc'[o] = "guarding"
        /\ \A h \in held : h.owner # o
    BY <1>a, <1>0, <1>1 DEF Propose, Ordered, FirstStage
  <2> QED  BY <1>0, <2>2, <2>3, StartOrder
<1>2. CASE CheckHistory(o)
  <2>1. todo'[o] = GraphLocks(o)
    BY <1>a, <1>0, <1>2 DEF CheckHistory
  <2>2. /\ OneStatement(todo'[o])
        /\ \A l \in todo'[o] : l.owner = o /\ Stage(l) = 1
    BY <2>1, GraphStatement
  <2>3. /\ held' = held /\ pc'[o] = "fencing"
        /\ \A h \in held : h.owner = o => Stage(h) = 0
    BY <1>a, <1>0, <1>2 DEF CheckHistory, Ordered, FirstStage
  <2> QED  BY <1>0, <2>2, <2>3, StartOrder
<1>3. CASE Validate(o)
  <2>1. Shrinks(o)
    BY <1>3 DEF Shrinks, Validate, posterVars
  <2> QED  BY <1>0, <2>1, ShrinkOrder
<1>4. CASE Apply(o)
  <2>1. Shrinks(o)
    BY <1>4 DEF Shrinks, Apply, Release, posterVars
  <2> QED  BY <1>0, <2>1, ShrinkOrder
<1>5. CASE Abort(o)
  <2>1. Shrinks(o)
    BY <1>5 DEF Shrinks, Abort, Release, posterVars
  <2> QED  BY <1>0, <2>1, ShrinkOrder
<1> QED  BY <1>1, <1>2, <1>3, <1>4, <1>5 DEF OpStep

\* Only a lock granted to o adds to what is held.
LEMMA HeldFrame ==
  ASSUME [Next]_vars, \A o \in Procs : ~ Acquire(o)
  PROVE  /\ held' \subseteq held
         /\ \A o \in Procs : o \notin reprepared' => o \notin reprepared
  BY DEF Next, Advance, Begin, Reprepare, Propose, Read,
     ResolveFromCache, ResolveByWalk, ReadAncestors, Commit, CheckHistory,
     Validate, Apply, Create, Abort, Release, vars, posterVars

LEMMA OrderStep ==
  ASSUME TypeOK, OrderInv, [Next]_vars
  PROVE  OrderInv'
<1>1. CASE \E o \in Procs : Acquire(o)
  BY <1>1, AcquireOrder
<1>2. CASE \A o \in Procs : ~ Acquire(o)
  <2>1. held' \subseteq held
    BY <1>2, HeldFrame
  <2>2. ASSUME NEW p \in Posters PROVE Ordered(p)'
    <3>1. CASE PosterStep(p)
      BY <1>2, <3>1, PosterOrder
    <3>2. CASE SamePoster(p)
      <4>1. Shrinks(p)
        BY <1>2, <2>1, <3>2, HeldFrame DEF SamePoster, Shrinks
      <4> QED  BY <4>1, ShrinkOrder DEF OrderInv
    <3> QED  BY <3>1, <3>2, PosterFrame
  <2>3. ASSUME NEW o \in Ops PROVE Ordered(o)'
    <3>1. CASE OpStep(o)
      BY <1>2, <3>1, OpOrder
    <3>2. CASE SameOp(o)
      <4>1. Shrinks(o)
        BY <1>2, <2>1, <3>2, HeldFrame DEF SameOp, Shrinks
      <4> QED  BY <4>1, ShrinkOrder DEF OrderInv
    <3> QED  BY <3>1, <3>2, OpFrame
  <2> QED  BY <2>1, <2>2, <2>3 DEF OrderInv
<1> QED  BY <1>1, <1>2

LEMMA OrderInit == Init => OrderInv
  BY DEF Init, OrderInv, Ordered, OneStatement, FirstStage, HeldFirst

----------------------------------------------------------------------------
(* No cycle of waits *)

\* Whoever waits and whoever is waited for: the places along a cycle of waits
\* would rise for ever, and there are finitely many.
LEMMA NoCycle ==
  ASSUME TypeOK, OrderInv
  PROVE  DeadlockNeedsReprepare
<1> SUFFICES ASSUME NEW o \in Deadlocked, Deadlocked \cap reprepared = {}
             PROVE  FALSE
  BY DEF DeadlockNeedsReprepare
<1>1. PICK C \in SUBSET Procs :
        o \in C /\ \A q \in C : WaitsOn(q) \cap C # {}
  BY DEF Deadlocked
<1>2. ASSUME NEW q \in C
      PROVE  /\ \E l \in todo[q], g \in held :
                  IsNext(l, q) /\ Conflicts(l, g) /\ g.owner \in C
             /\ Ordered(q) /\ HeldFirst(q)
  <2>1. \E l \in todo[q], g \in held :
           IsNext(l, q) /\ Conflicts(l, g) /\ g.owner \in C
    BY <1>1 DEF WaitsOn, IsNext
  <2>2. q \in Deadlocked
    BY <1>1, <2>1 DEF Deadlocked
  <2>3. q \in Procs /\ q \notin reprepared /\ Ordered(q)
    BY <1>1, <2>2 DEF OrderInv
  <2> QED  BY <2>1, <2>3 DEF Ordered
<1> DEFINE W == {l \in Lock : \E q \in C, g \in held :
                   /\ l \in todo[q]
                   /\ Conflicts(l, g) /\ g.owner \in C}
           P == {Place(l) : l \in W}
<1>3. \A l \in W : Proper(l)
  BY <1>2 DEF Ordered, OneStatement
<1>4. P \in SUBSET Nat /\ 3 * Ceiling \in Nat /\ \A n \in P : n <= 3 * Ceiling
  <2>1. \A l \in W : Place(l) \in Nat /\ Place(l) <= 3 * Ceiling
    BY <1>3, PlaceOrder
  <2> QED  BY <2>1, CeilingAbove
<1>5. \A q \in C : \E l \in W : l \in todo[q]
  BY <1>1, <1>2 DEF TypeOK
<1>6. P # {}
  BY <1>1, <1>5
<1>7. PICK n \in P : \A k \in P : k <= n
  <2>1. PICK b : b = 3 * Ceiling
    OBVIOUS
  <2> HIDE DEF P
  <2>2. P \in SUBSET Nat /\ P # {} /\ b \in Nat /\ \A n \in P : n <= b
    BY <1>4, <1>6, <2>1
  <2>3. \E m \in P : \A k \in P : k <= m
    BY ONLY <2>2, GreatestNat
  <2> QED  BY <2>3
<1>8. PICK l \in W : n = Place(l)
  OBVIOUS
<1>9. PICK g \in held : Conflicts(l, g) /\ g.owner \in C
  OBVIOUS
<1>10. Place(g) = Place(l)
  BY <1>9 DEF Conflicts, Place, Stage, Position
<1>11. PICK k \in W : k \in todo[g.owner]
  BY <1>5, <1>9
<1>12. Place(g) < Place(k)
  BY <1>2, <1>9, <1>11 DEF HeldFirst
<1>13. Place(k) \in P /\ Place(k) <= Place(l)
  BY <1>7, <1>8
<1>14. Place(k) \in Nat /\ Place(l) \in Nat
  BY <1>4, <1>13
<1> QED  BY <1>10, <1>12, <1>13, <1>14

\* In every cycle of waits one transaction is a posting that took the
\* stale-template path; the other postings and membership operations take
\* their locks in an order that excludes cycles, however many they are.
THEOREM DeadlockOnlyByReprepare == Spec => []DeadlockNeedsReprepare
<1>1. TypeOK /\ OrderInv /\ [Next]_vars => OrderInv'
  BY OrderStep
<1>2. TypeOK /\ OrderInv => DeadlockNeedsReprepare
  BY NoCycle
<1> QED  BY <1>1, <1>2, OrderInit, TypeCorrect, PTL DEF Spec
=============================================================================
