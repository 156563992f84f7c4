--------------------------- MODULE EcRollupProofs ---------------------------
(***************************************************************************)
(* Proofs about EcRollup, for any postings, accounts, sets, batch size and *)
(* number of crashes.                                                      *)
(***************************************************************************)
EXTENDS EcRollup, TLAPS

----------------------------------------------------------------------------
(* Events *)

Events ==
  {TxCreated(t) : t \in Txns} \cup {EntryCreated(e) : e \in Entries} \cup {Other}

LEMMA EntryTyped ==
  /\ \A e \in Entries : e[1] \in Txns /\ e[2] \in Accounts
  /\ \A t \in Txns : {<<t, a>> : a \in Targets[t]} \subseteq Entries
  BY RollupAssumption DEF Entries

LEMMA EventTyped ==
  ASSUME NEW v \in Events
  PROVE  /\ v.txn \in Txns \cup {NoTxn}
         /\ v.kind = "transaction" => v.txn \in Txns /\ v = TxCreated(v.txn)
         /\ v.kind = "entry" => v.txn \in Txns
  BY EntryTyped DEF Events, TxCreated, EntryCreated, Other

LEMMA Appended ==
  ASSUME NEW s \in Seq(Events), NEW v \in Events
  PROVE  /\ Append(s, v) \in Seq(Events)
         /\ Len(Append(s, v)) = Len(s) + 1
         /\ Append(s, v)[Len(s) + 1] = v
         /\ \A i \in 1..Len(s) : Append(s, v)[i] = s[i]
  OBVIOUS

----------------------------------------------------------------------------
(* Types *)

Typed ==
  /\ TypeOK
  /\ stream \in Seq(Events)

LEMMA StreamTyped ==
  ASSUME NEW s \in Seq(Events)
  PROVE  /\ Len(s) \in Nat
         /\ \A i \in 1..Len(s) : s[i] \in Events
  OBVIOUS

\* An entry is folded once for its transaction, whether it was collected with
\* it or loaded.
LEMMA TimesOf ==
  ASSUME NEW e \in Entries
  PROVE  Times(e) = IF e[1] \in CollectedTxns THEN 1 ELSE 0
  BY DEF Times, Missing

LEMMA TypedInit == Init => Typed
<1> SUFFICES ASSUME Init PROVE Typed
  OBVIOUS
<1>1. stream \in Seq(Events) /\ Len(stream) = 0
  BY DEF Init
<1> QED  BY <1>1, RollupAssumption DEF Init, Typed, TypeOK

LEMMA TypedStep == Typed /\ [Next]_vars => Typed'
<1> SUFFICES ASSUME Typed, [Next]_vars PROVE Typed'
  OBVIOUS
<1> USE DEF Typed, TypeOK
<1>l. Len(stream) \in Nat
  BY StreamTyped
<1>s. ASSUME stream' \in Seq(Events), Len(stream') = Len(stream) + 1,
             UNCHANGED cursor
      PROVE  /\ \A i \in 1..Len(stream') : stream'[i] \in
                  {TxCreated(t) : t \in Txns}
                    \cup {EntryCreated(e) : e \in Entries} \cup {Other}
             /\ cursor' \in 0..Len(stream')
  <2>1. /\ \A i \in 1..Len(stream') : stream'[i] \in Events
        /\ Len(stream) \in Nat
    BY <1>s, StreamTyped
  <2>2. \A i \in 1..Len(stream') : stream'[i] \in
          {TxCreated(t) : t \in Txns}
            \cup {EntryCreated(e) : e \in Entries} \cup {Other}
    BY <2>1 DEF Events
  <2>3. cursor' \in 0..Len(stream')
    BY <1>s, <2>1
  <2> QED  BY <2>2, <2>3
<1>1. ASSUME NEW t \in Txns, Enforce(t)  PROVE Typed'
  BY <1>1 DEF Enforce, graphVars, accountVars, handlerVars
<1>2. ASSUME NEW t \in Txns, PublishTransaction(t)  PROVE Typed'
  <2>1. TxCreated(t) \in Events
    BY DEF Events
  <2>2. stream' \in Seq(Events) /\ Len(stream') = Len(stream) + 1
    BY <1>2, <2>1, Appended DEF PublishTransaction
  <2>3. unsent' \in [Txns -> SUBSET Entries]
    BY <1>2, EntryTyped DEF PublishTransaction
  <2> QED  BY <1>2, <1>s, <2>2, <2>3 DEF PublishTransaction, graphVars,
           accountVars, handlerVars
<1>3. ASSUME NEW t \in Txns, PublishEntry(t)  PROVE Typed'
  <2>1. PICK e \in unsent[t] : stream' = Append(stream, EntryCreated(e))
                               /\ unsent' = [unsent EXCEPT ![t] = @ \ {e}]
    BY <1>3 DEF PublishEntry
  <2>2. EntryCreated(e) \in Events
    BY DEF Events
  <2>3. stream' \in Seq(Events) /\ Len(stream') = Len(stream) + 1
    BY <2>1, <2>2, Appended
  <2>4. unsent' \in [Txns -> SUBSET Entries]
    BY <2>1
  <2> QED  BY <1>3, <1>s, <2>3, <2>4 DEF PublishEntry, graphVars, accountVars,
           handlerVars
<1>4. ASSUME NEW t \in Txns, Finish(t) \/ Rollback(t)  PROVE Typed'
  BY <1>4 DEF Finish, Rollback, graphVars, accountVars, handlerVars
<1>5. CASE Deliver
  BY <1>5, <1>l DEF Deliver, postingVars, graphVars, accountVars
<1>6. CASE Resolve
  BY <1>6 DEF Resolve, Rolled, postingVars, graphVars, accountVars
<1>7. CASE LockInvolved
  BY <1>7 DEF LockInvolved, postingVars, graphVars, accountVars
<1>8. CASE Land
  <2>1. \A x \in Holders, e \in Entries :
          balance[x][e] + (IF <<e, x>> \in routes THEN Times(e) ELSE 0) \in Nat
    BY TimesOf
  <2>2. balance' \in [Holders -> [Entries -> Nat]]
    BY <1>8, <2>1 DEF Land
  <2> QED  BY <1>8, <2>2 DEF Land, postingVars, graphVars, accountVars
<1>9. CASE Crash \/ FlushFails
  <2>1. MaxCrashes \in Nat
    BY RollupAssumption
  <2> QED  BY <1>9, <1>l, <2>1 DEF Crash, FlushFails, Restart, postingVars,
           graphVars, accountVars
<1>10. ASSUME NEW c \in Changes, GuardChange(c)  PROVE Typed'
  BY <1>10 DEF GuardChange, postingVars, accountVars, handlerVars
<1>11. ASSUME NEW c \in Changes, ApplyChange(c)  PROVE Typed'
  <2>1. Other \in Events
    BY DEF Events
  <2>2. stream' \in Seq(Events) /\ Len(stream') = Len(stream) + 1
    BY <1>11, <2>1, Appended DEF ApplyChange
  <2>3. c.edge \in Sets \X Sets
    BY RollupAssumption
  <2>4. subsetOf' \subseteq Sets \X Sets
    BY <1>11, <2>3 DEF ApplyChange
  <2> QED  BY <1>11, <1>s, <2>2, <2>4 DEF ApplyChange, accountVars, handlerVars
<1>12. ASSUME NEW x \in Lockable, LockAccount(x) \/ UnlockAccount(x)
       PROVE  Typed'
  BY <1>12 DEF LockAccount, UnlockAccount, postingVars, graphVars, handlerVars
<1>13. CASE CloseBooks \/ Pin
  BY <1>13 DEF CloseBooks, Pin, postingVars, graphVars, accountVars, handlerVars
<1>14. CASE UNCHANGED vars
  BY <1>14 DEF vars
<1> QED
  BY <1>1, <1>2, <1>3, <1>4, <1>5, <1>6, <1>7, <1>8, <1>9, <1>10, <1>11,
     <1>12, <1>13, <1>14 DEF Next, Publish, Handle

\* Every variable of the rollup keeps its shape, and the checkpoint never
\* passes the handler's position (ec_rollup.rs).
THEOREM TypeCorrect == Spec => []TypeOK
  BY TypedInit, TypedStep, PTL DEF Spec, Typed

LEMMA TypedAlways == Spec => []Typed
  BY TypedInit, TypedStep, PTL DEF Spec

----------------------------------------------------------------------------
(* The stream *)

\* A posting has events only from its publication on, the first of them its
\* transaction's.
Publishing(t) ==
  /\ \A e \in unsent[t] : e[1] = t /\ pc[t] = "publishing"
  /\ pc[t] \in {"idle", "enforced"} =>
       \A i \in 1..Len(stream) : stream[i].txn # t
  /\ pc[t] = "publishing" => \E i \in 1..Len(stream) : stream[i] = TxCreated(t)

\* Every event is at or after the one of its transaction.
Headed ==
  \A i \in 1..Len(stream), t \in Txns : stream[i].txn = t =>
    /\ \E j \in 1..i : stream[j] = TxCreated(t)
    /\ \A j \in 1..Len(stream) : stream[j] = TxCreated(t) => j <= i

\* The handler is not past an event of a posting that has not ended.
Ended(t) == pc[t] \in {"committed", "aborted"}

Delivered == \A i \in 1..cursor, t \in Txns : stream[i].txn = t => Ended(t)

StreamInv == (\A t \in Txns : Publishing(t)) /\ Headed /\ Delivered

LEMMA StreamInit == Init => StreamInv
  BY DEF Init, StreamInv, Publishing, Headed, Delivered

LEMMA StreamStep == Typed /\ StreamInv /\ [Next]_vars => StreamInv'
<1> SUFFICES ASSUME Typed, StreamInv, [Next]_vars PROVE StreamInv'
  OBVIOUS
<1>l. /\ Len(stream) \in Nat /\ cursor \in 0..Len(stream)
      /\ \A i \in 1..Len(stream) : stream[i] \in Events
  BY StreamTyped DEF Typed, TypeOK
<1>1. ASSUME UNCHANGED <<pc, unsent, stream>>, cursor' \in 0..cursor
      PROVE  StreamInv'
  BY <1>1, <1>l DEF StreamInv, Publishing, Headed, Delivered, Ended
\* A posting takes a step without an event.
<1>2. ASSUME NEW t \in Txns, Enforce(t) \/ Finish(t) \/ Rollback(t)
      PROVE  StreamInv'
  <2>1. UNCHANGED <<stream, cursor>>
    BY <1>2 DEF Enforce, Finish, Rollback, handlerVars
  <2>2. \A q \in Txns : q # t => pc'[q] = pc[q] /\ unsent'[q] = unsent[q]
    BY <1>2 DEF Enforce, Finish, Rollback, Typed, TypeOK
  <2>3. /\ pc[t] \in {"idle", "enforced", "publishing"}
        /\ pc'[t] = "enforced" => pc[t] = "idle"
        /\ pc'[t] \in {"enforced", "committed", "aborted"}
        /\ unsent'[t] = {}
    BY <1>2 DEF Enforce, Finish, Rollback, StreamInv, Publishing, Typed, TypeOK
  <2>4. \A q \in Txns : Publishing(q)'
    BY <2>1, <2>2, <2>3 DEF StreamInv, Publishing
  <2>5. Headed'
    BY <2>1 DEF StreamInv, Headed
  <2>6. Delivered'
    BY <2>1, <2>2, <2>3 DEF StreamInv, Delivered, Ended
  <2> QED  BY <2>4, <2>5, <2>6 DEF StreamInv
\* The stream grows.
<1>3. ASSUME NEW v \in Events, stream' = Append(stream, v), UNCHANGED cursor
      PROVE  /\ Len(stream') = Len(stream) + 1
             /\ \A i \in 1..Len(stream) : stream'[i] = stream[i]
             /\ stream'[Len(stream')] = v
  BY <1>3, Appended DEF Typed
<1>4. ASSUME NEW t \in Txns, PublishTransaction(t)  PROVE StreamInv'
  <2>1. TxCreated(t) \in Events /\ TxCreated(t).txn = t
    BY DEF Events, TxCreated
  <2>2. /\ Len(stream') = Len(stream) + 1
        /\ \A i \in 1..Len(stream) : stream'[i] = stream[i]
        /\ stream'[Len(stream')] = TxCreated(t)
        /\ UNCHANGED cursor
    BY <1>3, <1>4, <2>1 DEF PublishTransaction, handlerVars
  <2>3. /\ pc[t] = "enforced" /\ pc'[t] = "publishing"
        /\ \A e \in unsent'[t] : e[1] = t
        /\ \A q \in Txns : q # t => pc'[q] = pc[q] /\ unsent'[q] = unsent[q]
    BY <1>4 DEF PublishTransaction, Typed, TypeOK
  <2>4. \A i \in 1..Len(stream) : stream[i].txn # t
    BY <2>3 DEF StreamInv, Publishing
  <2>5. \A q \in Txns : TxCreated(q) = TxCreated(t) => q = t
    BY DEF TxCreated
  <2>6. \A q \in Txns : Publishing(q)'
    BY <1>l, <2>1, <2>2, <2>3, <2>5 DEF StreamInv, Publishing
  <2>7. Headed'
    <3> SUFFICES ASSUME NEW i \in 1..Len(stream'), NEW q \in Txns,
                        stream'[i].txn = q
                 PROVE  /\ \E j \in 1..i : stream'[j] = TxCreated(q)
                        /\ \A j \in 1..Len(stream') :
                             stream'[j] = TxCreated(q) => j <= i
      BY DEF Headed
    <3>1. CASE i = Len(stream')
      BY <1>l, <2>1, <2>2, <3>1
    <3>2. CASE i \in 1..Len(stream)
      <4>1. stream[i].txn = q /\ q # t
        BY <2>2, <2>4, <3>2
      <4>2. PICK j \in 1..i : stream[j] = TxCreated(q)
        BY <3>2, <4>1 DEF StreamInv, Headed
      <4>3. \A m \in 1..Len(stream) : stream[m] = TxCreated(q) => m <= i
        BY <3>2, <4>1 DEF StreamInv, Headed
      <4>4. j \in 1..Len(stream) /\ stream'[j] = TxCreated(q)
        BY <1>l, <2>2, <3>2, <4>2
      <4>5. ASSUME NEW m \in 1..Len(stream'), stream'[m] = TxCreated(q)  PROVE m <= i
        <5>1. m # Len(stream')
          BY <2>2, <2>5, <4>1, <4>5
        <5>2. m \in 1..Len(stream)
          BY <1>l, <2>2, <5>1
        <5>3. stream[m] = TxCreated(q)
          BY <2>2, <4>5, <5>2
        <5> QED  BY <4>3, <5>2, <5>3
      <4> QED  BY <4>4, <4>5
    <3> QED  BY <1>l, <2>2, <3>1, <3>2
  <2>8. Delivered'
    BY <1>l, <2>2, <2>3, <2>4 DEF StreamInv, Delivered, Ended
  <2> QED  BY <2>6, <2>7, <2>8 DEF StreamInv
<1>5. ASSUME NEW v \in Events, stream' = Append(stream, v),
             UNCHANGED <<pc, cursor>>,
             \A q \in Txns : unsent'[q] \subseteq unsent[q],
             v.kind # "transaction",
             v.txn \in Txns => pc[v.txn] = "publishing"
      PROVE  StreamInv'
  <2>1. /\ Len(stream') = Len(stream) + 1
        /\ \A i \in 1..Len(stream) : stream'[i] = stream[i]
        /\ stream'[Len(stream')] = v
    BY <1>3, <1>5
  <2>2. \A q \in Txns : v # TxCreated(q)
    BY <1>5 DEF TxCreated
  <2>3. \A q \in Txns : Publishing(q)'
    BY <1>l, <1>5, <2>1 DEF StreamInv, Publishing
  <2>4. Headed'
    <3> SUFFICES ASSUME NEW i \in 1..Len(stream'), NEW q \in Txns,
                        stream'[i].txn = q
                 PROVE  /\ \E j \in 1..i : stream'[j] = TxCreated(q)
                        /\ \A j \in 1..Len(stream') :
                             stream'[j] = TxCreated(q) => j <= i
      BY DEF Headed
    <3>1. CASE i = Len(stream')
      <4>1. \E j \in 1..Len(stream) : stream[j] = TxCreated(q)
        BY <1>5, <2>1, <3>1 DEF StreamInv, Publishing
      <4> QED  BY <1>l, <2>1, <2>2, <3>1, <4>1
    <3>2. CASE i \in 1..Len(stream)
      BY <1>l, <2>1, <2>2, <3>2 DEF StreamInv, Headed
    <3> QED  BY <1>l, <2>1, <3>1, <3>2
  <2>5. Delivered'
    BY <1>l, <1>5, <2>1 DEF StreamInv, Delivered, Ended
  <2> QED  BY <2>3, <2>4, <2>5 DEF StreamInv
<1>6. ASSUME NEW t \in Txns, PublishEntry(t)  PROVE StreamInv'
  <2>1. PICK e \in unsent[t] : stream' = Append(stream, EntryCreated(e))
                               /\ unsent' = [unsent EXCEPT ![t] = @ \ {e}]
    BY <1>6 DEF PublishEntry
  <2>2. e \in Entries /\ e[1] = t /\ pc[t] = "publishing"
    BY <2>1 DEF StreamInv, Publishing, Typed, TypeOK
  <2>3. /\ EntryCreated(e) \in Events /\ EntryCreated(e).kind # "transaction"
        /\ EntryCreated(e).txn = t
    BY <2>2 DEF Events, EntryCreated
  <2>4. \A q \in Txns : unsent'[q] \subseteq unsent[q]
    BY <2>1 DEF Typed, TypeOK
  <2> QED  BY <1>5, <1>6, <2>1, <2>2, <2>3, <2>4 DEF PublishEntry, handlerVars
<1>7. ASSUME NEW c \in Changes, ApplyChange(c)  PROVE StreamInv'
  <2>1. /\ Other \in Events /\ Other.kind # "transaction"
        /\ Other.txn \notin Txns
    BY NoTxnAssumption DEF Events, Other
  <2> QED  BY <1>5, <1>7, <2>1 DEF ApplyChange, handlerVars
<1>8. CASE Deliver
  <2>1. /\ cursor' = cursor + 1 /\ cursor + 1 \in 1..Len(stream)
        /\ Settled(cursor + 1) /\ UNCHANGED <<pc, unsent, stream>>
    BY <1>8, <1>l DEF Deliver, postingVars
  <2>2. ASSUME NEW t \in Txns, stream[cursor + 1].txn = t  PROVE Ended(t)
    BY <2>1, <2>2 DEF Settled, StreamInv, Publishing, Ended, Typed, TypeOK
  <2>3. Delivered'
    BY <1>l, <2>1, <2>2 DEF StreamInv, Delivered, Ended
  <2> QED  BY <2>1, <2>3 DEF StreamInv, Publishing, Headed
<1>9. CASE \/ Handle \/ Crash
           \/ \E c \in Changes : GuardChange(c)
           \/ \E x \in Lockable : LockAccount(x) \/ UnlockAccount(x)
           \/ CloseBooks \/ Pin \/ UNCHANGED vars
  <2>1. UNCHANGED <<pc, unsent, stream>>
    BY <1>9 DEF Handle, Resolve, LockInvolved, Land, FlushFails, Crash, Restart,
       GuardChange, LockAccount, UnlockAccount, CloseBooks, Pin, vars,
       postingVars
  <2>2. cursor' = cursor \/ cursor' = checkpoint
    BY <1>9 DEF Handle, Resolve, LockInvolved, Land, FlushFails, Crash, Restart,
       GuardChange, LockAccount, UnlockAccount, CloseBooks, Pin, vars,
       handlerVars
  <2>3. cursor' \in 0..cursor
    BY <2>2, <1>l DEF Typed, TypeOK
  <2> QED  BY <1>1, <2>1, <2>3
<1> QED
  BY <1>2, <1>4, <1>6, <1>7, <1>8, <1>9 DEF Next, Publish

LEMMA StreamAlways == Spec => []StreamInv
  BY StreamInit, StreamStep, TypedAlways, PTL DEF Spec

----------------------------------------------------------------------------
(* What has been folded *)

\* Events are only added.
LEMMA Growing ==
  ASSUME Typed, [Next]_vars
  PROVE  /\ Len(stream') \in Nat /\ Len(stream') >= Len(stream)
         /\ \A i \in 1..Len(stream) : stream'[i] = stream[i]
<1>l. Len(stream) \in Nat
  BY StreamTyped DEF Typed
<1>1. ASSUME NEW v \in Events, stream' = Append(stream, v)
      PROVE  /\ Len(stream') \in Nat /\ Len(stream') >= Len(stream)
             /\ \A i \in 1..Len(stream) : stream'[i] = stream[i]
  BY <1>1, <1>l, Appended DEF Typed
<1>2. \/ UNCHANGED stream
      \/ \E t \in Txns : stream' = Append(stream, TxCreated(t))
      \/ \E t \in Txns : \E e \in unsent[t] :
           stream' = Append(stream, EntryCreated(e))
      \/ stream' = Append(stream, Other)
  BY DEF Next, Enforce, Publish, PublishTransaction, PublishEntry, Finish,
     Rollback, Deliver, Handle, Resolve, LockInvolved, Land, FlushFails, Crash,
     Restart, GuardChange, ApplyChange, LockAccount, UnlockAccount, CloseBooks,
     Pin, vars, postingVars
<1>3. \A t \in Txns : \A e \in unsent[t] : EntryCreated(e) \in Events
  BY DEF Typed, TypeOK, Events
<1> QED  BY <1>l, <1>1, <1>2, <1>3 DEF Events

\* Nothing happens any more to what the handler has taken in.
LEMMA Settling ==
  ASSUME Typed, StreamInv, [Next]_vars
  PROVE  /\ \A i \in 1..cursor : stream'[i] = stream[i]
         /\ \A i \in 1..cursor : stream[i].txn \in Committed' <=>
                                 stream[i].txn \in Committed
<1>l. Len(stream) \in Nat /\ cursor \in 0..Len(stream)
  BY StreamTyped DEF Typed, TypeOK
<1>1. \A i \in 1..Len(stream) : stream'[i] = stream[i]
  BY Growing
<1>2. \A t \in Txns : Ended(t) => (t \in Committed' <=> t \in Committed)
  <2> DEFINE Still == \A t \in Txns : Ended(t) => pc'[t] = pc[t]
  <2>1. \E X : pc \in [Txns -> X]
    BY DEF Typed, TypeOK
  <2>2. ASSUME NEW q \in Txns, ~ Ended(q), NEW x, pc' = [pc EXCEPT ![q] = x]
        PROVE  Still
    BY <2>1, <2>2
  <2>3. ASSUME NEW q \in Txns, Enforce(q) \/ Publish(q) \/ Rollback(q)
        PROVE  UNCHANGED pc \/ (~ Ended(q) /\ \E x : pc' = [pc EXCEPT ![q] = x])
    BY <2>3 DEF Enforce, Publish, PublishTransaction, PublishEntry, Finish,
       Rollback, Ended
  <2>4. ASSUME \/ Deliver \/ Handle \/ Crash
               \/ \E c \in Changes : GuardChange(c) \/ ApplyChange(c)
               \/ \E x \in Lockable : LockAccount(x) \/ UnlockAccount(x)
               \/ CloseBooks \/ Pin \/ UNCHANGED vars
        PROVE  Still
    <3>1. UNCHANGED pc
      BY <2>4 DEF Deliver, Handle, Resolve, LockInvolved, Land, FlushFails,
         Crash, Restart, GuardChange, ApplyChange, LockAccount, UnlockAccount,
         CloseBooks, Pin, vars, postingVars
    <3> QED  BY <3>1
  <2>5. ASSUME NEW q \in Txns, Enforce(q) \/ Publish(q) \/ Rollback(q)  PROVE Still
    <3>1. CASE UNCHANGED pc
      BY <3>1
    <3> HIDE DEF Still
    <3> QED  BY <2>2, <2>3, <2>5, <3>1
  <2> HIDE DEF Still
  <2>6. Still
    BY <2>4, <2>5 DEF Next
  <2> USE DEF Still
  <2> QED  BY <2>6 DEF Committed
<1>3. \A i \in 1..cursor, t \in Txns : stream[i].txn = t => Ended(t)
  BY DEF StreamInv, Delivered
<1>4. Committed \subseteq Txns /\ Committed' \subseteq Txns
  BY DEF Committed
<1> QED  BY <1>l, <1>1, <1>2, <1>3, <1>4

\* A flush takes up a posting with its first event.
LEMMA Collecting ==
  ASSUME Typed, StreamInv, NEW t \in Txns
  PROVE  t \in CollectedTxns <=>
           /\ t \in Committed
           /\ \E i \in 1..cursor : stream[i].txn = t
           /\ \A i \in 1..checkpoint : stream[i].txn # t
<1>l. /\ Len(stream) \in Nat /\ cursor \in 0..Len(stream)
      /\ checkpoint \in 0..cursor
      /\ \A i \in 1..Len(stream) : stream[i] \in Events
  BY StreamTyped DEF Typed, TypeOK
<1>1. ASSUME t \in CollectedTxns
      PROVE  /\ t \in Committed
             /\ \E i \in 1..cursor : stream[i].txn = t
             /\ \A i \in 1..checkpoint : stream[i].txn # t
  <2>1. PICK i \in (checkpoint + 1)..cursor :
          HasPayload(i) /\ stream[i].kind = "transaction" /\ stream[i].txn = t
    BY <1>1 DEF CollectedTxns, Landing
  <2>2. stream[i] = TxCreated(t)
    BY <1>l, <2>1, EventTyped
  <2>3. \A j \in 1..checkpoint : stream[j].txn # t
    BY <1>l, <2>1, <2>2 DEF StreamInv, Headed
  <2>4. t \in Committed
    BY <2>1, NoTxnAssumption DEF HasPayload
  <2> QED  BY <1>l, <2>1, <2>3, <2>4
<1>2. ASSUME t \in Committed, NEW i \in 1..cursor, stream[i].txn = t,
             \A j \in 1..checkpoint : stream[j].txn # t
      PROVE  t \in CollectedTxns
  <2>1. PICK j \in 1..i : stream[j] = TxCreated(t)
    BY <1>l, <1>2 DEF StreamInv, Headed
  <2>2. stream[j].txn = t /\ stream[j].kind = "transaction"
    BY <2>1 DEF TxCreated
  <2>3. j \in (checkpoint + 1)..cursor
    BY <1>l, <1>2, <2>2
  <2> QED  BY <1>2, <2>2, <2>3 DEF CollectedTxns, Landing, HasPayload
<1> QED  BY <1>1, <1>2

LEMMA CollectedTyped ==
  ASSUME Typed PROVE CollectedTxns \subseteq Txns
<1>1. \A i \in 1..Len(stream) : stream[i] \in Events
  BY StreamTyped DEF Typed
<1>2. \A i \in Landing : i \in 1..Len(stream)
  BY StreamTyped DEF Landing, Typed, TypeOK
<1> QED  BY <1>1, <1>2, EventTyped DEF CollectedTxns

\* A batch stays as it was collected.
LEMMA BatchKept ==
  ASSUME Typed, StreamInv, [Next]_vars, UNCHANGED <<cursor, checkpoint>>
  PROVE  UNCHANGED CollectedTxns
<1>1. /\ \A i \in 1..cursor : stream'[i] = stream[i]
      /\ \A i \in 1..cursor : stream[i].txn \in Committed' <=>
                              stream[i].txn \in Committed
  BY Settling
<1>2. UNCHANGED Landing /\ \A i \in Landing : i \in 1..cursor
  BY DEF Landing, Typed, TypeOK
<1>3. \A i \in Landing : (HasPayload(i)' <=> HasPayload(i)) /\ stream'[i] = stream[i]
  BY <1>1, <1>2 DEF HasPayload
<1> QED  BY <1>2, <1>3 DEF CollectedTxns

\* The checkpoint has passed an event of the posting.
Landed(t) == t \in Committed /\ \E i \in 1..checkpoint : stream[i].txn = t

\* What a batch collected is landed when the checkpoint moves to the cursor.
LEMMA CollectedLand ==
  ASSUME Typed, StreamInv, checkpoint' = cursor, stream' = stream, Committed' = Committed,
         NEW t \in Txns
  PROVE  /\ Landed(t)' <=> Landed(t) \/ t \in CollectedTxns
         /\ ~ (Landed(t) /\ t \in CollectedTxns)
<1>1. cursor \in Nat /\ checkpoint \in 0..cursor
  BY DEF Typed, TypeOK
<1>2. \A i \in 1..checkpoint : i \in 1..cursor
  BY <1>1
<1>3. Landed(t)' <=> t \in Committed /\ \E i \in 1..cursor : stream[i].txn = t
  BY DEF Landed
<1>4. t \in CollectedTxns <=> /\ t \in Committed
                              /\ \E i \in 1..cursor : stream[i].txn = t
                              /\ \A i \in 1..checkpoint : stream[i].txn # t
  BY Collecting
<1> QED  BY <1>2, <1>3, <1>4 DEF Landed

LEMMA LandedKept ==
  ASSUME Typed, StreamInv, [Next]_vars, UNCHANGED checkpoint, NEW t \in Txns
  PROVE  Landed(t)' <=> Landed(t)
<1>1. /\ \A i \in 1..cursor : stream'[i] = stream[i]
      /\ \A i \in 1..cursor : stream[i].txn \in Committed' <=>
                              stream[i].txn \in Committed
  BY Settling
<1>2. \A i \in 1..checkpoint : i \in 1..cursor
  BY DEF Typed, TypeOK
<1> QED  BY <1>1, <1>2 DEF Landed

Flushing == phase \in {"resolved", "folding"}

\* A flush in progress reaches the leaves of what it has collected.
Routed ==
  Flushing => \A e \in Entries :
    e[1] \in CollectedTxns /\ e[2] \in Holders => <<e, e[2]>> \in routes

\* An entry is in a balance at most once, when the checkpoint has passed its
\* posting, and in its leaf then.
FoldedOnce ==
  \A x \in Holders, e \in Entries :
    /\ balance[x][e] \in {0, 1}
    /\ balance[x][e] = 1 => Landed(e[1])
    /\ x = e[2] /\ Landed(e[1]) => balance[x][e] = 1

FoldInv == Routed /\ FoldedOnce

LEMMA FoldInit == Init => FoldInv
  BY DEF Init, FoldInv, Routed, Flushing, FoldedOnce, Landed, Committed

LEMMA FoldStep == Typed /\ StreamInv /\ FoldInv /\ [Next]_vars => FoldInv'
<1> SUFFICES ASSUME Typed, StreamInv, FoldInv, [Next]_vars PROVE FoldInv'
  OBVIOUS
<1>1. ASSUME UNCHANGED <<checkpoint, balance>>  PROVE FoldedOnce'
  BY <1>1, LandedKept, EntryTyped DEF FoldInv, FoldedOnce
<1>2. ASSUME UNCHANGED <<checkpoint, cursor, routes>>, Flushing' => Flushing
      PROVE  Routed'
  BY <1>2, BatchKept DEF FoldInv, Routed
<1>3. ASSUME Restart  PROVE FoldInv'
  BY <1>1, <1>3 DEF Restart, FoldInv, Routed, Flushing
<1>4. CASE Resolve
  <2>1. UNCHANGED CollectedTxns /\ UNCHANGED <<checkpoint, balance>>
    BY <1>4, BatchKept DEF Resolve
  <2>2. ASSUME NEW e \in Entries, e[1] \in CollectedTxns, e[2] \in Holders
        PROVE  <<e, e[2]>> \in routes'
    <3>1. e \in Rolled
      BY <2>2, TimesOf DEF Rolled
    <3>2. e[2] \in FeedsOf(e[2])
      BY <2>2 DEF FeedsOf
    <3> QED  BY <1>4, <2>2, <3>1, <3>2 DEF Resolve
  <2> QED  BY <1>1, <2>1, <2>2 DEF FoldInv, Routed
<1>5. CASE Land
  <2>1. /\ checkpoint' = cursor /\ UNCHANGED <<pc, stream, cursor>>
        /\ phase = "folding" /\ phase' = "collecting"
    BY <1>5 DEF Land, postingVars
  <2>2. ASSUME NEW t \in Txns
        PROVE  /\ Landed(t)' <=> Landed(t) \/ t \in CollectedTxns
               /\ ~ (Landed(t) /\ t \in CollectedTxns)
    BY <2>1, CollectedLand DEF Committed
  <2>3. ASSUME NEW x \in Holders, NEW e \in Entries
        PROVE  /\ balance'[x][e] \in {0, 1}
               /\ balance'[x][e] = 1 => Landed(e[1])'
               /\ x = e[2] /\ Landed(e[1])' => balance'[x][e] = 1
    <3>1. balance'[x][e] =
            balance[x][e] + (IF <<e, x>> \in routes THEN Times(e) ELSE 0)
      BY <1>5 DEF Land
    <3>2. e[1] \in Txns
      BY EntryTyped
    <3>3. CASE e[1] \in CollectedTxns
      <4>1. balance[x][e] = 0 /\ Landed(e[1])'
        BY <2>2, <3>2, <3>3 DEF FoldInv, FoldedOnce
      <4>2. x = e[2] => <<e, x>> \in routes
        BY <2>1, <3>3 DEF FoldInv, Routed, Flushing
      <4> QED  BY <3>1, <3>3, <4>1, <4>2, TimesOf
    <3>4. CASE e[1] \notin CollectedTxns
      <4>1. balance'[x][e] = balance[x][e]
        BY <3>1, <3>4, TimesOf DEF FoldInv, FoldedOnce
      <4> QED  BY <2>2, <3>2, <3>4, <4>1 DEF FoldInv, FoldedOnce
    <3> QED  BY <3>3, <3>4
  <2> QED  BY <2>1, <2>3 DEF FoldInv, FoldedOnce, Routed, Flushing
<1>6. CASE Deliver
  BY <1>1, <1>6 DEF Deliver, FoldInv, Routed, Flushing
<1>7. CASE LockInvolved
  BY <1>1, <1>2, <1>7 DEF LockInvolved, FoldInv, Flushing
<1>8. CASE \/ \E t \in Txns : Enforce(t) \/ Publish(t) \/ Rollback(t)
           \/ \E c \in Changes : GuardChange(c) \/ ApplyChange(c)
           \/ \E x \in Lockable : LockAccount(x) \/ UnlockAccount(x)
           \/ CloseBooks \/ Pin \/ UNCHANGED vars
  <2>1. UNCHANGED handlerVars
    BY <1>8 DEF Enforce, Publish, PublishTransaction, PublishEntry, Finish,
       Rollback, GuardChange, ApplyChange, LockAccount, UnlockAccount,
       CloseBooks, Pin, vars, handlerVars
  <2> QED  BY <1>1, <1>2, <2>1 DEF handlerVars, FoldInv, Flushing
<1> QED
  BY <1>3, <1>4, <1>5, <1>6, <1>7, <1>8 DEF Next, Handle, FlushFails, Crash

LEMMA FoldAlways == Spec => []FoldInv
  BY FoldInit, FoldStep, TypedAlways, StreamAlways, PTL DEF Spec

\* However events interleave, batches split their groups, the handler crashes
\* and memberships change, no balance counts an entry twice
\* (EcRollupHandler, apply_batch).
THEOREM NothingTwice == Spec => []NeverTwice
<1>1. FoldInv => NeverTwice
  BY DEF FoldInv, FoldedOnce, NeverTwice
<1> QED  BY <1>1, FoldAlways, PTL

\* The leaves are folded exactly as far as the committed checkpoint says.
THEOREM FoldsToCheckpoint == Spec => []FoldedToCheckpoint
<1>1. FoldInv => FoldedToCheckpoint
  BY DEF FoldInv, FoldedOnce, Landed, FoldedToCheckpoint
<1> QED  BY <1>1, FoldAlways, PTL

----------------------------------------------------------------------------
(* Awaiting a frontier *)

\* A pinned frontier is at or after an event of each posting it covers.
Pinned ==
  /\ fence.frontier \in Nat
  /\ \A t \in fence.sequenced :
       /\ t \in Txns
       /\ \E i \in 1..Len(stream) : i <= fence.frontier /\ stream[i].txn = t

LEMMA PinnedStep == Typed /\ StreamInv /\ Pinned /\ [Next]_vars => Pinned'
<1> SUFFICES ASSUME Typed, StreamInv, Pinned, [Next]_vars PROVE Pinned'
  OBVIOUS
<1>l. Len(stream) \in Nat
  BY StreamTyped DEF Typed
<1>1. CASE Pin
  BY <1>1, <1>l DEF Pin, Frontier, postingVars, Pinned
<1>2. CASE UNCHANGED fence
  <2>1. Len(stream') \in Nat /\ Len(stream') >= Len(stream)
        /\ \A i \in 1..Len(stream) : stream'[i] = stream[i]
    BY <1>l, Growing
  <2> QED  BY <1>2, <1>l, <2>1 DEF Pinned
<1> QED
  BY <1>1, <1>2 DEF Next, Enforce, Publish, PublishTransaction, PublishEntry,
     Finish, Rollback, Deliver, Handle, Resolve, LockInvolved, Land, FlushFails,
     Crash, Restart, GuardChange, ApplyChange, LockAccount, UnlockAccount,
     CloseBooks, vars

\* What await_completion promises: at the frontier, every posting that had a
\* sequence when it was pinned has ended and is folded.
THEOREM FrontierCovers == Spec => []FenceCovers
<1>1. Init => Pinned
  BY DEF Init, NoFence, Pinned
<1>2. Typed /\ StreamInv /\ FoldInv /\ Pinned => FenceCovers
  <2> SUFFICES ASSUME Typed, StreamInv, FoldInv, Pinned,
                      checkpoint >= fence.frontier, NEW t \in fence.sequenced
               PROVE  /\ Ended(t)
                      /\ pc[t] = "committed" =>
                           \A a \in Targets[t] \cap Holders :
                             balance[a][<<t, a>>] = 1
    BY DEF FenceCovers, Ended
  <2>1. t \in Txns /\ \E i \in 1..checkpoint : stream[i].txn = t
    BY DEF Pinned, Typed, TypeOK
  <2>2. Ended(t)
    BY <2>1 DEF StreamInv, Delivered, Typed, TypeOK
  <2>3. ASSUME pc[t] = "committed", NEW a \in Targets[t] \cap Holders
        PROVE  balance[a][<<t, a>>] = 1
    <3>1. Landed(t)
      BY <2>1, <2>3 DEF Landed, Committed
    <3>2. <<t, a>> \in Entries
      BY <2>1, EntryTyped
    <3> QED  BY <3>1, <3>2 DEF FoldInv, FoldedOnce
  <2> QED  BY <2>2, <2>3
<1> QED
  BY <1>1, <1>2, PinnedStep, TypedAlways, StreamAlways, FoldAlways, PTL DEF Spec

----------------------------------------------------------------------------
(* The refinement, while set memberships rest *)

\* What a flush in progress folds: all it has collected, to all holders that
\* the accounts feed.
RoutedToAll ==
  Flushing => \A e \in Entries, x \in Holders :
    <<e, x>> \in routes <=> e[1] \in CollectedTxns /\ x \in FeedsOf(e[2])

LEMMA FeedsKept ==
  ASSUME Changes = {}, [Next]_vars PROVE UNCHANGED subsetOf
  BY DEF Next, Enforce, Publish, PublishTransaction, PublishEntry, Finish,
     Rollback, Deliver, Handle, Resolve, LockInvolved, Land, FlushFails, Crash,
     Restart, LockAccount, UnlockAccount, CloseBooks, Pin, vars, graphVars

LEMMA RoutedInit == Init => RoutedToAll
  BY DEF Init, RoutedToAll, Flushing

LEMMA RoutedStep ==
  ASSUME Changes = {}
  PROVE  Typed /\ StreamInv /\ RoutedToAll /\ [Next]_vars => RoutedToAll'
<1> SUFFICES ASSUME Typed, StreamInv, RoutedToAll, [Next]_vars
             PROVE  RoutedToAll'
  OBVIOUS
<1>1. \A a : UNCHANGED FeedsOf(a)
  BY FeedsKept DEF FeedsOf
<1>2. CASE Resolve
  <2>1. UNCHANGED CollectedTxns
    BY <1>2, BatchKept DEF Resolve
  <2>2. \A e \in Entries : e \in Rolled <=> e[1] \in CollectedTxns
    BY TimesOf DEF Rolled
  <2>3. \A e \in Entries, x \in Holders :
          <<e, x>> \in routes' <=> e \in Rolled /\ x \in FeedsOf(e[2])
    BY <1>2 DEF Resolve, Rolled
  <2> QED  BY <1>1, <2>1, <2>2, <2>3 DEF RoutedToAll
<1>3. CASE UNCHANGED <<checkpoint, cursor, routes>> /\ (Flushing' => Flushing)
  BY <1>1, <1>3, BatchKept DEF RoutedToAll
<1>4. CASE ~ Flushing'
  BY <1>4 DEF RoutedToAll
<1> QED
  BY <1>2, <1>3, <1>4 DEF Next, Enforce, Publish, PublishTransaction,
     PublishEntry, Finish, Rollback, Deliver, Handle, LockInvolved, Land,
     FlushFails, Crash, Restart, GuardChange, ApplyChange, LockAccount,
     UnlockAccount, CloseBooks, Pin, vars, handlerVars, Flushing

Feeds == {f \in Accounts \X Holders : f[2] \in FeedsOf(f[1])}

\* Applied is what the checkpoint has passed.
LEMMA AppliedIs ==
  ASSUME Typed, StreamInv, NEW t \in Txns PROVE t \in Applied <=> Landed(t)
<1>l. /\ Len(stream) \in Nat /\ checkpoint \in 0..Len(stream)
  BY StreamTyped DEF Typed, TypeOK
<1> QED  BY <1>l DEF Applied, Landed, StreamInv, Headed, TxCreated

LEMMA PromiseInit == Init => Promise!Init
  BY DEF Init, Promise!Init, Committed, Applied

LEMMA PromiseStep ==
  ASSUME Changes = {}
  PROVE  Typed /\ StreamInv /\ FoldInv /\ RoutedToAll /\ [Next]_vars
           => [Promise!Next]_(Promise!vars)
<1> SUFFICES ASSUME Typed, StreamInv, FoldInv, RoutedToAll, [Next]_vars
             PROVE  Promise!Next \/ UNCHANGED Promise!vars
  OBVIOUS
<1>1. UNCHANGED Feeds
  BY FeedsKept DEF Feeds, FeedsOf
<1>2. ASSUME UNCHANGED checkpoint  PROVE UNCHANGED Applied
  <2>1. /\ \A i \in 1..checkpoint : stream'[i] = stream[i]
        /\ \A i \in 1..checkpoint : stream[i].txn \in Committed' <=>
                                    stream[i].txn \in Committed
    <3>1. \A i \in 1..checkpoint : i \in 1..cursor
      BY DEF Typed, TypeOK
    <3> QED  BY <3>1, Settling
  <2>2. \A t : TxCreated(t).txn = t
    BY DEF TxCreated
  <2> QED  BY <1>2, <2>1, <2>2 DEF Applied
<1>3. ASSUME NEW t \in Txns, Finish(t)  PROVE Promise!Next
  <2>1. UNCHANGED <<checkpoint, balance>> /\ t \notin Committed
    BY <1>3 DEF Finish, handlerVars, Committed
  <2>2. Committed' = Committed \cup {t}
    BY <1>3 DEF Finish, Committed, Typed, TypeOK
  <2>3. Promise!Post(t)
    BY <1>1, <1>2, <2>1, <2>2 DEF Promise!Post, Feeds
  <2> QED  BY <2>3 DEF Promise!Next
<1>4. CASE Land
  <2>1. /\ checkpoint' = cursor /\ phase = "folding"
        /\ UNCHANGED <<pc, stream, Committed>>
    BY <1>4 DEF Land, postingVars, Committed
  <2>2. \A t \in Txns : Landed(t)' <=> Landed(t) \/ t \in CollectedTxns
    BY <2>1, CollectedLand
  <2>3. CollectedTxns \subseteq Committed \ Applied
    BY Collecting, CollectedTyped, AppliedIs DEF Landed
  <2>4. Applied' = Applied \cup CollectedTxns
    <3>1. ASSUME NEW t \in Txns  PROVE t \in Applied' <=> Landed(t)'
      <4>1. cursor \in 0..Len(stream) /\ Len(stream) \in Nat
        BY StreamTyped DEF Typed, TypeOK
      <4>2. t \in Applied' <=>
              t \in Committed /\ \E i \in 1..cursor : stream[i] = TxCreated(t)
        BY <2>1 DEF Applied
      <4>3. Landed(t)' <=>
              t \in Committed /\ \E i \in 1..cursor : stream[i].txn = t
        BY <2>1 DEF Landed
      <4>4. \A i \in 1..cursor : stream[i] = TxCreated(t) => stream[i].txn = t
        BY DEF TxCreated
      <4>5. \A i \in 1..cursor : stream[i].txn = t =>
              \E j \in 1..i : stream[j] = TxCreated(t)
        BY <4>1 DEF StreamInv, Headed
      <4> QED  BY <4>1, <4>2, <4>3, <4>4, <4>5
    <3>2. Applied \subseteq Txns /\ Applied' \subseteq Txns
      BY DEF Applied, Committed
    <3> QED  BY <2>2, <3>1, <3>2, AppliedIs, CollectedTyped
  <2>5. ASSUME NEW x \in Holders, NEW e \in Entries
        PROVE  (IF <<e, x>> \in routes THEN Times(e) ELSE 0)
                 = Promise!Counts(e, x, CollectedTxns)
    <3>1. <<e[2], x>> \in Feeds <=> x \in FeedsOf(e[2])
      BY EntryTyped DEF Feeds
    <3>2. <<e, x>> \in routes <=> e[1] \in CollectedTxns /\ x \in FeedsOf(e[2])
      BY <2>1 DEF RoutedToAll, Flushing
    <3> QED  BY <3>1, <3>2, TimesOf DEF Promise!Counts, Feeds
  <2>6. balance' = [x \in Holders |-> [e \in Entries |->
                      balance[x][e] + Promise!Counts(e, x, CollectedTxns)]]
    BY <1>4, <2>5 DEF Land
  <2>7. Promise!Roll(CollectedTxns)
    BY <1>1, <2>1, <2>4, <2>6 DEF Promise!Roll, Feeds
  <2>8. CASE CollectedTxns # {}
    BY <2>3, <2>7, <2>8 DEF Promise!Next
  <2>9. CASE CollectedTxns = {}
    <3>1. \A x \in Holders, e \in Entries :
            balance[x][e] + Promise!Counts(e, x, CollectedTxns) = balance[x][e]
      BY <2>9 DEF Promise!Counts, Typed, TypeOK
    <3>2. UNCHANGED balance
      BY <2>6, <3>1 DEF Typed, TypeOK
    <3> QED  BY <1>1, <2>1, <2>4, <2>9, <3>2 DEF Promise!vars, Feeds
  <2> QED  BY <2>8, <2>9
<1>5. ASSUME UNCHANGED <<checkpoint, balance, Committed>>
      PROVE  UNCHANGED Promise!vars
  BY <1>1, <1>2, <1>5 DEF Promise!vars, Feeds
<1>6. CASE \E t \in Txns : Enforce(t) \/ PublishTransaction(t)
                           \/ PublishEntry(t) \/ Rollback(t)
  <2>1. UNCHANGED <<checkpoint, balance>>
    BY <1>6 DEF Enforce, PublishTransaction, PublishEntry, Rollback, handlerVars
  <2>2. UNCHANGED Committed
    BY <1>6 DEF Enforce, PublishTransaction, PublishEntry, Rollback, Committed,
       Typed, TypeOK
  <2> QED  BY <1>5, <2>1, <2>2
<1>7. CASE \/ Deliver \/ Resolve \/ LockInvolved \/ FlushFails \/ Crash
           \/ \E x \in Lockable : LockAccount(x) \/ UnlockAccount(x)
           \/ CloseBooks \/ Pin \/ UNCHANGED vars
  <2>1. UNCHANGED <<pc, checkpoint, balance>>
    BY <1>7 DEF Deliver, Resolve, LockInvolved, FlushFails, Crash, Restart,
       LockAccount, UnlockAccount, CloseBooks, Pin, vars, postingVars,
       handlerVars
  <2> QED  BY <1>5, <2>1 DEF Committed
<1> QED  BY <1>3, <1>4, <1>6, <1>7 DEF Next, Publish, Handle

\* While set memberships rest, the stream, its batches, the top-up, the dropped
\* stragglers and the crashes implement ExactRollup: each posting is applied
\* once, whole (EcRollupHandler).
THEOREM Implements ==
  ASSUME Changes = {} PROVE Spec => AppliesExactly
<1>1. Spec => [](Typed /\ StreamInv /\ FoldInv /\ RoutedToAll)
  BY RoutedInit, RoutedStep, TypedAlways, StreamAlways, FoldAlways, PTL DEF Spec
<1> QED
  BY <1>1, PromiseInit, PromiseStep, PTL DEF Spec, AppliesExactly, Promise!Spec

----------------------------------------------------------------------------
(* What a set holds, while set memberships rest *)

\* The sets above D along S are D and what contains one of them.
LEMMA UpIs ==
  ASSUME NEW D \in SUBSET Sets, NEW S \in SUBSET (Sets \X Sets), NEW s \in Sets
  PROVE  s \in Up(D, S) <=> s \in D \/ \E t \in Up(D, S) : <<s, t>> \in S
<1>1. ASSUME s \in D \/ \E t \in Up(D, S) : <<s, t>> \in S
      PROVE  s \in Up(D, S)
  <2> SUFFICES ASSUME NEW C \in SUBSET Sets, D \subseteq C,
                      \A e \in S : e[2] \in C => e[1] \in C
               PROVE  s \in C
    BY DEF Up
  <2> QED  BY <1>1 DEF Up
<1>2. ASSUME s \in Up(D, S), s \notin D, ~ \E t \in Up(D, S) : <<s, t>> \in S
      PROVE  FALSE
  <2> DEFINE C == Up(D, S) \ {s}
  <2>1. C \in SUBSET Sets
    BY DEF Up
  <2>2. D \subseteq C
    BY <1>2 DEF Up
  <2>3. ASSUME NEW e \in S, e[2] \in C  PROVE e[1] \in C
    <3>1. e[1] \in Sets /\ e = <<e[1], e[2]>>
      OBVIOUS
    <3>2. e[1] \in Up(D, S)
      BY <2>3, <3>1 DEF Up
    <3> QED  BY <1>2, <2>3, <3>1, <3>2
  <2>4. s \in C
    <3> HIDE DEF C
    <3> QED  BY <1>2, <2>1, <2>2, <2>3 DEF Up
  <2> QED  BY <2>4
<1> QED  BY <1>1, <1>2

\* Every EC holder has exactly the landed entries of the accounts that feed it.
Exactly ==
  /\ subsetOf = InitSubsets
  /\ \A x \in Holders, e \in Entries :
       balance[x][e] = IF Landed(e[1]) /\ x \in FeedsOf(e[2]) THEN 1 ELSE 0

LEMMA ExactlyInit == Init => Exactly
  BY DEF Init, Exactly, Landed, Committed

LEMMA ExactlyStep ==
  ASSUME Changes = {}
  PROVE  Typed /\ StreamInv /\ RoutedToAll /\ Exactly /\ [Next]_vars => Exactly'
<1> SUFFICES ASSUME Typed, StreamInv, RoutedToAll, Exactly, [Next]_vars
             PROVE  Exactly'
  OBVIOUS
<1>1. UNCHANGED subsetOf /\ \A a : UNCHANGED FeedsOf(a)
  BY FeedsKept DEF FeedsOf
<1>2. ASSUME UNCHANGED <<checkpoint, balance>>  PROVE Exactly'
  BY <1>1, <1>2, LandedKept, EntryTyped DEF Exactly
<1>3. CASE Land
  <2>1. /\ checkpoint' = cursor /\ UNCHANGED <<pc, stream>> /\ phase = "folding"
    BY <1>3 DEF Land, postingVars
  <2>2. ASSUME NEW t \in Txns
        PROVE  /\ Landed(t)' <=> Landed(t) \/ t \in CollectedTxns
               /\ ~ (Landed(t) /\ t \in CollectedTxns)
    BY <2>1, CollectedLand DEF Committed
  <2>3. ASSUME NEW x \in Holders, NEW e \in Entries
        PROVE  balance'[x][e] =
                 IF Landed(e[1])' /\ x \in FeedsOf(e[2]) THEN 1 ELSE 0
    <3>1. balance'[x][e] =
            balance[x][e] + (IF <<e, x>> \in routes THEN Times(e) ELSE 0)
      BY <1>3 DEF Land
    <3>2. e[1] \in Txns
      BY EntryTyped
    <3>3. <<e, x>> \in routes <=> e[1] \in CollectedTxns /\ x \in FeedsOf(e[2])
      BY <2>1 DEF RoutedToAll, Flushing
    <3> QED  BY <2>2, <3>1, <3>2, <3>3, TimesOf DEF Exactly
  <2> QED  BY <1>1, <2>3 DEF Exactly
<1> QED
  BY <1>2, <1>3 DEF Next, Enforce, Publish, PublishTransaction,
     PublishEntry, Finish, Rollback, Deliver, Handle, Resolve, LockInvolved,
     FlushFails, Crash, Restart, GuardChange, ApplyChange, LockAccount,
     UnlockAccount, CloseBooks, Pin, vars, handlerVars

\* The members of an EC set are EC.
MembersEC == \A e \in Members \cup InitSubsets : e[1] \in EC => e[2] \in EC

\* While set memberships rest, an EC set whose members are EC holds just the
\* entries that its members hold, at every level and however far the rollup
\* lags (EcRollupHandler, apply_batch).
THEOREM SetsHoldMembers ==
  ASSUME Changes = {}, MembersEC PROVE Spec => []SetHoldsItsMembers
<1>1. ASSUME Exactly  PROVE SetHoldsItsMembers
  <2> SUFFICES ASSUME NEW s \in Sets \cap Holders, NEW e \in Entries
        PROVE  balance[s][e] > 0 <=>
                 \E m \in Holders : /\ <<s, m>> \in Members \cup subsetOf
                                    /\ balance[m][e] > 0
    BY DEF SetHoldsItsMembers
  <2> DEFINE a == e[2]
             D == {t \in Sets : <<t, a>> \in Members}
             above == Up(D, subsetOf)
  <2>1. \A x \in Holders : balance[x][e] > 0 <=>
          Landed(e[1]) /\ x \in FeedsOf(a)
    BY <1>1 DEF Exactly
  <2>2. a \in Accounts /\ a \notin Sets /\ s \notin Accounts
    BY EntryTyped, RollupAssumption
  <2>3. \A x \in Holders : x \in FeedsOf(a) <=> x = a \/ x \in above
    BY DEF FeedsOf
  <2>4. above \subseteq Sets
    BY DEF Up
  <2>5. s \in above <=> s \in D \/ \E t \in above : <<s, t>> \in subsetOf
    <3>1. D \in SUBSET Sets /\ subsetOf \in SUBSET (Sets \X Sets) /\ s \in Sets
      BY <1>1, RollupAssumption DEF Exactly
    <3> HIDE DEF D
    <3> QED  BY <3>1, UpIs
  <2>6. \A m : <<s, m>> \in Members => m \in Accounts \cap Holders
    BY RollupAssumption DEF MembersEC, Holders
  <2>7. \A m : <<s, m>> \in subsetOf => m \in Sets \cap Holders
    <3>1. \A m : <<s, m>> \in InitSubsets => m \in Sets /\ m \in EC
      <4> SUFFICES ASSUME NEW m, <<s, m>> \in InitSubsets
                   PROVE  m \in Sets /\ m \in EC
        OBVIOUS
      <4>1. m \in Sets
        BY RollupAssumption
      <4>2. <<s, m>>[1] \in EC => <<s, m>>[2] \in EC
        BY DEF MembersEC
      <4> QED  BY <4>1, <4>2 DEF Holders
    <3> QED  BY <1>1, <3>1 DEF Exactly, Holders
  <2> HIDE DEF above
  <2>8. s \in FeedsOf(a) <=>
          \E m \in Holders : <<s, m>> \in Members \cup subsetOf /\ m \in FeedsOf(a)
    <3>1. ASSUME s \in D
          PROVE  \E m \in Holders : <<s, m>> \in Members \cup subsetOf
                                   /\ m \in FeedsOf(a)
      <4>1. <<s, a>> \in Members
        BY <3>1
      <4>2. a \in Holders
        BY <2>6, <4>1
      <4> QED  BY <2>3, <4>1, <4>2
    <3>2. ASSUME NEW t \in above, <<s, t>> \in subsetOf
          PROVE  \E m \in Holders : <<s, m>> \in Members \cup subsetOf
                                   /\ m \in FeedsOf(a)
      <4>1. t \in Holders
        BY <2>7, <3>2
      <4> QED  BY <2>3, <3>2, <4>1
    <3>3. ASSUME NEW m \in Holders, <<s, m>> \in Members, m \in FeedsOf(a)
          PROVE  s \in D
      <4>1. m \notin Sets
        BY <2>6, <3>3, RollupAssumption
      <4>2. m = a
        BY <2>3, <2>4, <3>3, <4>1
      <4> QED  BY <3>3, <4>2
    <3>4. ASSUME NEW m \in Holders, <<s, m>> \in subsetOf, m \in FeedsOf(a)
          PROVE  m \in above
      BY <2>2, <2>3, <2>7, <3>4
    <3>5. s \in FeedsOf(a) <=> s \in above
      BY <2>2, <2>3
    <3> QED  BY <2>5, <3>1, <3>2, <3>3, <3>4, <3>5
  <2> QED  BY <2>1, <2>8
<1>2. Spec => []Exactly
  BY RoutedInit, RoutedStep, ExactlyInit, ExactlyStep, TypedAlways, StreamAlways,
     PTL DEF Spec
<1> QED  BY <1>1, <1>2, PTL
=============================================================================
