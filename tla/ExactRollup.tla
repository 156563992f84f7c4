----------------------------- MODULE ExactRollup -----------------------------
(***************************************************************************)
(* What the balances of eventually consistent holders promise: transactions *)
(* are posted in any order, and later, some at a time, applied: every entry *)
(* of an applied transaction is added once to every holder that feeds on    *)
(* its account at that moment, and to no other.  There is no notion of a    *)
(* stream, a batch or a crash here.                                         *)
(***************************************************************************)
EXTENDS Naturals

CONSTANTS Txns, Holders, Entries  \* an entry is <<transaction, account>>

VARIABLES
  posted,   \* committed transactions
  applied,  \* those whose entries are in the balances
  feeds,    \* <<account, holder>>: the account's entries count for the holder
  balance   \* how many times each entry has been added to each holder

vars == <<posted, applied, feeds, balance>>

Init ==
  /\ posted = {} /\ applied = {}
  /\ balance = [x \in Holders |-> [e \in Entries |-> 0]]

Post(t) ==
  /\ t \notin posted
  /\ posted' = posted \cup {t}
  /\ UNCHANGED <<applied, feeds, balance>>

Counts(e, x, T) == IF e[1] \in T /\ <<e[2], x>> \in feeds THEN 1 ELSE 0

Roll(T) ==
  /\ applied' = applied \cup T
  /\ balance' = [x \in Holders |->
                   [e \in Entries |-> balance[x][e] + Counts(e, x, T)]]
  /\ UNCHANGED <<posted, feeds>>

Regroup == feeds' # feeds /\ UNCHANGED <<posted, applied, balance>>

Next ==
  \/ \E t \in Txns : Post(t)
  \/ \E T \in SUBSET (posted \ applied) : T # {} /\ Roll(T)
  \/ Regroup

Spec == Init /\ [][Next]_vars
=============================================================================
