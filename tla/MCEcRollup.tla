----------------------------- MODULE MCEcRollup -----------------------------
(* Small instances of EcRollup. *)
EXTENDS EcRollup, TLC

CONSTANTS t1, t2, a, b, s, u

\* Two postings; t1 writes to both leaves.
McTargets == t1 :> {a, b} @@ t2 :> {a}
OneEach == t1 :> {a} @@ t2 :> {b}

\* a below s, b below u.
McMembers == {<<s, a>>, <<u, b>>}
Nested == {<<u, s>>}
NoSubsets == {}

Joining == {[kind |-> "add", edge |-> <<u, s>>]}
NoChanges == {}
=============================================================================
