---------------------------- MODULE MCVelocity ----------------------------
(***************************************************************************)
(* A small instance of Velocity: accounts x and y below the set s.  The    *)
(* control c is attached to s with the limit l, which has two windows; m   *)
(* is a limit of pending balances that c may gain, and that applies late.  *)
(***************************************************************************)
EXTENDS Velocity, TLC

CONSTANTS p1, p2, o1, o2, x, y, s, c, l, m, w1, w2, none

MCSetsOf == [a \in {x, y} |-> {s}]
MCKinds == {1, 2, 3}
\* The condition excludes the third kind.
MCCondition == [d \in {c} |-> {1, 2}]
MCWindowOf == [d \in {l, m} |->
  IF d = l THEN <<w1, w2, w1>> ELSE <<w1, none, w1>>]
MCRanges == [d \in {l, m} |->
  IF d = l
  THEN {[layer |-> 1, side |-> 1, amount |-> 2, start |-> 0, end |-> 3]}
  ELSE {[layer |-> 2, side |-> 1, amount |-> 2, start |-> 2, end |-> 3],
        [layer |-> 1, side |-> -1, amount |-> 1, start |-> 0, end |-> 2]}]
MCRank == [i \in {s, x, y, c, l, m, w1, w2} |->
  CASE i = x -> 1 [] i = s -> 2 [] i = y -> 3 [] i = c -> 1
    [] i = l -> 1 [] i = m -> 2 [] i = w1 -> 1 [] i = w2 -> 2]

Entry(a, k, layer, units) ==
  [account |-> a, kind |-> k, layer |-> layer, units |-> units]
MCBatches == {
  <<Entry(x, 1, 1, 2), Entry(y, 2, 1, 1)>>,
  <<Entry(y, 2, 1, 2), Entry(x, 1, 2, 1), Entry(x, 1, 1, -1)>>,
  <<Entry(x, 1, 1, 3), Entry(y, 1, 1, -2)>>,
  <<Entry(y, 3, 1, 3)>>}

MCAttachments == {[control |-> c, holders |-> {x, y}]}
MCInitLimits == [d \in {c} |-> {l}]
MCInitAttached == {[holder |-> s, control |-> c, limits |-> {l}]}

Interchangeable == Permutations(Posters) \cup Permutations(Attachers)
=============================================================================
