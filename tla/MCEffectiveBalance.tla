------------------------- MODULE MCEffectiveBalance -------------------------
(***************************************************************************)
(* A small instance of EffectiveBalance: three dates, batches of one and   *)
(* two postings, on one date and on two, that touch no layer of the        *)
(* balance, one or two; fewer for an eventually consistent account.        *)
(***************************************************************************)
EXTENDS EffectiveBalance, TLC

CONSTANTS settled, pending, encumbrance, p1, p2

At(day, layers) == [effective |-> day, layers |-> layers]

MCDays == 1..3
Inline ==
  {<<At(2, <<settled>>)>>, <<At(3, <<pending>>)>>,
   <<At(1, <<settled, pending>>)>>,
   <<At(2, <<pending>>), At(1, <<encumbrance>>)>>,
   <<At(2, <<settled, pending>>), At(2, <<settled>>)>>,
   <<At(1, <<>>), At(3, <<settled>>)>>}

\* Batches of an eventually consistent account, whose rollup takes one posting
\* after the other.
Streamed ==
  {<<At(2, <<settled>>)>>, <<At(3, <<pending>>), At(1, <<settled>>)>>}

MCBatches == [inline |-> Inline, eventual |-> Streamed]

Symmetry == Permutations(Posters)
=============================================================================
