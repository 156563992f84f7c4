-------------------------- MODULE MCSetGraphCache --------------------------
(***************************************************************************)
(* A small instance of SetGraphCache: a chain x below p below q, of which  *)
(* x is created while transactions run.                                    *)
(***************************************************************************)
EXTENDS SetGraphCache, TLC

CONSTANTS r1, r2, t1, t2, x, p, q

MCSets == {x, p, q}

Chain == {<<p, x>>, <<q, p>>}
Upper == {<<q, p>>}
Parents == {p, q}
One == {{x}, {p}}

=============================================================================
