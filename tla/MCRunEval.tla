----------------------------- MODULE MCRunEval -----------------------------
(***************************************************************************)
(* RunEval on small instances; the cfg files choose what the environment   *)
(* does.                                                                   *)
(***************************************************************************)
EXTENDS RunEval

CONSTANTS w1, w2

MCWorkers == {w1, w2}

\* Threads are interchangeable: nothing orders or names them.
Symmetry == Permutations(MCWorkers)
=============================================================================
