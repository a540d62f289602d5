-------------------------- MODULE MCBaselineUpdate --------------------------
(***************************************************************************)
(* BaselineUpdate on small instances.                                      *)
(***************************************************************************)
EXTENDS BaselineUpdate

CONSTANTS u1, u2

OneUpdater  == {u1}
TwoUpdaters == {u1, u2}

Both   == {Candidates}
Either == {Candidates, {"a"}, {"b"}}
=============================================================================
