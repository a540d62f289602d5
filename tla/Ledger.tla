------------------------------- MODULE Ledger -------------------------------
(***************************************************************************)
(* What a run directory promises whoever uses it (the docstrings of        *)
(* run_eval and RunArtifact in src/harness/runner.py): a measurement, once *)
(* persisted, is there for good and is never taken again, and a run is     *)
(* only called complete when every task has been measured.                 *)
(***************************************************************************)
CONSTANT Tasks

VARIABLES measured,  \* tasks with a persisted row
          certified  \* the manifest says completed

vars == <<measured, certified>>

Init ==
    /\ measured = {}
    /\ certified = FALSE

Measure(t) ==
    /\ t \in Tasks \ measured
    /\ measured' = measured \cup {t}
    /\ UNCHANGED certified

Certify ==
    /\ measured = Tasks
    /\ certified' = TRUE
    /\ UNCHANGED measured

\* The manifest can be damaged; the measurements cannot.
Damage ==
    /\ certified
    /\ certified' = FALSE
    /\ UNCHANGED measured

Next == (\E t \in Tasks : Measure(t)) \/ Certify \/ Damage

Spec == Init /\ [][Next]_vars
=============================================================================
