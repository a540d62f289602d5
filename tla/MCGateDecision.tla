--------------------------- MODULE MCGateDecision ---------------------------
(***************************************************************************)
(* GateDecision on small instances: three nominal and two adversarial      *)
(* items, two replicates, and judge errors around the budget.              *)
(***************************************************************************)
EXTENDS GateDecision

Nominal     == {"n1", "n2", "n3"}
Adversarial == {"x1", "x2"}
Items       == Nominal \cup Adversarial

Good  == [det |-> 5, judged |-> [f \in JudgedFields |-> 1], called |-> TRUE]
Bad   == [Good EXCEPT !.det = 4, !.judged["issue_summary"] = 0]

\* The judge does not answer on one field.
Lose(row) == [row EXCEPT !.judged["requested_action"] = Missing]

\* Items have a row each, the same on k replicates, but for judge errors.
Artifact(nominal, k, row, lost, identity) ==
    [state |-> "whole", nominal |-> nominal, adversarial |-> Adversarial, k |-> k,
     identity |-> identity,
     rows |-> [s \in (nominal \cup Adversarial) \X (1 .. k) |->
                IF s \in lost THEN Lose(row[s[1]]) ELSE row[s[1]]]]

Baseline(nominal, row, lost, certified) ==
    LET art == Artifact(nominal, 1, row, lost, "v1") IN
    [state |-> "whole", nominal |-> art.nominal, adversarial |-> art.adversarial,
     k |-> art.k, rows |-> art.rows, components |-> Components(art, certified)]

AllGood   == [i \in Items |-> Good]
AllBad    == [i \in Items |-> Bad]
Mixed     == [AllGood EXCEPT !["n1"] = Bad, !["x1"] = Bad]
Failing   == [AllGood EXCEPT !["n2"] = FailedRow]

\* n2 and n3 change together, x2 does not change.
Rows == {row \in [Items -> {Good, Bad}] : row["n2"] = row["n3"] /\ row["x2"] = Good}

\* Up to three judge errors; with five items and two replicates two are within
\* a budget of 10 percent.
Errors == {lost \in SUBSET {<<"n1", 1>>, <<"n2", 1>>, <<"x2", 1>>, <<"x2", 2>>} :
            Cardinality(lost) <= 3}

\* The last of a's baselines has no measured nominal item; nothing checks the
\* judge errors of a baseline.
Committed == [c \in Candidates |->
    IF c = "a"
    THEN {Absent, Unreadable,
          Baseline(Nominal, AllGood, {}, "adequate"), Baseline(Nominal, AllGood, {}, "inadequate"),
          Baseline(Nominal, Mixed, {}, "adequate"), Baseline(Nominal, Mixed, {<<"n1", 1>>}, "adequate"),
          Baseline(Nominal, AllGood, Nominal \X {1}, "adequate")}
    ELSE {Absent, Baseline(Nominal, AllGood, {}, "adequate")}]

AllRuns == [c \in Candidates |->
    IF c = "a"
    THEN {Artifact(Nominal, 2, row, lost, "v1") : row \in Rows, lost \in Errors}
    ELSE {Artifact(Nominal, 2, row, {}, "v1") : row \in {AllGood, AllBad, Failing}}
            \cup {Artifact(Nominal, 2, AllGood, {}, "v2"),
                  Artifact(Nominal \ {"n3"}, 2, AllGood, {}, "v1")}]
=============================================================================
