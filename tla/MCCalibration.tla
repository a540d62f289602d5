---------------------------- MODULE MCCalibration ----------------------------
(***************************************************************************)
(* Calibration with two real emails and one probe email, two candidates    *)
(* and one judged field.                                                   *)
(***************************************************************************)
EXTENDS Calibration, TLC

CONSTANTS a, b, owner, second, stray, v1, v2, planted, null

Key(i, c) == [item |-> i, candidate |-> c, field |-> "issue"]

MCKeyOrder == <<Key(1, a), Key(1, b), Key(2, a), Key(2, b), Key(3, a), Key(3, b)>>
MCKeys == {MCKeyOrder[i] : i \in DOMAIN MCKeyOrder}

\* Where a set of keys has one verdict and the rest the other.
Fails(keys) == [k \in MCKeys |-> IF k \in keys THEN "fail" ELSE "pass"]

Failing == {Key(1, a), Key(2, b), Key(3, a), Key(3, b)}

\* The interval of a small sample is wide unless the verdicts agree throughout.
MCLowInterval(sample) == \E k \in DOMAIN sample : sample[k][1] # sample[k][2]

Texts3(x, y, z) == 1 :> x @@ 2 :> y @@ 3 :> z

\* The second measurement differs in one text; in the third both fail on the probe.
MCOutputs ==
    {a :> Texts3(v1, v1, v1) @@ b :> Texts3(v1, v1, v1),
     a :> Texts3(v2, v1, v1) @@ b :> Texts3(v1, v1, v1),
     a :> Texts3(v1, v1, null) @@ b :> Texts3(v1, v1, null)}

MCLabellings ==
    {[by |-> second, owner |-> Fails(Failing), other |-> Fails(Failing), final |-> Fails({})],
     [by |-> second, owner |-> Fails(Failing), other |-> Fails(Failing \ {Key(2, b)}),
      final |-> Fails({})]}

\* The judge agrees but for an error on a real email, or disagrees on one and errs on a
\* probe email.
MCJudgements ==
    {[Fails(Failing) EXCEPT ![Key(2, b)] = null],
     [Fails(Failing \ {Key(1, a)}) EXCEPT ![Key(3, b)] = null]}

MCRepeats == {<<"pass", null, "fail">>}

Row(k, who, round, verdict, text) ==
    [key |-> k, annotator |-> who, round |-> round, verdict |-> verdict, text |-> text]

MCStrayRows ==
    {Row(Key(2, b), owner, "adjudication", "fail", v1),
     Row(Key(2, b), owner, "adjudication", "pass", v2),
     Row(Key(1, b), owner, "adjudication", "pass", v1),
     Row(Key(2, b), second, "adjudication", "pass", v1),
     Row(Key(1, a), owner, "initial", "pass", v2),
     Row(Key(3, a), second, "initial", "pass", v1),
     Row(Key(2, a), stray, "initial", "pass", v1)}

Plant(k) == [key |-> k, text |-> planted]

MCOverlays ==
    {<<>>, <<Plant(Key(3, a))>>, <<Plant(Key(3, a)), Plant(Key(3, a))>>, <<Plant(Key(1, a))>>}
=============================================================================
