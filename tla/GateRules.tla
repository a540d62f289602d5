------------------------------ MODULE GateRules ------------------------------
(***************************************************************************)
(* The decision rule of the gate, without floating point: gate/gate.py and *)
(* gate/baseline.py with scoring/composite.py and stats/permutation.py.    *)
(* Composites are kept as numbers of points (a point is one field scored   *)
(* 1), means as sums with their denominators; a fraction of 100 is         *)
(* compared after multiplying out.  What only fills the summary (BCa       *)
(* interval, MDE, usage) takes no part in a verdict and is left out.       *)
(***************************************************************************)
EXTENDS Integers, FiniteSets, Functions

CONSTANTS Margin,        \* gate.margin, in composite points of 100
          Alpha,         \* gate.alpha, in percent
          ErrorBudget,   \* JUDGE_ERROR_RATE_BUDGET, in percent
          Threshold      \* GUARDRAIL_THRESHOLD_POINTS

ASSUME RulesAssumption ==
    /\ Margin \in Nat
    /\ Alpha \in 0 .. 100
    /\ ErrorBudget \in 0 .. 100
    /\ Threshold \in Nat \ {0}

JudgedFields == {"issue_summary", "requested_action"}

\* A field whose judge call errored has no score.
Missing == -1

\* A row: how many of the five deterministic fields scored 1, the judged
\* fields, and whether the judge was called.
JudgedRow == [det : 0 .. 5, judged : [JudgedFields -> {0, 1, Missing}], called : {TRUE}]
FailedRow == [det |-> 0, judged |-> [f \in JudgedFields |-> 0], called |-> FALSE]
Row       == JudgedRow \cup {FailedRow}

(***************************************************************************)
(* A run, or the run a baseline repacks: its two slices, its number of     *)
(* replicates, a row for each item and replicate, and its identity.        *)
(***************************************************************************)
Slots(art) == (art.nominal \cup art.adversarial) \X (1 .. art.k)

IsArtifact(art) ==
    /\ IsFiniteSet(art.nominal) /\ IsFiniteSet(art.adversarial)
    /\ art.nominal \cap art.adversarial = {}
    /\ art.k \in Nat \ {0}
    /\ art.rows \in [Slots(art) -> Row]

-----------------------------------------------------------------------------
(* Composites *)

\* _resolve_composite_mode.
ModeOf(verdict) == IF verdict = "inadequate" THEN "DETERMINISTIC_5" ELSE "FULL_7"

FieldCount(mode) == IF mode = "FULL_7" THEN 7 ELSE 5

\* No field that the mode includes is missing.
Measured(row, mode) ==
    mode = "FULL_7" => \A f \in JudgedFields : row.judged[f] # Missing

\* composite() is 100 * Points / FieldCount.
Points(row, mode) ==
    IF mode = "FULL_7" THEN row.det + SumFunction(row.judged) ELSE row.det

PointsOver(art, slots, mode) == SumFunction([s \in slots |-> Points(art.rows[s], mode)])

-----------------------------------------------------------------------------
(* Paired deltas of the nominal slice *)

\* Faulty variant of ItemMeasured: one replicate is enough.
ItemMeasured_Some(art, item, mode) ==
    \E s \in {item} \X (1 .. art.k) : Measured(art.rows[s], mode)

\* An item drops out when any of its replicates misses a field.
ItemMeasured(art, item, mode) ==
    \A s \in {item} \X (1 .. art.k) : Measured(art.rows[s], mode)

ItemPoints(art, item, mode) == PointsOver(art, {item} \X (1 .. art.k), mode)

Paired(base, run, mode) ==
    {item \in base.nominal : ItemMeasured(base, item, mode) /\ ItemMeasured(run, item, mode)}

\* What a delta has been multiplied by to be an integer number of points of 100.
DeltaUnit(base, run, mode) == FieldCount(mode) * base.k * run.k

\* current - baseline, per item, averaged over the replicates of each side.
PairedDeltas(base, run, mode) ==
    [item \in Paired(base, run, mode) |->
        100 * (base.k * ItemPoints(run, item, mode) - run.k * ItemPoints(base, item, mode))]

-----------------------------------------------------------------------------
(* The sign-flip test, one-sided: exact mode, for at most 20 nonzero deltas *)

Nonzero(deltas) == {i \in DOMAIN deltas : deltas[i] # 0}

Flip(deltas, flipped) == [i \in DOMAIN deltas |-> IF i \in flipped THEN -deltas[i] ELSE deltas[i]]

\* Faulty variant of Extreme: ties with the observed mean are dropped.
Extreme_Strict(deltas) ==
    {flipped \in SUBSET Nonzero(deltas) :
        SumFunction(Flip(deltas, flipped)) < SumFunction(deltas)}

\* The sign assignments whose mean is at most the observed one.
Extreme(deltas) ==
    {flipped \in SUBSET Nonzero(deltas) :
        SumFunction(Flip(deltas, flipped)) <= SumFunction(deltas)}

\* p < alpha.
Rejects(deltas) ==
    100 * Cardinality(Extreme(deltas)) < Alpha * Cardinality(SUBSET Nonzero(deltas))

-----------------------------------------------------------------------------
(* Verdict of one candidate *)

StatFail(base, run, mode) ==
    LET deltas == PairedDeltas(base, run, mode) IN
    /\ Rejects(deltas)
    /\ -SumFunction(deltas) > Margin * Cardinality(DOMAIN deltas) * DeltaUnit(base, run, mode)

\* The adversarial rows that have a composite, whatever the other side has.
AdversarialSlots(art, mode) ==
    {s \in art.adversarial \X (1 .. art.k) : Measured(art.rows[s], mode)}

\* Faulty variant of GuardrailTripped: the two sides are swapped.
GuardrailTripped_Swapped(base, run, mode) ==
    LET b == AdversarialSlots(base, mode)
        r == AdversarialSlots(run, mode)
        unit == Cardinality(b) * Cardinality(r)
    IN  /\ b # {} /\ r # {}
        /\ 100 * (PointsOver(base, b, mode) * Cardinality(r) - PointsOver(run, r, mode) * Cardinality(b))
            <= -Threshold * FieldCount(mode) * unit

\* The difference of the two means is -Threshold or less; no data, no difference.
GuardrailTripped(base, run, mode) ==
    LET b == AdversarialSlots(base, mode)
        r == AdversarialSlots(run, mode)
        unit == Cardinality(b) * Cardinality(r)
    IN  /\ b # {} /\ r # {}
        /\ 100 * (PointsOver(run, r, mode) * Cardinality(b) - PointsOver(base, b, mode) * Cardinality(r))
            <= -Threshold * FieldCount(mode) * unit

Verdict(base, run, mode) ==
    IF StatFail(base, run, mode) \/ GuardrailTripped(base, run, mode) THEN "fail" ELSE "pass"

-----------------------------------------------------------------------------
(* What keeps a candidate from getting a verdict *)

\* judge_error_rate(run) > JUDGE_ERROR_RATE_BUDGET; without calls the rate is 0.
OverBudget(run) ==
    LET calls  == 2 * Cardinality({s \in Slots(run) : run.rows[s].called})
        errors == Cardinality({e \in Slots(run) \X JudgedFields :
                                run.rows[e[1]].judged[e[2]] = Missing})
    IN  100 * errors > ErrorBudget * calls

\* fingerprint_components_from_run.
Components(run, certificate) ==
    [versions |-> run.identity, composite_mode |-> ModeOf(certificate),
     calibration_verdict |-> certificate]

\* Every component must agree; a served version that one side lacks differs too.
FingerprintAgrees(base, run, certificate) == base.components = Components(run, certificate)

\* The checks of evaluate_gate on one candidate, in their order.
Problem(base, run, certificate, demo) ==
    IF ~demo /\ ~FingerprintAgrees(base, run, certificate) THEN "FingerprintMismatch"
    ELSE IF OverBudget(run)                                THEN "JudgeErrorBudgetExceeded"
    ELSE IF base.nominal # run.nominal                     THEN "NominalItemSetMismatch"
    ELSE IF Paired(base, run, ModeOf(certificate)) = {}    THEN "ValueError"
    ELSE "none"
=============================================================================
