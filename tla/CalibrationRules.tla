--------------------------- MODULE CalibrationRules ---------------------------
(***************************************************************************)
(* The pure part of src/harness/calibrate.py: what a labels file must look *)
(* like, the gold verdicts it stands for, which overlay rows are valid,    *)
(* how judgments pair with gold, and the certificate computed from them.   *)
(*                                                                         *)
(* A key is an (item_id, candidate, field).  A text stands for the output  *)
(* of a candidate and for its hash: hash_output normalises nothing.        *)
(* A KappaResult stands for the sample it is computed from, a function     *)
(* from keys to pairs of verdicts: the point estimate and the bootstrap    *)
(* interval, whose seed is fixed, are functions of it.                     *)
(***************************************************************************)
EXTENDS Integers, Sequences, FiniteSets

CONSTANTS Keys,              \* records [item, candidate, field]
          ProbeItems,        \* items of emails-fail-probe.jsonl
          Candidates,        \* {"a", "b"}
          Annotators,        \* who may sign a row
          Owner,             \* OWNER_ANNOTATOR
          Texts,             \* outputs, planted ones included
          KeyOrder,          \* every key once, sorted by (item_id, candidate, field)
          SelfConsistencyN,  \* triples of the self-consistency measurement
          LowInterval(_),    \* the interval of a sample starts below 0.4
          None

ASSUME KeyAssumption ==
    /\ Owner \in Annotators
    /\ \A k \in Keys : k.candidate \in Candidates
    /\ KeyOrder \in Seq(Keys)
    /\ \A k \in Keys : \E i \in DOMAIN KeyOrder : KeyOrder[i] = k
    /\ \A i, j \in DOMAIN KeyOrder : KeyOrder[i] = KeyOrder[j] => i = j
    /\ SelfConsistencyN \in Nat
    /\ None \notin Texts \cup {"pass", "fail"}
    /\ None \notin {"ValueError", "DualAnnotationError", "CalibrationBindingError",
                    "PerturbationOverlayError"}

Verdicts == {"pass", "fail"}

\* CalibrationLabel: one line of labels.jsonl.
LabelRows == [key : Keys, annotator : Annotators, round : {"initial", "adjudication"},
              verdict : Verdicts, text : Texts]

\* PerturbationOverlay: one line of perturbations.jsonl.
OverlayRows == [key : Keys, text : Texts]

\* Some of the keys in the order of KeyOrder: the n-th has n of them up to itself.
Position(k) == CHOOSE i \in DOMAIN KeyOrder : KeyOrder[i] = k

InOrder(keys) ==
    [n \in 1..Cardinality(keys) |->
        CHOOSE k \in keys : Cardinality({j \in keys : Position(j) <= Position(k)}) = n]

-----------------------------------------------------------------------------
(* Labels.  A check answers the exception it raises, or None. *)

\* _labels_by_annotator_round, and _initial_labels_by_annotator for one annotator.
Lines(labels, annotator, round) ==
    {i \in DOMAIN labels : labels[i].annotator = annotator /\ labels[i].round = round}

KeysOfLines(labels, lines) == {labels[i].key : i \in lines}

Repeated(labels, lines) ==
    \E i, j \in lines : i # j /\ labels[i].key = labels[j].key

ByKey(labels, annotator, round) ==
    LET lines == Lines(labels, annotator, round)
    IN  [k \in KeysOfLines(labels, lines) |->
            labels[CHOOSE i \in lines : labels[i].key = k]]

InitialAnnotators(labels) == {a \in Annotators : Lines(labels, a, "initial") # {}}

OwnerLabels(labels) == ByKey(labels, Owner, "initial")

\* DualAnnotatorCoverage: the second annotator is whoever else signed.
Coverage(labels) ==
    [owner |-> OwnerLabels(labels),
     other |-> ByKey(labels, CHOOSE a \in InitialAnnotators(labels) : a # Owner, "initial")]

\* The keys the two annotators agree on.
Agreed(c) == {k \in DOMAIN c.owner : c.owner[k].verdict = c.other[k].verdict}

\* _verify_dual_annotator_coverage.
CoverageError(labels) ==
    LET c == Coverage(labels) IN
    IF \E a \in Annotators : Repeated(labels, Lines(labels, a, "initial"))
    THEN "ValueError"
    ELSE IF Cardinality(InitialAnnotators(labels)) # 2 \/ Owner \notin InitialAnnotators(labels)
    THEN "DualAnnotationError"
    ELSE IF DOMAIN c.other # DOMAIN c.owner THEN "DualAnnotationError"
    ELSE IF \E k \in DOMAIN c.owner : c.owner[k].text # c.other[k].text
    THEN "CalibrationBindingError"
    ELSE None

Adjudications(labels) == ByKey(labels, Owner, "adjudication")

\* Faulty variant of AdjudicationError: rows on agreed keys are ignored.
AdjudicationError_AgreedIgnored(labels, c) ==
    IF Repeated(labels, Lines(labels, Owner, "adjudication"))
    THEN "ValueError"
    ELSE IF \/ \E a \in Annotators \ {Owner} : Lines(labels, a, "adjudication") # {}
            \/ ~(DOMAIN Adjudications(labels) \subseteq DOMAIN c.owner)
    THEN "DualAnnotationError"
    ELSE None

\* _validate_adjudication_round.
AdjudicationError(labels, c) ==
    IF Repeated(labels, Lines(labels, Owner, "adjudication"))
    THEN "ValueError"
    ELSE IF \/ \E a \in Annotators \ {Owner} : Lines(labels, a, "adjudication") # {}
            \/ DOMAIN Adjudications(labels) \cap Agreed(c) # {}
            \/ ~(DOMAIN Adjudications(labels) \subseteq DOMAIN c.owner)
    THEN "DualAnnotationError"
    ELSE None

\* resolve_gold_labels, as far as it may raise.
GoldError(labels) ==
    LET c == Coverage(labels)
        adjudications == Adjudications(labels)
    IN  IF CoverageError(labels) # None THEN CoverageError(labels)
        ELSE IF AdjudicationError(labels, c) # None THEN AdjudicationError(labels, c)
        ELSE IF \E k \in DOMAIN adjudications : adjudications[k].text # c.owner[k].text
        THEN "CalibrationBindingError"
        ELSE IF \E k \in DOMAIN c.owner \ Agreed(c) : k \notin DOMAIN adjudications
        THEN "DualAnnotationError"
        ELSE None

\* resolve_gold_labels, of a file with no error.
Gold(labels) ==
    LET c == Coverage(labels)
        agreed == Agreed(c)
        adjudications == Adjudications(labels)
    IN  [k \in DOMAIN c.owner |->
            LET row == IF k \in agreed THEN c.owner[k] ELSE adjudications[k]
            IN  [verdict |-> row.verdict, text |-> row.text,
                 source  |-> IF k \in agreed THEN "agreement" ELSE "adjudication"]]

-----------------------------------------------------------------------------
(* The perturbation overlay. *)

\* validate_perturbation_overlay.
OverlayError(overlay, probeIds, probeKeys) ==
    IF \/ \E i, j \in DOMAIN overlay : i # j /\ overlay[i].key = overlay[j].key
       \/ \E i \in DOMAIN overlay : overlay[i].key.item \notin probeIds
       \/ \E i \in DOMAIN overlay : overlay[i].key \notin probeKeys
    THEN "PerturbationOverlayError" ELSE None

OverlayKeys(overlay) == {overlay[i].key : i \in DOMAIN overlay}

\* Faulty variant of ApplyOverlay: the row takes the place of its text.
ApplyOverlay_WholeRow(texts, overlay) ==
    [k \in DOMAIN texts |->
        IF k \in OverlayKeys(overlay)
        THEN overlay[CHOOSE i \in DOMAIN overlay : overlay[i].key = k]
        ELSE texts[k]]

\* apply_perturbation_overlay: texts maps the keys of the triples to their outputs.
ApplyOverlay(texts, overlay) ==
    [k \in DOMAIN texts |->
        IF k \in OverlayKeys(overlay)
        THEN overlay[CHOOSE i \in DOMAIN overlay : overlay[i].key = k].text
        ELSE texts[k]]

-----------------------------------------------------------------------------
(* Pairing and statistics.  judged maps keys to [verdict, text]. *)

\* Faulty variant of PairError: labels are not bound to the output they describe.
PairError_Unbound(judged, gold) ==
    IF DOMAIN judged # DOMAIN gold THEN "DualAnnotationError" ELSE None

\* _pair_entries, as far as it may raise.
PairError(judged, gold) ==
    IF \E k \in DOMAIN judged \cap DOMAIN gold : judged[k].text # gold[k].text
    THEN "CalibrationBindingError"
    ELSE IF DOMAIN judged # DOMAIN gold THEN "DualAnnotationError"
    ELSE None

\* valid_keys: a judge error (no verdict) is the one gap _pair_entries tolerates.
ValidKeys(judged) == {k \in DOMAIN judged : judged[k].verdict # None}

\* A sample: pairs of verdicts (reference, other) by key.
SubSample(sample, keys) == [k \in DOMAIN sample \cap keys |-> sample[k]]

Count(sample, position, verdict) == Cardinality({k \in DOMAIN sample : sample[k][position] = verdict})

OneCategory(sample) == \E v \in Verdicts : \A k \in DOMAIN sample : sample[k] = <<v, v>>

ClustersOf(sample) == {k.item : k \in DOMAIN sample}

\* _handle_nan_replicates, of the jackknife: the estimate is undefined whichever
\* cluster is left out.
UndefinedWithoutAny(sample) ==
    \A c \in ClustersOf(sample) :
        OneCategory(SubSample(sample, {k \in DOMAIN sample : k.item # c}))

\* Whether bca_ci raises ValueError.
NoInterval(sample) ==
    \/ Cardinality(DOMAIN sample) < 2
    \/ OneCategory(sample)
    \/ Cardinality(ClustersOf(sample)) < 2
    \/ UndefinedWithoutAny(sample)

\* cohens_kappa raises what the interval raises; its own check comes first.
KappaRaises(sample) == Cardinality(DOMAIN sample) < 2 \/ NoInterval(sample)

\* _kappa_point_estimate = (n agree - chance) / (n^2 - chance), by counts.
KappaAtLeast(sample, tenths) ==
    LET n      == Cardinality(DOMAIN sample)
        agree  == Cardinality({k \in DOMAIN sample : sample[k][1] = sample[k][2]})
        chance == Count(sample, 1, "pass") * Count(sample, 2, "pass")
                  + Count(sample, 1, "fail") * Count(sample, 2, "fail")
    IN  10 * (n * agree - chance) >= tenths * (n * n - chance)

\* decide_verdict.
Adequacy(sample) ==
    IF ~KappaAtLeast(sample, 6) THEN "inadequate"
    ELSE IF LowInterval(sample) THEN "adequate_with_caveat" ELSE "adequate"

\* compute_real_only_kappa: None rather than an undefined estimate.
RealOnly(sample, probeIds) ==
    LET real == SubSample(sample, {k \in Keys : k.item \notin probeIds})
    IN  IF Cardinality(DOMAIN real) < 2 \/ OneCategory(real) THEN None ELSE real

\* select_fixed_self_consistency_triples.
FixedKeys(keys) ==
    LET sorted == InOrder(keys)
    IN  {sorted[i] : i \in {j \in DOMAIN sorted : j <= SelfConsistencyN}}

\* _self_consistency_from_records: keys whose determinate verdicts differ.
Flipped(repeats) ==
    {k \in DOMAIN repeats :
        \E i, j \in DOMAIN repeats[k] :
            repeats[k][i] # repeats[k][j] /\ None \notin {repeats[k][i], repeats[k][j]}}

-----------------------------------------------------------------------------
(* The result of a calibration. *)

\* compute_agreement: gold against the judge, over the valid keys.
AgreementSample(judged, gold) ==
    [k \in ValidKeys(judged) |-> <<gold[k].verdict, judged[k].verdict>>]

PerCandidate(sample) ==
    [c \in {k.candidate : k \in DOMAIN sample} |->
        SubSample(sample, {k \in Keys : k.candidate = c})]

\* Faulty variant of CeilingSample: every doubly labelled key counts.
CeilingSample_AllKeys(labels, keys) ==
    LET c == Coverage(labels)
    IN  [k \in DOMAIN c.owner |-> <<c.owner[k].verdict, c.other[k].verdict>>]

\* compute_iaa_ceiling: the two annotators, over the same keys.
CeilingSample(labels, keys) ==
    LET c == Coverage(labels)
    IN  [k \in DOMAIN c.owner \cap keys |-> <<c.owner[k].verdict, c.other[k].verdict>>]

\* A ValueError out of the statistics: nothing was paired, or a kappa is undefined.
StatisticsError(judged, labels, probeIds) ==
    LET sample == AgreementSample(judged, Gold(labels))
        by     == PerCandidate(sample)
        real   == RealOnly(sample, probeIds)
    IN  IF \/ KappaRaises(sample)
           \/ \E c \in DOMAIN by : KappaRaises(by[c])
           \/ KappaRaises(CeilingSample(labels, ValidKeys(judged)))
           \/ probeIds # {} /\ real # None /\ KappaRaises(real)
        THEN "ValueError" ELSE None

Adjudicated(gold, keys) == {k \in DOMAIN gold \cap keys : gold[k].source = "adjudication"}

\* run_calibration and build_certificate.  The probe disclosures are None when
\* no probe set was used; probeIds # {} stands for has_probe_set.
Result(judged, labels, overlay, probeIds, repeats, judgeVersion, hash) ==
    LET gold     == Gold(labels)
        sample   == AgreementSample(judged, gold)
        disclose == probeIds # {}
    IN  [judgeVersion  |-> judgeVersion,
         labelFileHash |-> hash,
         overall       |-> sample,
         perCandidate  |-> PerCandidate(sample),
         verdict       |-> Adequacy(sample),
         ceiling       |-> CeilingSample(labels, ValidKeys(judged)),
         nAdjudicated  |-> Cardinality(Adjudicated(gold, ValidKeys(judged))),
         flipped       |-> Flipped(repeats),
         ownerFails    |-> Cardinality({i \in Lines(labels, Owner, "initial") :
                                        labels[i].verdict = "fail"}),
         nPerturbed    |-> IF disclose THEN Cardinality(OverlayKeys(overlay)) ELSE None,
         realOnly      |-> IF disclose THEN RealOnly(sample, probeIds) ELSE None,
         passedByGold  |-> IF disclose
                           THEN Cardinality({k \in OverlayKeys(overlay) \cap DOMAIN gold :
                                             gold[k].verdict = "pass"})
                           ELSE None]

-----------------------------------------------------------------------------
(* What a labels file that is accepted means, said without the order of    *)
(* the checks.                                                             *)

ExactlyOne(labels, key, annotator, round) ==
    /\ key \in KeysOfLines(labels, Lines(labels, annotator, round))
    /\ \A i, j \in Lines(labels, annotator, round) :
           labels[i].key = key /\ labels[j].key = key => i = j

RowOf(labels, key, annotator, round) ==
    labels[CHOOSE i \in Lines(labels, annotator, round) : labels[i].key = key]

\* Two annotators, the owner and another, signed one initial row each of every
\* key; the owner signed one adjudication of every key they disagree on and of
\* no other; all the rows of a key are about the same text.
WellFormed(labels) ==
    /\ labels # <<>>
    /\ \E other \in Annotators \ {Owner} :
          /\ \A i \in DOMAIN labels :
                 <<labels[i].annotator, labels[i].round>> \in
                     {<<Owner, "initial">>, <<other, "initial">>, <<Owner, "adjudication">>}
          /\ \A k \in {labels[i].key : i \in DOMAIN labels} :
                 /\ ExactlyOne(labels, k, Owner, "initial")
                 /\ ExactlyOne(labels, k, other, "initial")
                 /\ \A i, j \in DOMAIN labels :
                        labels[i].key = k /\ labels[j].key = k => labels[i].text = labels[j].text
                 /\ IF RowOf(labels, k, Owner, "initial").verdict
                           = RowOf(labels, k, other, "initial").verdict
                    THEN k \notin KeysOfLines(labels, Lines(labels, Owner, "adjudication"))
                    ELSE ExactlyOne(labels, k, Owner, "adjudication")
=============================================================================
