----------------------------- MODULE Calibration -----------------------------
(***************************************************************************)
(* eval calibrate, live and --offline, over the files it shares with the   *)
(* people and the commands around it: the candidate runs, labels.jsonl,    *)
(* the fail-probe emails, perturbations.jsonl, judgments.jsonl and         *)
(* certificate.json.  A live calibration lasts minutes to hours; the files *)
(* may change at any moment of it.  One calibration runs at a time:        *)
(* nothing in the code sees to that.                                       *)
(***************************************************************************)
EXTENDS CalibrationRules

CONSTANTS MainItems,      \* items of emails.jsonl
          Outputs,          \* what the runs may produce: candidates to items to texts
          Labellings,       \* what annotators may decide: see Annotate
          Judgements,       \* what the judge may answer: keys to verdicts or None
          RepeatAnswers,    \* what its repeats on one triple may be
          StrayRows,        \* label rows an edit may add
          Overlays,         \* what perturbations.jsonl may hold
          NumRubrics,       \* bound: judge versions
          MaxEdits,         \* bound: edits of labels, overlay and probe emails
          MaxRegenerations, \* bound: runs measured outside of a calibration
          MaxFaults         \* bound: kills and exceptions out of a write

Items == MainItems \cup ProbeItems

\* What judgments.jsonl may hold: the judge's version, its verdicts and the texts
\* they are about, the keys of the probe emails and the repeats.
JudgmentFiles ==
    [judgeVersion : 1..NumRubrics,
     judged  : UNION {[keys -> [verdict : Verdicts \cup {None}, text : Texts]] :
                        keys \in SUBSET Keys},
     probe   : SUBSET Keys,
     repeats : UNION {[keys -> RepeatAnswers] : keys \in SUBSET Keys}]

ASSUME CalibrationAssumption ==
    /\ MainItems \cap ProbeItems = {} /\ ProbeItems # {}
    /\ \A k \in Keys : k.item \in Items
    /\ Outputs \subseteq [Candidates -> [Items -> Texts \cup {None}]]
    /\ StrayRows \subseteq LabelRows
    /\ \A l \in Labellings : /\ l.by \in Annotators
                              /\ l.owner \in [Keys -> Verdicts] /\ l.other \in [Keys -> Verdicts]
                              /\ l.final \in [Keys -> Verdicts]
    /\ Judgements \subseteq [Keys -> Verdicts \cup {None}]
    /\ Overlays \subseteq Seq(OverlayRows) /\ <<>> \in Overlays
    /\ None \notin JudgmentFiles /\ None \notin {"StaleJudgmentsError", "FileNotFoundError"}
    /\ NumRubrics \in Nat \ {0}
    /\ MaxEdits \in Nat /\ MaxRegenerations \in Nat /\ MaxFaults \in Nat

VARIABLES
    \* The files; an empty sequence is also an absent file.
    runs,         \* what each candidate's completed runs hold, None before the first
    labels,       \* labels.jsonl
    overlay,      \* perturbations.jsonl
    probeFile,    \* emails-fail-probe.jsonl exists
    judgments,    \* judgments.jsonl
    certificate,  \* certificate.json
    rubric,       \* judge_version() of the installed code
    \* The calibrate command.
    pc,           \* where it is
    mem,          \* what it holds in memory
    spent,        \* what it has paid for: "runs" measured now, its own "judge" calls
    outcome,      \* how it ended
    \* History and bounds.
    settled,      \* the latest live calibration that ran to its end
    budget        \* environment events left, by kind

files   == <<runs, labels, overlay, probeFile, judgments, certificate>>
command == <<pc, mem, spent, outcome>>
vars    == <<files, rubric, command, settled, budget>>

-----------------------------------------------------------------------------
NoMemory == [offline |-> FALSE, labels |-> <<>>, overlay |-> <<>>, probe |-> FALSE,
             judgeVersion |-> 0, hash |-> <<>>, texts |-> None, judged |-> None,
             repeats |-> None, result |-> None]

\* A certificate.json left without its end.
Torn == [torn |-> TRUE]

Kinds == {"edit", "regenerate", "fault"}

Spend(kind) ==
    /\ budget[kind] > 0
    /\ budget' = [budget EXCEPT ![kind] = @ - 1]

Init ==
    /\ runs = None
    /\ labels = <<>>
    /\ overlay \in Overlays
    /\ probeFile \in BOOLEAN
    /\ judgments = None /\ certificate = None
    /\ rubric = 1
    /\ pc = "idle" /\ mem = NoMemory /\ spent = {} /\ outcome = None
    /\ settled = None
    /\ budget = [kind \in Kinds |-> CASE kind = "edit"       -> MaxEdits
                                      [] kind = "regenerate" -> MaxRegenerations
                                      [] kind = "fault"      -> MaxFaults]

-----------------------------------------------------------------------------
(* Triples *)

\* build_triples of both candidates' runs: an item whose output is a candidate
\* failure (None) gives none.
TriplesOf(run, items) ==
    [k \in {key \in Keys : key.item \in items /\ run[key.candidate][key.item] # None} |->
        run[k.candidate][k.item]]

ProbeIds(probe) == IF probe THEN ProbeItems ELSE {}

ProbeKeys(texts) == {k \in DOMAIN texts : k.item \in ProbeItems}

\* What a calibration judges, and an annotator is shown.
Shown(run, probe, rows) == ApplyOverlay(TriplesOf(run, MainItems \cup ProbeIds(probe)), rows)

-----------------------------------------------------------------------------
(* eval calibrate *)

End(how) ==
    /\ pc' = "ended"
    /\ outcome' = how

LoadFiles(offline) ==
    mem' = [NoMemory EXCEPT !.offline = offline, !.labels = labels, !.overlay = overlay,
                            !.probe = probeFile, !.judgeVersion = rubric]

\* Faulty variant of Begin: gold is left for run_calibration to resolve.
Begin_GoldLater ==
    /\ pc = "idle"
    /\ LoadFiles(FALSE)
    /\ pc' = "runs"
    /\ UNCHANGED <<files, rubric, spent, outcome, settled, budget>>

\* The live command loads its files and resolves gold at once; without Langfuse
\* credentials it ends before a client exists.
Begin ==
    /\ pc = "idle"
    /\ LoadFiles(FALSE)
    /\ IF GoldError(labels) # None
       THEN End(GoldError(labels))
       ELSE \/ pc' = "runs" /\ UNCHANGED outcome
            \/ End("MissingTracingError")
    /\ UNCHANGED <<files, rubric, spent, settled, budget>>

\* _get_or_run for every candidate: completed runs are reused, or measured now,
\* which has judge calls of its own, or the measurement aborts; a client may not
\* come about, the judge's last of all.  The label file is hashed only after that.
ObtainRuns ==
    /\ pc = "runs"
    /\ \/ /\ IF runs = None
             THEN runs' \in Outputs /\ spent' = {"runs"}
             ELSE UNCHANGED <<runs, spent>>
          /\ mem' = [mem EXCEPT !.texts = TriplesOf(runs', MainItems \cup ProbeIds(mem.probe)),
                                !.hash  = labels]
          /\ pc' = "overlaying"
          /\ UNCHANGED outcome
       \/ /\ runs = None
          /\ End("RunAborted")
          /\ spent' = {"runs"}
          /\ UNCHANGED <<runs, mem>>
       \/ /\ End("MissingApiKeyError")
          /\ \/ UNCHANGED <<runs, spent>>
             \/ runs = None /\ runs' \in Outputs /\ spent' = {"runs"}
          /\ UNCHANGED mem
    /\ UNCHANGED <<labels, overlay, probeFile, judgments, certificate, rubric, settled, budget>>

\* run_calibration up to its first judge call.
Overlay ==
    LET error == OverlayError(mem.overlay, ProbeIds(mem.probe), ProbeKeys(mem.texts))
    IN  /\ pc = "overlaying"
        /\ IF error # None
           THEN End(error) /\ UNCHANGED mem
           ELSE /\ mem' = [mem EXCEPT !.texts = ApplyOverlay(mem.texts, mem.overlay)]
                /\ pc' = "judging"
                /\ UNCHANGED outcome
        /\ UNCHANGED <<files, rubric, spent, settled, budget>>

\* judge_triples, then the pairing and the statistics of its answers.  The
\* repeats of the self-consistency measurement fall between two statistics; no
\* exception depends on them.
JudgeAll(answer, repeat) ==
    LET judged  == [k \in DOMAIN mem.texts |-> [verdict |-> answer[k], text |-> mem.texts[k]]]
        repeats == [k \in FixedKeys(DOMAIN mem.texts) |-> repeat]
        probeIds == ProbeIds(mem.probe)
        error   == IF PairError(judged, Gold(mem.labels)) # None
                   THEN PairError(judged, Gold(mem.labels))
                   ELSE StatisticsError(judged, mem.labels, probeIds)
    IN  /\ pc = "judging"
        /\ spent' = spent \cup {"judge"}
        /\ IF error # None
           THEN End(error) /\ mem' = [mem EXCEPT !.judged = judged]
           ELSE /\ mem' = [mem EXCEPT
                     !.judged  = judged,
                     !.repeats = repeats,
                     !.result  = Result(judged, mem.labels, mem.overlay, probeIds, repeats,
                                        mem.judgeVersion, mem.hash)]
                /\ pc' = "certifying"
                /\ UNCHANGED outcome
        /\ UNCHANGED <<files, rubric, settled, budget>>

\* A judge call raises, having exhausted its retries: its answers are lost.
JudgeRaises ==
    /\ pc = "judging"
    /\ spent' = spent \cup {"judge"}
    /\ End("TransportExhausted")
    /\ UNCHANGED <<files, rubric, mem, settled, budget>>

\* run_calibration_offline, as far as it may raise: judged, the probe set and the
\* repeats are what judgments.jsonl holds.
OfflineError(j) ==
    LET probeIds == {k.item : k \in j.probe}
    IN  IF j.judgeVersion # rubric THEN "StaleJudgmentsError"
        ELSE IF GoldError(labels) # None THEN GoldError(labels)
        ELSE IF OverlayError(overlay, probeIds, j.probe) # None
        THEN OverlayError(overlay, probeIds, j.probe)
        ELSE IF PairError(j.judged, Gold(labels)) # None
        THEN PairError(j.judged, Gold(labels))
        ELSE StatisticsError(j.judged, labels, probeIds)

\* Faulty variant of OfflineResult: any judged probe item is taken for a real one.
OfflineResult_NoProbe(j) ==
    Result(j.judged, labels, overlay, {}, j.repeats, rubric, labels)

OfflineResult(j) ==
    Result(j.judged, labels, overlay, {k.item : k \in j.probe}, j.repeats, rubric, labels)

\* The offline command up to the write of its certificate.  It makes no call, and
\* reads its files at once compared with the pace at which they change.
Recompute ==
    LET error == IF judgments = None THEN "FileNotFoundError" ELSE OfflineError(judgments)
        loaded == [NoMemory EXCEPT !.offline = TRUE, !.labels = labels, !.overlay = overlay,
                                   !.judgeVersion = rubric, !.hash = labels]
    IN  /\ pc = "idle"
        /\ IF error # None
           THEN End(error) /\ mem' = loaded
           ELSE /\ mem' = [loaded EXCEPT !.judged = judgments.judged,
                                         !.result = OfflineResult(judgments)]
                /\ pc' = "certifying"
                /\ UNCHANGED outcome
        /\ UNCHANGED <<files, rubric, spent, settled, budget>>

\* write_certificate; the offline command ends with it.
WriteCertificate ==
    /\ pc = "certifying"
    /\ certificate' = mem.result
    /\ IF mem.offline THEN End("ok") ELSE pc' = "persisting" /\ UNCHANGED outcome
    /\ UNCHANGED <<runs, labels, overlay, probeFile, judgments, rubric, mem, spent, settled,
                   budget>>

\* write_text raises, the file truncated or not: neither file is written any more.
CertificateFails ==
    /\ pc = "certifying"
    /\ Spend("fault")
    /\ certificate' \in {certificate, Torn}
    /\ End("OSError")
    /\ UNCHANGED <<runs, labels, overlay, probeFile, judgments, rubric, mem, spent, settled>>

\* judgment_records_from_judged.
JudgmentRecords ==
    [judgeVersion |-> mem.judgeVersion, judged |-> mem.judged, probe |-> ProbeKeys(mem.judged),
     repeats |-> mem.repeats]

\* What a live calibration that ends leaves behind, and with how many faults to come.
Settlement ==
    [labels |-> mem.labels, overlay |-> mem.overlay, probe |-> mem.probe,
     judge |-> mem.judgeVersion, texts |-> mem.texts, certificate |-> certificate,
     faultsLeft |-> budget["fault"]]

\* Faulty variant of WriteJudgments: a file that is there is left alone.
WriteJudgments_Once ==
    /\ pc = "persisting"
    /\ judgments' = IF judgments = None THEN JudgmentRecords ELSE judgments
    /\ settled' = Settlement
    /\ End("ok")
    /\ UNCHANGED <<runs, labels, overlay, probeFile, certificate, rubric, mem, spent, budget>>

\* write_judgments_jsonl: a temporary file and one os.replace.
WriteJudgments ==
    /\ pc = "persisting"
    /\ judgments' = JudgmentRecords
    /\ settled' = Settlement
    /\ End("ok")
    /\ UNCHANGED <<runs, labels, overlay, probeFile, certificate, rubric, mem, spent, budget>>

\* The temporary file cannot be written or moved: judgments.jsonl stays what it
\* was, next to a certificate of other judgments.
JudgmentsFail ==
    /\ pc = "persisting"
    /\ Spend("fault")
    /\ End("OSError")
    /\ UNCHANGED <<files, rubric, mem, spent, settled>>

\* The process is gone.
Exit ==
    /\ pc = "ended"
    /\ pc' = "idle" /\ mem' = NoMemory /\ spent' = {} /\ outcome' = None
    /\ UNCHANGED <<files, rubric, settled, budget>>

-----------------------------------------------------------------------------
(* Around the command: people, eval run, and the machine *)

Elsewhere == pc # "ended" /\ UNCHANGED <<command, settled>>

\* Both annotators fill in the sheets labeling_template_rows makes of what is
\* there to be judged, and the owner adjudicates their disagreements.
Sheets(texts, l) ==
    LET keys == InOrder(DOMAIN texts)
        split == InOrder({k \in DOMAIN texts : l.owner[k] # l.other[k]})
        Rows(ks, annotator, round, verdicts) ==
            [i \in DOMAIN ks |-> [key |-> ks[i], annotator |-> annotator, round |-> round,
                                  verdict |-> verdicts[ks[i]], text |-> texts[ks[i]]]]
    IN  Rows(keys, Owner, "initial", l.owner) \o Rows(keys, l.by, "initial", l.other)
        \o Rows(split, Owner, "adjudication", l.final)

Annotate(l) ==
    /\ Elsewhere
    /\ runs # None
    /\ labels' = Sheets(Shown(runs, probeFile, overlay), l)
    /\ IF labels = <<>> THEN UNCHANGED budget ELSE Spend("edit")
    /\ UNCHANGED <<runs, overlay, probeFile, judgments, certificate, rubric>>

Without(seq, i) == SubSeq(seq, 1, i - 1) \o SubSeq(seq, i + 1, Len(seq))

Other(verdict) == CHOOSE v \in Verdicts : v # verdict

\* A line of labels.jsonl is lost, added or changed.
EditLabels ==
    /\ Elsewhere
    /\ labels # <<>>
    /\ \/ \E i \in DOMAIN labels : labels' = Without(labels, i)
       \/ \E row \in StrayRows : labels' = Append(labels, row)
       \/ \E i \in DOMAIN labels : labels' = [labels EXCEPT ![i].verdict = Other(@)]
    /\ Spend("edit")
    /\ UNCHANGED <<runs, overlay, probeFile, judgments, certificate, rubric>>

EditOverlay ==
    /\ Elsewhere
    /\ overlay' \in Overlays \ {overlay}
    /\ Spend("edit")
    /\ UNCHANGED <<runs, labels, probeFile, judgments, certificate, rubric>>

\* The fail-probe emails are added or removed.
EditProbe ==
    /\ Elsewhere
    /\ probeFile' = ~probeFile
    /\ Spend("edit")
    /\ UNCHANGED <<runs, labels, overlay, judgments, certificate, rubric>>

\* The run directories are measured, or removed and measured again.
Regenerate ==
    /\ Elsewhere
    /\ runs' \in Outputs \ {runs}
    /\ Spend("regenerate")
    /\ UNCHANGED <<labels, overlay, probeFile, judgments, certificate, rubric>>

\* The judge prompt, the rubric or its few-shots change; a process that runs
\* keeps what it has imported.
EditRubric ==
    /\ Elsewhere
    /\ rubric < NumRubrics
    /\ rubric' = rubric + 1
    /\ UNCHANGED <<files, budget>>

\* A kill; certificate.json is truncated and written in place.
Kill ==
    /\ pc \notin {"idle", "ended"}
    /\ Spend("fault")
    /\ certificate' \in {certificate} \cup (IF pc = "certifying" THEN {Torn} ELSE {})
    /\ End("killed")
    /\ UNCHANGED <<runs, labels, overlay, probeFile, judgments, rubric, mem, spent, settled>>

-----------------------------------------------------------------------------
Calibrate ==
    \/ Begin \/ ObtainRuns \/ Overlay
    \/ \E answer \in Judgements, repeat \in RepeatAnswers : JudgeAll(answer, repeat)
    \/ JudgeRaises
    \/ Recompute
    \/ WriteCertificate \/ CertificateFails
    \/ WriteJudgments \/ JudgmentsFail
    \/ Exit

Environment ==
    \/ \E l \in Labellings : Annotate(l)
    \/ EditLabels \/ EditOverlay \/ EditProbe \/ Regenerate \/ EditRubric
    \/ Kill

Next == Calibrate \/ Environment

Spec == Init /\ [][Next]_vars

-----------------------------------------------------------------------------
(* Properties *)

TypeOK ==
    /\ runs = None \/ runs \in Outputs
    /\ labels \in Seq(LabelRows)
    /\ overlay \in Overlays
    /\ probeFile \in BOOLEAN
    /\ rubric \in 1..NumRubrics
    /\ pc \in {"idle", "runs", "overlaying", "judging", "certifying", "persisting", "ended"}
    /\ mem.labels \in Seq(LabelRows) /\ mem.overlay \in Overlays
    /\ mem.judgeVersion \in 0..NumRubrics
    /\ mem.texts # None => \A k \in DOMAIN mem.texts : mem.texts[k] \in Texts
    /\ spent \subseteq {"runs", "judge"}
    /\ budget \in [Kinds -> Nat]

\* The checks of resolve_gold_labels, one after the other, accept exactly the
\* files in which two annotators signed every key once, about one text, and the
\* owner adjudicated their disagreements and nothing else, whatever lines were
\* lost, added or changed.
AcceptedIffWellFormed == GoldError(labels) = None <=> WellFormed(labels)

\* A label file that is not in order costs no client, no run and no judge call,
\* and a broken overlay no judge call of the calibration's own, whatever happens
\* to the files meanwhile.  Runs are measured before the overlay is looked at.
NoWorkOnBadFiles ==
    /\ pc \notin {"idle", "ended"} \/ spent # {} => WellFormed(mem.labels)
    /\ "judge" \in spent =>
          /\ OverlayKeys(mem.overlay) \subseteq ProbeKeys(mem.texts)
          /\ Cardinality(OverlayKeys(mem.overlay)) = Len(mem.overlay)

\* The owner's last row about a key.
LastWord(rows, k) ==
    LET round == IF k \in KeysOfLines(rows, Lines(rows, Owner, "adjudication"))
                 THEN "adjudication" ELSE "initial"
    IN  RowOf(rows, k, Owner, round)

\* What a certificate counts as agreement or disagreement is the judge's verdict
\* on a text against the owner's last word on that very text: no regenerated
\* run or stale row comes between the two; and a planted text was judged where
\* the overlay plants it, unless the overlay was edited after the judging.
VerdictsAreAboutOneText ==
    mem.result # None =>
        \A k \in DOMAIN mem.result.overall :
            /\ mem.result.overall[k] = <<LastWord(mem.labels, k).verdict, mem.judged[k].verdict>>
            /\ \A i \in DOMAIN mem.labels :
                   mem.labels[i].key = k => mem.labels[i].text = mem.judged[k].text
            /\ k \in OverlayKeys(mem.overlay) /\ (mem.offline => mem.overlay = settled.overlay) =>
                   \E i \in DOMAIN mem.overlay :
                       mem.overlay[i] = [key |-> k, text |-> mem.judged[k].text]

\* Judge kappa, the ceiling, the per-candidate kappas and n_adjudicated describe
\* the same keys: those the judge gave a verdict on.
OnePopulation ==
    mem.result # None =>
        LET r == mem.result IN
        /\ DOMAIN r.overall = {k \in DOMAIN mem.judged : mem.judged[k].verdict # None}
        /\ DOMAIN r.ceiling = DOMAIN r.overall
        /\ UNION {DOMAIN r.perCandidate[c] : c \in DOMAIN r.perCandidate} = DOMAIN r.overall
        /\ r.nAdjudicated = Cardinality({k \in DOMAIN r.ceiling : r.ceiling[k][1] # r.ceiling[k][2]})

\* An offline calibration over the files of the latest live one that ended, with
\* the judge that one used, succeeds and gives the certificate it gave, kills and
\* edits in between notwithstanding.  A probe set whose candidates all failed is
\* the one thing judgments.jsonl does not tell.  And no offline certificate, of
\* whatever labels, names another judge than the one that gave its verdicts.
OfflineReproducesLive ==
    /\ /\ pc = "ended" /\ mem.offline /\ settled # None
       /\ outcome \notin {"killed", "OSError"}
       /\ mem.labels = settled.labels /\ mem.overlay = settled.overlay
       /\ mem.judgeVersion = settled.judge
       /\ settled.certificate.labelFileHash = settled.labels
       /\ settled.probe => ProbeKeys(settled.texts) # {}
       => outcome = "ok" /\ mem.result = settled.certificate
    /\ mem.offline /\ mem.result # None => mem.result.judgeVersion = settled.judge

\* No command was killed and no write failed since the latest live calibration that
\* ended.
Undisturbed ==
    budget["fault"] = IF settled = None THEN MaxFaults ELSE settled.faultsLeft

\* The committed certificate and the persisted judgments go together, unless a
\* command was killed or could not write; whatever that left is mended by the next
\* live calibration that ends.
OnlyFaultsSplitThePair ==
    pc = "idle" /\ certificate # None /\ Undisturbed =>
        /\ certificate.judgeVersion = judgments.judgeVersion
        /\ \A k \in DOMAIN certificate.overall :
               certificate.overall[k][2] = judgments.judged[k].verdict
=============================================================================
