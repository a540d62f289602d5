---------------------------- MODULE GateDecision ----------------------------
(***************************************************************************)
(* One eval gate invocation (without --update-baseline): gate of           *)
(* src/harness/cli.py and evaluate_gate of gate/gate.py.  Preconditions,   *)
(* committed baselines, a fresh run of each candidate, then the decision,  *)
(* candidate a before candidate b; the first exception ends it.            *)
(***************************************************************************)
EXTENDS GateRules

CONSTANTS BaselinesOf,   \* what the committed file of each candidate may be
          RunsOf,        \* what a run of each candidate may measure
          Certificates   \* the committed certificate's verdict, or "none"

Candidates == {"a", "b"}

\* A committed file that is not there, or that load_baseline cannot read.
Absent     == [state |-> "absent"]
Unreadable == [state |-> "unreadable"]

\* A candidate that has not been run.
NotRun == [state |-> "not run"]

ASSUME GateAssumption ==
    /\ \A c \in Candidates :
        /\ \A file \in BaselinesOf[c] \ {Absent, Unreadable} :
            file.state = "whole" /\ IsArtifact(file)
        /\ \A artifact \in RunsOf[c] : artifact.state = "whole" /\ IsArtifact(artifact)
    /\ Certificates \subseteq {"none", "adequate", "adequate_with_caveat", "inadequate"}

VARIABLES
    \* What the invocation finds, and its options.
    certificate, store, demo, keepRuns,
    \* Where it is.
    pc,       \* the step, or "done"
    turn,     \* the candidate whose turn it is
    run,      \* the artifacts loaded so far
    verdict,  \* the verdicts reached so far
    runsRoot, \* whether results/runs/gate/<uuid> exists
    exit,     \* the exit code
    cause     \* the exception that ended it, or "none"

given == <<certificate, store, demo, keepRuns>>
vars  == <<given, pc, turn, run, verdict, runsRoot, exit, cause>>

NoExit == -1

Init ==
    /\ certificate \in Certificates
    /\ store \in [Candidates -> UNION {BaselinesOf[c] : c \in Candidates}]
    /\ \A c \in Candidates : store[c] \in BaselinesOf[c]
    /\ demo \in BOOLEAN /\ keepRuns \in BOOLEAN
    /\ pc = "certificate" /\ turn = "a"
    /\ run = [c \in Candidates |-> NotRun]
    /\ verdict = [c \in Candidates |-> "none"]
    /\ runsRoot = FALSE
    /\ exit = NoExit /\ cause = "none"

-----------------------------------------------------------------------------
(* Exit codes *)

\* Faulty variant of MeasurementErrors: as run and compare map it.
MeasurementErrors_NoAbort ==
    {"MissingBaseline", "FingerprintMismatch", "JudgeErrorBudgetExceeded",
     "NominalItemSetMismatch", "MissingTracing", "MissingCertificate", "MissingApiKey"}

\* _GATE_MEASUREMENT_ERRORS, as far as this path can raise them.
MeasurementErrors ==
    {"MissingBaseline", "FingerprintMismatch", "JudgeErrorBudgetExceeded",
     "NominalItemSetMismatch", "RunAborted", "MissingTracing", "MissingCertificate",
     "MissingApiKey"}

\* _gate_clean_exit: any other exception is a traceback, which is exit code 1.
ExitOf(exception) == IF exception \in MeasurementErrors THEN 2 ELSE 1

\* The invocation ends; what was measured stays on disk, if anything was.
Raise(exception) ==
    /\ pc' = "done"
    /\ exit' = ExitOf(exception)
    /\ cause' = exception
    /\ UNCHANGED <<given, turn, verdict, runsRoot>>

\* The same step for candidate b, or the next step.
Advance(step) ==
    /\ turn' = IF turn = "a" THEN "b" ELSE "a"
    /\ pc' = IF turn = "a" THEN pc ELSE step
    /\ UNCHANGED <<given, exit, cause>>

-----------------------------------------------------------------------------
(* Before the measurement *)

\* The configuration, the dataset or the certificate cannot be loaded.
SetupRaises == pc = "certificate" /\ Raise("InvalidInput") /\ UNCHANGED run

CheckCertificate ==
    /\ pc = "certificate"
    /\ IF certificate = "none"
       THEN Raise("MissingCertificate") /\ UNCHANGED run
       ELSE /\ pc' = "tracing"
            /\ UNCHANGED <<given, turn, run, verdict, runsRoot, exit, cause>>

StartTracing ==
    /\ pc = "tracing"
    /\ pc' = "baselines"
    /\ UNCHANGED <<given, turn, run, verdict, runsRoot, exit, cause>>

\* No credentials, and the gate's runs are reportable.
TracingMissing == pc = "tracing" /\ Raise("MissingTracing") /\ UNCHANGED run

\* _load_baseline_or_raise.
LoadBaseline ==
    /\ pc = "baselines"
    /\ CASE store[turn].state = "absent"     -> Raise("MissingBaseline")
         [] store[turn].state = "unreadable" -> Raise("BaselineFormat")
         [] store[turn].state = "whole"      -> Advance("runs") /\ UNCHANGED <<verdict, runsRoot>>
    /\ UNCHANGED run

-----------------------------------------------------------------------------
(* Measurement: _get_or_run in a directory that no other invocation uses *)

ClientMissing == pc = "runs" /\ Raise("MissingApiKey") /\ UNCHANGED run

\* run_eval has created the run directory; see RunEval.  A manifest that cannot
\* be written is an OSError.
RunEnds(exception) ==
    /\ pc = "runs"
    /\ pc' = "done" /\ exit' = ExitOf(exception) /\ cause' = exception
    /\ runsRoot' = TRUE
    /\ UNCHANGED <<given, turn, run, verdict>>

RunCompletes(artifact) ==
    /\ pc = "runs"
    /\ run' = [run EXCEPT ![turn] = artifact]
    /\ runsRoot' = TRUE
    /\ Advance("decision")
    /\ UNCHANGED verdict

-----------------------------------------------------------------------------
(* Decision: evaluate_gate *)

ProblemOf(c) == Problem(store[c], run[c], certificate, demo)

\* Faulty variant of Decide: the fingerprint is checked for candidate a only.
Decide_FirstFingerprint ==
    LET problem == Problem(store[turn], run[turn], certificate, demo \/ turn = "b")
    IN  /\ pc = "decision"
        /\ \/ /\ problem # "none"
              /\ Raise(problem)
           \/ /\ problem = "none"
              /\ verdict' = [verdict EXCEPT ![turn] =
                    Verdict(store[turn], run[turn], ModeOf(certificate))]
              /\ Advance("summary")
              /\ UNCHANGED runsRoot
        /\ UNCHANGED run

Decide ==
    /\ pc = "decision"
    /\ \/ /\ ProblemOf(turn) # "none"
          /\ Raise(ProblemOf(turn))
       \/ /\ ProblemOf(turn) = "none"
          /\ verdict' = [verdict EXCEPT ![turn] =
                Verdict(store[turn], run[turn], ModeOf(certificate))]
          /\ Advance("summary")
          /\ UNCHANGED runsRoot
    /\ UNCHANGED run

\* The summary is rendered, the runs are removed and the process exits.
Finish ==
    /\ pc = "summary"
    /\ pc' = "done"
    /\ exit' = IF \E c \in Candidates : verdict[c] = "fail" THEN 1 ELSE 0
    /\ runsRoot' = keepRuns
    /\ UNCHANGED <<given, turn, run, verdict, cause>>

-----------------------------------------------------------------------------
Next ==
    \/ SetupRaises \/ CheckCertificate
    \/ StartTracing \/ TracingMissing
    \/ LoadBaseline
    \/ ClientMissing
    \/ \E exception \in {"RunAborted", "OSError"} : RunEnds(exception)
    \/ \E artifact \in RunsOf[turn] : RunCompletes(artifact)
    \/ Decide
    \/ Finish

Spec == Init /\ [][Next]_vars

-----------------------------------------------------------------------------
(* Properties *)

\* The invocation is in one of its steps and ends with one of three codes.
TypeOK ==
    /\ pc \in {"certificate", "tracing", "baselines", "runs", "decision", "summary", "done"}
    /\ turn \in Candidates
    /\ \A c \in Candidates : run[c] \in RunsOf[c] \cup {NotRun}
    /\ verdict \in [Candidates -> {"none", "pass", "fail"}]
    /\ runsRoot \in BOOLEAN
    /\ exit \in {NoExit, 0, 1, 2}

\* What the gate does not catch: a traceback, which is exit code 1 as well.
Tracebacks == {"InvalidInput", "BaselineFormat", "OSError", "ValueError"}

\* Exit code 1 means "a completed measurement whose verdict is fail"
\* (_gate_clean_exit; docs/gate-design.md, section 7): unless the gate crashed,
\* both candidates have been measured and have a verdict, and one of them failed.
ExitOneMeansRegression ==
    exit = 1 /\ cause \notin Tracebacks =>
        /\ \A c \in Candidates : run[c] # NotRun /\ verdict[c] # "none"
        /\ \E c \in Candidates : verdict[c] = "fail"

\* A candidate that cannot be compared wins over a regression of the other one:
\* exit codes 0 and 1 are about two comparable measurements (evaluate_gate).
MeasurementErrorWins ==
    exit \in {0, 1} /\ cause \notin Tracebacks => \A c \in Candidates :
        /\ demo \/ FingerprintAgrees(store[c], run[c], certificate)
        /\ ~OverBudget(run[c])
        /\ store[c].nominal = run[c].nominal

\* What was measured survives the invocation exactly when it ended without a
\* verdict or was asked for (--keep-runs): a measurement error, exit code 2, never
\* removes its evidence, and a verdict leaves nothing behind (_gate_clean_exit).
EvidenceIsKept ==
    pc = "done" /\ (cause \in {"none", "RunAborted"} \/ \E c \in Candidates : run[c] # NotRun)
        => (runsRoot <=> keepRuns \/ cause # "none")

\* The candidate has been measured, and nothing keeps it from a verdict.
Comparable(c) == store[c].state = "whole" /\ run[c] # NotRun /\ ProblemOf(c) = "none"

\* Wherever both sides have a score, and on all replicates, they have the same.
NoChange(base, r) ==
    \A s \in Slots(base), t \in Slots(r) : s[1] = t[1] =>
        /\ base.rows[s].det = r.rows[t].det
        /\ \A f \in JudgedFields :
            Missing \in {base.rows[s].judged[f], r.rows[t].judged[f]}
                \/ base.rows[s].judged[f] = r.rows[t].judged[f]

\* Judge errors on either side never make the statistical test fail a candidate
\* whose scores have not changed (docs/spec.md, section 7: missing is not fail).
JudgeErrorsPassTheTest ==
    pc = "done" => \A c \in Candidates :
        Comparable(c) /\ NoChange(store[c], run[c]) =>
            ~StatFail(store[c], run[c], ModeOf(certificate))

\* ... nor the gate, guardrail included: "judge failures can never register as
\* candidate regressions" (docs/spec.md, section 7).
JudgeErrorsNeverRegress ==
    \A c \in Candidates : verdict[c] = "fail" => ~NoChange(store[c], run[c])

\* No field is missing, and each scores at least what it scores in r.
Better(better, r) ==
    /\ better.nominal = r.nominal /\ better.adversarial = r.adversarial /\ better.k = r.k
    /\ \A s \in Slots(r) :
        /\ better.rows[s].det >= r.rows[s].det
        /\ \A f \in JudgedFields :
            /\ r.rows[s].judged[f] # Missing
            /\ better.rows[s].judged[f] >= r.rows[s].judged[f]

\* A candidate that passed would have passed with better scores: neither the
\* sign-flip test nor the guardrail punishes an improvement (decide_candidate_result).
BetterScoresPassToo ==
    pc = "done" => \A c \in Candidates :
        verdict[c] = "pass" /\ Comparable(c) => \A better \in RunsOf[c] :
            Better(better, run[c]) => Verdict(store[c], better, ModeOf(certificate)) = "pass"

\* Rejection needs enough items that changed: with m of them p is at least
\* 1 / 2^m, min_attainable_p (sign_flip_test).
RejectionNeedsChanges ==
    pc = "done" => \A c \in Candidates : Comparable(c) =>
        LET deltas == PairedDeltas(store[c], run[c], ModeOf(certificate))
        IN  Rejects(deltas) => 100 < Alpha * Cardinality(SUBSET Nonzero(deltas))
=============================================================================
