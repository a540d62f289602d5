# A verification project for the Model Evaluation Harness

The harness (`src/harness/`) measures two candidate models on a golden set of
e-mails with an LLM judge, persists every measurement, and gates changes on a
statistical comparison with committed baselines. This directory holds TLA+
models of the parts of it whose correctness depends on interleavings, crashes,
retries and the order of writes; TLC configurations that check them on small
instances; and theorems about them with proofs for TLAPS.

    tlc -config RunEvalResume.cfg MCRunEval.tla      # one run
    tlapm RunEvalProofs.tla                          # one proof module

`PROJECT.json` lists the components, the runs, the source lines behind every
definition, the findings, the hazards and the theorems.

## 1. Inventory

| Component | Source | State | Operations | Interacts with |
|---|---|---|---|---|
| Runner | `runner.py` | `manifest.json`, `rows.jsonl`; in memory: completed keys, task queue, threads, abort event, served versions | `run_eval`, `load_run`, `find_completed_run` | provider clients and judge (calls), tracing (flag, flush), baseline generation and CLI (callers), the next process (through the directory) |
| Transport retry | `models/retry.py` | attempt number, start time | `retry_transport` | provider SDKs; raises `TransportExhausted` into the runner |
| Provider clients | `models/*_client.py` | none | `complete_structured` | retry, SDK |
| Judge | `judge/` | none; `judge_version()` is a hash of the installed text | `judge_field` | Gemini client, runner |
| Scoring | `scoring/` | none | deterministic matches, `composite` | runner, gate, reports |
| Tracing | `tracing.py` | `untraced`, the lock of its warning | `for_run`, spans, `flush`, `_mark_untraced` | runner threads share one context |
| Baseline update | `gate/gate.py`, `gate/baseline.py` | `baselines/{a,b}.json`, `baselines/.staging/` | `update_baseline`, `update_baselines`, `generate_baseline` | runner; the gate reads what it commits |
| Gate decision | `gate/gate.py`, `gate/baseline.py` | none | `check_fingerprint`, error budget, paired deltas, guardrail, `decide_candidate_result`, `evaluate_gate` | statistics, reports, CLI exit code |
| Statistics | `stats/` | none | sign-flip test, BCa bootstrap, MDE, agreement | gate, reports, calibration |
| Calibration | `calibrate.py` | `labels.jsonl`, `perturbations.jsonl`, `judgments.jsonl`, `certificate.json` | `eval calibrate`, live and offline | runner (runs it judges), judge, annotators (files), gate and reports (certificate) |
| CLI | `cli.py` | run directories, per-invocation gate directories | `run`, `compare`, `gate`, `calibrate`, `rescore`; exit codes | all of the above |
| Config, schema, prompts, reports, tools, CI | the rest | none, or text | parsing, hashing, rendering | |

What is hard here:

* **Crash and resumption.** A run costs hundreds of provider calls and is
  resumed from what an earlier process, which may have died anywhere, left on
  disk. Three stores are written at different moments: rows (appended), the
  manifest (truncated and rewritten), and the in-memory facts that only reach
  the manifest at the end (served versions, untraced).
* **Threads.** Four threads share a queue, a file, an event and a dictionary,
  and fail independently of each other.
* **Compound timeouts.** Attempts, backoff and hanging requests add up.
* **Multi-file commits.** Baselines are a pair of files; the certificate and
  its judgments are another.
* **Shared directories.** Five commands read and write run directories that are
  named after what was asked for; config, data, code and keys change in between.
* **Files written by people.** Labels come from two annotators in two rounds,
  about outputs that may have been measured again since.
* **A tracing service that may fail at any call**, on any thread, and must then
  change nothing but a flag.
* **Judge errors, missing fields and exit codes.** A failure of the measurement
  must never look like a regression of the candidate, nor the other way round.

What makes each component correct:

* Runner: a completed run has a row of every task; nothing is measured twice; a
  persisted row is permanent; the file stays readable; nothing is spent after a
  failure; the manifest tells the truth about versions, tracing and the judge.
* Retry: bounded wall time; fast failures get every attempt; a call ends.
* Baseline update: what is committed passed the floor, is whole and traced;
  failure changes nothing; the pair stays together.
* Gate: a verdict only on comparable data; missing is not failed; exit codes
  mean what they are documented to mean.
* Calibration: a certificate is bound to the judge, the outputs and the labels
  it was computed from; offline gives what live gave.
* Commands: a result rests on runs of exactly what was asked for; a gate only on
  what it measured itself; refusals come before spending.
* Scoring: a refusal or broken answer of the candidate is a zero, one of the
  judge a missing score, and nothing that happens to tracing changes either.

## 2. Modules

| Module | Models | Lines of code behind it |
|---|---|---|
| `RowsFile` | `rows.jsonl`: lines, torn writes, the repair, what a reader gets | `runner.py` 197-218, 497-596, 818-820 |
| `RunEval` | `run_eval`: main thread, pool, environment | `runner.py` 433-458, 599-878, `tracing.py` 242-259, `judge/rubric.py` 103-119 |
| `Ledger` | what a run directory promises (abstract) | |
| `RetryTransport` | one call under `retry_transport` | `models/retry.py` 122-137 |
| `BaselineUpdate` | `gate --update-baseline` | `gate/gate.py` 605-797, `gate/baseline.py` 125-142, 335-428, `cli.py` 885-933 |
| `GateRules` | the decision rule of the gate: composites, pairing, sign-flip test, guardrail, error budget, fingerprint | `gate/gate.py` 241-455, `gate/baseline.py` 161-212, `scoring/composite.py`, `stats/permutation.py` 84-160, `runner.py` 222-275, 634-712 |
| `GateDecision` | one `eval gate` invocation, to its exit code | `cli.py` 499-553, 595-648, 860-967, `gate/gate.py` 471-553, `reports.py` 117-133, `tracing.py` 190-200 |
| `RowScores` | how the clients read a reply, and the scores of a row | `models/*_client.py`, `judge/judge.py` 37-146, `scoring/`, `runner.py` 622-712 |
| `Scoring` | the rows of an invocation, without tracing (abstract) | |
| `Measurement` | `_score_row` on threads that share a `TraceContext` | `tracing.py` 159-345, `runner.py` 599-878 |
| `Commands` | the commands over the run directories they share | `cli.py` 264-339, 387-580, 609-773, 860-967, 1083-1187, `runner.py` 324-494, 748-912 |
| `CalibrationRules` | labels, overlay, gold, pairing, what the statistics decide | `calibrate.py` 448-935, 985-1291, 1361-1386, 1593-1710, `stats/agreement.py`, `stats/bootstrap.py` 80-232 |
| `Calibration` | `eval calibrate`, live and offline, and the people around it | `cli.py` 1058-1187, `calibrate.py` 290-381, 938-977, 1549-1622, 1919-2319 |
| `MCRunEval`, `MCRetryTransport`, `MCBaselineUpdate`, `MCGateDecision`, `MCMeasurement`, `MCCommands`, `MCCalibration` | values of the constants for TLC | |
| `RowsFileProofs`, `RunEvalProofs`, `RetryTransportProofs`, `BaselineUpdateProofs`, `GateDecisionProofs`, `MeasurementProofs`, `CommandsProofs`, `CalibrationProofs` | theorems | |

A definition named `X_Something`, commented *Faulty variant of X*, is not part
of a model. It is the form `X` would have with a plausible bug, and it is kept
so that each property can be shown to notice one: replacing `X` by it makes
TLC report the property violated.

### RowsFile and RunEval

One run directory over the life of any number of processes. `lines` is
`rows.jsonl`; each line is the row it parses to, or none, and whether its
newline is on disk. That pair is what decides everything later: text appended
after an open line lands *on* it, and a reader accepts one bad line only at the
end. A write that does not complete leaves nothing, a fragment, or everything
but the newline (`TearPoints`); a configuration chooses which of these a kill
and a failing write may leave.

`manifest` keeps the fields in which two manifests of one directory can differ
(completed, served versions, untraced, judge version) and whether the file
is absent, whole or torn. The memory of a process is `pc` (the main thread),
`completed`, `queued` (the executor's FIFO), `worker`, `abortEvent`, `raised`
(some future holds an exception), `served` and `tracing`; a kill discards it
(`GoDown`). A step of the main thread or of a thread is what it does between
two points where somebody else can intervene:

| Code | Action |
|---|---|
| 748-773 read or create the manifest | `Invoke` |
| 775-785, 852-854 repair, load, submit | `LoadRows` |
| 857-869 a future's result raises | `GatherException` |
| 857, all done | `GatherLast` |
| `KeyboardInterrupt` during the gather loop | `Interrupt` |
| 871 `shutdown(wait=True)` returns | `ShutdownDone` |
| 822-850, 873-878 | `WriteFinalManifest` |
| 800-801 | `TakeTask`, `SkipTask` |
| 803 (`_score_row`, 599-712) | `ScoreReturns`, `ScoreRaises` |
| 814-817 | `RecordServed` |
| 818-820 | `WriteRow`, `WriteRaises` |

The environment kills the process, interrupts it, breaks tracing, moves an
alias, edits the rubric. A manifest write that raises is no action of its own:
like a kill there it leaves no process and a file that is untouched or truncated
(`Kill`, `KillInManifestWrite`). What a task costs and scores is left out: `_score_row`
returns a row (with or without a call of the judge) or raises. `rubric` and
`traced` in a row are not columns of the file: they record what was true when
the row was measured, for the properties.

The check of the abort event and the start of the call are one step, so "no
call after a failure" means that no task gets past the check; the few
instructions between the two are not resolved.

### RetryTransport

`attempt`, `clock` (time since the first attempt) and where the call is.
A wait is any member of `Delays` from zero to the cap of that attempt (in the
run: none, the longest, and some in between; in the theorems, anything); a
request takes any of `Durations`, none longer than `RequestTimeout`. That bound
is the SDK client's (`cli.py` 249), not this code's, and httpx applies it to
each phase of a request, so it is an assumption here. `hung` remembers whether
some attempt was not a fast failure.

### BaselineUpdate

Two directories (`committed`, `staged`) and processes that stage, promote and
clean up. A measurement (`run_eval` and what `generate_baseline` makes of it)
is one step with an arbitrary outcome: raises, or produces a baseline that does
or does not pass the floor, from a run that was or was not traced to its end.
The file is staged *before* the floor is checked, as in the code. Promotion
reads what is staged at that moment. Kills may hit anywhere; writes may fail
before or after truncating their file.

### GateRules and GateDecision

`GateRules` has no state. A run (or the run a baseline repacks) is its slices,
its replicates and a row for each of them; a row is how many deterministic
fields scored 1 and, for each judged field, 0, 1 or `Missing`. A row whose
candidate call failed scores 0 without a call of the judge, which matters for
the error budget. Means, deltas and thresholds are compared after multiplying
out, so the arithmetic is exact: the code uses floats with a tolerance below
the smallest possible difference (`stats/permutation.py` 157). The sign-flip
test counts sign assignments as the code's full enumeration does; its Monte
Carlo estimate, for more than 20 changed items, is not modelled.

`GateDecision` is sequential: preconditions, baselines, runs, decisions, each
for candidate a and then b, any of which may raise. What a run measures is
arbitrary (`RunsOf`), and so is what is committed (`BaselinesOf`). `exit` and
`cause` are set by the step that ends the invocation, and `runsRoot` is the
directory of its runs; a verdict removes it unless it is to be kept, an
exception never does. `--update-baseline` is `BaselineUpdate`.

| Code | Action |
|---|---|
| 871-873 load configuration, dataset, certificate | `SetupRaises` |
| 882-883 | `CheckCertificate` |
| 943-944 | `StartTracing`, `TracingMissing` |
| 946-947 | `LoadBaseline` |
| 950-953 | `ClientMissing`, `RunEnds`, `RunCompletes` |
| 955-963, `evaluate_gate` | `Decide`, per candidate |
| 640-642, 966-967 | `Finish` |

### RowScores, Scoring and Measurement

`RowScores` has no state. A reply is a sign (the stop reason, refusal item or
finish reason a client looks at) and the text with it; `AnthropicFailure`,
`OpenAIFailure` and `GeminiFailure` say how each client reads it, in its own
order: refusal first, then an answer cut off or out of schema. `ScoresOf` is
`_score_row`: a failed candidate reply scores zero in every field without a call
of the judge, a failed judge reply leaves its field `Missing`.

`Measurement` puts this on threads with one `TraceContext`. Opening a span,
closing it, attaching a score and flushing are steps of their own, each of which
may find Langfuse failing; another thread may find it failing between the check
of `untraced` and the use of the client, so a thread that has passed the check
goes on. `ended`, `attached` and `closed` are what has reached Langfuse;
`heard` holds the replies to the calls made for a row.

| Code | Action |
|---|---|
| `tracing.py` 159-235 | `Init` |
| `runner.py` 799-803 | `TakeTask` |
| `tracing.py` 261-273 | `OpenSpan`, `OpenSpanFails` |
| `runner.py` 628-631, 672-681 | `CallReturns`, `CallRaises` |
| `tracing.py` 275-282 | `CloseSpan`, `CloseSpanFails` |
| `tracing.py` 301-333 | `OpenScores`, `AttachScore`, `CloseScores` and their failures |
| `runner.py` 802-820 | `WriteRow` |
| `runner.py` 822-878, `tracing.py` 335-345 | `Finalize`, `FlushFails` |

`Scoring` is the same measurement with no tracing in it: replies come, a call
may raise, a row is persisted with the scores of its replies. That `Measurement`
implements it is the repository's promise that tracing degrades without
touching the measurement.

### Commands

`store` maps a place (a root and the identity of a run) to a directory: its
manifest and its rows. A row remembers who measured it, with which text, models,
prompt and rubric, for the properties. The identity is the request itself
(`RunId`), as the hash of `_run_id` is taken to be free of collisions; the rubric
is no part of it. `run`, `compare` and `calibrate` share the root 0, each gate
and each update has its own. Data sets are files that can be edited; a version
is the config's, or made from the content when a path is given.

A process reads its inputs when it begins, then takes its requests one after
the other: `Reuse`, `NoKey`, or `Open`, `Measure` for each missing task and
`Finish` or `Abort`; then `Render`, `Decide` or `Certify`. `fate` records what
became of every command and `report` the latest result with the runs it was
computed from. `Kill`, `EditInputs`, `EditKeys` and `EditCertificate` are the
environment.

| Code (`cli.py`) | Action |
|---|---|
| 718-761, 869-944 (an update's keys: 885-925), 1083-1130 | `Begin`, with its `Refusal` |
| 645-648; labels that are not sound | `BadInputs` |
| 499-513 | `Reuse` |
| 514-516 | `NoKey` |
| `runner.py` 748-785 | `Open` |
| `runner.py` 799-820 | `Measure` |
| `runner.py` 822-878 | `Finish`, `Abort` |
| 725-773 | `Render` |
| 885-967 | `Decide` |
| 1155-1187 | `Certify` |
| 609-642, 550-580 | `End`, `KeptStore` |

A baseline update builds the clients of all its candidates before the first
measurement (914-923); the other commands, a gate without `--update-baseline`
among them, look for a key when they come to a candidate that has to be measured
(514-516): `HasClients` tells the two apart, and `GateKeyAfterSpend` shows what
follows for a gate.

`RunEval` is the detailed module of a directory and `Commands` the one of who uses
which. A measurement is one step here, the paid calls and the row together: a
kill between them costs the calls, which are made again, and leaves no row, so
`OnlyOverlapsMeasureTwice` is about rows. Rows are whole and `Open` is one step:
the repair of a torn tail (`runner.py` 533-553), which reads, rewrites and
replaces `rows.jsonl`, is in `RowsFile` and not here. A second process that
appends between its read and its `os.replace` loses those rows; `Commands` does
not see this, and `EvidenceIsKept` is about everything else that could remove a
row. The probe run of `calibrate`, which has an identity of its own, is left out.

### CalibrationRules and Calibration

`CalibrationRules` has no state. A label row is its triple (item, candidate,
field), annotator, round, verdict and the text it was given for. Its operators
follow `calibrate.py` check by check: coverage by two annotators
(`CoverageError`), the adjudication round (`AdjudicationError`), `Gold`,
`OverlayError` and `ApplyOverlay`, `PairError` and the statistics as far as they
decide something: kappa against a threshold in integers (`KappaAtLeast`), the
conditions under which kappa or its interval is undefined and raises
(`KappaRaises`), the verdict (`Adequacy`), what is counted where (`Result`).
Whether the interval's lower end reaches the threshold comes from resampling;
it is a constant (`LowInterval`).

`Calibration` is the command over its files. A live one takes minutes to hours,
so every file may change at any moment of it. One calibration runs at a time,
live or offline, which the code does not enforce (section 3). `spent` says what a
command has paid for: `"runs"`, the calls behind the runs it had to measure, those
of their judge included, and `"judge"`, its own judging.

| Code | Action |
|---|---|
| `cli.py` 1083-1130 load files, resolve gold | `Begin` |
| `cli.py` 1132-1159 runs and clients, hash of the labels | `ObtainRuns` |
| `calibrate.py` 1549-1573 | `Overlay` |
| `calibrate.py` 1575-1710 | `JudgeAll`, `JudgeRaises` |
| `cli.py` 1058-1081, `calibrate.py` 1993-2172 | `Recompute` |
| `calibrate.py` 2311-2319 | `WriteCertificate`, `CertificateFails` |
| `calibrate.py` 1919-1967, 2175-2267 | `WriteJudgments`, `JudgmentsFail` |
| `cli.py` 1183-1187 | `Exit` |

Around it: `Annotate` (the sheets of `labeling_template_rows` filled in and
adjudicated), `EditLabels` (a line lost, added or changed), `EditOverlay`,
`EditProbe`, `Regenerate`, `EditRubric` and `Kill`. A kill or a write that raises
may leave a torn certificate, which is written in place; `judgments.jsonl` is
replaced as a whole or not at all. `settled` is the latest live calibration that
ran to its end, with the number of faults still to come then (`faultsLeft`), so
that `Undisturbed` can tell whether there has been one since.
`ObtainRuns` takes the runs of all candidates in one step.

## 3. Runs

All passing runs check the complete state space of their instance.

| Run | Bounds | Shows |
|---|---|---|
| `RunEvalResume` | 2 threads, 3 tasks, 3 kills or interrupts, 1 failing task, 2 versions per alias, torn manifests | nothing is measured twice, the file stays readable, recorded versions served some row, no task starts after a failure, the directory implements `Ledger` |
| `RunEvalWriteFaults` | 2 threads, 3 tasks, 2 failing row writes, 1 failing task, traced and untraced invocations, 2 rubrics, judge called or not, no kills | a completed run still has a row of every task, rows are permanent, the untraced flag is sticky |
| `RunEvalCompletes` | 3 tasks, 2 kills or interrupts, 1 failing task, 1 failing row write, every kind of torn row and manifest, retried until done | every invocation ends, and the run is completed for good unless a fault left a file that cannot be read |
| `RetryCall` | the repository's values in half seconds: 12 attempts, base 0.5 s, cap 120 s, budget 600 s, timeout 100 s; attempts of 0, 0.5, 2, 30 or 100 s | 700 s bound; fast failures get 12 attempts; a call ends |
| `TracedMeasurement` | 2 threads, 2 rows, 2 deterministic and 2 judged fields, replies of every kind, 2 failing Langfuse calls, 1 raising provider call, with and without credentials | `Measurement` implements `Scoring`; a run called traced is traced in full, one called untraced was announced once; zeros are earned; it ends |
| `SharedRuns` | 2 processes, 2 commands out of `run`, `run --dataset`, `compare`, `gate --keep-runs`, `gate --update-baseline`, `calibrate`, 2 items, 1 replicate, 1 edit, 1 kill or abort | results rest on what was asked for; a gate on its own measurements; only overlaps measure twice; evidence goes with its verdict and only then; refusals cost nothing |
| `BaselineUpdateFaults` | 1 updater, 3 updates of `{a,b}`, `{a}` or `{b}`, 2 faults | floor enforced, failed staging harmless, success complete |
| `GateVerdicts` | 3 nominal and 2 adversarial items, 2 replicates (1 in the baseline), 120 runs and 7 files for a, 5 runs and 2 files for b; margin 2, alpha 30%, budget 10%, threshold 10 | exit codes, unchanged scores pass the test, better scores pass, rejection needs enough changes |
| `Calibrate` | 2 real emails and 1 probe email, 2 candidates, 1 judged field, 1 edit, 1 regeneration, 1 kill or failing write, 2 rubrics | label files are accepted exactly when well formed; broken ones cost nothing, a broken overlay no judge call of the calibration's own; every verdict counted is about the text the annotators saw; one population; offline reproduces live; certificate and judgments go together unless a command was killed or could not write |

In `GateVerdicts` alpha and the budget are larger than in the repository (5% each)
because three items give p-values of 1/8 at least, and ten rows twenty calls:
with these values one changed item cannot be rejected and two can, and two
judge errors are within the budget and three are not. One baseline has no
measured item, one run of b another version, another one an item less.

Why these bounds are enough to be interesting. `RunEval`: two threads give every
pairwise race, and everything they share is shared by all; three tasks leave
room for tasks persisted, in flight on both threads and queued; three stops allow
a crash during the recovery from a crash, and then a run that resumes; two
versions of an alias distinguish "the one that served" from "the last".
`BaselineUpdate`: three updates allow a fault, an update over its leftovers, and
one more. `Commands`: two commands give every pair of them, in sequence and
overlapping, and one edit between any two of their steps is what can make the
second differ from the first. `Measurement`: two Langfuse failures can meet on
both threads before either has set the flag. `Calibration`: two real emails
times two candidates make both categories and a disagreement possible beside a
judge error, the third email is the probe; one edit, regeneration and fault each
can hit between any two steps of a live calibration and before the offline one
after it. The theorems below remove the bounds where they apply.

The runs that are expected to fail each check one statement that a document, a
comment or a docstring of the repository makes, and TLC shows a behaviour of
the code that contradicts it. They are the `findings` of `PROJECT.json`:

| Run | Statement | What happens |
|---|---|---|
| `RunEvalLostNewline` | the repair "keeps the file well-formed"; completed means a row of every task | a kill loses only a newline; the tail parses, so it is kept open, and the next row spoils it |
| `GateJudgeErrors` | judge failures never register as a regression | judge errors on rows above the mean lower the mean of the rest, and the guardrail trips |
| `GateKeyAfterSpend` | a missing key is reported strictly before any measurement is attempted | candidate b's key is looked for after candidate a has been measured |

Some passing runs leave out faults by their configuration. `RunEvalResume` keeps
newlines with their rows and has no failing row writes; `RunEvalWriteFaults` has no
kills, no interrupts and no torn manifests. `BaselineUpdateFaults` has one updater
and `Calibrate` one calibration at a time (by the shape of the module);
`SharedRuns` has no torn rows. `RunEvalCompletes` has every fault of `RunEval`: its
`CompletedUnlessUnreadable` names the two states in which a run cannot be
completed any more, a torn manifest and a bad line in the middle of `rows.jsonl`,
and says that there is no other. Where
the code departs from what one might expect, the properties are worded for what
it does; what follows from reading and modelling it, without a run of its own:

* Running and resuming
  * A kill, or a failing write, in the middle of `manifest.json` (`runner.py` 773,
    850) leaves it truncated: every later invocation ends with a `JSONDecodeError`
    (769), and the run is never completed until somebody deletes the file, though
    `runner.py` 4-11 says that an interrupted run can be resumed. TLC shows this
    as a counterexample to `<>[]Certified` under the configuration of
    `RunEvalCompletes`; `CompletedUnlessUnreadable` exempts it by name.
  * A row write that raises is outside the `try` block that sets the abort event
    (`runner.py` 818; 39-42 promises it for any exception), so another thread may
    start a task: `NoCallAfterFailure` needs runs without failing writes.
  * A failing write may leave a fragment, after which another thread appends; the
    next invocation then finds a bad line in the middle of the file, which
    `runner.py` 566-570 calls impossible: so does `RowsStayLoadable`.
  * A process killed between its last row and the final manifest leaves no task
    to measure; the resumed run is completed without a served version
    (`runner.py` 787; `docs/spec.md` 51).
  * An alias that moves during a run is recorded as its last version only
    (`runner.py` 815; `README.md` 137-138): `ServedNamesARow` says that the
    version served some row, not all.
  * The untraced flag of a killed invocation never reaches the manifest
    (`runner.py` 836): `UntracedIsSticky` is checked without kills.
  * The judge version in a manifest is not compared on resumption (`runner.py`
    461), so a resumed run may hold rows of two rubrics under the first one's
    name, and `run` and `compare` reuse runs of an older rubric. Only gates and
    updates measure afresh (`GateMeasuresAfresh`).
  * Two processes on one run directory measure tasks twice and leave two rows of
    each: `OnlyOverlapsMeasureTwice` says that nothing else does. If the second
    one opens it while the last line is half written, its repair of the tail may
    take that line and the rows appended meanwhile (533-553); no run shows this.
* Gate and baselines
  * A fault between the two promotions of a pair leaves candidate a new and b old
    (`gate.py` 793; 753-755 calls that structurally impossible):
    `ReturnedUpdateIsWhole` speaks of updates that return.
  * `write_text` truncates a committed baseline first (`gate.py` 660; the atomic
    write of `docs/spec.md` 98): `CommittedPassedTheFloor` speaks of whole files.
  * `.staging` is shared by concurrent invocations, and what is promoted is what
    is staged then, which another invocation may just have staged and refused
    (`gate.py` 658): with two updaters `CommittedPassedTheFloor` fails.
  * An untraced measurement may become the baseline (`baseline.py` 398;
    `runner.py` 244-246 and `docs/spec.md` 114 say it never does), and
    `calibrate` never looks at the flag either.
  * What the gate does not list as a measurement error ends in a traceback, whose
    exit code is 1, the code of a regression: an unreadable baseline, certificate
    or configuration, a failing manifest write, a baseline so full of judge errors
    that no item can be paired (`cli.py` 595-606). `ExitOneMeansRegression` exempts
    them by name (`Tracebacks`), and they leave their runs behind.
* Calibration
  * Labels that do not fit the judged outputs are only noticed after the judge has
    been paid (`pair_with_labels`; the comment of `cli.py` 1100-1108 speaks of
    labels files in general): `NoWorkOnBadFiles` is about files that are broken by
    themselves. A broken overlay is noticed by `run_calibration` (`calibrate.py`
    1571), so only after missing runs have been measured (`cli.py` 1127-1146).
  * A candidate whose labels or verdicts are all of one category, or a judge error
    on a triple that leaves one, makes kappa raise after judging; the judgments
    are lost.
  * A kill between certificate and judgments, or an `OSError` out of either write
    (a full disk), leaves a certificate that offline does not reproduce (`cli.py`
    1164, 1178): `OnlyFaultsSplitThePair` says that nothing else does, and that the
    next live calibration that ends mends it.
  * Nothing keeps two calibrations apart. Their writes may interleave so that the
    certificate of one stays beside the judgments of the other, with no fault at
    all; the module has one at a time.
  * The label file is loaded at the start and hashed after the runs; an edit in
    between gives a certificate with the hash of other labels. An overlay edited
    after judging is counted by offline as if it had been judged.
    `OfflineReproducesLive` therefore asks for unchanged files.
  * A probe file whose candidates all failed leaves no trace in
    `judgments.jsonl`, so offline takes it for absent.

`CHECK_DEADLOCK FALSE` is set where the modelled program really stops: a call
that has ended, a gate that has exited, an invocation that has written its
manifest, and commands or updates once the bound on their number is reached.

### Fairness

* `RunEval!FairSpec`: weak fairness of the main thread and of each pool thread.
  Threads are scheduled by the operating system, and a provider call ends
  because `retry_transport` bounds it: that is `CallEnds` and `WithinPatience`
  of `RetryTransport`. Faults are never fair.
* `RunEval!RetriedSpec`: in addition, somebody calls `run_eval` again, which
  is how the documents say an aborted run is completed.
* `RetryTransport!FairSpec`: a request ends (its timeout) and so does a sleep.
* `Measurement!FairSpec`: weak fairness of each thread and of the main thread.
  A provider call ends by `CallEnds`; a Langfuse call returns or raises, which is
  what its client's timeout is for. Faults are never fair.

`BaselineUpdate`, `GateDecision`, `Commands` and `Calibration` state no fairness:
their steps are sequential code that ends when the calls of `run_eval` end.

## 4. Theorems

| Theorem | Says | Under |
|---|---|---|
| `RunEval` | | |
| `TypeCorrect` | types | |
| `NeverResampled` | no task is measured twice | nothing more: any tears, any faults |
| `CompletedIsFull` | a completed run has a row of every task | `NewlineKept` |
| `RowsArePermanent` | no step removes or alters a row | `NewlineKept` |
| `LedgerImplemented` | `RunEval` implements `Ledger` | `NewlineKept` |
| `RowsAreReadable` | readers can load the rows at any moment | `NewlineKept`, `WritesAllOrNothing` |
| `CompletedIsWhole` | a completed run can be loaded and has every row | `NewlineKept`, `WritesAllOrNothing` |
| `ServedVersionsAreReal` | a served version in the manifest is that of a persisted row | `NewlineKept`, `NoFailingWrites` |
| `FailureStopsCalls` | no task gets past the abort event after a failure | `NoFailingWrites` |
| `TracedMeansTraced` | a completed run called traced has traced rows only | `NewlineKept`, `NothingStops` |
| `RetryTransport` | | |
| `RetryTypeCorrect` | no attempt beyond `max_attempts` | |
| `PatienceIsBounded` | budget plus one request timeout | attempts last at most `RequestTimeout` |
| `FastFailsHaveTime` | a call without a hanging attempt gets all its attempts | `FastBurstFits(begun)` for some schedule `begun` |
| `BaselineUpdate` | | |
| `UpdateTypeCorrect` | types | |
| `FloorIsEnforced` | committed baselines passed the floor | `OneAtATime` |
| `StagingFailureIsHarmless` | failed staging changes nothing | `OneAtATime` |
| `ReturnMeansCommitted` | success commits all it measured | `OneAtATime` |
| `GateDecision` | | |
| `GateTypeCorrect` | types, and each candidate has its own run | |
| `OneMeansRegression` | exit code 1 is a verdict on two measurements, or a crash | |
| `ErrorsOutrankVerdicts` | exit codes 0 and 1 only for comparable measurements | |
| `EvidenceSurvives` | runs without a verdict are not removed | |
| `JudgeErrorsAreNoRegression` | unchanged scores pass the sign-flip test, whatever the judge errors | |
| `FewChangesPass` | the test rejects only if 1 / 2^m < alpha for m changed items | |
| `ImprovementPasses` | what passed passes with better scores, test and guardrail | |
| `Measurement` | | |
| `MeasurementTypeCorrect` | types | |
| `TracingIsComplete` | traced means traced in full, untraced was announced once | |
| `ZerosEarned` | zeros are the candidate's doing, missing scores the judge's | |
| `ScoringImplemented` | `Measurement` implements `Scoring` | |
| `Commands` | | |
| `CommandsTypeCorrect` | types | |
| `ResultsAreAsAsked` | results rest on completed runs of what was asked for | |
| `GatesAreFresh` | gates and updates decide on what they measured themselves | |
| `DevStaysDev` | numbers of development data stay out of reportable results | |
| `RefusalsAreFree` | a refused command has measured nothing | |
| `MeasuredOnce` | only overlapping commands leave two rows of a task in a directory | |
| `EvidenceStays` | only the end of a gate with a verdict removes anything | |
| `Calibration` | | |
| `CalibrationTypeCorrect` | types | |
| `ChecksAcceptTheWellFormed` | the checks accept exactly the well-formed label files | |
| `BadFilesCostNothing` | broken labels cost nothing, broken overlays no judge call of the calibration's own | |
| `VerdictsMeet` | a verdict is compared with labels about the text it saw | |
| `PartsShareKeys` | all parts of a certificate are about the same keys | |
| `PairStaysWhole` | certificate and judgments go together unless a calibration was killed or could not write since the latest live one that ended | one calibration at a time, by the shape of the module |
| `OfflineAgrees` | offline gives what live gave, if the files are unchanged | |

They hold for all values of the constants allowed by the assumptions declared
with them (`SizesAssumption`, `RunAssumption`, `RetryAssumption`,
`UpdateAssumption`, `RulesAssumption`, `GateAssumption`, `RowAssumption`,
`MeasurementAssumption`, `VocabularyAssumption`, `CommandsAssumption`,
`KeyAssumption`, `CalibrationAssumption`), all of which type the constants or
relate them as the code does; TLC evaluates them in the runs. Where the column
*Under* names a condition, the theorem has it as a hypothesis, and it is one
that the code does not ensure by itself:

* `NewlineKept`: no fault writes a whole row but not its newline;
  `RunEvalLostNewline` shows that it is needed.
* `WritesAllOrNothing`: a row write that raises has written nothing. A fragment
  in the middle of the file makes it unreadable. Kills may leave fragments.
* `NoFailingWrites`: no row write raises; a failing write sets no abort event,
  and the version that it leaves in `served` may be that of no other row.
* `NothingStops`: no kill and no interrupt, either of which loses the flag.
* `FastBurstFits(begun)`: `begun` is a schedule of the latest moment at which
  each attempt begins if none hangs, and its last entry is within the budget. It is the
  docstring's "fits comfortably" (`models/retry.py` 36); that the repository's
  values satisfy it is `ScheduleAssumption` of `MCRetryTransport`, which TLC
  evaluates in the run `RetryCall`.
* `OneAtATime`: no two updates run concurrently; with two, TLC finds a refused
  file promoted.

How they are proved:

* **NeverResampled.** The property is not inductive: that a write adds a row of
  a task without a row needs to know that a thread's row is of its own task
  (`HoldsItsRow`), that tasks are with one thread at most and not also in the
  queue (`Exclusive`), and that a process that is down holds nothing
  (`Resting`). The file lemmas of `RowsFileProofs` say what an append, a torn
  append and the repair do to rows and tasks, open tail or not.
* **CompletedIsFull, RowsArePermanent, LedgerImplemented.** With `NewlineKept`
  the file is `Sealed`: a line that parses has its newline, and only the last
  line may be open. So an append can spoil a fragment but never a row, and the
  repair removes nothing that parses. `Accounted` then says that, while no
  future has raised, what was found, what is queued, what is in flight and what
  was written since add up to all tasks; at the final manifest queue and
  threads are empty. The refinement adds that one step adds at most one task.
* **RowsAreReadable.** `ReadableInv`: while a process writes rows every line
  parses, because it has repaired the tail first; otherwise only the last line
  may not.
* **ServedVersionsAreReal.** A version is noted *before* the row it served is
  written, so `ServedInv` allows the row to be still with a thread; that thread
  writes it, unless the write fails.
* **TracedMeansTraced.** `StickyInv` splits the rows: those found at the start
  are what the manifest's flag is about, the others what the context's is about.
* **PatienceIsBounded.** Inductive once strengthened: every attempt *starts*
  within the budget, because that is what the check before a sleep ensures.
* **FastFailsHaveTime.** The sum of waits and attempts is never computed: a
  schedule bounds it step by step (`OnSchedule`), and the check before a sleep
  compares with a moment that is on schedule.
* **BaselineUpdate.** `OnCourse` relates an update to the two directories: what
  it has staged so far is its own and passed; what it has promoted so far is
  committed; before promotion the committed files are what they were.
* **GateDecision, exit codes.** `InOrder` says what has been loaded and decided
  at each step; `Earned` that a verdict belongs to a candidate that was measured
  and could be compared; `Ending` how exit code, cause and the directory of the
  runs go together. Every step that raises is covered by one lemma
  (`RaiseKeepsIInv`). The decision rules stay unexpanded here.
* **GateDecision, statistics.** The rules are sums over items and counts of
  subsets. A sum of the community modules is a fold; `SumIsRecursive` unfolds it
  to a recursive function on the subsets of the index set, and `SubsetInduction`,
  got from the well-foundedness of strict inclusion, replaces the library's
  induction theorems, which the provers cannot instantiate. From it: sums are
  additive (`SumAdds`), monotone (`SumIsMonotone`), and do not depend on the
  order (`SumStep`). The p-value counts the sign assignments at least as extreme
  as what was seen. Without a change, all of them are (`ZerosFlipFreely`), so
  nothing is rejected; the observed assignment always is one (`SomethingIsExtreme`)
  and unchanged items double the count (`FreeRest`), so m changed items give
  1 / 2^m at least; if the deltas grow, an assignment that is extreme stays so,
  since flipping adds at most what the whole sum gained (`MoreIsExtreme`,
  `RejectionIsMonotone`). `Just` carries the result to the specification: a
  verdict is the rule applied to what is still in `store` and `run`.
* **Measurement.** `Paced` relates a thread's place in `_score_row` to the number
  of replies heard, `Drafted` its draft (and each persisted row) to the scores
  of these replies: that is the refinement, and with `Sourced`, whose reply is
  the candidate's and whose the judge's, it is `ZerosEarned`. `Spanned` and
  `Told` say, while `untraced` is false, which spans and scores are still with a
  thread; at the end no thread has any. They have nothing to say once the flag
  is set, which is why a failure needs no bookkeeping.
* **Commands.** `Faithful`: a directory holds measurements made for the request
  that names it; `Relied`: what a process has got stays whole; `Numbered` and
  `Fresh`: a root other than 0 is that of one gate, written with its rubric;
  `Once`: a directory that never was open twice has no task both pending and
  measured. Each step is proved once against what it does to `store` and `proc`
  (`Opens`, `Measures`, `Writes`, `Ends`, ...).
* **Calibration.** `ChecksAcceptTheWellFormed` is a lemma about `CoverageError`
  and `AdjudicationError` for any sequence of label rows, carried by `Checked`.
  `LiveComputed`, `OfflineComputed` and `Kept` describe a certificate as a
  relation between verdicts, labels and overlay (`Certified`), in memory and on
  disk; the properties compare two such descriptions. `Paired` says between which
  two writes certificate and judgments differ, and `Shaped` that the faults left
  never exceed those of `settled`, so that a kill or a failing write ends
  `Undisturbed` (`FaultsKeep`). `Refused` gives the reason of an
  offline calibration that raised; with unchanged files none of them is possible.

Attempts at proofs that changed the models: `Commands` let an update discover a
missing key after its first measurement, which the code does not
(`HasClients`, above); `CASE` over a reply or a refusal became a chain of
conditions in the order of the code (`JudgedScore`, `Draft`, `Refusal`); the
fixed self-consistency triples, a `SelectSeq`, which is opaque to the prover,
are now given by their positions (`Position`, `InOrder`).

Only model-checked: liveness (`InvocationEnds`, `CompletedUnlessUnreadable`,
`CallEnds`, `MeasurementEnds`), as fairness and ENABLED are beyond the prover.
Every other property of a passing run is stated by a theorem. The properties
`TypeOK` of `RunEval`, `RetryTransport`, `BaselineUpdate` and `GateDecision`,
`EvidenceIsKept` of `GateDecision` and `CompletedRunIsWhole` under its
hypotheses are left to their theorems and appear in no passing run.

## 5. Not modelled

* `rescore`, which recomputes a report from persisted rows and changes nothing
  (it does not say when the run is incomplete), `--seed-regression`, the
  demo mode of the gate with a degraded prompt and no fingerprint check, and
  usage errors.
* The content of prompts, e-mails and reports; hashing, where equal inputs and
  equal hashes are taken to be the same; parsing of configuration and schema.
* Floating-point statistics: bootstrap intervals, MDE, normal quantiles,
  variance. Kappa is modelled by counts, intervals by a constant.
* How deterministic fields are matched, and the reports' wording and layout.
* `check_disjoint_from_golden`, which no command calls, and the text and date of
  a certificate.
* Annotation tools, CI workflow, data files.
* The crash between the two steps of `_repair_truncated_tail`: it replaces the
  file atomically and removes a stale temporary file first, so it is one step.

## 6. Plan

Done: every module of section 2, and theorems for every safety and action
property of the passing runs. Next, most important first:

1. An abstract specification of the gate (a classification of measurements into
   the three exit codes) that `GateDecision` implements, and the proof.
2. One of `Commands`: what a user of the run directories may rely on, with
   `RunEval` in the place of its one-step measurement.
3. Report operators (`reports.py`) and the two-sided sign-flip test against a
   reference definition by counting.
4. `rescore`, and the degraded prompt of the demo mode.
