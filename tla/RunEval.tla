------------------------------- MODULE RunEval -------------------------------
(***************************************************************************)
(* run_eval of src/harness/runner.py: successive invocations, over one run *)
(* directory, of a pool of worker threads that measures every (item,       *)
(* replicate) task and persists one row per task.  The directory outlives  *)
(* the process: manifest.json and rows.jsonl are all that an invocation    *)
(* finds of the ones before it.                                            *)
(*                                                                         *)
(* A step is what one thread does between two points where another thread, *)
(* a crash or the provider can intervene.                                  *)
(***************************************************************************)
EXTENDS RowsFile

CONSTANTS Workers,           \* threads of the pool (max_workers)
          TraceModes,        \* tracing an invocation may start with: on (TRUE), off (FALSE)
          ScoreOutcomes,     \* subset of {"judged", "candidate_failed"}
          KillTears,         \* what a killed process may leave of a line being written
          WriteTears,        \* what a failing write may leave of it
          ManifestTears,     \* whether a kill may truncate manifest.json
          MaxStops,          \* bound: kills and keyboard interrupts
          MaxScoreFailures,  \* bound: exceptions out of _score_row
          MaxWriteFailures   \* bound: exceptions out of the row write

ASSUME RunAssumption ==
    /\ Workers # {}
    /\ TraceModes \subseteq BOOLEAN
    /\ ScoreOutcomes \subseteq {"judged", "candidate_failed"}
    /\ KillTears \subseteq TearPoints
    /\ WriteTears \subseteq TearPoints
    /\ ManifestTears \in BOOLEAN
    /\ MaxStops \in Nat /\ MaxScoreFailures \in Nat /\ MaxWriteFailures \in Nat

VARIABLES
    \* The run directory.
    lines,      \* rows.jsonl
    manifest,   \* manifest.json
    \* The process; meaningless while pc = "down".
    pc,         \* where the main thread is
    outcome,    \* how the latest invocation ended
    completed,  \* keys found in rows.jsonl when the rows were loaded
    queued,     \* tasks submitted to the pool and not taken by a thread
    worker,     \* what each thread of the pool is doing
    abortEvent, \* the shared threading.Event
    raised,     \* some future holds an exception
    served,     \* the shared served_versions
    tracing,    \* not trace.untraced
    \* The world.
    alias,      \* version each provider alias resolves to now
    rubric,     \* judge_version() of the installed code
    budget      \* environment events left, by kind

runDir  == <<lines, manifest>>
process == <<pc, outcome, completed, queued, worker, abortEvent, raised, served, tracing>>
world   == <<alias, rubric, budget>>
vars    == <<runDir, process, world>>

-----------------------------------------------------------------------------
Roles == {"candidate", "judge"}

NoServed == [role \in Roles |-> None]

\* _initial_manifest.  Only the fields that differ between manifests of one
\* run directory are kept; absent and torn are states of the file itself.
InitialManifest(r) ==
    [file |-> "ok", completed |-> FALSE, served |-> NoServed,
     untraced |-> TRUE, rubric |-> r]

NoManifest   == [InitialManifest(None) EXCEPT !.file = "absent"]
TornManifest == [InitialManifest(None) EXCEPT !.file = "torn"]

Idle == [at |-> "idle", task |-> None, row |-> NoRow]

Busy == {w \in Workers : worker[w] # Idle}
InFlight == {worker[w].task : w \in Busy}

\* The process is gone: nothing of its memory is left.
GoDown(how) ==
    /\ pc' = "down"
    /\ outcome' = how
    /\ completed' = {}
    /\ queued' = {}
    /\ worker' = [w \in Workers |-> Idle]
    /\ abortEvent' = FALSE
    /\ raised' = FALSE
    /\ served' = NoServed
    /\ tracing' = FALSE

\* Events of the environment that a model bounds.
Kinds == {"stop", "score", "write"}

Spend(kind) ==
    /\ budget[kind] > 0
    /\ budget' = [budget EXCEPT ![kind] = @ - 1]

Init ==
    /\ lines = <<>>
    /\ manifest = NoManifest
    /\ pc = "down"
    /\ outcome = "none"
    /\ completed = {}
    /\ queued = {}
    /\ worker = [w \in Workers |-> Idle]
    /\ abortEvent = FALSE
    /\ raised = FALSE
    /\ served = NoServed
    /\ tracing = FALSE
    /\ alias = [role \in Roles |-> 1]
    /\ rubric = 1
    /\ budget = [kind \in Kinds |-> CASE kind = "stop"  -> MaxStops
                                      [] kind = "score" -> MaxScoreFailures
                                      [] kind = "write" -> MaxWriteFailures]

-----------------------------------------------------------------------------
(* The main thread *)

\* run_eval is called: the manifest is read back, or created.  A manifest that
\* does not parse makes json.loads raise before anything else is touched.
Invoke(traced) ==
    /\ pc = "down"
    /\ IF manifest.file = "torn"
       THEN /\ GoDown("corrupt")
            /\ UNCHANGED <<runDir, world>>
       ELSE /\ manifest' = IF manifest.file = "absent"
                           THEN InitialManifest(rubric) ELSE manifest
            /\ served' = manifest'.served
            /\ tracing' = traced
            /\ pc' = "opened"
            /\ UNCHANGED <<lines, outcome, completed, queued, worker, abortEvent, raised, world>>

\* Faulty variant of Missing: every task is submitted, measured or not.
Missing_All(keys) == Tasks

Missing(keys) == Tasks \ keys

\* Faulty variant of LoadRows: with nothing left to measure it returns at once.
LoadRows_NothingToDo ==
    /\ pc = "opened"
    /\ lines' = RepairTail(lines)
    /\ IF Loadable(lines') /\ TasksOf(lines') # Tasks
       THEN /\ completed' = TasksOf(lines')
            /\ queued' = Missing(completed')
            /\ pc' = "gathering"
            /\ UNCHANGED <<outcome, worker, abortEvent, raised, served, tracing>>
       ELSE GoDown(IF Loadable(lines') THEN "returned" ELSE "corrupt")
    /\ UNCHANGED <<manifest, world>>

\* The tail of rows.jsonl is repaired, its keys are loaded, and every missing
\* task is submitted to the pool at once; with none missing there is no pool.
LoadRows ==
    /\ pc = "opened"
    /\ lines' = RepairTail(lines)
    /\ IF Loadable(lines')
       THEN /\ completed' = TasksOf(lines')
            /\ queued' = Missing(completed')
            /\ pc' = IF queued' = {} THEN "finalizing" ELSE "gathering"
            /\ UNCHANGED <<outcome, worker, abortEvent, raised, served, tracing>>
       ELSE GoDown("corrupt")
    /\ UNCHANGED <<manifest, world>>

\* as_completed hands over a future that holds an exception: the event is set,
\* futures not yet started are cancelled, and the pool is shut down.
GatherException ==
    /\ pc = "gathering"
    /\ raised
    /\ abortEvent' = TRUE
    /\ queued' = {}
    /\ pc' = "aborting"
    /\ UNCHANGED <<runDir, outcome, completed, worker, raised, served, tracing, world>>

\* Every future is done and none holds an exception.
GatherLast ==
    /\ pc = "gathering"
    /\ queued = {} /\ Busy = {} /\ ~raised
    /\ pc' = "finalizing"
    /\ UNCHANGED <<runDir, outcome, completed, queued, worker, abortEvent, raised, served,
                   tracing, world>>

\* KeyboardInterrupt is not an Exception: the pool is still shut down by the
\* finally block, but no abort is recorded and no final manifest follows.
Interrupt ==
    /\ pc = "gathering"
    /\ Spend("stop")
    /\ queued' = {}
    /\ pc' = "interrupted"
    /\ UNCHANGED <<runDir, outcome, completed, worker, abortEvent, raised, served, tracing,
                   alias, rubric>>

\* executor.shutdown(wait=True) returns.
ShutdownDone ==
    /\ Busy = {}
    /\ \/ /\ pc = "aborting"
          /\ pc' = "finalizing"
          /\ UNCHANGED <<outcome, completed, queued, worker, abortEvent, raised, served, tracing>>
       \/ /\ pc = "interrupted"
          /\ GoDown("interrupted")
    /\ UNCHANGED <<runDir, world>>

\* Faulty variant of FinalUntraced: only the latest invocation counts.
FinalUntraced_LastOnly == ~tracing

\* untraced of the final manifest: sticky once rows were found at the start.
FinalUntraced ==
    IF completed # {} THEN manifest.untraced \/ ~tracing ELSE ~tracing

\* Faulty variant of FinalManifest: completed even after an abort.
FinalManifest_AlwaysCompleted ==
    [manifest EXCEPT !.completed = TRUE, !.served = served, !.untraced = FinalUntraced]

FinalManifest ==
    [manifest EXCEPT !.completed = ~raised, !.served = served, !.untraced = FinalUntraced]

\* _write_final_manifest, then return run_dir or raise RunAborted.
WriteFinalManifest ==
    /\ pc = "finalizing"
    /\ manifest' = FinalManifest
    /\ GoDown(IF raised THEN "aborted" ELSE "returned")
    /\ UNCHANGED <<lines, world>>

-----------------------------------------------------------------------------
(* The pool: _run_and_write *)

\* Threads take tasks from the executor's FIFO queue.
FirstQueued(t) == t \in queued /\ \A u \in queued : t <= u

TakeTask(w, t) ==
    /\ worker[w] = Idle
    /\ FirstQueued(t)
    /\ ~abortEvent
    /\ queued' = queued \ {t}
    /\ worker' = [worker EXCEPT ![w] = [at |-> "calling", task |-> t, row |-> NoRow]]
    /\ UNCHANGED <<runDir, pc, outcome, completed, abortEvent, raised, served, tracing, world>>

\* The event is set: the task returns at once and its future holds no exception.
SkipTask(w, t) ==
    /\ worker[w] = Idle
    /\ FirstQueued(t)
    /\ abortEvent
    /\ queued' = queued \ {t}
    /\ UNCHANGED <<runDir, pc, outcome, completed, worker, abortEvent, raised, served, tracing,
                   world>>

\* _score_row returns.  A candidate failure is scored without calling the judge.
ScoreReturns(w, how) ==
    /\ worker[w].at = "calling"
    /\ worker' = [worker EXCEPT
            ![w].at  = "scored",
            ![w].row = [task      |-> worker[w].task,
                        candidate |-> alias["candidate"],
                        judge     |-> IF how = "judged" THEN alias["judge"] ELSE None,
                        rubric    |-> rubric,
                        traced    |-> tracing]]
    /\ UNCHANGED <<runDir, pc, outcome, completed, queued, abortEvent, raised, served, tracing,
                   world>>

\* Faulty variant of ScoreRaises: the event is left to the main thread.
ScoreRaises_NoEvent(w) ==
    /\ worker[w].at = "calling"
    /\ Spend("score")
    /\ raised' = TRUE
    /\ worker' = [worker EXCEPT ![w] = Idle]
    /\ UNCHANGED <<runDir, pc, outcome, completed, queued, abortEvent, served, tracing,
                   alias, rubric>>

\* Faulty variant of ScoreRaises: the task goes back to the queue instead.
ScoreRaises_Requeue(w) ==
    /\ worker[w].at = "calling"
    /\ queued' = queued \cup {worker[w].task}
    /\ worker' = [worker EXCEPT ![w] = Idle]
    /\ UNCHANGED <<runDir, pc, outcome, completed, abortEvent, raised, served, tracing, world>>

\* _score_row raises, TransportExhausted or anything else: the handler sets the
\* event in the worker thread before the future is done.
ScoreRaises(w) ==
    /\ worker[w].at = "calling"
    /\ Spend("score")
    /\ abortEvent' = TRUE
    /\ raised' = TRUE
    /\ worker' = [worker EXCEPT ![w] = Idle]
    /\ UNCHANGED <<runDir, pc, outcome, completed, queued, served, tracing, alias, rubric>>

\* Last call wins; the judge's entry only if the judge was called.
MergeServed(row) ==
    [role \in Roles |-> IF row[role] = None THEN served[role] ELSE row[role]]

\* Under served_versions_lock.
RecordServed(w) ==
    /\ worker[w].at = "scored"
    /\ served' = MergeServed(worker[w].row)
    /\ worker' = [worker EXCEPT ![w].at = "writing"]
    /\ UNCHANGED <<runDir, pc, outcome, completed, queued, abortEvent, raised, tracing, world>>

\* Faulty variant of WriteRow: a row measured after the abort is discarded.
WriteRow_DropOnAbort(w) ==
    /\ worker[w].at = "writing"
    /\ lines' = IF abortEvent THEN lines ELSE AppendRow(lines, worker[w].row)
    /\ worker' = [worker EXCEPT ![w] = Idle]
    /\ UNCHANGED <<manifest, pc, outcome, completed, queued, abortEvent, raised, served, tracing,
                   world>>

\* Under write_lock.
WriteRow(w) ==
    /\ worker[w].at = "writing"
    /\ lines' = AppendRow(lines, worker[w].row)
    /\ worker' = [worker EXCEPT ![w] = Idle]
    /\ UNCHANGED <<manifest, pc, outcome, completed, queued, abortEvent, raised, served, tracing,
                   world>>

\* Faulty variant of WriteRaises: the exception never reaches the future.
WriteRaises_Swallowed(w, tear) ==
    /\ worker[w].at = "writing"
    /\ Spend("write")
    /\ lines' = AppendTorn(lines, worker[w].row, tear)
    /\ worker' = [worker EXCEPT ![w] = Idle]
    /\ UNCHANGED <<manifest, pc, outcome, completed, queued, abortEvent, raised, served, tracing,
                   alias, rubric>>

\* open, write or flush raises OSError.  This is outside the try block: the
\* future holds the exception, but the event is not set here.
WriteRaises(w, tear) ==
    /\ worker[w].at = "writing"
    /\ Spend("write")
    /\ lines' = AppendTorn(lines, worker[w].row, tear)
    /\ raised' = TRUE
    /\ worker' = [worker EXCEPT ![w] = Idle]
    /\ UNCHANGED <<manifest, pc, outcome, completed, queued, abortEvent, served, tracing,
                   alias, rubric>>

-----------------------------------------------------------------------------
(* The environment *)

\* The process is killed while no file is being written.
Kill ==
    /\ pc # "down"
    /\ Spend("stop")
    /\ GoDown("killed")
    /\ UNCHANGED <<runDir, alias, rubric>>

\* ... while a thread is writing its row.
KillInRowWrite(w, tear) ==
    /\ worker[w].at = "writing"
    /\ Spend("stop")
    /\ lines' = AppendTorn(lines, worker[w].row, tear)
    /\ GoDown("killed")
    /\ UNCHANGED <<manifest, alias, rubric>>

\* ... while write_text, which truncates the file first, writes the initial or
\* the final manifest.
KillInManifestWrite ==
    /\ ManifestTears
    /\ \/ pc = "down" /\ manifest.file = "absent"
       \/ pc = "finalizing"
    /\ Spend("stop")
    /\ manifest' = TornManifest
    /\ GoDown("killed")
    /\ UNCHANGED <<lines, alias, rubric>>

\* A Langfuse call fails: the context is untraced from here on (_mark_untraced).
TracingFails ==
    /\ pc \in {"gathering", "aborting", "interrupted", "finalizing"}
    /\ tracing
    /\ tracing' = FALSE
    /\ UNCHANGED <<runDir, pc, outcome, completed, queued, worker, abortEvent, raised, served,
                   world>>

\* The provider moves an alias to its next version.
AliasMoves(role) ==
    /\ alias[role] < NumVersions
    /\ alias' = [alias EXCEPT ![role] = @ + 1]
    /\ UNCHANGED <<runDir, process, rubric, budget>>

\* The rubric, the judge prompt or its few-shots are edited between invocations.
RubricEdited ==
    /\ pc = "down"
    /\ rubric < NumRubrics
    /\ rubric' = rubric + 1
    /\ UNCHANGED <<runDir, process, alias, budget>>

-----------------------------------------------------------------------------
Main == LoadRows \/ GatherException \/ GatherLast \/ ShutdownDone \/ WriteFinalManifest

Thread(w) ==
    \/ \E t \in Tasks : TakeTask(w, t) \/ SkipTask(w, t)
    \/ \E how \in ScoreOutcomes : ScoreReturns(w, how)
    \/ ScoreRaises(w)
    \/ RecordServed(w)
    \/ WriteRow(w)
    \/ \E tear \in WriteTears : WriteRaises(w, tear)

Environment ==
    \/ Interrupt
    \/ Kill
    \/ \E w \in Workers, tear \in KillTears : KillInRowWrite(w, tear)
    \/ KillInManifestWrite
    \/ TracingFails
    \/ \E role \in Roles : AliasMoves(role)
    \/ RubricEdited

Next ==
    \/ \E traced \in TraceModes : Invoke(traced)
    \/ Main
    \/ \E w \in Workers : Thread(w)
    \/ Environment

Spec == Init /\ [][Next]_vars

\* Threads are scheduled, and every client call returns or raises: its time is
\* bounded by retry_transport (see RetryTransport).
Fairness == WF_vars(Main) /\ \A w \in Workers : WF_vars(Thread(w))

FairSpec == Spec /\ Fairness

\* Somebody keeps calling run_eval again until the run is complete.
RetriedSpec == FairSpec /\ WF_vars(\E traced \in TraceModes : Invoke(traced))

-----------------------------------------------------------------------------
(* Properties *)

Manifests ==
    [file : {"ok", "absent", "torn"}, completed : BOOLEAN,
     served : [Roles -> Versions \cup {None}], untraced : BOOLEAN,
     rubric : Rubrics \cup {None}]

Activities ==
    {Idle} \cup [at : {"calling", "scored", "writing"}, task : Tasks, row : Row \cup {NoRow}]

\* Every variable stays in the set its code counterpart ranges over: lines of
\* rows.jsonl are rows or unparseable, threads are idle or hold a task.
TypeOK ==
    /\ lines \in Seq(Line)
    /\ manifest \in Manifests
    /\ pc \in {"down", "opened", "gathering", "aborting", "interrupted", "finalizing"}
    /\ outcome \in {"none", "corrupt", "returned", "aborted", "interrupted", "killed"}
    /\ completed \subseteq Tasks
    /\ queued \subseteq Tasks
    /\ worker \in [Workers -> Activities]
    /\ abortEvent \in BOOLEAN
    /\ raised \in BOOLEAN
    /\ served \in [Roles -> Versions \cup {None}]
    /\ tracing \in BOOLEAN
    /\ alias \in [Roles -> Versions]
    /\ rubric \in Rubrics
    /\ budget \in [Kinds -> Nat]

Certified == manifest.file = "ok" /\ manifest.completed

\* A manifest says completed only if every (item, replicate) task has a row
\* that load_run will find (RunArtifact.completed).
CompletedRunIsWhole ==
    Certified => Loadable(lines) /\ TasksOf(lines) = Tasks

\* The weaker promise that survives failing writes: a completed run has a
\* parseable row of every task somewhere in its file.
CompletedRunHasEveryRow ==
    Certified => TasksOf(lines) = Tasks

\* No (item, replicate) is measured twice: a task with a persisted row is in
\* nobody's hands, no two threads hold the same task, none is both queued and
\* held, and the file never has two rows of a task, across any number of
\* crashes, aborts and resumptions.
NoResample ==
    /\ OneRowPerTask(lines)
    /\ TasksOf(lines) \cap (queued \cup InFlight) = {}
    /\ queued \cap InFlight = {}
    /\ \A v, w \in Busy : worker[v].task = worker[w].task => v = w

\* rows.jsonl can always be read back: a line that does not parse is the last
\* one (the premise of _read_row_dicts).
RowsStayLoadable == Loadable(lines)

\* A persisted row is never lost or altered: not by the repair, not by a row
\* appended after it, not by a crash.
PersistedRowsStay == [][RowsOf(lines) \subseteq RowsOf(lines')]_vars

\* No task gets past the check of the abort event, and so starts to spend calls,
\* once some task has raised.  Tasks that are past it run to completion.
NoCallAfterFailure ==
    [][\A w \in Workers : worker[w] = Idle /\ worker'[w].at = "calling" => ~raised]_vars

\* A completed run is only called traced if every one of its rows was measured
\* by an invocation that was being traced (RunArtifact.untraced).
UntracedIsSticky ==
    Certified /\ ~manifest.untraced => \A row \in RowsOf(lines) : row.traced

\* A version in the manifest of a completed run, for either role, is one that
\* served a row of that run.
ServedNamesARow ==
    Certified => \A role \in Roles :
        manifest.served[role] # None =>
            \E row \in RowsOf(lines) : row[role] = manifest.served[role]

\* The run directory implements the ledger its users rely on.
Durable == INSTANCE Ledger WITH measured <- TasksOf(lines), certified <- Certified

ImplementsLedger == Durable!Spec

\* An invocation ends: the pool is drained and run_eval returns or raises.
InvocationEnds == (pc = "opened") ~> (pc = "down")

\* A file that every later invocation fails to read: a manifest that was truncated
\* and not written, or a bad line of rows.jsonl with another one after it.
Unreadable == manifest.file = "torn" \/ ~Loadable(lines)

\* However many crashes, aborts, interrupts and failing writes there were, and
\* wherever they hit, resuming completes the run for good, unless one of them left
\* a file that cannot be read: no other state is a dead end.  Those two are, against
\* the module docstring of runner.py ("an interrupted run can be resumed").
CompletedUnlessUnreadable == <>[](Certified \/ Unreadable)
=============================================================================
