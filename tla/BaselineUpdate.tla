--------------------------- MODULE BaselineUpdate ---------------------------
(***************************************************************************)
(* eval gate --update-baseline: update_baseline and update_baselines of    *)
(* src/harness/gate/gate.py, generate_baseline of gate/baseline.py.  An    *)
(* invocation measures its candidates one after the other into a .staging  *)
(* directory that all invocations share, then copies the staged files over *)
(* the committed ones, then removes .staging.  A step is one measurement,  *)
(* one copy or one clean-up.                                               *)
(***************************************************************************)
EXTENDS Naturals

CONSTANTS Updaters,        \* processes that may run an update
          Plans,           \* which candidates an invocation may update
          Tracing,         \* whether a measurement's trace may be (TRUE) complete
          MaxInvocations,  \* bound: updates started
          MaxFaults        \* bound: kills and failing writes

Candidates == {"a", "b"}

ASSUME UpdateAssumption ==
    /\ Plans \subseteq (SUBSET Candidates) \ {{}}
    /\ Tracing \subseteq BOOLEAN
    /\ MaxInvocations \in Nat /\ MaxFaults \in Nat

VARIABLES committed,  \* baselines/{a,b}.json
          staged,     \* baselines/.staging/{a,b}.json
          updater,    \* what each process is doing
          started,    \* updates started so far
          faults      \* faults still to come

vars == <<committed, staged, updater, started, faults>>

-----------------------------------------------------------------------------
(***************************************************************************)
(* A file is absent, torn (truncated by a write that did not complete), or *)
(* whole.  Of a baseline only this matters: which invocation measured it,  *)
(* whether it passes check_guardrail_floor and whether the run it repacks  *)
(* was traced to its end.                                                  *)
(***************************************************************************)
Invocations == 0 .. MaxInvocations

Baseline == [state : {"whole"}, by : Invocations, floor : BOOLEAN, traced : BOOLEAN]

Absent == [state |-> "absent", by |-> 0, floor |-> FALSE, traced |-> FALSE]
Torn   == [Absent EXCEPT !.state = "torn"]
First  == [state |-> "whole", by |-> 0, floor |-> TRUE, traced |-> TRUE]

File == Baseline \cup {Absent, Torn}

Measured(invocation, floor, traced) ==
    [state |-> "whole", by |-> invocation, floor |-> floor, traced |-> traced]

NoFiles == [c \in Candidates |-> Absent]

\* An invocation: the candidates it updates, those it has still to measure or
\* to promote, its number, and what was committed when it started.
Resting == [at |-> "idle", plan |-> {}, left |-> {}, number |-> 0,
            before |-> NoFiles, ended |-> "none"]

Status ==
    [at : {"idle", "staging", "promoting", "cleaning"},
     plan : SUBSET Candidates, left : SUBSET Candidates, number : Invocations,
     before : [Candidates -> File],
     ended : {"none", "committed", "refused", "aborted", "failed", "killed"}]

\* Candidate a comes first.
Turn(c, left) == c \in left /\ (c = "b" => "a" \notin left)

Init ==
    /\ \E file \in {Absent, First} : committed = [c \in Candidates |-> file]
    /\ staged = NoFiles
    /\ updater = [u \in Updaters |-> Resting]
    /\ started = 0
    /\ faults = MaxFaults

-----------------------------------------------------------------------------
Start(u, plan) ==
    /\ updater[u].at = "idle"
    /\ started < MaxInvocations
    /\ started' = started + 1
    /\ updater' = [updater EXCEPT ![u] =
            [at |-> "staging", plan |-> plan, left |-> plan, number |-> started',
             before |-> committed, ended |-> "none"]]
    /\ UNCHANGED <<committed, staged, faults>>

\* The try block is left, or the process: how it ended is kept.
Leave(me, at, how) == [me EXCEPT !.at = at, !.ended = how]

\* Everything is staged and has passed: the same candidates are to be promoted.
AfterStaging(me, c) ==
    IF me.left = {c} THEN [me EXCEPT !.at = "promoting", !.left = me.plan]
                     ELSE [me EXCEPT !.left = @ \ {c}]

\* Faulty variant of Stage: each candidate is promoted as soon as it passes.
Stage_PromotesAtOnce(u, c, floor, traced) ==
    LET me == updater[u] IN
    /\ me.at = "staging"
    /\ Turn(c, me.left)
    /\ staged' = [staged EXCEPT ![c] = Measured(me.number, floor, traced)]
    /\ committed' = IF floor THEN [committed EXCEPT ![c] = staged'[c]] ELSE committed
    /\ updater' = [updater EXCEPT ![u] =
            IF floor THEN AfterStaging(me, c) ELSE Leave(me, "cleaning", "refused")]
    /\ UNCHANGED <<started, faults>>

\* Faulty variant of Stage: the floor is checked and the answer ignored.
Stage_NoCheck(u, c, floor, traced) ==
    LET me == updater[u] IN
    /\ me.at = "staging"
    /\ Turn(c, me.left)
    /\ staged' = [staged EXCEPT ![c] = Measured(me.number, floor, traced)]
    /\ updater' = [updater EXCEPT ![u] = AfterStaging(me, c)]
    /\ UNCHANGED <<committed, started, faults>>

\* _stage_baseline returns or raises GuardrailFloorError.  The file is written
\* by generate_baseline, before the floor is checked.
Stage(u, c, floor, traced) ==
    LET me == updater[u] IN
    /\ me.at = "staging"
    /\ Turn(c, me.left)
    /\ staged' = [staged EXCEPT ![c] = Measured(me.number, floor, traced)]
    /\ updater' = [updater EXCEPT ![u] =
            IF floor THEN AfterStaging(me, c) ELSE Leave(me, "cleaning", "refused")]
    /\ UNCHANGED <<committed, started, faults>>

\* run_eval or load_run raises, or too few adversarial composites are left to
\* measure a standard error (ValueError): nothing is written.
StageRaises(u) ==
    /\ updater[u].at = "staging"
    /\ updater' = [updater EXCEPT ![u] = Leave(@, "cleaning", "aborted")]
    /\ UNCHANGED <<committed, staged, started, faults>>

\* Faulty variant of AfterPromotion: only the first candidate is promoted.
AfterPromotion_FirstOnly(me, c) ==
    Leave([me EXCEPT !.left = {}], "cleaning", "committed")

\* The next candidate, or the end of the try block.
AfterPromotion(me, c) ==
    IF me.left = {c} THEN Leave([me EXCEPT !.left = {}], "cleaning", "committed")
                     ELSE [me EXCEPT !.left = @ \ {c}]

\* _promote_staged_baseline: what is staged now is copied, whoever staged it.
Promote(u, c) ==
    LET me == updater[u] IN
    /\ me.at = "promoting"
    /\ Turn(c, me.left)
    /\ staged[c] # Absent
    /\ committed' = [committed EXCEPT ![c] = staged[c]]
    /\ updater' = [updater EXCEPT ![u] = AfterPromotion(me, c)]
    /\ UNCHANGED <<staged, started, faults>>

\* The staged file is not there to be read (another invocation's clean-up has
\* removed it), or write_text raises: on open, which leaves the committed file
\* alone, or after it has truncated it.
PromoteRaises(u, c, file) ==
    /\ updater[u].at = "promoting"
    /\ Turn(c, updater[u].left)
    /\ \/ staged[c] = Absent /\ file = committed[c] /\ UNCHANGED faults
       \/ staged[c] # Absent /\ faults > 0 /\ faults' = faults - 1
    /\ committed' = [committed EXCEPT ![c] = file]
    /\ updater' = [updater EXCEPT ![u] = Leave(@, "cleaning", "failed")]
    /\ UNCHANGED <<staged, started>>

\* The finally block removes the shared directory.
CleanUp(u) ==
    /\ updater[u].at = "cleaning"
    /\ staged' = NoFiles
    /\ updater' = [updater EXCEPT ![u] = Leave(@, "idle", @.ended)]
    /\ UNCHANGED <<committed, started, faults>>

-----------------------------------------------------------------------------
Die(u) ==
    /\ updater[u].at # "idle"
    /\ faults > 0
    /\ faults' = faults - 1
    /\ updater' = [updater EXCEPT ![u] = Leave(@, "idle", "killed")]
    /\ UNCHANGED started

Kill(u) == Die(u) /\ UNCHANGED <<committed, staged>>

\* ... in the middle of writing a staged or a committed file.
KillInStaging(u, c) ==
    /\ updater[u].at = "staging" /\ Turn(c, updater[u].left)
    /\ Die(u)
    /\ staged' = [staged EXCEPT ![c] = Torn]
    /\ UNCHANGED committed

KillInPromotion(u, c) ==
    /\ updater[u].at = "promoting" /\ Turn(c, updater[u].left)
    /\ staged[c] # Absent
    /\ Die(u)
    /\ committed' = [committed EXCEPT ![c] = Torn]
    /\ UNCHANGED staged

-----------------------------------------------------------------------------
Update(u) ==
    \/ \E c \in Candidates :
        \/ \E floor \in BOOLEAN, traced \in Tracing : Stage(u, c, floor, traced)
        \/ Promote(u, c)
        \/ \E file \in {committed[c], Torn} : PromoteRaises(u, c, file)
    \/ StageRaises(u)
    \/ CleanUp(u)

Faults(u) ==
    \/ Kill(u)
    \/ \E c \in Candidates :
        \/ KillInStaging(u, c)
        \/ KillInPromotion(u, c)

Next ==
    \E u \in Updaters :
        \/ \E plan \in Plans : Start(u, plan)
        \/ Update(u)
        \/ Faults(u)

Spec == Init /\ [][Next]_vars

-----------------------------------------------------------------------------
(* Properties *)

\* Files are absent, torn or baselines, and invocations are in one of the
\* states of the update.
TypeOK ==
    /\ committed \in [Candidates -> File]
    /\ staged \in [Candidates -> File]
    /\ updater \in [Updaters -> Status]
    /\ started \in Invocations
    /\ faults \in 0 .. MaxFaults

\* A whole committed baseline has passed check_guardrail_floor, whatever
\* earlier invocations left in .staging.
CommittedPassedTheFloor ==
    \A c \in Candidates : committed[c].state = "whole" => committed[c].floor

\* When staging fails for either candidate, both committed files are what they
\* were when the invocation started (update_baselines).
FailedStagingChangesNothing ==
    \A u \in Updaters : updater[u].ended \in {"refused", "aborted"} =>
        committed = updater[u].before

\* After an update that returned, each candidate it updates has the baseline
\* that this very invocation measured.
ReturnedUpdateIsWhole ==
    \A u \in Updaters : updater[u].ended = "committed" =>
        \A c \in updater[u].plan :
            committed[c].state = "whole" /\ committed[c].by = updater[u].number
=============================================================================
