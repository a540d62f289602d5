---------------------------- MODULE RunEvalProofs ----------------------------
(***************************************************************************)
(* Proofs about RunEval, for every number of tasks, threads, versions,     *)
(* crashes and failures.                                                   *)
(***************************************************************************)
EXTENDS RunEval, RowsFileProofs

LEMMA RowVersions ==
    ASSUME NEW row \in Row \cup {NoRow}, NEW role \in Roles
    PROVE  row[role] \in Versions \cup {None}
  <1>1. CASE role = "candidate"
    BY <1>1 DEF Row, NoRow
  <1>2. CASE role = "judge"
    BY <1>2 DEF Row, NoRow
  <1>3. QED
    BY <1>1, <1>2 DEF Roles

LEMMA IdleIsActivity == Idle \in Activities
  BY DEF Idle, Activities

LEMMA GoDownTypes ==
    ASSUME NEW how \in {"corrupt", "returned", "aborted", "interrupted", "killed"},
           GoDown(how)
    PROVE  /\ pc' = "down"
           /\ outcome' \in {"corrupt", "returned", "aborted", "interrupted", "killed"}
           /\ completed' \subseteq Tasks
           /\ queued' \subseteq Tasks
           /\ worker' \in [Workers -> Activities]
           /\ abortEvent' \in BOOLEAN
           /\ raised' \in BOOLEAN
           /\ served' \in [Roles -> Versions \cup {None}]
           /\ tracing' \in BOOLEAN
  BY IdleIsActivity DEF GoDown, NoServed

LEMMA SpendTypes ==
    ASSUME NEW kind \in Kinds, budget \in [Kinds -> Nat], Spend(kind)
    PROVE  budget' \in [Kinds -> Nat]
  BY DEF Spend

LEMMA TornTypes ==
    ASSUME NEW ls \in Seq(Line), NEW row \in Row \cup {NoRow}, NEW tear \in TearPoints
    PROVE  AppendTorn(ls, row, tear) \in Seq(Line)
  BY PutFacts DEF AppendTorn, TearPoints, PutResult

(* A thread that is not idle holds a task. *)
LEMMA HeldTypes ==
    ASSUME NEW a \in Activities, a.at # "idle"
    PROVE  a \in [at : {"calling", "scored", "writing"}, task : Tasks, row : Row \cup {NoRow}]
  BY DEF Activities, Idle

(***************************************************************************)
(* Type correctness, one step per action.                                  *)
(***************************************************************************)
LEMMA InitTypes == Init => TypeOK
  <1> SUFFICES ASSUME Init PROVE TypeOK
    OBVIOUS
  <1>1. manifest \in Manifests
    BY DEF Init, Manifests, NoManifest, InitialManifest, NoServed
  <1>2. budget \in [Kinds -> Nat]
    BY RunAssumption DEF Init, Kinds
  <1>3. 1 \in Versions /\ 1 \in Rubrics
    BY SizesAssumption DEF Versions, Rubrics
  <1>4. lines \in Seq(Line)
    BY EmptySeq DEF Init
  <1>5. QED
    BY <1>1, <1>2, <1>3, <1>4, IdleIsActivity DEF Init, TypeOK, NoServed

LEMMA NextTypes == TypeOK /\ [Next]_vars => TypeOK'
  <1> SUFFICES ASSUME TypeOK, [Next]_vars PROVE TypeOK'
    OBVIOUS
  <1> USE DEF TypeOK
  <1>1. ASSUME NEW traced \in TraceModes, Invoke(traced) PROVE TypeOK'
    <2>1. traced \in BOOLEAN
      BY RunAssumption
    <2>2. CASE manifest.file = "torn"
      BY <1>1, <2>2, GoDownTypes DEF Invoke, runDir, world
    <2>3. CASE manifest.file # "torn"
      <3>1. manifest' \in Manifests
        <4>1. InitialManifest(rubric) \in Manifests
          BY DEF InitialManifest, Manifests, NoServed
        <4>2. QED
          BY <1>1, <2>3, <4>1 DEF Invoke
      <3>2. served' \in [Roles -> Versions \cup {None}]
        BY <1>1, <2>3, <3>1 DEF Invoke, Manifests
      <3>3. QED
        BY <1>1, <2>1, <2>3, <3>1, <3>2 DEF Invoke, world
    <2>4. QED
      BY <2>2, <2>3
  <1>2. CASE LoadRows
    <2>1. lines' \in Seq(Line)
      BY <1>2, RepairFacts DEF LoadRows, RepairResult
    <2>2. CASE Loadable(lines')
      <3>1. completed' \subseteq Tasks
        BY <1>2, <2>1, <2>2, RowsOfTypes DEF LoadRows
      <3>2. QED
        BY <1>2, <2>1, <2>2, <3>1 DEF LoadRows, Missing, world
    <2>3. CASE ~Loadable(lines')
      BY <1>2, <2>1, <2>3, GoDownTypes DEF LoadRows, world
    <2>4. QED
      BY <2>2, <2>3
  <1>3. CASE GatherException
    BY <1>3 DEF GatherException, runDir, world
  <1>4. CASE GatherLast
    BY <1>4 DEF GatherLast, runDir, world
  <1>5. CASE Interrupt
    BY <1>5, SpendTypes DEF Interrupt, runDir, Kinds
  <1>6. CASE ShutdownDone
    <2>1. CASE GoDown("interrupted")
      BY <1>6, <2>1, GoDownTypes DEF ShutdownDone, runDir, world
    <2>2. CASE ~GoDown("interrupted")
      BY <1>6, <2>2 DEF ShutdownDone, runDir, world
    <2>3. QED
      BY <2>1, <2>2
  <1>7. CASE WriteFinalManifest
    <2>1. FinalUntraced \in BOOLEAN
      BY DEF FinalUntraced, Manifests
    <2>2. manifest' \in Manifests
      BY <1>7, <2>1 DEF WriteFinalManifest, FinalManifest, Manifests
    <2>3. GoDown("aborted") \/ GoDown("returned")
      BY <1>7 DEF WriteFinalManifest
    <2>4. QED
      BY <1>7, <2>2, <2>3, GoDownTypes DEF WriteFinalManifest, world
  <1>8. ASSUME NEW w \in Workers, NEW t \in Tasks, TakeTask(w, t) PROVE TypeOK'
    <2>1. [at |-> "calling", task |-> t, row |-> NoRow] \in Activities
      BY DEF Activities
    <2>2. QED
      BY <1>8, <2>1 DEF TakeTask, runDir, world
  <1>9. ASSUME NEW w \in Workers, NEW t \in Tasks, SkipTask(w, t) PROVE TypeOK'
    BY <1>9 DEF SkipTask, runDir, world
  <1>10. ASSUME NEW w \in Workers, NEW how \in ScoreOutcomes, ScoreReturns(w, how)
         PROVE  TypeOK'
    <2> DEFINE row == [task      |-> worker[w].task,
                       candidate |-> alias["candidate"],
                       judge     |-> IF how = "judged" THEN alias["judge"] ELSE None,
                       rubric    |-> rubric,
                       traced    |-> tracing]
    <2>1. worker[w].task \in Tasks
      BY <1>10 DEF ScoreReturns, Activities, Idle
    <2>2. row \in Row
      BY <2>1 DEF Row, Roles
    <2> HIDE DEF row
    <2>3. worker' = [worker EXCEPT ![w] = [worker[w] EXCEPT !.at = "scored", !.row = row]]
      BY <1>10 DEF ScoreReturns, row
    <2>4. [worker[w] EXCEPT !.at = "scored", !.row = row] \in Activities
      <3>1. worker[w].at # "idle"
        BY <1>10 DEF ScoreReturns
      <3>2. worker[w] \in [at : {"calling", "scored", "writing"}, task : Tasks,
                            row : Row \cup {NoRow}]
        BY <3>1, HeldTypes
      <3>3. QED
        BY <2>2, <3>2 DEF Activities
    <2>5. worker' \in [Workers -> Activities]
      BY <2>3, <2>4
    <2>6. QED
      BY <1>10, <2>5 DEF ScoreReturns, runDir, world
  <1>11. ASSUME NEW w \in Workers, ScoreRaises(w) PROVE TypeOK'
    BY <1>11, SpendTypes, IdleIsActivity DEF ScoreRaises, runDir, Kinds
  <1>12. ASSUME NEW w \in Workers, RecordServed(w) PROVE TypeOK'
    <2>1. worker[w].row \in Row \cup {NoRow}
      BY DEF Activities, Idle
    <2>2. served' \in [Roles -> Versions \cup {None}]
      BY <1>12, <2>1, RowVersions DEF RecordServed, MergeServed
    <2>3. worker' \in [Workers -> Activities]
      <3>1. worker[w].at # "idle"
        BY <1>12 DEF RecordServed
      <3>2. [worker[w] EXCEPT !.at = "writing"] \in Activities
        BY <3>1, HeldTypes DEF Activities
      <3>3. worker' = [worker EXCEPT ![w] = [worker[w] EXCEPT !.at = "writing"]]
        BY <1>12 DEF RecordServed
      <3>4. QED
        BY <3>2, <3>3
    <2>4. QED
      BY <1>12, <2>2, <2>3 DEF RecordServed, runDir, world
  <1>13. ASSUME NEW w \in Workers, WriteRow(w) PROVE TypeOK'
    <2>1. worker[w].row \in Row \cup {NoRow}
      BY DEF Activities, Idle
    <2>2. lines' \in Seq(Line)
      BY <1>13, <2>1, PutFacts DEF WriteRow, AppendRow, PutResult
    <2>3. QED
      BY <1>13, <2>2, IdleIsActivity DEF WriteRow, world
  <1>14. ASSUME NEW w \in Workers, NEW tear \in WriteTears, WriteRaises(w, tear)
         PROVE  TypeOK'
    <2>1. worker[w].row \in Row \cup {NoRow} /\ tear \in TearPoints
      BY RunAssumption DEF Activities, Idle
    <2>2. lines' \in Seq(Line)
      BY <1>14, <2>1, TornTypes DEF WriteRaises
    <2>3. QED
      BY <1>14, <2>2, IdleIsActivity, SpendTypes DEF WriteRaises, Kinds
  <1>15. CASE Kill
    BY <1>15, GoDownTypes, SpendTypes DEF Kill, runDir, Kinds
  <1>16. ASSUME NEW w \in Workers, NEW tear \in KillTears, KillInRowWrite(w, tear)
         PROVE  TypeOK'
    <2>1. worker[w].row \in Row \cup {NoRow} /\ tear \in TearPoints
      BY RunAssumption DEF Activities, Idle
    <2>2. lines' \in Seq(Line)
      BY <1>16, <2>1, TornTypes DEF KillInRowWrite
    <2>3. QED
      BY <1>16, <2>2, GoDownTypes, SpendTypes DEF KillInRowWrite, Kinds
  <1>17. CASE KillInManifestWrite
    <2>1. TornManifest \in Manifests
      BY DEF TornManifest, InitialManifest, Manifests, NoServed
    <2>2. QED
      BY <1>17, <2>1, GoDownTypes, SpendTypes DEF KillInManifestWrite, Kinds
  <1>18. CASE TracingFails
    BY <1>18 DEF TracingFails, runDir, world
  <1>19. ASSUME NEW role \in Roles, AliasMoves(role) PROVE TypeOK'
    <2>1. alias[role] + 1 \in Versions
      BY <1>19, SizesAssumption DEF AliasMoves, Versions
    <2>2. QED
      BY <1>19, <2>1 DEF AliasMoves, runDir, process
  <1>20. CASE RubricEdited
    BY <1>20, SizesAssumption DEF RubricEdited, runDir, process, Rubrics
  <1>21. CASE UNCHANGED vars
    BY <1>21 DEF vars, runDir, process, world
  <1>22. QED
    BY <1>1, <1>2, <1>3, <1>4, <1>5, <1>6, <1>7, <1>8, <1>9, <1>10, <1>11, <1>12, <1>13,
       <1>14, <1>15, <1>16, <1>17, <1>18, <1>19, <1>20, <1>21
    DEF Next, Main, Thread, Environment

(***************************************************************************)
(* Every variable of run_eval stays in the set its code counterpart ranges *)
(* over.                                                                   *)
(***************************************************************************)
THEOREM TypeCorrect == Spec => []TypeOK
  BY InitTypes, NextTypes, PTL DEF Spec

-----------------------------------------------------------------------------
(***************************************************************************)
(* No task is measured twice.  NoResample is not inductive by itself: that *)
(* a write adds a row of the task its thread holds, and that an invocation *)
(* starts with no task in anybody's hands, must be carried along.          *)
(***************************************************************************)

\* NoResample, thread by thread.
Exclusive ==
    /\ \A t \in queued : t \notin TasksOf(lines) /\ \A w \in Workers : worker[w].task # t
    /\ \A w \in Workers : worker[w] # Idle => worker[w].task \notin TasksOf(lines)
    /\ \A v, w \in Workers :
          worker[v] # Idle /\ worker[w] # Idle /\ worker[v].task = worker[w].task => v = w

HoldsItsRow ==
    \A w \in Workers : worker[w].at \in {"scored", "writing"} =>
        worker[w].row \in Row /\ worker[w].row.task = worker[w].task

Resting ==
    /\ pc # "gathering" => queued = {}
    /\ pc \in {"down", "opened", "finalizing"} => \A w \in Workers : worker[w] = Idle

ResampleInv ==
    /\ OneRowPerTask(lines)
    /\ Exclusive
    /\ HoldsItsRow
    /\ Resting

LEMMA ExclusiveImpliesNoResample == TypeOK /\ ResampleInv => NoResample
  <1> SUFFICES ASSUME TypeOK, ResampleInv PROVE NoResample
    OBVIOUS
  <1>1. \A t \in InFlight : \E w \in Workers : worker[w] # Idle /\ t = worker[w].task
    BY DEF InFlight, Busy
  <1>2. TasksOf(lines) \cap (queued \cup InFlight) = {}
    BY <1>1 DEF ResampleInv, Exclusive
  <1>3. queued \cap InFlight = {}
    BY <1>1 DEF ResampleInv, Exclusive
  <1>4. \A v, w \in Busy : worker[v].task = worker[w].task => v = w
    BY DEF ResampleInv, Exclusive, Busy
  <1>5. QED
    BY <1>2, <1>3, <1>4 DEF NoResample, ResampleInv

LEMMA InitResample == Init => ResampleInv
  <1> SUFFICES ASSUME Init PROVE ResampleInv
    OBVIOUS
  <1>1. Len(lines) = 0
    BY DEF Init
  <1>2. QED
    BY <1>1 DEF Init, ResampleInv, OneRowPerTask, Exclusive, HoldsItsRow, Resting, Idle

(* A process that ends leaves nothing but its file. *)
LEMMA DownResample ==
    ASSUME NEW how, GoDown(how), OneRowPerTask(lines')
    PROVE  ResampleInv'
  BY DEF GoDown, ResampleInv, Exclusive, HoldsItsRow, Resting, Idle

(* Steps that touch neither the file, the queue nor the threads. *)
LEMMA QuietResample ==
    ASSUME ResampleInv, UNCHANGED <<lines, queued, worker>>, Resting'
    PROVE  ResampleInv'
  BY DEF ResampleInv, Exclusive, HoldsItsRow

(* A thread whose row reached the file, whole or torn, lets go of its task. *)
LEMMA ReleaseResample ==
    ASSUME TypeOK, ResampleInv,
           NEW w \in Workers, worker[w].at # "idle",
           worker' = [worker EXCEPT ![w] = Idle],
           UNCHANGED <<pc, queued>>,
           OneRowPerTask(lines'),
           \A t \in TasksOf(lines') : t \in TasksOf(lines) \/ t = worker[w].task
    PROVE  ResampleInv'
  <1>1. worker[w] # Idle /\ worker'[w] = Idle
    BY DEF TypeOK, Idle
  <1>2. \A v \in Workers : v # w => worker'[v] = worker[v]
    BY DEF TypeOK
  <1>3. worker[w].task \in Tasks /\ Idle.task \notin Tasks
    BY HeldTypes DEF TypeOK, Idle, Tasks, None
  <1>4. Exclusive'
    <2>1. ASSUME NEW t \in queued'
          PROVE  t \notin TasksOf(lines') /\ \A v \in Workers : worker'[v].task # t
      <3>1. t \in queued /\ t \in Tasks
        BY <2>1 DEF TypeOK
      <3>2. t # worker[w].task /\ t \notin TasksOf(lines)
        BY <3>1 DEF ResampleInv, Exclusive
      <3>3. \A v \in Workers : worker'[v].task # t
        BY <1>1, <1>2, <1>3, <3>1 DEF ResampleInv, Exclusive
      <3>4. QED
        BY <3>2, <3>3
    <2>2. ASSUME NEW v \in Workers, worker'[v] # Idle
          PROVE  worker'[v].task \notin TasksOf(lines')
      <3>1. v # w /\ worker'[v] = worker[v]
        BY <1>1, <1>2, <2>2
      <3>2. worker[v].task # worker[w].task /\ worker[v].task \notin TasksOf(lines)
        BY <1>1, <2>2, <3>1 DEF ResampleInv, Exclusive
      <3>3. QED
        BY <3>1, <3>2
    <2>3. \A u, v \in Workers :
            worker'[u] # Idle /\ worker'[v] # Idle /\ worker'[u].task = worker'[v].task
               => u = v
      BY <1>1, <1>2 DEF ResampleInv, Exclusive
    <2>4. QED
      BY <2>1, <2>2, <2>3 DEF Exclusive
  <1>5. HoldsItsRow'
    BY <1>1, <1>2 DEF ResampleInv, HoldsItsRow, Idle
  <1>6. Resting'
    BY <1>1, <1>2 DEF ResampleInv, Resting
  <1>7. QED
    BY <1>4, <1>5, <1>6 DEF ResampleInv

(* The row in the hands of a thread that writes is one of a task that has   *)
(* none in the file.                                                        *)
LEMMA WritingRow ==
    ASSUME TypeOK, ResampleInv, NEW w \in Workers, worker[w].at = "writing"
    PROVE  /\ worker[w].row \in Row
           /\ worker[w].row.task = worker[w].task
           /\ worker[w].row.task \notin TasksOf(lines)
           /\ lines \in Seq(Line)
           /\ OneRowPerTask(lines)
  BY DEF TypeOK, ResampleInv, HoldsItsRow, Exclusive, Idle

LEMMA NextResample == TypeOK /\ ResampleInv /\ [Next]_vars => ResampleInv'
  <1> SUFFICES ASSUME TypeOK, ResampleInv, [Next]_vars PROVE ResampleInv'
    OBVIOUS
  <1>0. OneRowPerTask(lines)
    BY DEF ResampleInv
  <1>1. ASSUME NEW traced \in TraceModes, Invoke(traced) PROVE ResampleInv'
    <2>1. CASE manifest.file = "torn"
      BY <1>0, <1>1, <2>1, DownResample DEF Invoke, runDir
    <2>2. CASE manifest.file # "torn"
      BY <1>1, <2>2, QuietResample DEF Invoke, ResampleInv, Resting
    <2>3. QED
      BY <2>1, <2>2
  <1>2. CASE LoadRows
    <2>1. OneRowPerTask(lines')
      BY <1>0, <1>2, RepairKeepsUnique DEF LoadRows, TypeOK
    <2>2. CASE Loadable(lines')
      <3>1. /\ \A w \in Workers : worker'[w] = Idle
            /\ queued' = Tasks \ TasksOf(lines')
            /\ pc' = IF queued' = {} THEN "finalizing" ELSE "gathering"
        BY <1>2, <2>2 DEF LoadRows, Missing, ResampleInv, Resting
      <3>2. Idle.task \notin Tasks /\ Idle.at \notin {"scored", "writing"}
        BY DEF Idle, Tasks, None
      <3>3. QED
        BY <2>1, <3>1, <3>2 DEF ResampleInv, Exclusive, HoldsItsRow, Resting
    <2>3. CASE ~Loadable(lines')
      BY <1>2, <2>1, <2>3, DownResample DEF LoadRows
    <2>4. QED
      BY <2>2, <2>3
  <1>3. CASE GatherException
    BY <1>3 DEF GatherException, runDir, ResampleInv, Exclusive, HoldsItsRow, Resting
  <1>4. CASE GatherLast
    <2>1. queued = {} /\ \A w \in Workers : worker[w] = Idle
      BY <1>4 DEF GatherLast, Busy
    <2>2. QED
      BY <1>4, <2>1, QuietResample DEF GatherLast, runDir, Resting
  <1>5. CASE Interrupt
    BY <1>5 DEF Interrupt, runDir, ResampleInv, Exclusive, HoldsItsRow, Resting
  <1>6. CASE ShutdownDone
    <2>1. \A w \in Workers : worker[w] = Idle
      BY <1>6 DEF ShutdownDone, Busy
    <2>2. CASE pc = "interrupted"
      BY <1>0, <1>6, <2>2, DownResample DEF ShutdownDone, runDir
    <2>3. CASE pc = "aborting"
      BY <1>6, <2>1, <2>3, QuietResample DEF ShutdownDone, runDir, ResampleInv, Resting
    <2>4. QED
      BY <1>6, <2>2, <2>3 DEF ShutdownDone
  <1>7. CASE WriteFinalManifest
    BY <1>0, <1>7, DownResample DEF WriteFinalManifest
  <1>8. ASSUME NEW w \in Workers, NEW t \in Tasks, TakeTask(w, t) PROVE ResampleInv'
    <2> DEFINE a == [at |-> "calling", task |-> t, row |-> NoRow]
    <2>1. worker' = [worker EXCEPT ![w] = a] /\ t \in queued /\ worker[w] = Idle
      BY <1>8 DEF TakeTask, FirstQueued
    <2>2. a # Idle /\ a.task = t /\ a.at = "calling"
      BY DEF Idle
    <2> HIDE DEF a
    <2>3. worker'[w] = a /\ \A v \in Workers : v # w => worker'[v] = worker[v]
      BY <2>1 DEF TypeOK
    <2>4. queued' = queued \ {t} /\ UNCHANGED <<lines, pc>>
      BY <1>8 DEF TakeTask, runDir
    <2>5. Exclusive'
      BY <2>1, <2>2, <2>3, <2>4 DEF ResampleInv, Exclusive
    <2>6. HoldsItsRow'
      BY <2>2, <2>3 DEF ResampleInv, HoldsItsRow
    <2>7. Resting'
      BY <2>1, <2>4 DEF ResampleInv, Resting
    <2>8. QED
      BY <2>4, <2>5, <2>6, <2>7 DEF ResampleInv
  <1>9. ASSUME NEW w \in Workers, NEW t \in Tasks, SkipTask(w, t) PROVE ResampleInv'
    BY <1>9 DEF SkipTask, runDir, FirstQueued, ResampleInv, Exclusive, HoldsItsRow, Resting
  <1>10. ASSUME NEW w \in Workers, NEW how \in ScoreOutcomes, ScoreReturns(w, how)
         PROVE  ResampleInv'
    <2>1. worker[w].at = "calling" /\ UNCHANGED <<lines, queued, pc>>
      BY <1>10 DEF ScoreReturns, runDir
    <2>2. /\ worker'[w].at = "scored"
          /\ worker'[w].task = worker[w].task
          /\ worker'[w].row.task = worker[w].task
      <3>1. worker[w] \in [at : {"calling", "scored", "writing"}, task : Tasks,
                           row : Row \cup {NoRow}]
        BY <2>1, HeldTypes DEF TypeOK
      <3>2. QED
        BY <1>10, <3>1 DEF ScoreReturns, TypeOK
    <2>3. worker'[w] \in Activities /\ worker'[w].row \in Row
      <3>1. TypeOK'
        BY NextTypes
      <3>2. worker'[w] \in Activities
        BY <3>1 DEF TypeOK
      <3>3. worker'[w].task \in Tasks
        BY <2>2, <3>2, HeldTypes
      <3>4. worker'[w].row \in Row \cup {NoRow}
        BY <2>2, <3>2, HeldTypes
      <3>5. QED
        BY <2>2, <3>2, <3>3, <3>4 DEF NoRow, Tasks, None
    <2>4. \A v \in Workers : v # w => worker'[v] = worker[v]
      BY <1>10 DEF ScoreReturns, TypeOK
    <2>5. worker[w] # Idle /\ worker'[w] # Idle
      BY <2>1, <2>2 DEF Idle
    <2>6. QED
      BY <2>1, <2>2, <2>3, <2>4, <2>5
      DEF ResampleInv, Exclusive, HoldsItsRow, Resting
  <1>11. ASSUME NEW w \in Workers, ScoreRaises(w) PROVE ResampleInv'
    BY <1>0, <1>11, ReleaseResample DEF ScoreRaises, runDir
  <1>12. ASSUME NEW w \in Workers, RecordServed(w) PROVE ResampleInv'
    <2>1. worker[w].at = "scored" /\ UNCHANGED <<lines, queued, pc>>
      BY <1>12 DEF RecordServed, runDir
    <2>2. worker' = [worker EXCEPT ![w] = [worker[w] EXCEPT !.at = "writing"]]
      BY <1>12 DEF RecordServed
    <2>3. worker[w] \in [at : {"calling", "scored", "writing"}, task : Tasks,
                         row : Row \cup {NoRow}]
      BY <2>1, HeldTypes DEF TypeOK
    <2>4. /\ worker'[w].at = "writing"
          /\ worker'[w].task = worker[w].task
          /\ worker'[w].row = worker[w].row
      BY <2>2, <2>3 DEF TypeOK
    <2>5. \A v \in Workers : v # w => worker'[v] = worker[v]
      BY <2>2 DEF TypeOK
    <2>6. worker[w] # Idle /\ worker'[w] # Idle
      BY <2>1, <2>4 DEF Idle
    <2>7. QED
      BY <2>1, <2>4, <2>5, <2>6 DEF ResampleInv, Exclusive, HoldsItsRow, Resting
  <1>13. ASSUME NEW w \in Workers, WriteRow(w) PROVE ResampleInv'
    <2>1. worker[w].at = "writing"
      BY <1>13 DEF WriteRow
    <2>2. lines' = Put(lines, worker[w].row, TRUE)
      BY <1>13 DEF WriteRow, AppendRow
    <2>3. /\ OneRowPerTask(lines')
          /\ \A t \in TasksOf(lines') : t \in TasksOf(lines) \/ t = worker[w].task
      BY <2>1, <2>2, WritingRow, PutTasks, PutKeepsUnique
    <2>4. QED
      BY <1>13, <2>1, <2>3, ReleaseResample DEF WriteRow
  <1>14. ASSUME NEW w \in Workers, NEW tear \in WriteTears, WriteRaises(w, tear)
         PROVE  ResampleInv'
    <2>1. worker[w].at = "writing" /\ tear \in TearPoints
      BY <1>14, RunAssumption DEF WriteRaises
    <2>2. lines' = AppendTorn(lines, worker[w].row, tear)
      BY <1>14 DEF WriteRaises
    <2>3. /\ OneRowPerTask(lines')
          /\ \A t \in TasksOf(lines') : t \in TasksOf(lines) \/ t = worker[w].task
      BY <2>1, <2>2, WritingRow, TornFacts
    <2>4. QED
      BY <1>14, <2>1, <2>3, ReleaseResample DEF WriteRaises
  <1>15. CASE Kill
    BY <1>0, <1>15, DownResample DEF Kill, runDir
  <1>16. ASSUME NEW w \in Workers, NEW tear \in KillTears, KillInRowWrite(w, tear)
         PROVE  ResampleInv'
    <2>1. worker[w].at = "writing" /\ tear \in TearPoints
      BY <1>16, RunAssumption DEF KillInRowWrite
    <2>2. OneRowPerTask(lines')
      BY <1>16, <2>1, WritingRow, TornFacts DEF KillInRowWrite
    <2>3. QED
      BY <1>16, <2>2, DownResample DEF KillInRowWrite
  <1>17. CASE KillInManifestWrite
    BY <1>0, <1>17, DownResample DEF KillInManifestWrite
  <1>18. CASE TracingFails
    BY <1>18, QuietResample DEF TracingFails, runDir, ResampleInv, Resting
  <1>19. ASSUME NEW role \in Roles, AliasMoves(role) PROVE ResampleInv'
    BY <1>19, QuietResample DEF AliasMoves, runDir, process, ResampleInv, Resting
  <1>20. CASE RubricEdited
    BY <1>20, QuietResample DEF RubricEdited, runDir, process, ResampleInv, Resting
  <1>21. CASE UNCHANGED vars
    BY <1>21, QuietResample DEF vars, runDir, process, ResampleInv, Resting
  <1>22. QED
    BY <1>1, <1>2, <1>3, <1>4, <1>5, <1>6, <1>7, <1>8, <1>9, <1>10, <1>11, <1>12, <1>13,
       <1>14, <1>15, <1>16, <1>17, <1>18, <1>19, <1>20, <1>21
    DEF Next, Main, Thread, Environment

(***************************************************************************)
(* No (item, replicate) pair is measured twice or recorded twice, through  *)
(* any number of kills, interrupts, aborts, failing writes and resumptions *)
(* and wherever a write is torn.                                           *)
(***************************************************************************)
THEOREM NeverResampled == Spec => []NoResample
  BY TypeCorrect, InitResample, NextResample, ExclusiveImpliesNoResample, PTL DEF Spec

-----------------------------------------------------------------------------
(***************************************************************************)
(* Durability, provided no write is torn between a row and its newline:    *)
(* rows stay, and completed means complete.  The induction accounts for    *)
(* every task while the pool runs, and needs the file to be sealed, since  *)
(* a row appended behind an unended line would not be there to be counted. *)
(***************************************************************************)
NewlineKept == "no_newline" \notin KillTears \cup WriteTears

\* While nothing has failed, a task is measured, waiting or in a thread's hands.
Accounted ==
    pc = "gathering" /\ ~raised =>
        /\ ~TailOpen(lines)
        /\ ~abortEvent
        /\ \A t \in Tasks : t \in TasksOf(lines) \/ t \in queued
                              \/ \E w \in Workers : worker[w].task = t

DurableInv ==
    /\ Sealed(lines)
    /\ Accounted
    /\ pc \in {"down", "opened"} => ~abortEvent /\ ~raised
    /\ pc = "aborting" => raised
    /\ pc = "finalizing" /\ ~raised => Tasks \subseteq TasksOf(lines)
    /\ Certified => Tasks \subseteq TasksOf(lines)

LEMMA InitDurable == Init => DurableInv
  <1> SUFFICES ASSUME Init PROVE DurableInv
    OBVIOUS
  <1>1. Sealed(lines)
    BY DEF Init, Sealed
  <1>2. QED
    BY <1>1 DEF Init, DurableInv, Accounted, Certified, NoManifest, InitialManifest

(* A process that ends leaves its file sealed and certified as it was.     *)
LEMMA DownDurable ==
    ASSUME NEW how, GoDown(how), Sealed(lines'),
           Certified' => Tasks \subseteq TasksOf(lines')
    PROVE  DurableInv'
  BY DEF GoDown, DurableInv, Accounted

LEMMA NextDurable ==
    ASSUME NewlineKept
    PROVE  TypeOK /\ ResampleInv /\ DurableInv /\ [Next]_vars
              => DurableInv' /\ RowsOf(lines) \subseteq RowsOf(lines')
  <1> DEFINE Goal == DurableInv' /\ RowsOf(lines) \subseteq RowsOf(lines')
  <1> SUFFICES ASSUME TypeOK, ResampleInv, DurableInv, [Next]_vars PROVE Goal
    OBVIOUS
  <1>0. lines \in Seq(Line) /\ Sealed(lines)
    BY DEF TypeOK, DurableInv
  <1>a. \A t \in Tasks : t # Idle.task
    BY DEF Idle, Tasks, None
  <1>1. ASSUME NEW traced \in TraceModes, Invoke(traced) PROVE Goal
    <2>1. CASE manifest.file = "torn"
      BY <1>0, <1>1, <2>1, DownDurable DEF Invoke, runDir, Certified
    <2>2. CASE manifest.file # "torn"
      <3>1. Certified' => Certified
        BY <1>1, <2>2 DEF Invoke, Certified, InitialManifest
      <3>2. QED
        BY <1>1, <2>2, <3>1 DEF Invoke, DurableInv, Accounted
    <2>3. QED
      BY <2>1, <2>2
  <1>2. CASE LoadRows
    <2>1. lines' = RepairTail(lines) /\ UNCHANGED manifest /\ pc = "opened"
      BY <1>2 DEF LoadRows
    <2>2. Sealed(lines') /\ ~TailOpen(lines') /\ RowsOf(lines') = RowsOf(lines)
      BY <1>0, <2>1, RepairKeepsSealed, RepairRows
    <2>3. TasksOf(lines') = TasksOf(lines)
      BY <2>2 DEF TasksOf
    <2>4. Certified' => Tasks \subseteq TasksOf(lines')
      BY <2>1, <2>3 DEF DurableInv, Certified
    <2>5. CASE Loadable(lines')
      <3>1. /\ queued' = Tasks \ TasksOf(lines')
            /\ pc' = IF queued' = {} THEN "finalizing" ELSE "gathering"
            /\ UNCHANGED <<abortEvent, raised>>
        BY <1>2, <2>5 DEF LoadRows, Missing
      <3>2. ~abortEvent
        BY <2>1 DEF DurableInv
      <3>3. QED
        BY <2>2, <2>4, <3>1, <3>2 DEF DurableInv, Accounted
    <2>6. CASE ~Loadable(lines')
      BY <1>2, <2>2, <2>4, <2>6, DownDurable DEF LoadRows
    <2>7. QED
      BY <2>5, <2>6
  <1>3. CASE GatherException
    BY <1>3 DEF GatherException, runDir, DurableInv, Accounted, Certified
  <1>4. CASE GatherLast
    <2>1. \A w \in Workers : worker[w] = Idle
      BY <1>4 DEF GatherLast, Busy
    <2>2. Tasks \subseteq TasksOf(lines)
      BY <1>4, <1>a, <2>1 DEF GatherLast, DurableInv, Accounted
    <2>3. QED
      BY <1>4, <2>2 DEF GatherLast, runDir, DurableInv, Accounted, Certified
  <1>5. CASE Interrupt
    BY <1>5 DEF Interrupt, runDir, DurableInv, Accounted, Certified
  <1>6. CASE ShutdownDone
    <2>1. CASE pc = "interrupted"
      BY <1>0, <1>6, <2>1, DownDurable DEF ShutdownDone, runDir, DurableInv, Certified
    <2>2. CASE pc = "aborting"
      BY <1>6, <2>2 DEF ShutdownDone, runDir, DurableInv, Accounted, Certified
    <2>3. QED
      BY <1>6, <2>1, <2>2 DEF ShutdownDone
  <1>7. CASE WriteFinalManifest
    <2>1. UNCHANGED lines /\ pc = "finalizing" /\ manifest'.completed = ~raised
      BY <1>7 DEF WriteFinalManifest, FinalManifest, TypeOK, Manifests
    <2>2. Certified' => Tasks \subseteq TasksOf(lines')
      BY <2>1 DEF Certified, DurableInv
    <2>3. QED
      BY <1>0, <1>7, <2>1, <2>2, DownDurable DEF WriteFinalManifest
  <1>8. ASSUME NEW w \in Workers, NEW t \in Tasks, TakeTask(w, t) PROVE Goal
    <2>1. /\ worker[w] = Idle /\ queued' = queued \ {t}
          /\ UNCHANGED <<lines, manifest, pc, abortEvent, raised>>
      BY <1>8 DEF TakeTask, runDir
    <2>2. worker'[w].task = t /\ \A v \in Workers : v # w => worker'[v] = worker[v]
      BY <1>8 DEF TakeTask, TypeOK
    <2>3. QED
      BY <1>a, <2>1, <2>2 DEF DurableInv, Accounted, Certified
  <1>9. ASSUME NEW w \in Workers, NEW t \in Tasks, SkipTask(w, t) PROVE Goal
    BY <1>9 DEF SkipTask, runDir, DurableInv, Accounted, Certified
  <1>10. ASSUME NEW w \in Workers, NEW how \in ScoreOutcomes, ScoreReturns(w, how)
         PROVE  Goal
    <2>1. /\ UNCHANGED <<lines, manifest, pc, abortEvent, raised, queued>>
          /\ worker[w].at = "calling"
      BY <1>10 DEF ScoreReturns, runDir
    <2>2. worker[w] \in [at : {"calling", "scored", "writing"}, task : Tasks,
                         row : Row \cup {NoRow}]
      BY <2>1, HeldTypes DEF TypeOK
    <2>3. \A v \in Workers : worker'[v].task = worker[v].task
      BY <1>10, <2>2 DEF ScoreReturns, TypeOK
    <2>4. QED
      BY <2>1, <2>3 DEF DurableInv, Accounted, Certified
  <1>11. ASSUME NEW w \in Workers, ScoreRaises(w) PROVE Goal
    BY <1>11 DEF ScoreRaises, runDir, DurableInv, Accounted, Certified, Resting, ResampleInv,
       Idle
  <1>12. ASSUME NEW w \in Workers, RecordServed(w) PROVE Goal
    <2>1. /\ UNCHANGED <<lines, manifest, pc, abortEvent, raised, queued>>
          /\ worker[w].at = "scored"
      BY <1>12 DEF RecordServed, runDir
    <2>2. worker[w] \in [at : {"calling", "scored", "writing"}, task : Tasks,
                         row : Row \cup {NoRow}]
      BY <2>1, HeldTypes DEF TypeOK
    <2>3. \A v \in Workers : worker'[v].task = worker[v].task
      BY <1>12, <2>2 DEF RecordServed, TypeOK
    <2>4. QED
      BY <2>1, <2>3 DEF DurableInv, Accounted, Certified
  <1>13. ASSUME NEW w \in Workers, WriteRow(w) PROVE Goal
    <2> DEFINE row == worker[w].row
    <2>1. /\ UNCHANGED <<manifest, pc, abortEvent, raised, queued>>
          /\ lines' = Put(lines, row, TRUE)
          /\ worker[w].at = "writing"
          /\ worker' = [worker EXCEPT ![w] = Idle]
      BY <1>13 DEF WriteRow, AppendRow
    <2>2. row \in Row /\ row.task = worker[w].task
      BY <2>1, WritingRow
    <2>3. Sealed(lines')
      BY <1>0, <2>1, <2>2, PutKeepsSealed
    <2>4. RowsOf(lines) \subseteq RowsOf(lines')
      BY <1>0, <2>1, <2>2, PutKeepsRows, SealedTail
    <2>5. TasksOf(lines) \subseteq TasksOf(lines')
      BY <2>4 DEF TasksOf
    <2>6. pc \notin {"down", "opened", "finalizing"}
      BY <2>1 DEF ResampleInv, Resting, Idle
    <2>7. Accounted'
      <3> SUFFICES ASSUME pc = "gathering", ~raised PROVE Accounted'
        BY <2>1 DEF Accounted
      <3>1. ~TailOpen(lines)
        BY DEF DurableInv, Accounted
      <3>2. row \in RowsOf(lines')
        BY <1>0, <2>1, <2>2, <3>1, PutAddsRow
      <3>3. worker[w].task \in TasksOf(lines')
        BY <2>2, <3>2 DEF TasksOf
      <3>4. ~TailOpen(lines')
        <4> DEFINE new == lines'
        <4>1. PutResult(lines, row, TRUE, new)
          BY <1>0, <2>1, <2>2, PutFacts
        <4>2. new \in Seq(Line) /\ Len(new) = Len(lines) + 1 /\ Len(lines) \in Nat
          BY <3>1, <4>1 DEF PutResult
        <4>3. new[Len(new)].ended
          BY <3>1, <4>1, <4>2 DEF PutResult
        <4>4. new # <<>> => Last(new) = new[Len(new)]
          BY DEF Last
        <4>5. QED
          BY <4>3, <4>4 DEF TailOpen
      <3>5. \A v \in Workers : v # w => worker'[v] = worker[v]
        BY <2>1 DEF TypeOK
      <3>6. QED
        BY <2>1, <2>5, <3>3, <3>4, <3>5 DEF DurableInv, Accounted
    <2>8. QED
      BY <2>1, <2>3, <2>4, <2>5, <2>6, <2>7 DEF DurableInv, Certified
  <1>14. ASSUME NEW w \in Workers, NEW tear \in WriteTears, WriteRaises(w, tear)
         PROVE  Goal
    <2>1. /\ UNCHANGED <<manifest, pc>> /\ raised'
          /\ lines' = AppendTorn(lines, worker[w].row, tear)
          /\ worker[w].at = "writing"
      BY <1>14 DEF WriteRaises
    <2>2. tear \in {"nothing", "fragment"} /\ worker[w].row \in Row
      BY <2>1, WritingRow, RunAssumption DEF NewlineKept, TearPoints
    <2>3. Sealed(lines') /\ RowsOf(lines') = RowsOf(lines)
      BY <1>0, <2>1, <2>2, TornSealed
    <2>4. pc \notin {"down", "opened", "finalizing"}
      BY <2>1 DEF ResampleInv, Resting, Idle
    <2>5. QED
      BY <2>1, <2>3, <2>4 DEF DurableInv, Accounted, Certified, TasksOf
  <1>15. CASE Kill
    BY <1>0, <1>15, DownDurable DEF Kill, runDir, DurableInv, Certified
  <1>16. ASSUME NEW w \in Workers, NEW tear \in KillTears, KillInRowWrite(w, tear)
         PROVE  Goal
    <2>1. /\ UNCHANGED manifest /\ GoDown("killed")
          /\ lines' = AppendTorn(lines, worker[w].row, tear)
          /\ worker[w].at = "writing"
      BY <1>16 DEF KillInRowWrite
    <2>2. tear \in {"nothing", "fragment"} /\ worker[w].row \in Row
      BY <2>1, WritingRow, RunAssumption DEF NewlineKept, TearPoints
    <2>3. Sealed(lines') /\ RowsOf(lines') = RowsOf(lines)
      BY <1>0, <2>1, <2>2, TornSealed
    <2>4. Certified' => Tasks \subseteq TasksOf(lines')
      BY <2>1, <2>3 DEF DurableInv, Certified, TasksOf
    <2>5. QED
      BY <2>1, <2>3, <2>4, DownDurable
  <1>17. CASE KillInManifestWrite
    <2>1. ~Certified' /\ UNCHANGED lines /\ GoDown("killed")
      BY <1>17 DEF KillInManifestWrite, Certified, TornManifest, InitialManifest
    <2>2. QED
      BY <1>0, <2>1, DownDurable
  <1>18. CASE TracingFails
    BY <1>18 DEF TracingFails, runDir, DurableInv, Accounted, Certified
  <1>19. ASSUME NEW role \in Roles, AliasMoves(role) PROVE Goal
    BY <1>19 DEF AliasMoves, runDir, process, DurableInv, Accounted, Certified
  <1>20. CASE RubricEdited
    BY <1>20 DEF RubricEdited, runDir, process, DurableInv, Accounted, Certified
  <1>21. CASE UNCHANGED vars
    BY <1>21 DEF vars, runDir, process, DurableInv, Accounted, Certified
  <1>22. QED
    BY <1>1, <1>2, <1>3, <1>4, <1>5, <1>6, <1>7, <1>8, <1>9, <1>10, <1>11, <1>12, <1>13,
       <1>14, <1>15, <1>16, <1>17, <1>18, <1>19, <1>20, <1>21
    DEF Next, Main, Thread, Environment

LEMMA Durability ==
    ASSUME NewlineKept
    PROVE  Spec => [](TypeOK /\ ResampleInv /\ DurableInv)
  <1>1. Init => TypeOK /\ ResampleInv /\ DurableInv
    BY InitTypes, InitResample, InitDurable
  <1>2. TypeOK /\ ResampleInv /\ DurableInv /\ [Next]_vars
           => (TypeOK /\ ResampleInv /\ DurableInv)'
    BY NextTypes, NextResample, NextDurable
  <1>3. QED
    BY <1>1, <1>2, PTL DEF Spec

(***************************************************************************)
(* A run directory whose manifest says completed has a row of every task,  *)
(* even if row writes fail: what an invocation found measured and what it  *)
(* measured itself add up to everything.                                   *)
(***************************************************************************)
THEOREM CompletedIsFull ==
    ASSUME NewlineKept
    PROVE  Spec => []CompletedRunHasEveryRow
  <1>1. TypeOK /\ ResampleInv /\ DurableInv => CompletedRunHasEveryRow
    <2> SUFFICES ASSUME TypeOK, DurableInv, Certified PROVE TasksOf(lines) = Tasks
      BY DEF CompletedRunHasEveryRow
    <2>1. TasksOf(lines) \subseteq Tasks
      BY RowsOfTypes DEF TypeOK
    <2>2. QED
      BY <2>1 DEF DurableInv
  <1>2. QED
    BY <1>1, Durability, PTL

(***************************************************************************)
(* No row is lost or altered once it parses: repair, later appends, failed *)
(* writes and crashes all keep it.                                         *)
(***************************************************************************)
THEOREM RowsArePermanent ==
    ASSUME NewlineKept
    PROVE  Spec => PersistedRowsStay
  <1>1. TypeOK /\ ResampleInv /\ DurableInv /\ [Next]_vars
           => [RowsOf(lines) \subseteq RowsOf(lines')]_vars
    BY NextDurable
  <1>2. QED
    BY <1>1, Durability, PTL DEF Spec, PersistedRowsStay

(* The only step that adds a task to the file is the write of its row.     *)
LEMMA OneTaskAtATime ==
    ASSUME NewlineKept, TypeOK, ResampleInv, DurableInv, [Next]_vars
    PROVE  \/ TasksOf(lines') = TasksOf(lines)
           \/ /\ UNCHANGED manifest
              /\ \E t \in Tasks \ TasksOf(lines) : TasksOf(lines') = TasksOf(lines) \cup {t}
  <1> DEFINE Same == TasksOf(lines') = TasksOf(lines)
             More == /\ UNCHANGED manifest
                     /\ \E t \in Tasks \ TasksOf(lines) :
                           TasksOf(lines') = TasksOf(lines) \cup {t}
  <1>0. lines \in Seq(Line) /\ Sealed(lines)
    BY DEF TypeOK, DurableInv
  <1>1. CASE UNCHANGED lines
    BY <1>1
  <1>2. CASE LoadRows
    BY <1>0, <1>2, RepairRows DEF LoadRows, TasksOf
  <1>3. ASSUME NEW w \in Workers, WriteRow(w) PROVE Same \/ More
    <2>1. /\ UNCHANGED manifest
          /\ lines' = Put(lines, worker[w].row, TRUE)
          /\ worker[w].at = "writing"
      BY <1>3 DEF WriteRow, AppendRow
    <2>2. /\ worker[w].row \in Row
          /\ worker[w].row.task \notin TasksOf(lines)
          /\ worker[w].row.task \in Tasks
      BY <2>1, WritingRow DEF Row
    <2>3. TasksOf(lines) \subseteq TasksOf(lines')
      BY NextDurable DEF TasksOf
    <2>4. \A t \in TasksOf(lines') : t \in TasksOf(lines) \/ t = worker[w].row.task
      BY <1>0, <2>1, <2>2, PutTasks
    <2>5. QED
      BY <2>1, <2>2, <2>3, <2>4
  <1>4. ASSUME NEW w \in Workers, NEW tear \in WriteTears \cup KillTears,
               WriteRaises(w, tear) \/ KillInRowWrite(w, tear)
        PROVE  Same
    <2>1. /\ lines' = AppendTorn(lines, worker[w].row, tear)
          /\ worker[w].at = "writing"
      BY <1>4 DEF WriteRaises, KillInRowWrite
    <2>2. tear \in {"nothing", "fragment"} /\ worker[w].row \in Row
      BY <2>1, WritingRow, RunAssumption DEF NewlineKept, TearPoints
    <2>3. QED
      BY <1>0, <2>1, <2>2, TornSealed DEF TasksOf
  <1>5. QED
    BY <1>1, <1>2, <1>3, <1>4
    DEF Next, Main, Thread, Environment, vars, runDir, process, world,
        Invoke, GatherException, GatherLast, Interrupt, ShutdownDone, WriteFinalManifest,
        TakeTask, SkipTask, ScoreReturns, ScoreRaises, RecordServed, Kill,
        KillInManifestWrite, TracingFails, AliasMoves, RubricEdited

(***************************************************************************)
(* A run directory implements the ledger: measurements are added one at a  *)
(* time, never taken back, and certified only when all are there.          *)
(***************************************************************************)
THEOREM LedgerImplemented ==
    ASSUME NewlineKept
    PROVE  Spec => ImplementsLedger
  <1>1. Init => Durable!Init
    <2> SUFFICES ASSUME Init PROVE Durable!Init
      OBVIOUS
    <2>1. TasksOf(lines) = {}
      BY DEF Init, TasksOf, RowsOf
    <2>2. ~Certified
      BY DEF Init, Certified, NoManifest, InitialManifest
    <2>3. QED
      BY <2>1, <2>2 DEF Durable!Init, Certified
  <1>2. TypeOK /\ ResampleInv /\ DurableInv /\ [Next]_vars /\ DurableInv' /\ TypeOK'
           => [Durable!Next]_(Durable!vars)
    <2> SUFFICES ASSUME TypeOK, ResampleInv, DurableInv, [Next]_vars, DurableInv', TypeOK'
                 PROVE  [Durable!Next]_(Durable!vars)
      OBVIOUS
    <2>1. CASE /\ UNCHANGED manifest
               /\ \E t \in Tasks \ TasksOf(lines) : TasksOf(lines') = TasksOf(lines) \cup {t}
      BY <2>1 DEF Durable!Next, Durable!Measure, Certified
    <2>2. CASE TasksOf(lines') = TasksOf(lines)
      <3>1. CASE ~Certified /\ Certified'
        <4>1. TasksOf(lines) = Tasks
          BY <2>2, <3>1, RowsOfTypes DEF DurableInv, TypeOK
        <4>2. QED
          BY <2>2, <3>1, <4>1 DEF Durable!Next, Durable!Certify, Certified
      <3>2. CASE Certified /\ ~Certified'
        BY <2>2, <3>2 DEF Durable!Next, Durable!Damage, Certified
      <3>3. CASE Certified <=> Certified'
        BY <2>2, <3>3 DEF Durable!vars, Certified, TypeOK, Manifests
      <3>4. QED
        BY <3>1, <3>2, <3>3
    <2>3. QED
      BY <2>1, <2>2, OneTaskAtATime
  <1>3. QED
    BY <1>1, <1>2, Durability, PTL DEF Spec, ImplementsLedger, Durable!Spec

-----------------------------------------------------------------------------
(***************************************************************************)
(* Readability, if besides no failing write leaves part of its line: then  *)
(* the only line that may not parse is one that a killed process left, and *)
(* the repair removes it before the next row is appended.                  *)
(***************************************************************************)
WritesAllOrNothing == WriteTears \subseteq {"nothing"}

ReadableInv ==
    /\ Loadable(lines)
    /\ pc \notin {"down", "opened"} => AllParse(lines)


\* The steps that touch rows.jsonl; the others leave it to the next invocation.
LEMMA FileSteps ==
    ASSUME [Next]_vars
    PROVE  \/ LoadRows
           \/ \E w \in Workers : WriteRow(w)
           \/ \E w \in Workers, tear \in WriteTears : WriteRaises(w, tear)
           \/ \E w \in Workers, tear \in KillTears : KillInRowWrite(w, tear)
           \/ /\ UNCHANGED lines
              /\ pc' \notin {"down", "opened"} => pc \notin {"down", "opened"}
  BY DEF Next, Main, Thread, Environment, vars, runDir, process, world, GoDown,
         Invoke, GatherException, GatherLast, Interrupt, ShutdownDone, WriteFinalManifest,
         TakeTask, SkipTask, ScoreReturns, ScoreRaises, RecordServed, Kill,
         KillInManifestWrite, TracingFails, AliasMoves, RubricEdited

\* Rows are written while a process is up, and have their task.
LEMMA WritingUp ==
    ASSUME TypeOK, ResampleInv, NEW w \in Workers, worker[w].at = "writing"
    PROVE  /\ pc \notin {"down", "opened", "finalizing"}
           /\ worker[w].row \in Row /\ worker[w].row # NoRow
  <1>1. pc \notin {"down", "opened", "finalizing"}
    BY DEF ResampleInv, Resting, Idle
  <1>2. QED
    BY <1>1, WritingRow, NoRowIsNotARow

LEMMA NextReadable ==
    ASSUME NewlineKept, WritesAllOrNothing
    PROVE  TypeOK /\ ResampleInv /\ DurableInv /\ ReadableInv /\ [Next]_vars => ReadableInv'
  <1> SUFFICES ASSUME TypeOK, ResampleInv, DurableInv, ReadableInv, [Next]_vars
               PROVE  ReadableInv'
    OBVIOUS
  <1>0. lines \in Seq(Line) /\ Sealed(lines)
    BY DEF TypeOK, DurableInv
  <1>1. CASE LoadRows
    <2>1. lines' = RepairTail(lines)
      BY <1>1 DEF LoadRows
    <2>2. QED
      BY <1>0, <2>1, RepairParses DEF ReadableInv
  <1>2. ASSUME NEW w \in Workers, WriteRow(w) PROVE ReadableInv'
    <2>1. /\ worker[w].at = "writing" /\ lines' = Put(lines, worker[w].row, TRUE)
      BY <1>2 DEF WriteRow, AppendRow
    <2>2. QED
      BY <1>0, <2>1, WritingUp, PutKeepsParsing DEF ReadableInv
  <1>3. ASSUME NEW w \in Workers, NEW tear \in WriteTears, WriteRaises(w, tear)
        PROVE  ReadableInv'
    <2>1. tear = "nothing"
      BY DEF WritesAllOrNothing
    <2>2. lines' = lines /\ pc' = pc
      BY <1>3, <2>1 DEF WriteRaises, AppendTorn
    <2>3. QED
      BY <2>2 DEF ReadableInv
  <1>4. ASSUME NEW w \in Workers, NEW tear \in KillTears, KillInRowWrite(w, tear)
        PROVE  ReadableInv'
    <2>1. /\ worker[w].at = "writing" /\ lines' = AppendTorn(lines, worker[w].row, tear)
          /\ pc' = "down"
      BY <1>4 DEF KillInRowWrite, GoDown
    <2>2. tear \in {"nothing", "fragment"}
      BY RunAssumption DEF NewlineKept, TearPoints
    <2>3. QED
      BY <1>0, <2>1, <2>2, WritingUp, TornLoadable DEF ReadableInv
  <1>5. CASE UNCHANGED lines /\ (pc' \notin {"down", "opened"} => pc \notin {"down", "opened"})
    BY <1>5 DEF ReadableInv
  <1>6. QED
    BY <1>1, <1>2, <1>3, <1>4, <1>5, FileSteps

LEMMA Readability ==
    ASSUME NewlineKept, WritesAllOrNothing
    PROVE  Spec => []ReadableInv
  <1>1. Init => ReadableInv
    BY DEF Init, ReadableInv, Loadable
  <1>2. QED
    BY <1>1, NextReadable, Durability, PTL DEF Spec

\* rows.jsonl can be read back after any number of crashes, wherever they tore the
\* line that was being written.
THEOREM RowsAreReadable ==
    ASSUME NewlineKept, WritesAllOrNothing
    PROVE  Spec => []RowsStayLoadable
  <1>1. ReadableInv => RowsStayLoadable
    BY DEF ReadableInv, RowsStayLoadable
  <1>2. QED
    BY <1>1, Readability, PTL

\* A completed run can be loaded and has a row of every task: what a run finds
\* violated where a kill may cut a line between its text and its newline is
\* true of every other run.
THEOREM CompletedIsWhole ==
    ASSUME NewlineKept, WritesAllOrNothing
    PROVE  Spec => []CompletedRunIsWhole
  <1>1. ReadableInv /\ CompletedRunHasEveryRow => CompletedRunIsWhole
    BY DEF ReadableInv, CompletedRunHasEveryRow, CompletedRunIsWhole
  <1>2. QED
    BY <1>1, Readability, CompletedIsFull, PTL

(***************************************************************************)
(* What the manifest names is in the file, if no row write fails at all:   *)
(* a served version is recorded before the row it served is written.       *)
(***************************************************************************)
NoFailingWrites == WriteTears = {}

Backed(version, role, ls) ==
    version # None => \E row \in RowsOf(ls) : row[role] = version

ServedInv ==
    \A role \in Roles :
        /\ Backed(manifest.served[role], role, lines)
        /\ \/ Backed(served[role], role, lines)
           \/ \E w \in Workers : worker[w].at = "writing" /\ worker[w].row[role] = served[role]

LEMMA NextServed ==
    ASSUME NewlineKept, NoFailingWrites
    PROVE  TypeOK /\ ResampleInv /\ DurableInv /\ ReadableInv /\ ServedInv /\ [Next]_vars
              => ServedInv'
  <1> SUFFICES ASSUME TypeOK, ResampleInv, DurableInv, ReadableInv, ServedInv, [Next]_vars
               PROVE  ServedInv'
    OBVIOUS
  <1>0. lines \in Seq(Line) /\ Sealed(lines) /\ RowsOf(lines) \subseteq RowsOf(lines')
    BY NextDurable DEF TypeOK, DurableInv
  <1>1. \A role \in Roles : \A version :
           Backed(version, role, lines) => Backed(version, role, lines')
    BY <1>0 DEF Backed
  <1>2. \A role \in Roles : Backed(None, role, lines') /\ Backed(NoServed[role], role, lines')
    BY DEF Backed, NoServed
  \* A process that ends has nothing but its manifest.
  <1>3. ASSUME NEW how, GoDown(how),
               \A role \in Roles : Backed(manifest'.served[role], role, lines')
        PROVE  ServedInv'
    BY <1>2, <1>3 DEF GoDown, ServedInv
  <1>4. \A role \in Roles : Backed(manifest.served[role], role, lines')
    BY <1>1 DEF ServedInv
  \* Nobody is writing: what was recorded is in the file.
  <1>5. ASSUME \A w \in Workers : worker[w] = Idle, NEW role \in Roles
        PROVE  Backed(served[role], role, lines')
    BY <1>1, <1>5 DEF ServedInv, Idle
  <1>6. ASSUME UNCHANGED <<manifest, served>>,
               \A w \in Workers : worker[w].at = "writing" => worker'[w] = worker[w]
        PROVE  ServedInv'
    BY <1>1, <1>6 DEF ServedInv
  <1>7. ASSUME NEW traced \in TraceModes, Invoke(traced) PROVE ServedInv'
    <2>1. CASE manifest.file = "torn"
      BY <1>3, <1>4, <1>7, <2>1 DEF Invoke, runDir
    <2>2. CASE manifest.file # "torn"
      <3>1. \A role \in Roles : Backed(manifest'.served[role], role, lines')
        BY <1>2, <1>4, <1>7, <2>2 DEF Invoke, InitialManifest
      <3>2. QED
        BY <1>7, <2>2, <3>1 DEF Invoke, ServedInv
    <2>3. QED
      BY <2>1, <2>2
  <1>8. CASE LoadRows
    BY <1>3, <1>4, <1>6, <1>8 DEF LoadRows
  <1>9. CASE ShutdownDone
    BY <1>3, <1>4, <1>6, <1>9 DEF ShutdownDone, runDir
  <1>10. CASE WriteFinalManifest
    <2>1. \A role \in Roles : Backed(served[role], role, lines')
      BY <1>5, <1>10 DEF WriteFinalManifest, ResampleInv, Resting
    <2>2. manifest'.served = served
      BY <1>10 DEF WriteFinalManifest, FinalManifest, TypeOK, Manifests
    <2>3. QED
      BY <1>3, <1>10, <2>1, <2>2 DEF WriteFinalManifest
  <1>11. ASSUME NEW w \in Workers, RecordServed(w) PROVE ServedInv'
    <2>1. /\ worker[w].at = "scored" /\ served' = MergeServed(worker[w].row)
          /\ worker' = [worker EXCEPT ![w].at = "writing"] /\ UNCHANGED manifest
      BY <1>11 DEF RecordServed, runDir
    <2>2. worker[w] \in [at : {"calling", "scored", "writing"}, task : Tasks,
                         row : Row \cup {NoRow}]
      BY <2>1, HeldTypes DEF TypeOK
    <2>3. /\ worker'[w].at = "writing" /\ worker'[w].row = worker[w].row
          /\ \A v \in Workers : v # w => worker'[v] = worker[v]
      BY <2>1, <2>2 DEF TypeOK
    <2>4. ASSUME NEW role \in Roles
          PROVE  \/ Backed(served'[role], role, lines')
                 \/ \E v \in Workers : worker'[v].at = "writing"
                                       /\ worker'[v].row[role] = served'[role]
      <3>1. CASE worker[w].row[role] = None
        <4>1. served'[role] = served[role]
          BY <2>1, <3>1 DEF MergeServed
        <4>2. QED
          BY <1>1, <2>1, <2>3, <4>1 DEF ServedInv
      <3>2. CASE worker[w].row[role] # None
        BY <2>1, <2>3, <3>2 DEF MergeServed
      <3>3. QED
        BY <3>1, <3>2
    <2>5. QED
      BY <1>4, <2>1, <2>4 DEF ServedInv
  <1>12. ASSUME NEW w \in Workers, WriteRow(w) PROVE ServedInv'
    <2>1. /\ worker[w].at = "writing" /\ lines' = Put(lines, worker[w].row, TRUE)
          /\ worker' = [worker EXCEPT ![w] = Idle] /\ UNCHANGED <<manifest, served>>
      BY <1>12 DEF WriteRow, AppendRow
    <2>2. worker[w].row \in RowsOf(lines')
      BY <1>0, <2>1, WritingUp, ParsedTail, PutAddsRow DEF ReadableInv
    <2>3. \A role \in Roles : Backed(worker[w].row[role], role, lines')
      BY <2>2 DEF Backed
    <2>4. \A v \in Workers : v # w => worker'[v] = worker[v]
      BY <2>1 DEF TypeOK
    <2>5. ASSUME NEW role \in Roles
          PROVE  \/ Backed(served'[role], role, lines')
                 \/ \E v \in Workers : worker'[v].at = "writing"
                                       /\ worker'[v].row[role] = served'[role]
      <3>1. CASE Backed(served[role], role, lines)
        BY <1>1, <2>1, <3>1
      <3>2. CASE \E v \in Workers : worker[v].at = "writing" /\ worker[v].row[role] = served[role]
        BY <2>1, <2>3, <2>4, <3>2
      <3>3. QED
        BY <3>1, <3>2 DEF ServedInv
    <2>6. QED
      BY <1>4, <2>1, <2>5 DEF ServedInv
  <1>13. ASSUME NEW w \in Workers, \/ \E t \in Tasks : TakeTask(w, t) \/ SkipTask(w, t)
                                   \/ \E how \in ScoreOutcomes : ScoreReturns(w, how)
                                   \/ ScoreRaises(w)
         PROVE  ServedInv'
    <2>1. worker[w].at # "writing" /\ UNCHANGED <<manifest, served>>
          /\ \A v \in Workers : v # w => worker'[v] = worker[v]
      BY <1>13 DEF TakeTask, SkipTask, ScoreReturns, ScoreRaises, runDir, Idle, TypeOK
    <2>2. QED
      BY <1>6, <2>1
  <1>14. CASE Kill \/ (\E w \in Workers, tear \in KillTears : KillInRowWrite(w, tear))
    BY <1>3, <1>4, <1>14 DEF Kill, KillInRowWrite, runDir
  <1>15. CASE KillInManifestWrite
    <2>1. manifest'.served = NoServed /\ GoDown("killed")
      BY <1>15 DEF KillInManifestWrite, TornManifest, InitialManifest
    <2>2. QED
      BY <1>2, <1>3, <2>1
  <1>16. ASSUME UNCHANGED <<manifest, served, worker>> PROVE ServedInv'
    BY <1>6, <1>16
  <1>17. QED
    BY <1>7, <1>8, <1>9, <1>10, <1>11, <1>12, <1>13, <1>14, <1>15, <1>16
    DEF Next, Main, Thread, Environment, vars, runDir, process, NoFailingWrites,
        GatherException, GatherLast, Interrupt, TracingFails, AliasMoves, RubricEdited

\* Every version a completed run's manifest names served a row of that run,
\* whatever was killed or interrupted between a call and its row.
THEOREM ServedVersionsAreReal ==
    ASSUME NewlineKept, NoFailingWrites
    PROVE  Spec => []ServedNamesARow
  <1>1. WritesAllOrNothing
    BY DEF NoFailingWrites, WritesAllOrNothing
  <1>2. Init => ServedInv
    BY DEF Init, ServedInv, Backed, NoManifest, InitialManifest, NoServed
  <1>3. ServedInv => ServedNamesARow
    BY DEF ServedInv, ServedNamesARow, Backed
  <1>4. QED
    BY <1>1, <1>2, <1>3, NextServed, Readability, Durability, PTL DEF Spec

\* No thread starts on a task once a task has failed: whoever fails sets the event
\* before anybody can see the failure.  A failing row write does not, which is why
\* there must be none.
THEOREM FailureStopsCalls ==
    ASSUME NoFailingWrites
    PROVE  Spec => NoCallAfterFailure
  <1> DEFINE Told == raised => abortEvent
  <1>1. Init => Told
    BY DEF Init
  <1>2. Told /\ [Next]_vars => Told'
    BY DEF NoFailingWrites, Next, Main, Thread, Environment, vars, runDir, process, world, GoDown,
           Invoke, LoadRows, GatherException, GatherLast, Interrupt, ShutdownDone,
           WriteFinalManifest, TakeTask, SkipTask, ScoreReturns, ScoreRaises, RecordServed,
           WriteRow, Kill, KillInRowWrite, KillInManifestWrite, TracingFails, AliasMoves,
           RubricEdited
  <1>3. TypeOK /\ Told /\ [Next]_vars =>
           [\A w \in Workers : worker[w] = Idle /\ worker'[w].at = "calling" => ~raised]_vars
    <2> SUFFICES ASSUME TypeOK, Told, [Next]_vars,
                        NEW w \in Workers, worker[w] = Idle, worker'[w].at = "calling"
                 PROVE  ~raised
      OBVIOUS
    <2>1. \E v \in Workers, t \in Tasks : TakeTask(v, t)
      <3>0. worker'[w] # worker[w] /\ worker[w].at = "idle" /\ worker'[w] # Idle
        BY DEF Idle
      <3>1. ASSUME \/ UNCHANGED worker \/ worker' = [v \in Workers |-> Idle]
                   \/ \E v \in Workers : \/ worker' = [worker EXCEPT ![v] = Idle]
                                         \/ worker[v].at # "idle" /\
                                            \A u \in Workers \ {v} : worker'[u] = worker[u]
            PROVE  FALSE
        <4>1. ASSUME NEW v \in Workers, worker' = [worker EXCEPT ![v] = Idle] PROVE FALSE
          BY <3>0, <4>1 DEF TypeOK
        <4>2. QED
          BY <3>0, <3>1, <4>1
      <3>2. ASSUME NEW v \in Workers, \/ \E how \in ScoreOutcomes : ScoreReturns(v, how)
                                      \/ RecordServed(v)
            PROVE  worker[v].at # "idle" /\ \A u \in Workers \ {v} : worker'[u] = worker[u]
        BY <3>2 DEF ScoreReturns, RecordServed, TypeOK
      <3>3. QED
        BY <3>1, <3>2
        DEF Next, Main, Thread, Environment, vars, runDir, process, world, GoDown,
            Invoke, LoadRows, GatherException, GatherLast, Interrupt, ShutdownDone,
            WriteFinalManifest, SkipTask, ScoreRaises, WriteRow, WriteRaises, Kill,
            KillInRowWrite, KillInManifestWrite, TracingFails, AliasMoves, RubricEdited
    <2>2. QED
      BY <2>1 DEF TakeTask
  <1>4. QED
    BY <1>1, <1>2, <1>3, TypeCorrect, PTL DEF Spec, NoCallAfterFailure

(***************************************************************************)
(* Tracing.  A process that is killed leaves rows its manifest knows       *)
(* nothing of; if none is, the manifest accounts for the rows of earlier   *)
(* invocations and the context's own flag for those of this one.           *)
(***************************************************************************)
NothingStops == MaxStops = 0

StickyInv ==
    /\ budget["stop"] = 0 /\ pc # "interrupted"
    /\ pc \in {"down", "opened"} /\ ~manifest.untraced => \A row \in RowsOf(lines) : row.traced
    /\ pc \notin {"down", "opened"} =>
          /\ completed \subseteq TasksOf(lines)
          /\ Certified => Tasks \subseteq completed
          /\ ~manifest.untraced =>
                \A row \in RowsOf(lines) : row.task \in completed => row.traced
          /\ tracing =>
                /\ \A row \in RowsOf(lines) : row.task \notin completed => row.traced
                /\ \A w \in Workers : worker[w].at \in {"scored", "writing"} =>
                      worker[w].row.traced

\* The rows of the file and what the manifest says of them stay.
LEMMA QuietSticky ==
    ASSUME StickyInv, RowsOf(lines') = RowsOf(lines), UNCHANGED <<completed, manifest>>,
           budget'["stop"] = 0, pc' # "interrupted",
           pc \in {"down", "opened"} <=> pc' \in {"down", "opened"},
           tracing' => tracing,
           tracing' => \A w \in Workers : worker'[w].at \in {"scored", "writing"} =>
                          worker'[w].row.traced
    PROVE  StickyInv'
  <1>1. TasksOf(lines') = TasksOf(lines) /\ (Certified' <=> Certified)
    BY DEF TasksOf, Certified
  <1>2. QED
    BY <1>1 DEF StickyInv

LEMMA NextSticky ==
    ASSUME NewlineKept
    PROVE  TypeOK /\ ResampleInv /\ DurableInv /\ StickyInv /\ [Next]_vars => StickyInv'
  <1> SUFFICES ASSUME TypeOK, ResampleInv, DurableInv, StickyInv, [Next]_vars PROVE StickyInv'
    OBVIOUS
  <1>0. lines \in Seq(Line) /\ Sealed(lines) /\ budget["stop"] = 0 /\ pc # "interrupted"
    BY DEF TypeOK, DurableInv, StickyInv
  <1>1. /\ ~Spend("stop")
        /\ \A kind \in {"score", "write"} : Spend(kind) => budget'["stop"] = 0
    BY <1>0 DEF Spend, TypeOK, Kinds
  \* The process ends where all it knows of the rows is what the manifest says.
  <1>2. ASSUME NEW how, GoDown(how), UNCHANGED budget,
               ~manifest'.untraced => \A row \in RowsOf(lines') : row.traced
        PROVE  StickyInv'
    BY <1>0, <1>2 DEF GoDown, StickyInv
  \* The other threads carry rows of this invocation.
  <1>3. ASSUME NEW w \in Workers, worker' = [worker EXCEPT ![w] = Idle],
               pc \notin {"down", "opened"}, tracing
        PROVE  \A v \in Workers : worker'[v].at \in {"scored", "writing"} => worker'[v].row.traced
    <2>1. \A v \in Workers : worker[v].at \in {"scored", "writing"} => worker[v].row.traced
      BY <1>3 DEF StickyInv
    <2>2. QED
      BY <1>3, <2>1 DEF TypeOK, Idle
  \* A thread that is not idle belongs to a process that is up.
  <1>4. \A w \in Workers : worker[w].at # "idle" => pc \notin {"down", "opened"}
    BY DEF ResampleInv, Resting, Idle
  <1>5. ASSUME NEW traced \in TraceModes, Invoke(traced) PROVE StickyInv'
    <2>1. CASE manifest.file = "torn"
      BY <1>2, <1>5, <2>1 DEF Invoke, StickyInv, runDir, world
    <2>2. CASE manifest.file # "torn"
      <3>1. ~manifest'.untraced => ~manifest.untraced
        BY <1>5, <2>2 DEF Invoke, InitialManifest
      <3>2. QED
        BY <1>5, <2>2, <3>1 DEF Invoke, StickyInv, world
    <2>3. QED
      BY <2>1, <2>2
  <1>6. CASE LoadRows
    <2>1. /\ RowsOf(lines') = RowsOf(lines) /\ TasksOf(lines') = TasksOf(lines)
          /\ pc = "opened" /\ UNCHANGED <<manifest, budget>>
      BY <1>0, <1>6, RepairRows DEF LoadRows, TasksOf, world
    <2>2. CASE Loadable(lines')
      <3>1. /\ completed' = TasksOf(lines') /\ pc' \in {"gathering", "finalizing"}
            /\ UNCHANGED worker /\ \A w \in Workers : worker[w] = Idle
        BY <1>6, <2>1, <2>2 DEF LoadRows, ResampleInv, Resting
      <3>2. \A row \in RowsOf(lines') : row.task \in completed'
        BY <3>1 DEF TasksOf
      <3>3. Certified' => Tasks \subseteq completed'
        BY <2>1, <3>1 DEF Certified, DurableInv
      <3>4. QED
        BY <1>0, <2>1, <3>1, <3>2, <3>3 DEF StickyInv, Idle
    <2>3. CASE ~Loadable(lines')
      BY <1>2, <1>6, <2>1, <2>3 DEF LoadRows, StickyInv
    <2>4. QED
      BY <2>2, <2>3
  <1>7. CASE WriteFinalManifest
    <2>1. /\ pc = "finalizing" /\ UNCHANGED <<lines, budget>>
          /\ \E how : GoDown(how)
      BY <1>7 DEF WriteFinalManifest, world
    <2>2. manifest'.untraced = FinalUntraced
      BY <1>7 DEF WriteFinalManifest, FinalManifest, TypeOK, Manifests
    <2>3. ~FinalUntraced => \A row \in RowsOf(lines) : row.traced
      BY <2>1 DEF FinalUntraced, StickyInv
    <2>4. QED
      BY <1>2, <2>1, <2>2, <2>3
  <1>8. CASE GatherException \/ GatherLast \/ ShutdownDone
    BY <1>0, <1>8, QuietSticky
    DEF GatherException, GatherLast, ShutdownDone, runDir, world, StickyInv
  <1>9. ASSUME NEW w \in Workers, NEW t \in Tasks, TakeTask(w, t) \/ SkipTask(w, t)
        PROVE  StickyInv'
    <2>1. /\ UNCHANGED <<lines, manifest, completed, budget, tracing, pc>>
          /\ t \in queued
      BY <1>9 DEF TakeTask, SkipTask, runDir, world, FirstQueued
    <2>2. pc \notin {"down", "opened"}
      BY <2>1 DEF ResampleInv, Resting
    <2>3. \/ UNCHANGED worker
          \/ worker'[w].at = "calling" /\ \A v \in Workers \ {w} : worker'[v] = worker[v]
      BY <1>9 DEF TakeTask, SkipTask, TypeOK
    <2>4. QED
      BY <1>0, <2>1, <2>2, <2>3, QuietSticky DEF StickyInv
  <1>10. ASSUME NEW w \in Workers, NEW how \in ScoreOutcomes, ScoreReturns(w, how)
         PROVE  StickyInv'
    <2>1. /\ UNCHANGED <<lines, manifest, completed, budget, tracing, pc>>
          /\ worker[w].at = "calling"
      BY <1>10 DEF ScoreReturns, runDir, world
    <2>2. worker[w] \in [at : {"calling", "scored", "writing"}, task : Tasks,
                         row : Row \cup {NoRow}]
      BY <2>1, HeldTypes DEF TypeOK
    <2>3. worker'[w].row.traced = tracing /\ \A v \in Workers \ {w} : worker'[v] = worker[v]
      BY <1>10, <2>2 DEF ScoreReturns, TypeOK
    <2>4. pc \notin {"down", "opened"}
      BY <1>4, <2>1
    <2>5. QED
      BY <1>0, <2>1, <2>3, <2>4, QuietSticky DEF StickyInv
  <1>11. ASSUME NEW w \in Workers, RecordServed(w) PROVE StickyInv'
    <2>1. /\ UNCHANGED <<lines, manifest, completed, budget, tracing, pc>>
          /\ worker[w].at = "scored"
      BY <1>11 DEF RecordServed, runDir, world
    <2>2. worker[w] \in [at : {"calling", "scored", "writing"}, task : Tasks,
                         row : Row \cup {NoRow}]
      BY <2>1, HeldTypes DEF TypeOK
    <2>3. worker'[w].row = worker[w].row /\ \A v \in Workers \ {w} : worker'[v] = worker[v]
      BY <1>11, <2>2 DEF RecordServed, TypeOK
    <2>4. pc \notin {"down", "opened"}
      BY <1>4, <2>1
    <2>5. QED
      BY <1>0, <2>1, <2>3, <2>4, QuietSticky DEF StickyInv
  \* A thread lets go of its task without a row.
  <1>12. ASSUME NEW w \in Workers, worker[w].at # "idle", RowsOf(lines') = RowsOf(lines),
                worker' = [worker EXCEPT ![w] = Idle], budget'["stop"] = 0,
                UNCHANGED <<manifest, completed, tracing, pc>>
         PROVE  StickyInv'
    <2>1. pc \notin {"down", "opened"}
      BY <1>4, <1>12
    <2>2. tracing => \A v \in Workers : worker'[v].at \in {"scored", "writing"} =>
                        worker'[v].row.traced
      BY <1>3, <1>12, <2>1
    <2>3. QED
      BY <1>0, <1>12, <2>1, <2>2, QuietSticky
  <1>13. ASSUME NEW w \in Workers, ScoreRaises(w) PROVE StickyInv'
    BY <1>1, <1>12, <1>13 DEF ScoreRaises, runDir
  <1>14. ASSUME NEW w \in Workers, NEW tear \in WriteTears, WriteRaises(w, tear)
         PROVE  StickyInv'
    <2>1. /\ lines' = AppendTorn(lines, worker[w].row, tear)
          /\ worker[w].at = "writing" /\ Spend("write")
      BY <1>14 DEF WriteRaises
    <2>2. tear \in {"nothing", "fragment"} /\ worker[w].row \in Row
      BY <2>1, WritingUp, RunAssumption DEF NewlineKept, TearPoints
    <2>3. RowsOf(lines') = RowsOf(lines)
      BY <1>0, <2>1, <2>2, TornSealed
    <2>4. QED
      BY <1>1, <1>12, <1>14, <2>1, <2>3 DEF WriteRaises
  <1>15. ASSUME NEW w \in Workers, WriteRow(w) PROVE StickyInv'
    <2> DEFINE row == worker[w].row
    <2>1. /\ UNCHANGED <<manifest, completed, budget, tracing, pc>>
          /\ lines' = Put(lines, row, TRUE) /\ worker[w].at = "writing"
          /\ worker' = [worker EXCEPT ![w] = Idle]
      BY <1>15 DEF WriteRow, AppendRow, world
    <2>2. row \in Row /\ row.task \notin TasksOf(lines) /\ pc \notin {"down", "opened"}
      BY <2>1, WritingRow, WritingUp
    <2>3. RowsOf(lines') \subseteq RowsOf(lines) \cup {row}
      BY <1>0, <2>1, <2>2, PutRows
    <2>4. RowsOf(lines) \subseteq RowsOf(lines')
      BY NextDurable
    <2>5. TasksOf(lines) \subseteq TasksOf(lines') /\ row.task \notin completed
      BY <2>2, <2>4 DEF TasksOf, StickyInv
    <2>6. tracing => row.traced
      BY <2>1, <2>2 DEF StickyInv
    <2>7. tracing => \A v \in Workers : worker'[v].at \in {"scored", "writing"} =>
                        worker'[v].row.traced
      BY <1>3, <2>1, <2>2
    <2>8. Certified' <=> Certified
      BY <2>1 DEF Certified
    <2> HIDE DEF row
    <2>9. QED
      BY <1>0, <2>1, <2>2, <2>3, <2>5, <2>6, <2>7, <2>8 DEF StickyInv
  <1>16. CASE TracingFails
    BY <1>0, <1>16, QuietSticky DEF TracingFails, runDir, world
  <1>17. CASE (\E role \in Roles : AliasMoves(role)) \/ RubricEdited \/ UNCHANGED vars
    BY <1>0, <1>17, QuietSticky
    DEF AliasMoves, RubricEdited, vars, runDir, process, world, StickyInv
  <1>18. QED
    BY <1>1, <1>5, <1>6, <1>7, <1>8, <1>9, <1>10, <1>11, <1>13, <1>14, <1>15, <1>16, <1>17
    DEF Next, Main, Thread, Environment, Interrupt, Kill, KillInRowWrite, KillInManifestWrite

\* A completed run that is called traced was measured under tracing from its
\* first row to its last, over aborts, resumptions and failing writes.
THEOREM TracedMeansTraced ==
    ASSUME NewlineKept, NothingStops
    PROVE  Spec => []UntracedIsSticky
  <1>1. Init => StickyInv
    <2> SUFFICES ASSUME Init PROVE StickyInv
      OBVIOUS
    <2>1. budget["stop"] = 0
      BY DEF Init, Kinds, NothingStops
    <2>2. QED
      BY <2>1 DEF Init, StickyInv, NoManifest, InitialManifest
  <1>2. TypeOK /\ StickyInv => UntracedIsSticky
    <2> SUFFICES ASSUME TypeOK, StickyInv, Certified, ~manifest.untraced,
                        NEW row \in RowsOf(lines)
                 PROVE  row.traced
      BY DEF UntracedIsSticky
    <2>1. row.task \in Tasks
      BY RowsOfTypes DEF TypeOK, Row
    <2>2. QED
      BY <2>1 DEF StickyInv
  <1>3. QED
    BY <1>1, <1>2, NextSticky, Durability, PTL DEF Spec
=============================================================================
