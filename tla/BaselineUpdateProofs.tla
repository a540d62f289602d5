------------------------ MODULE BaselineUpdateProofs ------------------------
(***************************************************************************)
(* What an update guarantees when no two updates run at the same time.     *)
(***************************************************************************)
EXTENDS BaselineUpdate, TLAPS

\* .staging is shared and nothing locks it: this is left to the operator.
OneAtATime == \A u, v \in Updaters : u = v

-----------------------------------------------------------------------------
(* Type correctness *)

\* What is made of a status is a status.
LEMMA StatusType ==
    ASSUME NEW me \in Status, NEW c \in Candidates
    PROVE  /\ AfterStaging(me, c) \in Status
           /\ AfterPromotion(me, c) \in Status
BY DEF Status, AfterStaging, AfterPromotion, Leave

\* ... and so is what remains of it when the try block is left.
LEMMA LeaveType ==
    ASSUME NEW me \in Status,
           NEW at \in {"idle", "staging", "promoting", "cleaning"},
           NEW how \in {"none", "committed", "refused", "aborted", "failed", "killed"}
    PROVE  /\ Leave(me, at, how) \in Status
           /\ Leave(me, at, me.ended) \in Status
BY DEF Status, Leave

\* Files are made of types.
LEMMA FileType ==
    /\ Absent \in File /\ Torn \in File /\ First \in File
    /\ \A n \in Invocations, floor, traced \in BOOLEAN : Measured(n, floor, traced) \in File
<1>1. 0 \in Invocations
  BY UpdateAssumption DEF Invocations
<1> QED
  BY <1>1 DEF File, Baseline, Absent, Torn, First, Measured

\* Every action of an update or of a fault keeps the types.
LEMMA StepTypeOK ==
    ASSUME TypeOK, [Next]_vars
    PROVE  TypeOK'
<1> USE UpdateAssumption, FileType DEF TypeOK
<1>1. CASE UNCHANGED vars
  BY <1>1 DEF vars
<1>2. ASSUME NEW u \in Updaters, NEW plan \in Plans, Start(u, plan)
      PROVE  TypeOK'
  <2>1. started' \in Invocations
    BY <1>2 DEF Start, Invocations
  <2>2. plan \in SUBSET Candidates
    OBVIOUS
  <2>3. [at |-> "staging", plan |-> plan, left |-> plan, number |-> started',
         before |-> committed, ended |-> "none"] \in Status
    BY <2>1, <2>2 DEF Status
  <2> QED
    BY <1>2, <2>1, <2>3 DEF Start
<1>3. ASSUME NEW u \in Updaters, NEW c \in Candidates, NEW floor \in BOOLEAN,
             NEW traced \in Tracing, Stage(u, c, floor, traced)
      PROVE  TypeOK'
  <2>1. updater[u] \in Status /\ updater[u].number \in Invocations
    BY DEF Status
  <2>2. Measured(updater[u].number, floor, traced) \in File
    BY <2>1
  <2>3. AfterStaging(updater[u], c) \in Status /\ Leave(updater[u], "cleaning", "refused") \in Status
    BY <2>1, StatusType, LeaveType
  <2> QED
    BY <1>3, <2>2, <2>3 DEF Stage
<1>4. ASSUME NEW u \in Updaters, NEW c \in Candidates, Promote(u, c)
      PROVE  TypeOK'
  <2>1. AfterPromotion(updater[u], c) \in Status
    BY StatusType
  <2> QED
    BY <1>4, <2>1 DEF Promote
<1>5. ASSUME NEW u \in Updaters, StageRaises(u)
      PROVE  TypeOK'
  BY <1>5, LeaveType DEF StageRaises
<1>6. ASSUME NEW u \in Updaters, CleanUp(u)
      PROVE  TypeOK'
  BY <1>6, LeaveType DEF CleanUp, NoFiles
<1>7. ASSUME NEW u \in Updaters, NEW c \in Candidates,
             NEW file \in {committed[c], Torn}, PromoteRaises(u, c, file)
      PROVE  TypeOK'
  <2>1. file \in File /\ faults' \in 0 .. MaxFaults
    BY <1>7 DEF PromoteRaises
  <2> QED
    BY <1>7, <2>1, LeaveType DEF PromoteRaises
<1>8. ASSUME NEW u \in Updaters, Die(u)
      PROVE  updater' \in [Updaters -> Status] /\ faults' \in 0 .. MaxFaults
             /\ started' \in Invocations
  BY <1>8, LeaveType DEF Die
<1>9. ASSUME NEW u \in Updaters, Kill(u)
       PROVE  TypeOK'
  BY <1>8, <1>9 DEF Kill
<1>10. ASSUME NEW u \in Updaters, NEW c \in Candidates,
              KillInStaging(u, c) \/ KillInPromotion(u, c)
       PROVE  TypeOK'
  BY <1>8, <1>10 DEF KillInStaging, KillInPromotion
<1> QED
  BY <1>1, <1>2, <1>3, <1>4, <1>5, <1>6, <1>7, <1>9, <1>10
  DEF Next, Update, Faults

\* Files, invocations and counters stay in their sets, however many processes
\* update at the same time.
THEOREM UpdateTypeCorrect == Spec => []TypeOK
<1>1. ASSUME Init PROVE TypeOK
  <2>1. Resting \in Status /\ 0 \in Invocations /\ MaxFaults \in 0 .. MaxFaults
    BY UpdateAssumption, FileType DEF Resting, Status, NoFiles, Invocations
  <2> QED
    BY <1>1, <2>1, FileType DEF Init, TypeOK, NoFiles
<1>2. TypeOK /\ [Next]_vars => TypeOK'
  BY StepTypeOK
<1> QED
  BY <1>1, <1>2, PTL DEF Spec

-----------------------------------------------------------------------------
(* The inductive invariant of one update at a time *)

\* The file is the baseline that invocation n measured, and it passed.
Good(file, n) == file.state = "whole" /\ file.floor /\ file.by = n

\* Where an update stands, in terms of the two directories.
OnCourse(me, stg, com) ==
    /\ me.at \in {"staging", "promoting"} => me.ended = "none"
    /\ me.at = "staging" =>
        /\ com = me.before
        /\ \A c \in me.plan \ me.left : Good(stg[c], me.number)
    /\ me.at = "promoting" =>
        /\ \A c \in me.left : Good(stg[c], me.number)
        /\ \A c \in me.plan \ me.left : Good(com[c], me.number)
    /\ me.ended \in {"refused", "aborted"} => com = me.before
    /\ me.ended = "committed" => \A c \in me.plan : Good(com[c], me.number)

UpdateInv ==
    /\ \A u \in Updaters : OnCourse(updater[u], staged, committed)
    /\ CommittedPassedTheFloor

\* With one process, what it does to its own status is all there is to check.
LEMMA OnlyOne ==
    ASSUME OneAtATime, NEW u \in Updaters, TypeOK, UpdateInv,
           NEW me, updater' = [updater EXCEPT ![u] = me],
           OnCourse(me, staged', committed'), CommittedPassedTheFloor'
    PROVE  UpdateInv'
<1>1. \A v \in Updaters : updater'[v] = me
  BY DEF TypeOK, OneAtATime
<1> QED
  BY <1>1 DEF UpdateInv

\* Leaving the try block, or dying, while files stay as they are.
LEMMA LeaveOnCourse ==
    ASSUME NEW me \in Status, NEW stg, NEW com, NEW at \in {"cleaning", "idle"},
           NEW how \in {"failed", "killed"}
    PROVE  OnCourse(Leave(me, at, how), stg, com)
BY DEF OnCourse, Leave, Status

\* A step keeps an update on its course.
LEMMA StepUpdateInv ==
    ASSUME OneAtATime, TypeOK, UpdateInv, [Next]_vars
    PROVE  UpdateInv'
<1>0. ASSUME NEW u \in Updaters
      PROVE  updater[u] \in Status /\ OnCourse(updater[u], staged, committed)
  BY DEF TypeOK, UpdateInv
<1>1. CASE UNCHANGED vars
  BY <1>1 DEF vars, UpdateInv, CommittedPassedTheFloor
<1>2. ASSUME NEW u \in Updaters, NEW plan \in Plans, Start(u, plan)
      PROVE  UpdateInv'
  <2> DEFINE me == [at |-> "staging", plan |-> plan, left |-> plan, number |-> started',
                    before |-> committed, ended |-> "none"]
  <2>1. OnCourse(me, staged', committed')
    BY <1>2 DEF Start, OnCourse
  <2>2. updater' = [updater EXCEPT ![u] = me] /\ CommittedPassedTheFloor'
    BY <1>2 DEF Start, UpdateInv, CommittedPassedTheFloor
  <2> QED
    BY <2>1, <2>2, OnlyOne
<1>3. ASSUME NEW u \in Updaters, NEW c \in Candidates, NEW floor \in BOOLEAN,
             NEW traced \in Tracing, Stage(u, c, floor, traced)
      PROVE  UpdateInv'
  <2> DEFINE me == updater[u]
  <2>1. /\ me \in Status /\ OnCourse(me, staged, committed)
        /\ me.at = "staging" /\ c \in me.left
    BY <1>0, <1>3 DEF Stage, Turn
  <2>2. committed' = committed /\ CommittedPassedTheFloor'
    BY <1>3 DEF Stage, UpdateInv, CommittedPassedTheFloor
  <2>3. CASE floor
    <3>1. /\ Good(staged'[c], me.number)
          /\ \A d \in Candidates \ {c} : staged'[d] = staged[d]
      BY <1>3, <2>3 DEF Stage, Measured, Good, TypeOK
    <3>2. \A d \in me.plan \ (me.left \ {c}) : Good(staged'[d], me.number)
      BY <2>1, <3>1 DEF OnCourse, Status
    <3>3. OnCourse(AfterStaging(me, c), staged', committed')
      <4>1. CASE me.left = {c}
        <5>1. \A d \in me.plan : Good(staged'[d], me.number)
          BY <3>2, <4>1
        <5> QED
          BY <2>1, <4>1, <5>1 DEF AfterStaging, OnCourse, Status
      <4>2. CASE me.left # {c}
        BY <2>1, <2>2, <3>2, <4>2 DEF AfterStaging, OnCourse, Status
      <4> QED
        BY <4>1, <4>2
    <3>4. updater' = [updater EXCEPT ![u] = AfterStaging(me, c)]
      BY <1>3, <2>3 DEF Stage
    <3> QED
      BY <2>2, <3>3, <3>4, OnlyOne
  <2>4. CASE ~floor
    <3>1. OnCourse(Leave(me, "cleaning", "refused"), staged', committed')
      BY <2>1, <2>2 DEF OnCourse, Leave, Status
    <3>2. updater' = [updater EXCEPT ![u] = Leave(me, "cleaning", "refused")]
      BY <1>3, <2>4 DEF Stage
    <3> QED
      BY <2>2, <3>1, <3>2, OnlyOne
  <2> QED
    BY <2>3, <2>4
<1>4. ASSUME NEW u \in Updaters, NEW c \in Candidates, Promote(u, c)
      PROVE  UpdateInv'
  <2> DEFINE me == updater[u]
  <2>1. /\ me \in Status /\ OnCourse(me, staged, committed)
        /\ me.at = "promoting" /\ c \in me.left
    BY <1>0, <1>4 DEF Promote, Turn
  <2>2. /\ Good(committed'[c], me.number)
        /\ \A d \in Candidates \ {c} : committed'[d] = committed[d]
        /\ staged' = staged
    BY <1>4, <2>1 DEF Promote, OnCourse, TypeOK
  <2>3. CommittedPassedTheFloor'
    BY <2>2 DEF UpdateInv, CommittedPassedTheFloor, Good
  <2>4. \A d \in me.plan \ (me.left \ {c}) : Good(committed'[d], me.number)
    BY <2>1, <2>2 DEF OnCourse, Status
  <2>5. OnCourse(AfterPromotion(me, c), staged', committed')
    <3>1. CASE me.left = {c}
      <4>1. \A d \in me.plan : Good(committed'[d], me.number)
        BY <2>4, <3>1
      <4> QED
        BY <2>1, <3>1, <4>1 DEF AfterPromotion, Leave, OnCourse, Status
    <3>2. CASE me.left # {c}
      BY <2>1, <2>2, <2>4, <3>2 DEF AfterPromotion, OnCourse, Status
    <3> QED
      BY <3>1, <3>2
  <2>6. updater' = [updater EXCEPT ![u] = AfterPromotion(me, c)]
    BY <1>4 DEF Promote
  <2> QED
    BY <2>3, <2>5, <2>6, OnlyOne
<1>5. ASSUME NEW u \in Updaters, StageRaises(u)
      PROVE  UpdateInv'
  <2>1. OnCourse(Leave(updater[u], "cleaning", "aborted"), staged', committed')
    BY <1>0, <1>5 DEF StageRaises, OnCourse, Leave, Status
  <2>2. CommittedPassedTheFloor'
    BY <1>5 DEF StageRaises, UpdateInv, CommittedPassedTheFloor
  <2> QED
    BY <1>5, <2>1, <2>2, OnlyOne DEF StageRaises
<1>6. ASSUME NEW u \in Updaters, CleanUp(u)
      PROVE  UpdateInv'
  <2>1. OnCourse(Leave(updater[u], "idle", updater[u].ended), staged', committed')
    BY <1>0, <1>6 DEF CleanUp, OnCourse, Leave, Status
  <2>2. CommittedPassedTheFloor'
    BY <1>6 DEF CleanUp, UpdateInv, CommittedPassedTheFloor
  <2> QED
    BY <1>6, <2>1, <2>2, OnlyOne DEF CleanUp
<1>7. ASSUME NEW u \in Updaters, NEW c \in Candidates,
             NEW file \in {committed[c], Torn}, PromoteRaises(u, c, file)
      PROVE  UpdateInv'
  <2>1. OnCourse(Leave(updater[u], "cleaning", "failed"), staged', committed')
    BY <1>0, LeaveOnCourse
  <2>2. CommittedPassedTheFloor'
    BY <1>7 DEF PromoteRaises, UpdateInv, CommittedPassedTheFloor, TypeOK, Torn, Absent
  <2> QED
    BY <1>7, <2>1, <2>2, OnlyOne DEF PromoteRaises
<1>8. ASSUME NEW u \in Updaters, Die(u), CommittedPassedTheFloor'
      PROVE  UpdateInv'
  <2>1. OnCourse(Leave(updater[u], "idle", "killed"), staged', committed')
    BY <1>0, LeaveOnCourse
  <2> QED
    BY <1>8, <2>1, OnlyOne DEF Die
<1>9. ASSUME NEW u \in Updaters, Kill(u)
       PROVE  UpdateInv'
  BY <1>8, <1>9 DEF Kill, UpdateInv, CommittedPassedTheFloor
<1>10. ASSUME NEW u \in Updaters, NEW c \in Candidates, KillInStaging(u, c)
       PROVE  UpdateInv'
  BY <1>8, <1>10 DEF KillInStaging, UpdateInv, CommittedPassedTheFloor
<1>11. ASSUME NEW u \in Updaters, NEW c \in Candidates, KillInPromotion(u, c)
       PROVE  UpdateInv'
  <2>1. CommittedPassedTheFloor'
    BY <1>11 DEF KillInPromotion, UpdateInv, CommittedPassedTheFloor, TypeOK, Torn, Absent
  <2> QED
    BY <1>8, <1>11, <2>1 DEF KillInPromotion
<1> QED
  BY <1>1, <1>2, <1>3, <1>4, <1>5, <1>6, <1>7, <1>9, <1>10, <1>11
  DEF Next, Update, Faults

\* Nothing is on course to anything when there is nothing yet.
LEMMA InitUpdateInv == Init => UpdateInv
<1> SUFFICES ASSUME Init PROVE UpdateInv
  OBVIOUS
<1>1. OnCourse(Resting, staged, committed)
  BY DEF OnCourse, Resting
<1>2. \A u \in Updaters : updater[u] = Resting
  BY DEF Init
<1>3. CommittedPassedTheFloor
  BY DEF Init, CommittedPassedTheFloor, Absent, First
<1> QED
  BY <1>1, <1>2, <1>3 DEF UpdateInv

\* The invariant holds throughout.
LEMMA UpdateStaysOnCourse ==
    ASSUME OneAtATime
    PROVE  Spec => []UpdateInv
<1>1. TypeOK /\ UpdateInv /\ [Next]_vars => UpdateInv'
  BY StepUpdateInv
<1> QED
  BY <1>1, InitUpdateInv, UpdateTypeCorrect, PTL DEF Spec

-----------------------------------------------------------------------------
\* No committed baseline has a noise floor above the guardrail, through any
\* number of updates, refusals, failed writes and kills, and whatever they left
\* in .staging.
THEOREM FloorIsEnforced ==
    ASSUME OneAtATime
    PROVE  Spec => []CommittedPassedTheFloor
<1>1. UpdateInv => CommittedPassedTheFloor
  BY DEF UpdateInv
<1> QED
  BY <1>1, UpdateStaysOnCourse, PTL

\* update_baselines, first half of its promise: a failure while staging either
\* candidate leaves both committed files as they were.
THEOREM StagingFailureIsHarmless ==
    ASSUME OneAtATime
    PROVE  Spec => []FailedStagingChangesNothing
<1>1. UpdateInv => FailedStagingChangesNothing
  BY DEF UpdateInv, OnCourse, FailedStagingChangesNothing
<1> QED
  BY <1>1, UpdateStaysOnCourse, PTL

\* The other half: an update that returns has committed, for every candidate
\* it was asked to update, what it measured itself.
THEOREM ReturnMeansCommitted ==
    ASSUME OneAtATime
    PROVE  Spec => []ReturnedUpdateIsWhole
<1>1. UpdateInv => ReturnedUpdateIsWhole
  BY DEF UpdateInv, OnCourse, Good, ReturnedUpdateIsWhole
<1> QED
  BY <1>1, UpdateStaysOnCourse, PTL
=============================================================================
