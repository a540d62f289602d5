-------------------------- MODULE MeasurementProofs --------------------------
(***************************************************************************)
(* Proofs about Measurement, for every number of threads, tasks, judged    *)
(* fields, failing Langfuse calls and failing provider calls.              *)
(***************************************************************************)
EXTENDS Measurement, SequenceTheorems, TLAPS

Reply == (UNION {CandidateReplies[p] : p \in DOMAIN CandidateReplies}) \cup JudgeReplies

Scores == {0, 1, Missing}

Row == [AllFields -> Scores]

Stages == {"opening", "calling", "closing", "raising", "attaching", "scoring", "scored",
           "writing"}

Activity == [at : Stages, task : Tasks, call : Nat \ {0}, span : BOOLEAN, draft : Row]

(***************************************************************************)
(* The inductive invariant.  Types: every variable ranges over the values  *)
(* of its code counterpart, and the warning is given with the flag.        *)
(***************************************************************************)
Types ==
    /\ client \in DOMAIN CandidateReplies
    /\ heard \in [Tasks -> Seq(Reply)]
    /\ rows \in [Tasks -> Row \cup {NoRow}]
    /\ raised \in BOOLEAN
    /\ queued \subseteq Tasks
    /\ thread \in [Threads -> Activity \cup {Idle}]
    /\ untraced \in BOOLEAN
    /\ warnings = IF untraced THEN 1 ELSE 0
    /\ ended \subseteq [task : Tasks, call : Nat \ {0}]
    /\ attached \subseteq [task : Tasks, field : AllFields, value : Scores]
    /\ closed \subseteq Tasks
    /\ budget \in [trace : 0 .. MaxTraceFaults, call : 0 .. MaxRaises]

\* A task is in the queue, with nothing heard and nothing scored; or with one
\* thread; or it has been left behind.
Exclusive ==
    /\ \A task \in queued : heard[task] = <<>> /\ rows[task] = NoRow
    /\ \A t \in Busy :
          /\ thread[t].task \notin queued
          /\ rows[thread[t].task] = NoRow
          /\ \A u \in Busy : thread[u].task = thread[t].task => t = u

\* The replies a thread has heard, and those that are in its draft.
HeardBy(a) == IF a.at \in {"opening", "calling", "raising"} THEN a.call - 1 ELSE a.call

TakenBy(a) == IF a.at \in {"opening", "calling", "closing", "raising"} THEN a.call - 1 ELSE a.call

\* A thread is at the call that follows what was heard, and past the last one
\* once it attaches scores.
OnPace(a, h) ==
    /\ Len(h) = HeardBy(a)
    /\ a.call <= CallsOf(client, h)
    /\ a.at \in {"attaching", "scoring", "scored", "writing"} => a.call = CallsOf(client, h)

Paced ==
    /\ \A task \in Tasks : Len(heard[task]) <= CallsOf(client, heard[task])
    /\ \A t \in Busy : OnPace(thread[t], heard[thread[t].task])

\* The first n replies of h are in the draft.
Holds(draft, h, n) ==
    n > 0 =>
        IF Failed(client, h[1])
        THEN draft = AllZero
        ELSE /\ \A f \in DeterministicFields : draft[f] = DeterministicScores(h[1])[f]
             /\ \A i \in 1 .. n - 1 : draft[JudgedFields[i]] = JudgedScore(h[i + 1])

\* Drafts, and persisted rows, are the scores of what was heard.
Drafted ==
    /\ \A t \in Busy : Holds(thread[t].draft, heard[thread[t].task], TakenBy(thread[t]))
    /\ \A task \in Tasks : rows[task] # NoRow =>
          /\ Len(heard[task]) = CallsOf(client, heard[task])
          /\ rows[task] = ScoresOf(client, heard[task])

\* The scores of a row that Langfuse is to have.
Owed(task, row) ==
    {[task |-> task, field |-> f, value |-> row[f]] : f \in {g \in AllFields : row[g] # Missing}}

About(scores, task) == {score \in scores : score.task = task}

\* As long as the context is traced, every call that was heard has an ended span or
\* a thread that is about to end it.
Spanned ==
    ~untraced =>
        /\ \A t \in Busy : thread[t].at \in {"calling", "closing", "raising"} => thread[t].span
        /\ \A task \in Tasks : \A n \in DOMAIN heard[task] :
              \/ [task |-> task, call |-> n] \in ended
              \/ \E t \in Busy : thread[t].at = "closing" /\ thread[t].task = task
                                 /\ thread[t].call = n

\* ... scores are attached in the scoring stage only, and are all there after it.
ToldBy(a, scores, done) ==
    /\ a.at # "scored"
    /\ a.at \in {"opening", "calling", "closing", "raising", "attaching"} =>
          About(scores, a.task) = {}
    /\ a.at = "scoring" => About(scores, a.task) \subseteq Owed(a.task, a.draft)
    /\ a.at = "writing" => About(scores, a.task) = Owed(a.task, a.draft) /\ a.task \in done

Told ==
    ~untraced =>
        /\ \A t \in Busy : ToldBy(thread[t], attached, closed)
        /\ \A task \in queued : About(attached, task) = {}
        /\ \A task \in Tasks : rows[task] # NoRow =>
              About(attached, task) = Owed(task, rows[task]) /\ task \in closed

\* The final manifest is written when nothing is going on any more.
Settled ==
    manifest # NoRow =>
        /\ Busy = {} /\ (queued = {} \/ raised)
        /\ manifest.untraced = untraced

\* What has reached Langfuse is about calls that were made.
Reached ==
    /\ \A span \in ended : span.call <= 1 + Len(heard[span.task])
    /\ \A score \in attached : heard[score.task] # <<>>

\* The first reply of a row is the candidate's, the others are the judge's.
Sourced ==
    \A task \in Tasks : \A n \in DOMAIN heard[task] :
        heard[task][n] \in IF n = 1 THEN CandidateReplies[client] ELSE JudgeReplies

IInv ==
    /\ Types /\ Exclusive /\ Paced /\ Drafted /\ Spanned /\ Told /\ Settled /\ Reached
    /\ Sourced

-----------------------------------------------------------------------------
LEMMA BusyTypes ==
    ASSUME Types, NEW t \in Threads
    PROVE  /\ t \in Busy <=> thread[t].at # "idle"
           /\ t \in Busy => thread[t] \in Activity
  BY DEF Types, Busy, Activity, Stages, Idle

LEMMA RowTypes ==
    /\ AllZero \in Row
    /\ \A reply : JudgedScore(reply) \in Scores
    /\ \A reply : DeterministicScores(reply) \in [DeterministicFields -> Scores]
    /\ \A f : f \in AllFields <=> f \in DeterministicFields \/ f \in JudgedSet
  BY DEF AllZero, Row, Scores, JudgedScore, DeterministicScores, AllFields

LEMMA LastCallNumber ==
    ASSUME NEW p, NEW h
    PROVE  /\ Len(JudgedFields) \in Nat
           /\ CallsOf(p, h) \in Nat \ {0}
           /\ CallsOf(p, h) <= 1 + Len(JudgedFields)
           /\ h # <<>> /\ Failed(p, h[1]) => CallsOf(p, h) = 1
           /\ h # <<>> /\ ~Failed(p, h[1]) => CallsOf(p, h) = 1 + Len(JudgedFields)
  BY RowAssumption DEF CallsOf

LEMMA JudgedFieldOfCall ==
    ASSUME NEW n \in 1 .. Len(JudgedFields)
    PROVE  JudgedFields[n] \in JudgedSet /\ JudgedFields[n] \in AllFields
  BY RowAssumption DEF JudgedSet, AllFields

(***************************************************************************)
(* Once something was heard, what is heard next changes neither it nor the *)
(* number of calls.                                                        *)
(***************************************************************************)
LEMMA HearingMore ==
    ASSUME NEW p, NEW h \in Seq(Reply), NEW reply \in Reply
    PROVE  /\ Append(h, reply) \in Seq(Reply)
           /\ Len(Append(h, reply)) = Len(h) + 1
           /\ Append(h, reply) # <<>>
           /\ \A n \in 1 .. Len(h) : Append(h, reply)[n] = h[n]
           /\ h # <<>> => CallsOf(p, Append(h, reply)) = CallsOf(p, h)
  <1>1. /\ Append(h, reply) \in Seq(Reply)
        /\ Len(Append(h, reply)) = Len(h) + 1
        /\ \A n \in 1 .. Len(h) : Append(h, reply)[n] = h[n]
    OBVIOUS
  <1>2. Append(h, reply) # <<>>
    BY <1>1
  <1>3. h # <<>> => Append(h, reply)[1] = h[1]
    BY <1>1
  <1>4. QED
    BY <1>1, <1>2, <1>3 DEF CallsOf

(***************************************************************************)
(* Type correctness, one step per action.                                  *)
(***************************************************************************)
LEMMA InitTypes == Init => Types
  <1> SUFFICES ASSUME Init PROVE Types
    OBVIOUS
  <1>1. heard \in [Tasks -> Seq(Reply)]
    BY DEF Init
  <1>2. rows \in [Tasks -> Row \cup {NoRow}] /\ thread \in [Threads -> Activity \cup {Idle}]
    BY DEF Init
  <1>3. budget \in [trace : 0 .. MaxTraceFaults, call : 0 .. MaxRaises]
    BY MeasurementAssumption DEF Init
  <1>4. QED
    BY <1>1, <1>2, <1>3, MeasurementAssumption DEF Init, Types

LEMMA SpendTypes ==
    ASSUME Types, NEW kind \in {"trace", "call"}, Spend(kind)
    PROVE  budget' \in [trace : 0 .. MaxTraceFaults, call : 0 .. MaxRaises]
  BY MeasurementAssumption DEF Types, Spend

LEMMA MarkTypes ==
    ASSUME Types, MarkUntraced
    PROVE  untraced' = TRUE /\ warnings' = 1
  BY DEF Types, MarkUntraced

LEMMA AtTypes ==
    ASSUME Types, NEW t \in Threads, NEW where \in Stages, NEW task \in Tasks,
           NEW call \in Nat \ {0}, NEW span \in BOOLEAN, NEW draft \in Row,
           thread' = At(t, where, task, call, span, draft)
    PROVE  /\ thread' \in [Threads -> Activity \cup {Idle}]
           /\ thread'[t] = [at |-> where, task |-> task, call |-> call, span |-> span,
                            draft |-> draft]
           /\ \A u \in Threads \ {t} : thread'[u] = thread[u]
  BY DEF Types, At, Activity

LEMMA GoesTypes ==
    ASSUME Types, NEW t \in Threads, thread[t].at # "idle", NEW where \in Stages,
           Goes(t, where)
    PROVE  /\ thread' \in [Threads -> Activity \cup {Idle}]
           /\ thread'[t] = [thread[t] EXCEPT !.at = where]
           /\ thread'[t] \in Activity
           /\ \A u \in Threads \ {t} : thread'[u] = thread[u]
  BY BusyTypes DEF Types, Goes, Activity

LEMMA DraftTypes ==
    ASSUME Types, Paced, NEW t \in Busy, thread[t].at = "closing"
    PROVE  Draft(t) \in Row
  <1> DEFINE reply == heard[thread[t].task][thread[t].call]
  <1>1. thread[t] \in Activity /\ t \in Threads
    BY BusyTypes DEF Busy
  <1>2. CASE thread[t].call > 1
    <2>1. Draft(t) = [thread[t].draft EXCEPT ![JudgedFields[thread[t].call - 1]] =
                          JudgedScore(reply)]
      BY <1>2 DEF Draft
    <2>2. thread[t].draft \in Row /\ JudgedScore(reply) \in Scores
      BY <1>1, RowTypes DEF Activity
    <2>3. QED
      BY <2>1, <2>2 DEF Row
  <1>3. CASE ~(thread[t].call > 1) /\ Failed(client, reply)
    BY <1>3, RowTypes DEF Draft
  <1>4. CASE ~(thread[t].call > 1) /\ ~Failed(client, reply)
    <2>1. Draft(t) = [f \in AllFields |-> IF f \in DeterministicFields
                                          THEN DeterministicScores(reply)[f] ELSE 0]
      BY <1>4 DEF Draft
    <2>2. QED
      BY <2>1, RowTypes DEF Row, Scores
  <1>5. QED
    BY <1>2, <1>3, <1>4

LEMMA AdvanceTypes ==
    ASSUME Types, Paced, NEW t \in Threads, Advance(t)
    PROVE  /\ thread' \in [Threads -> Activity \cup {Idle}]
           /\ heard' = heard /\ rows' = rows /\ client' = client
           /\ raised' \in BOOLEAN
           /\ \A u \in Threads \ {t} : thread'[u] = thread[u]
  <1>1. CASE thread[t].at = "raising"
    BY <1>1 DEF Advance, Types
  <1>2. CASE thread[t].at = "closing"
    <2>1. t \in Busy /\ thread[t] \in Activity
      BY <1>2, BusyTypes
    <2>2. Draft(t) \in Row
      BY <1>2, <2>1, DraftTypes
    <2>3. UNCHANGED measured
      BY <1>2 DEF Advance
    <2>4. CASE LastCall(t)
      <3>1. thread' = At(t, "attaching", thread[t].task, thread[t].call, FALSE, Draft(t))
        BY <1>2, <2>4 DEF Advance
      <3>2. QED
        BY <2>1, <2>2, <2>3, <3>1, AtTypes DEF Activity, Stages, measured, Types
    <2>5. CASE ~LastCall(t)
      <3>1. thread' = At(t, "opening", thread[t].task, thread[t].call + 1, FALSE, Draft(t))
        BY <1>2, <2>5 DEF Advance
      <3>2. thread[t].task \in Tasks /\ thread[t].call + 1 \in Nat \ {0} /\ "opening" \in Stages
        BY <2>1 DEF Activity, Stages
      <3>3. QED
        BY <2>2, <2>3, <3>1, <3>2, AtTypes DEF measured, Types
    <2>6. QED
      BY <2>4, <2>5
  <1>3. QED
    BY <1>1, <1>2 DEF Advance

LEMMA AttachedTypes ==
    ASSUME Types, NEW t \in Threads, AttachScore(t)
    PROVE  /\ attached' \subseteq [task : Tasks, field : AllFields, value : Scores]
           /\ \E f \in Unattached(t) : attached' = attached \cup {ScoreOf(t, f)}
  <1> DEFINE f == CHOOSE g \in Unattached(t) : TRUE
  <1>1. thread[t] \in Activity
    BY BusyTypes DEF AttachScore
  <1>2. f \in Unattached(t) /\ f \in AllFields
    BY DEF AttachScore, Unattached
  <1>3. attached' = attached \cup {ScoreOf(t, f)}
    BY DEF AttachScore
  <1>4. ScoreOf(t, f) \in [task : Tasks, field : AllFields, value : Scores]
    BY <1>1, <1>2 DEF ScoreOf, Activity, Row
  <1>5. QED
    BY <1>2, <1>3, <1>4 DEF Types

LEMMA NextTypes == Types /\ Paced /\ [Next]_vars => Types'
  <1> SUFFICES ASSUME Types, Paced, [Next]_vars PROVE Types'
    OBVIOUS
  <1> USE DEF measured, context, langfuse
  <1>1. ASSUME NEW t \in Threads, NEW task \in Tasks, TakeTask(t, task) PROVE Types'
    <2>1. "opening" \in Stages /\ 1 \in Nat \ {0} /\ FALSE \in BOOLEAN
      BY DEF Stages
    <2>2. thread' \in [Threads -> Activity \cup {Idle}]
      BY <1>1, <2>1, AtTypes, RowTypes DEF TakeTask
    <2>3. QED
      BY <1>1, <2>2 DEF TakeTask, Types
  <1>2. ASSUME NEW t \in Threads, OpenSpan(t) PROVE Types'
    <2>1. thread[t] \in Activity
      BY <1>2, BusyTypes DEF OpenSpan
    <2>2. thread' \in [Threads -> Activity \cup {Idle}]
      BY <1>2, <2>1 DEF OpenSpan, Types, Activity, Stages
    <2>3. QED
      BY <1>2, <2>2 DEF OpenSpan, Types
  <1>3. ASSUME NEW t \in Threads, OpenSpanFails(t) PROVE Types'
    BY <1>3, SpendTypes, MarkTypes, GoesTypes DEF OpenSpanFails, Types, Stages
  <1>4. ASSUME NEW t \in Threads, NEW reply \in Replies(t), CallReturns(t, reply) PROVE Types'
    <2>1. thread[t] \in Activity
      BY <1>4, BusyTypes DEF CallReturns
    <2>2. reply \in Reply
      BY <1>4 DEF Replies, Reply, Types
    <2>3. heard' \in [Tasks -> Seq(Reply)]
      BY <1>4, <2>1, <2>2, HearingMore DEF CallReturns, Types, Activity
    <2>4. QED
      BY <1>4, <2>3, GoesTypes DEF CallReturns, Types, Stages
  <1>5. ASSUME NEW t \in Threads, CallRaises(t) PROVE Types'
    BY <1>5, SpendTypes, GoesTypes DEF CallRaises, Types, Stages
  <1>6. ASSUME NEW t \in Threads, CloseSpan(t) PROVE Types'
    <2>1. thread[t] \in Activity
      BY <1>6, BusyTypes DEF CloseSpan
    <2>2. ended' \subseteq [task : Tasks, call : Nat \ {0}]
      BY <1>6, <2>1 DEF CloseSpan, Types, Activity
    <2>3. QED
      BY <1>6, <2>2, AdvanceTypes DEF CloseSpan, Types
  <1>7. ASSUME NEW t \in Threads, CloseSpanFails(t) PROVE Types'
    BY <1>7, SpendTypes, MarkTypes, AdvanceTypes DEF CloseSpanFails, Types
  <1>8. ASSUME NEW t \in Threads, OpenScores(t) PROVE Types'
    BY <1>8, GoesTypes DEF OpenScores, Types, Stages
  <1>9. ASSUME NEW t \in Threads, OpenScoresFails(t) PROVE Types'
    BY <1>9, SpendTypes, MarkTypes, GoesTypes DEF OpenScoresFails, Types, Stages
  <1>10. ASSUME NEW t \in Threads, AttachScore(t) PROVE Types'
    BY <1>10, AttachedTypes DEF AttachScore, Types
  <1>11. ASSUME NEW t \in Threads, AttachFails(t) PROVE Types'
    BY <1>11, SpendTypes, MarkTypes, GoesTypes DEF AttachFails, Types, Stages
  <1>12. ASSUME NEW t \in Threads, CloseScores(t) PROVE Types'
    <2>1. thread[t] \in Activity
      BY <1>12, BusyTypes DEF CloseScores, AtScoresEnd
    <2>2. closed' \subseteq Tasks
      BY <1>12, <2>1 DEF CloseScores, Types, Activity
    <2>3. QED
      BY <1>12, <2>2, GoesTypes DEF CloseScores, AtScoresEnd, Types, Stages
  <1>13. ASSUME NEW t \in Threads, CloseScoresFails(t) PROVE Types'
    BY <1>13, SpendTypes, MarkTypes, GoesTypes DEF CloseScoresFails, AtScoresEnd, Types, Stages
  <1>14. ASSUME NEW t \in Threads, WriteRow(t) PROVE Types'
    <2>1. thread[t] \in Activity
      BY <1>14, BusyTypes DEF WriteRow
    <2>2. rows' \in [Tasks -> Row \cup {NoRow}]
      BY <1>14, <2>1 DEF WriteRow, Types, Activity
    <2>3. thread' \in [Threads -> Activity \cup {Idle}]
      BY <1>14 DEF WriteRow, Types
    <2>4. QED
      BY <1>14, <2>2, <2>3 DEF WriteRow, Types
  <1>15. CASE Finalize
    BY <1>15 DEF Finalize, Types
  <1>16. CASE FlushFails
    BY <1>16, SpendTypes, MarkTypes DEF FlushFails, Types
  <1>17. CASE UNCHANGED vars
    BY <1>17 DEF vars, Types
  <1>18. QED
    BY <1>1, <1>2, <1>3, <1>4, <1>5, <1>6, <1>7, <1>8, <1>9, <1>10, <1>11, <1>12, <1>13, <1>14,
       <1>15, <1>16, <1>17 DEF Next, Thread

(***************************************************************************)
(* A step of a thread that has a task leaves everything of other threads   *)
(* and other tasks alone.                                                  *)
(***************************************************************************)
StepOf(t) ==
    /\ t \in Busy /\ thread[t] \in Activity
    /\ \A u \in Threads \ {t} : thread'[u] = thread[u]
    /\ \/ thread'[t] = Idle
       \/ /\ thread'[t] \in Activity /\ thread'[t] # Idle
          /\ thread'[t].task = thread[t].task
          /\ rows' = rows
    /\ queued' = queued /\ client' = client /\ manifest' = manifest
    /\ \A task \in Tasks \ {thread[t].task} : heard'[task] = heard[task] /\ rows'[task] = rows[task]
    /\ ended \subseteq ended' /\ attached \subseteq attached' /\ closed \subseteq closed'
    /\ \A score \in attached' \ attached : score.task = thread[t].task
    /\ untraced => untraced'

LEMMA GoingOn ==
    ASSUME Types, NEW t \in Threads, thread[t].at # "idle", NEW where \in Stages,
           Goes(t, where)
    PROVE  /\ t \in Busy /\ thread[t] \in Activity
           /\ \A u \in Threads \ {t} : thread'[u] = thread[u]
           /\ thread'[t] \in Activity /\ thread'[t] # Idle
           /\ thread'[t] = [thread[t] EXCEPT !.at = where]
           /\ thread'[t].at = where
           /\ thread'[t].task = thread[t].task
           /\ thread'[t].call = thread[t].call
           /\ thread'[t].span = thread[t].span
           /\ thread'[t].draft = thread[t].draft
  <1>1. t \in Busy /\ thread[t] \in Activity
    BY BusyTypes
  <1>2. thread'[t] = [thread[t] EXCEPT !.at = where] /\ thread'[t] \in Activity
    BY GoesTypes
  <1>3. /\ thread'[t].at = where
        /\ thread'[t].task = thread[t].task
        /\ thread'[t].call = thread[t].call
        /\ thread'[t].span = thread[t].span
        /\ thread'[t].draft = thread[t].draft
    BY <1>1, <1>2 DEF Activity
  <1>4. thread'[t] # Idle
    BY <1>3 DEF Idle, Stages
  <1>5. QED
    BY <1>1, <1>2, <1>3, <1>4, GoesTypes

LEMMA Advancing ==
    ASSUME Types, Paced, NEW t \in Threads, Advance(t)
    PROVE  /\ t \in Busy /\ thread[t] \in Activity
           /\ heard' = heard /\ rows' = rows /\ client' = client
           /\ \/ thread[t].at = "raising" /\ thread'[t] = Idle /\ raised'
              \/ /\ thread[t].at = "closing"
                 /\ Draft(t) \in Row
                 /\ raised' = raised
                 /\ thread'[t] \in Activity
                 /\ thread'[t] # Idle
                 /\ thread'[t].at = (IF LastCall(t) THEN "attaching" ELSE "opening")
                 /\ thread'[t].task = thread[t].task
                 /\ thread'[t].call = (IF LastCall(t) THEN thread[t].call ELSE thread[t].call + 1)
                 /\ thread'[t].draft = Draft(t)
  <1>1. t \in Busy /\ thread[t] \in Activity /\ thread \in [Threads -> Activity \cup {Idle}]
    BY BusyTypes DEF Advance, Types
  <1>2. CASE thread[t].at = "raising"
    BY <1>1, <1>2, AdvanceTypes DEF Advance
  <1>3. CASE thread[t].at = "closing"
    <2>1. Draft(t) \in Row
      BY <1>1, <1>3, DraftTypes
    <2>2. raised' = raised
      BY <1>3 DEF Advance, measured
    <2>3. thread'[t] = [at    |-> IF LastCall(t) THEN "attaching" ELSE "opening",
                        task  |-> thread[t].task,
                        call  |-> IF LastCall(t) THEN thread[t].call ELSE thread[t].call + 1,
                        span  |-> FALSE,
                        draft |-> Draft(t)]
      BY <1>1, <1>3 DEF Advance, At
    <2>4. /\ thread'[t] # Idle
          /\ thread'[t].at = (IF LastCall(t) THEN "attaching" ELSE "opening")
          /\ thread'[t].task = thread[t].task
          /\ thread'[t].call = (IF LastCall(t) THEN thread[t].call ELSE thread[t].call + 1)
          /\ thread'[t].draft = Draft(t)
      BY <2>3 DEF Idle
    <2>5. thread'[t] \in Activity
      BY <2>4, AdvanceTypes
    <2>6. QED
      BY <1>1, <1>3, <2>1, <2>2, <2>3, <2>4, <2>5, AdvanceTypes
  <1>4. QED
    BY <1>2, <1>3 DEF Advance

LEMMA ThreadSteps ==
    ASSUME Types, Paced, NEW t \in Threads, Thread(t)
    PROVE  StepOf(t) \/ \E task \in Tasks : TakeTask(t, task)
  <1> USE DEF measured, context, langfuse
  <1>1. CASE OpenSpan(t)
    <2>1. t \in Busy /\ thread[t] \in Activity
      BY <1>1, BusyTypes DEF OpenSpan
    <2>2. thread'[t] = [thread[t] EXCEPT !.at = "calling", !.span = ~untraced]
      BY <1>1 DEF OpenSpan, Types
    <2>3. thread'[t] \in Activity /\ thread'[t] # Idle /\ thread'[t].task = thread[t].task
      BY <2>1, <2>2 DEF Activity, Stages, Idle, Types
    <2>4. \A u \in Threads \ {t} : thread'[u] = thread[u]
      BY <1>1 DEF OpenSpan, Types
    <2>5. QED
      BY <1>1, <2>1, <2>3, <2>4 DEF OpenSpan, StepOf
  <1>2. CASE OpenSpanFails(t)
    BY <1>2, GoingOn, MarkTypes DEF OpenSpanFails, StepOf, Stages
  <1>3. ASSUME NEW reply \in Replies(t), CallReturns(t, reply) PROVE StepOf(t)
    <2>1. t \in Busy /\ thread[t] \in Activity /\ thread[t].task \in Tasks
      BY <1>3, BusyTypes DEF CallReturns, Activity
    <2>2. \A task \in Tasks \ {thread[t].task} : heard'[task] = heard[task]
      BY <1>3, <2>1 DEF CallReturns, Types
    <2>3. QED
      BY <1>3, <2>1, <2>2, GoingOn DEF CallReturns, StepOf, Stages
  <1>4. CASE CallRaises(t)
    BY <1>4, GoingOn DEF CallRaises, StepOf, Stages
  <1>5. CASE CloseSpan(t)
    <2>1. ended \subseteq ended'
      BY <1>5 DEF CloseSpan
    <2>2. thread'[t] = Idle \/ thread'[t].task = thread[t].task
      BY <1>5, Advancing DEF CloseSpan
    <2>3. QED
      BY <1>5, <2>1, <2>2, Advancing, AdvanceTypes DEF CloseSpan, StepOf
  <1>6. CASE CloseSpanFails(t)
    <2>1. thread'[t] = Idle \/ thread'[t].task = thread[t].task
      BY <1>6, Advancing DEF CloseSpanFails
    <2>2. QED
      BY <1>6, <2>1, Advancing, AdvanceTypes, MarkTypes DEF CloseSpanFails, StepOf
  <1>7. CASE OpenScores(t)
    BY <1>7, GoingOn DEF OpenScores, StepOf, Stages
  <1>8. CASE OpenScoresFails(t)
    BY <1>8, GoingOn, MarkTypes DEF OpenScoresFails, StepOf, Stages
  <1>9. CASE AttachScore(t)
    <2>1. t \in Busy /\ thread[t] \in Activity /\ thread[t] # Idle
      BY <1>9, BusyTypes DEF AttachScore, Busy
    <2>2. PICK f \in Unattached(t) : attached' = attached \cup {ScoreOf(t, f)}
      BY <1>9, AttachedTypes
    <2>3. \A score \in attached' \ attached : score.task = thread[t].task
      BY <2>2 DEF ScoreOf
    <2>4. QED
      BY <1>9, <2>1, <2>2, <2>3 DEF AttachScore, StepOf
  <1>10. CASE AttachFails(t)
    BY <1>10, GoingOn, MarkTypes DEF AttachFails, StepOf, Stages
  <1>11. CASE CloseScores(t)
    BY <1>11, GoingOn DEF CloseScores, AtScoresEnd, StepOf, Stages
  <1>12. CASE CloseScoresFails(t)
    BY <1>12, GoingOn, MarkTypes DEF CloseScoresFails, AtScoresEnd, StepOf, Stages
  <1>13. CASE WriteRow(t)
    <2>1. t \in Busy /\ thread[t] \in Activity /\ thread[t].task \in Tasks
      BY <1>13, BusyTypes DEF WriteRow, Activity
    <2>2. \A task \in Tasks \ {thread[t].task} : rows'[task] = rows[task]
      BY <1>13, <2>1 DEF WriteRow, Types
    <2>3. thread'[t] = Idle /\ \A u \in Threads \ {t} : thread'[u] = thread[u]
      BY <1>13 DEF WriteRow, Types
    <2>4. QED
      BY <1>13, <2>1, <2>2, <2>3 DEF WriteRow, StepOf
  <1>14. QED
    BY <1>1, <1>2, <1>3, <1>4, <1>5, <1>6, <1>7, <1>8, <1>9, <1>10, <1>11, <1>12, <1>13 DEF Thread

LEMMA TakingTypes ==
    ASSUME Types, NEW t \in Threads, NEW task \in Tasks, TakeTask(t, task)
    PROVE  /\ t \notin Busy /\ task \in queued /\ ~raised
           /\ \A u \in Threads \ {t} : thread'[u] = thread[u]
           /\ thread'[t] # Idle
           /\ thread'[t].at = "opening" /\ thread'[t].task = task /\ thread'[t].call = 1
           /\ thread'[t].draft = AllZero
           /\ queued' = queued \ {task}
           /\ UNCHANGED <<client, heard, rows, raised, manifest, untraced, ended, attached, closed>>
  <1>1. thread'[t] = [at |-> "opening", task |-> task, call |-> 1, span |-> FALSE,
                      draft |-> AllZero]
    BY DEF TakeTask, At, Types
  <1>2. \A u \in Threads \ {t} : thread'[u] = thread[u]
    BY DEF TakeTask, At, Types
  <1>3. /\ thread'[t] # Idle
        /\ thread'[t].at = "opening" /\ thread'[t].task = task /\ thread'[t].call = 1
        /\ thread'[t].draft = AllZero
    BY <1>1 DEF Idle
  <1>4. QED
    BY <1>1, <1>2, <1>3 DEF TakeTask, Busy, measured, context, langfuse

(***************************************************************************)
(* The main thread, and steps of nobody, leave the measurement alone.      *)
(***************************************************************************)
MainStep ==
    /\ UNCHANGED <<client, heard, rows, raised, queued, thread, ended, attached, closed>>
    /\ untraced => untraced'
    /\ \/ UNCHANGED <<manifest, untraced>>
       \/ PoolIsDone /\ manifest' = [completed |-> ~raised, untraced |-> untraced']

LEMMA StepCases ==
    ASSUME Types, Paced, [Next]_vars
    PROVE  \/ \E t \in Threads : Thread(t) /\ StepOf(t)
           \/ \E t \in Threads, task \in Tasks : TakeTask(t, task)
           \/ MainStep
  <1> USE DEF measured, context, langfuse
  <1>1. CASE Finalize
    BY <1>1 DEF Finalize, MainStep
  <1>2. CASE FlushFails
    <2>1. untraced' = TRUE
      BY <1>2, MarkTypes DEF FlushFails
    <2>2. QED
      BY <1>2, <2>1 DEF FlushFails, MainStep
  <1>3. CASE UNCHANGED vars
    BY <1>3 DEF vars, MainStep
  <1>4. QED
    BY <1>1, <1>2, <1>3, ThreadSteps DEF Next

LEMMA NextExclusive ==
    ASSUME Types, Paced, Exclusive, [Next]_vars
    PROVE  Exclusive'
  <1>1. ASSUME NEW t \in Threads, StepOf(t) PROVE Exclusive'
    <2> DEFINE own == thread[t].task
    <2>1. own \in Tasks /\ own \notin queued /\ queued \subseteq Tasks
      BY <1>1 DEF StepOf, Activity, Exclusive, Types
    <2>2. \A task \in queued' : heard'[task] = <<>> /\ rows'[task] = NoRow
      BY <1>1, <2>1 DEF StepOf, Exclusive
    <2>3. \A u \in Busy' \ {t} : u \in Busy /\ thread'[u] = thread[u]
      BY <1>1 DEF StepOf, Busy
    <2>4. t \in Busy' => thread'[t].task = own /\ rows' = rows
      BY <1>1 DEF StepOf, Busy
    <2>5. \A u \in Busy \ {t} : thread[u].task \in Tasks \ {own}
      BY <1>1, BusyTypes DEF StepOf, Exclusive, Activity, Busy
    <2>6. \A u \in Busy' : thread'[u].task \notin queued' /\ rows'[thread'[u].task] = NoRow
      BY <1>1, <2>3, <2>4, <2>5 DEF StepOf, Exclusive
    <2>7. ASSUME NEW u \in Busy', NEW v \in Busy', thread'[u].task = thread'[v].task
          PROVE  u = v
      BY <1>1, <2>3, <2>4, <2>5, <2>7 DEF Exclusive
    <2>8. QED
      BY <2>2, <2>6, <2>7 DEF Exclusive
  <1>2. ASSUME NEW t \in Threads, NEW task \in Tasks, TakeTask(t, task) PROVE Exclusive'
    <2>1. \A u \in Busy' : (u \in Busy /\ thread'[u] = thread[u]) \/ u = t
      BY <1>2, TakingTypes DEF Busy
    <2>2. /\ thread'[t].task = task /\ task \in queued /\ queued' = queued \ {task}
          /\ heard' = heard /\ rows' = rows
      BY <1>2, TakingTypes
    <2>3. \A u \in Busy : thread[u].task # task
      BY <2>2 DEF Exclusive
    <2>4. QED
      BY <2>1, <2>2, <2>3 DEF Exclusive
  <1>3. CASE MainStep
    BY <1>3 DEF MainStep, Exclusive, Busy
  <1>4. QED
    BY <1>1, <1>2, <1>3, StepCases

(***************************************************************************)
(* What holds of every task that no thread has, and of every other thread, *)
(* survives a step: only the task of the step is of interest.              *)
(***************************************************************************)
LEMMA Others ==
    ASSUME Types, Exclusive, NEW t \in Threads, StepOf(t)
    PROVE  \A u \in Busy' \ {t} :
              /\ u \in Busy /\ thread'[u] = thread[u]
              /\ thread[u].task \in Tasks \ {thread[t].task}
              /\ heard'[thread[u].task] = heard[thread[u].task]
              /\ rows'[thread[u].task] = rows[thread[u].task]
  <1>1. \A u \in Busy' \ {t} : u \in Busy /\ thread'[u] = thread[u] /\ u \in Threads
    BY DEF StepOf, Busy
  <1>2. \A u \in Busy \ {t} : thread[u].task \in Tasks \ {thread[t].task}
    BY BusyTypes DEF StepOf, Exclusive, Activity, Busy
  <1>3. QED
    BY <1>1, <1>2 DEF StepOf

(***************************************************************************)
(* Pace: a call is heard by the thread that makes it, and only then does   *)
(* the thread go on to the next one.                                       *)
(***************************************************************************)
LEMMA KeepsPace ==
    ASSUME Types, Paced, NEW t \in Threads, thread[t].at # "idle", NEW where \in Stages,
           Goes(t, where), heard' = heard,
           HeardBy([at |-> where, call |-> thread[t].call]) = HeardBy(thread[t]),
           where \in {"attaching", "scoring", "scored", "writing"} =>
              thread[t].at \in {"attaching", "scoring", "scored", "writing"}
    PROVE  OnPace(thread'[t], heard'[thread[t].task])
  <1>1. OnPace(thread[t], heard[thread[t].task])
    BY GoingOn DEF Paced
  <1>2. thread'[t].at = where /\ thread'[t].call = thread[t].call
    BY GoingOn
  <1>3. QED
    BY <1>1, <1>2 DEF OnPace, HeardBy

LEMMA OwnPace ==
    ASSUME Types, Paced, NEW t \in Threads, Thread(t), StepOf(t)
    PROVE  /\ Len(heard'[thread[t].task]) <= CallsOf(client, heard'[thread[t].task])
           /\ t \in Busy' => OnPace(thread'[t], heard'[thread[t].task])
  <1> DEFINE own == thread[t].task
             call == thread[t].call
             h == heard[own]
  <1> USE DEF measured, context, langfuse
  <1>1. t \in Busy /\ own \in Tasks /\ call \in Nat \ {0} /\ h \in Seq(Reply)
    BY DEF StepOf, Activity, Types
  <1>2. OnPace(thread[t], h) /\ Len(h) <= CallsOf(client, h)
    BY <1>1 DEF Paced
  <1>4. CASE OpenSpan(t)
    <2>1. thread'[t].at = "calling" /\ thread'[t].call = call
      BY <1>4, <1>1 DEF OpenSpan, StepOf, Activity, Types
    <2>2. heard' = heard /\ thread[t].at = "opening"
      BY <1>4 DEF OpenSpan
    <2>3. QED
      BY <1>2, <2>1, <2>2 DEF OnPace, HeardBy
  <1>5. CASE OpenSpanFails(t)
    BY <1>2, <1>5, KeepsPace DEF OpenSpanFails, HeardBy, Stages
  <1>6. ASSUME NEW reply \in Replies(t), CallReturns(t, reply)
        PROVE  /\ Len(heard'[own]) <= CallsOf(client, heard'[own])
               /\ OnPace(thread'[t], heard'[own])
    <2>1. reply \in Reply /\ thread[t].at = "calling" /\ heard'[own] = Append(h, reply)
      BY <1>1, <1>6 DEF CallReturns, Replies, Reply, Types
    <2>2. thread'[t].at = "closing" /\ thread'[t].call = call
      BY <1>6, GoingOn DEF CallReturns, Stages
    <2>3. Len(h) = call - 1 /\ Len(heard'[own]) = call
      BY <1>1, <1>2, <2>1, HearingMore DEF OnPace, HeardBy
    <2>4. call <= CallsOf(client, heard'[own])
      <3>1. CASE h = <<>>
        BY <1>1, <2>3, <3>1, LastCallNumber
      <3>2. CASE h # <<>>
        BY <1>1, <1>2, <2>1, <3>2, HearingMore DEF OnPace
      <3>3. QED
        BY <3>1, <3>2
    <2>5. QED
      BY <2>2, <2>3, <2>4 DEF OnPace, HeardBy
  <1>7. CASE CallRaises(t)
    BY <1>2, <1>7, KeepsPace DEF CallRaises, HeardBy, Stages
  <1>8. CASE Advance(t)
    <2>1. heard' = heard
      BY <1>8, Advancing
    <2>2. CASE thread[t].at = "raising"
      BY <1>2, <1>8, <2>1, <2>2, Advancing DEF Busy
    <2>3. CASE thread[t].at = "closing"
      <3>1. Len(h) = call
        BY <1>2, <2>3 DEF OnPace, HeardBy
      <3>2. LastCall(t) <=> call = CallsOf(client, h)
        BY DEF LastCall
      <3>3. CASE LastCall(t)
        <4>1. thread'[t].at = "attaching" /\ thread'[t].call = call
          BY <1>8, <2>3, <3>3, Advancing
        <4>2. QED
          BY <1>2, <2>1, <3>1, <3>2, <3>3, <4>1 DEF OnPace, HeardBy
      <3>4. CASE ~LastCall(t)
        <4>1. thread'[t].at = "opening" /\ thread'[t].call = call + 1
          BY <1>8, <2>3, <3>4, Advancing
        <4>2. call + 1 <= CallsOf(client, h)
          BY <1>1, <1>2, <3>2, <3>4, LastCallNumber DEF OnPace
        <4>3. QED
          BY <1>1, <1>2, <2>1, <3>1, <4>1, <4>2 DEF OnPace, HeardBy
      <3>5. QED
        BY <3>3, <3>4
    <2>4. QED
      BY <1>8, <2>2, <2>3 DEF Advance
  <1>9. CASE OpenScores(t)
    <2>1. Goes(t, "writing") \/ Goes(t, "scoring")
      BY <1>9 DEF OpenScores
    <2>2. QED
      BY <1>2, <1>9, <2>1, KeepsPace DEF OpenScores, HeardBy, Stages
  <1>10. CASE OpenScoresFails(t)
    BY <1>2, <1>10, KeepsPace DEF OpenScoresFails, HeardBy, Stages
  <1>11. CASE AttachScore(t)
    BY <1>2, <1>11 DEF AttachScore
  <1>12. CASE AttachFails(t)
    BY <1>2, <1>12, KeepsPace DEF AttachFails, HeardBy, Stages
  <1>13. CASE CloseScores(t)
    BY <1>2, <1>13, KeepsPace DEF CloseScores, AtScoresEnd, HeardBy, Stages
  <1>14. CASE CloseScoresFails(t)
    BY <1>2, <1>14, KeepsPace DEF CloseScoresFails, AtScoresEnd, HeardBy, Stages
  <1>15. CASE WriteRow(t)
    BY <1>2, <1>15 DEF WriteRow, Busy, Types
  <1>16. ~ \E task \in Tasks : TakeTask(t, task)
    BY <1>1 DEF TakeTask, Busy
  <1>17. QED
    BY <1>4, <1>5, <1>6, <1>7, <1>8, <1>9, <1>10, <1>11, <1>12, <1>13, <1>14, <1>15, <1>16
       DEF Thread, CloseSpan, CloseSpanFails

LEMMA NextPaced ==
    ASSUME Types, Exclusive, Paced, [Next]_vars
    PROVE  Paced'
  <1>1. ASSUME NEW t \in Threads, Thread(t), StepOf(t) PROVE Paced'
    <2>1. client' = client
      BY <1>1 DEF StepOf
    <2>2. \A task \in Tasks : Len(heard'[task]) <= CallsOf(client, heard'[task])
      BY <1>1, OwnPace DEF StepOf, Paced
    <2>3. t \in Busy' => thread'[t].task = thread[t].task
      BY <1>1 DEF StepOf, Busy
    <2>4. \A u \in Busy' : OnPace(thread'[u], heard'[thread'[u].task])
      BY <1>1, <2>3, OwnPace, Others DEF Paced
    <2>5. QED
      BY <2>1, <2>2, <2>4 DEF Paced, OnPace
  <1>2. ASSUME NEW t \in Threads, NEW task \in Tasks, TakeTask(t, task) PROVE Paced'
    <2>1. \A u \in Busy' : (u \in Busy /\ thread'[u] = thread[u]) \/ u = t
      BY <1>2, TakingTypes DEF Busy
    <2>2. client' = client /\ heard' = heard /\ heard[task] = <<>>
      BY <1>2, TakingTypes DEF Exclusive
    <2>3. OnPace(thread'[t], heard'[thread'[t].task])
      <3>1. thread'[t].at = "opening" /\ thread'[t].call = 1 /\ thread'[t].task = task
        BY <1>2, TakingTypes
      <3>2. QED
        BY <2>2, <3>1, LastCallNumber DEF OnPace, HeardBy
    <2>4. QED
      BY <2>1, <2>2, <2>3 DEF Paced, OnPace
  <1>3. CASE MainStep
    BY <1>3 DEF MainStep, Paced, OnPace, Busy
  <1>4. QED
    BY <1>1, <1>2, <1>3, StepCases

(***************************************************************************)
(* What a draft holds of a reply does not depend on those that follow, the *)
(* next reply is added to it, and with the last one it is the whole row.   *)
(***************************************************************************)
LEMMA HoldsStill ==
    ASSUME NEW draft, NEW h \in Seq(Reply), NEW reply \in Reply, Holds(draft, h, Len(h))
    PROVE  Holds(draft, Append(h, reply), Len(h))
  <1> DEFINE more == Append(h, reply)
  <1> SUFFICES ASSUME Len(h) > 0 PROVE Holds(draft, more, Len(h))
    BY DEF Holds
  <1>1. \A n \in 1 .. Len(h) : more[n] = h[n]
    BY HearingMore
  <1>2. Len(h) \in Nat /\ more[1] = h[1] /\ \A i \in 1 .. Len(h) - 1 : more[i + 1] = h[i + 1]
    BY <1>1
  <1>3. QED
    BY <1>2 DEF Holds

LEMMA HoldsNext ==
    ASSUME Types, Paced, NEW t \in Busy, thread[t].at = "closing",
           Holds(thread[t].draft, heard[thread[t].task], thread[t].call - 1)
    PROVE  Holds(Draft(t), heard[thread[t].task], thread[t].call)
  <1> DEFINE h == heard[thread[t].task]
             call == thread[t].call
             draft == thread[t].draft
  <1>1. /\ thread[t] \in Activity /\ call \in Nat \ {0} /\ draft \in Row
        /\ h \in Seq(Reply) /\ Len(h) = call /\ call <= CallsOf(client, h)
    BY BusyTypes DEF Busy, Paced, OnPace, HeardBy, Types, Activity
  <1>2. CASE call = 1
    <2>1. CASE Failed(client, h[1])
      BY <1>2, <2>1 DEF Draft, Holds
    <2>2. CASE ~Failed(client, h[1])
      <3>1. Draft(t) = [f \in AllFields |-> IF f \in DeterministicFields
                                            THEN DeterministicScores(h[1])[f] ELSE 0]
        BY <1>2, <2>2 DEF Draft
      <3>2. \A f \in DeterministicFields : Draft(t)[f] = DeterministicScores(h[1])[f]
        BY <3>1, RowTypes
      <3>3. 1 .. call - 1 = {}
        BY <1>2
      <3>4. QED
        BY <2>2, <3>2, <3>3 DEF Holds
    <2>3. QED
      BY <2>1, <2>2
  <1>3. CASE call > 1
    <2> DEFINE field == JudgedFields[call - 1]
    <2>1. ~Failed(client, h[1])
      BY <1>1, <1>3, LastCallNumber
    <2>2. Draft(t) = [draft EXCEPT ![field] = JudgedScore(h[call])]
      BY <1>3 DEF Draft
    <2>3. call - 1 \in 1 .. Len(JudgedFields)
      BY <1>1, <1>3, LastCallNumber
    <2>4. field \in AllFields /\ field \notin DeterministicFields
      BY <2>3, JudgedFieldOfCall, RowAssumption
    <2>5. \A f \in DeterministicFields : Draft(t)[f] = DeterministicScores(h[1])[f]
      <3>1. \A f \in DeterministicFields : draft[f] = DeterministicScores(h[1])[f]
        <4>1. Holds(draft, h, call - 1) /\ call - 1 > 0
          BY <1>1, <1>3
        <4> HIDE DEF draft, h, call
        <4>2. QED
          BY <2>1, <4>1 DEF Holds
      <3>2. \A f \in DeterministicFields : f \in AllFields /\ f # field
        BY <2>4, RowTypes
      <3>3. QED
        BY <1>1, <2>2, <3>1, <3>2 DEF Row
    <2>6. ASSUME NEW i \in 1 .. call - 1
          PROVE  Draft(t)[JudgedFields[i]] = JudgedScore(h[i + 1])
      <3>1. i \in 1 .. Len(JudgedFields) /\ JudgedFields[i] \in AllFields
        BY <1>1, <2>3, JudgedFieldOfCall
      <3>2. CASE i = call - 1
        BY <1>1, <2>2, <2>4, <3>2 DEF Row
      <3>3. CASE i # call - 1
        <4>1. DOMAIN JudgedFields = 1 .. Len(JudgedFields)
          BY RowAssumption
        <4>2. JudgedFields[i] # field
          BY <2>3, <3>1, <3>3, <4>1, RowAssumption
        <4>3. i \in 1 .. (call - 1) - 1
          BY <1>1, <3>3
        <4>4. draft[JudgedFields[i]] = JudgedScore(h[i + 1])
          BY <1>1, <1>3, <2>1, <4>3 DEF Holds
        <4>5. QED
          BY <1>1, <2>2, <3>1, <4>2, <4>4 DEF Row
      <3>4. QED
        BY <3>2, <3>3
    <2>7. QED
      BY <2>1, <2>5, <2>6 DEF Holds
  <1>4. QED
    BY <1>1, <1>2, <1>3

LEMMA HoldsAll ==
    ASSUME NEW p, NEW h \in Seq(Reply), NEW draft \in Row, Len(h) = CallsOf(p, h),
           IF Failed(p, h[1])
           THEN draft = AllZero
           ELSE /\ \A f \in DeterministicFields : draft[f] = DeterministicScores(h[1])[f]
                /\ \A i \in 1 .. Len(h) - 1 : draft[JudgedFields[i]] = JudgedScore(h[i + 1])
    PROVE  draft = ScoresOf(p, h)
  <1>1. CASE Failed(p, h[1])
    BY <1>1 DEF ScoresOf
  <1>2. CASE ~Failed(p, h[1])
    <2> DEFINE Number(f) == CHOOSE i \in DOMAIN JudgedFields : JudgedFields[i] = f
    <2>1. Len(h) = 1 + Len(JudgedFields) /\ Len(JudgedFields) \in Nat
          /\ DOMAIN JudgedFields = 1 .. Len(JudgedFields)
      BY <1>2, LastCallNumber, RowAssumption
    <2>2. ASSUME NEW f \in AllFields, f \notin DeterministicFields
          PROVE  draft[f] = JudgedScore(h[1 + Number(f)])
      <3>1. f \in JudgedSet
        BY <2>2 DEF AllFields
      <3>2. Number(f) \in DOMAIN JudgedFields /\ JudgedFields[Number(f)] = f
        BY <3>1 DEF JudgedSet
      <3>3. Number(f) \in 1 .. Len(h) - 1 /\ 1 + Number(f) = Number(f) + 1
        BY <2>1, <3>2
      <3> HIDE DEF Number
      <3>4. QED
        BY <1>2, <3>2, <3>3
    <2>3. ScoresOf(p, h) = [f \in AllFields |-> IF f \in DeterministicFields
                                                THEN DeterministicScores(h[1])[f]
                                                ELSE JudgedScore(h[1 + Number(f)])]
      BY <1>2 DEF ScoresOf
    <2> HIDE DEF Number
    <2>4. QED
      BY <1>2, <2>2, <2>3 DEF Row
  <1>3. QED
    BY <1>1, <1>2

LEMMA KeepsDraft ==
    ASSUME Types, Drafted, NEW t \in Threads, thread[t].at # "idle", NEW where \in Stages,
           Goes(t, where), heard' = heard,
           TakenBy([at |-> where, call |-> thread[t].call]) = TakenBy(thread[t])
    PROVE  Holds(thread'[t].draft, heard'[thread[t].task], TakenBy(thread'[t]))
  <1>1. Holds(thread[t].draft, heard[thread[t].task], TakenBy(thread[t]))
    BY GoingOn DEF Drafted
  <1>2. /\ thread'[t].at = where /\ thread'[t].call = thread[t].call
        /\ thread'[t].draft = thread[t].draft
    BY GoingOn
  <1>3. TakenBy(thread'[t]) = TakenBy(thread[t])
    BY <1>2 DEF TakenBy
  <1>4. QED
    BY <1>1, <1>2, <1>3

LEMMA WholeRow ==
    ASSUME Types, Paced, Drafted, NEW t \in Busy, thread[t].at = "writing"
    PROVE  thread[t].draft = ScoresOf(client, heard[thread[t].task])
  <1> DEFINE h == heard[thread[t].task]
             draft == thread[t].draft
  <1>1. /\ h \in Seq(Reply) /\ draft \in Row /\ thread[t].call \in Nat \ {0}
    BY BusyTypes DEF Busy, Activity, Types
  <1>2. /\ Len(h) = thread[t].call /\ Len(h) = CallsOf(client, h)
        /\ TakenBy(thread[t]) = thread[t].call
    BY DEF Paced, OnPace, HeardBy, TakenBy
  <1>3. Holds(draft, h, Len(h)) /\ Len(h) > 0
    BY <1>1, <1>2 DEF Drafted
  <1>4. IF Failed(client, h[1])
        THEN draft = AllZero
        ELSE /\ \A f \in DeterministicFields : draft[f] = DeterministicScores(h[1])[f]
             /\ \A i \in 1 .. Len(h) - 1 : draft[JudgedFields[i]] = JudgedScore(h[i + 1])
    BY <1>3 DEF Holds
  <1>5. QED
    BY <1>1, <1>2, <1>4, HoldsAll

LEMMA OwnDraft ==
    ASSUME Types, Exclusive, Paced, Drafted, NEW t \in Threads, Thread(t), StepOf(t)
    PROVE  /\ t \in Busy' =>
                 Holds(thread'[t].draft, heard'[thread[t].task], TakenBy(thread'[t]))
           /\ rows'[thread[t].task] # NoRow =>
                 /\ Len(heard'[thread[t].task]) = CallsOf(client, heard'[thread[t].task])
                 /\ rows'[thread[t].task] = ScoresOf(client, heard'[thread[t].task])
  <1> DEFINE own == thread[t].task
             call == thread[t].call
             h == heard[own]
             Held == Holds(thread'[t].draft, heard'[own], TakenBy(thread'[t]))
  <1> USE DEF measured, context, langfuse
  <1>1. t \in Busy /\ own \in Tasks /\ call \in Nat \ {0} /\ h \in Seq(Reply)
        /\ thread[t].draft \in Row
    BY DEF StepOf, Activity, Types
  <1>2. Holds(thread[t].draft, h, TakenBy(thread[t])) /\ rows[own] = NoRow
    BY <1>1 DEF Drafted, Exclusive
  <1>3. OnPace(thread[t], h)
    BY <1>1 DEF Paced
  <1>4. CASE OpenSpan(t)
    <2>1. thread'[t].at = "calling" /\ thread'[t].call = call /\ thread'[t].draft = thread[t].draft
      BY <1>4, <1>1 DEF OpenSpan, StepOf, Activity, Types
    <2>2. heard' = heard /\ rows' = rows /\ thread[t].at = "opening"
      BY <1>4 DEF OpenSpan
    <2>3. TakenBy(thread'[t]) = TakenBy(thread[t])
      BY <2>1, <2>2 DEF TakenBy
    <2>4. QED
      BY <1>2, <2>1, <2>2, <2>3
  <1>5. CASE OpenSpanFails(t)
    BY <1>2, <1>5, KeepsDraft DEF OpenSpanFails, TakenBy, Stages
  <1>6. ASSUME NEW reply \in Replies(t), CallReturns(t, reply) PROVE Held /\ rows'[own] = NoRow
    <2>1. reply \in Reply /\ thread[t].at = "calling" /\ heard'[own] = Append(h, reply)
      BY <1>1, <1>6 DEF CallReturns, Replies, Reply, Types
    <2>2. /\ thread'[t].at = "closing" /\ thread'[t].call = call
          /\ thread'[t].draft = thread[t].draft
      BY <1>6, GoingOn DEF CallReturns, Stages
    <2>3. Len(h) = call - 1
      BY <1>3, <2>1 DEF OnPace, HeardBy
    <2>4. TakenBy(thread[t]) = Len(h) /\ TakenBy(thread'[t]) = Len(h)
      BY <2>1, <2>2, <2>3 DEF TakenBy
    <2>5. Held
      BY <1>1, <1>2, <2>1, <2>2, <2>4, HoldsStill
    <2>6. QED
      BY <1>2, <1>6, <2>5 DEF CallReturns
  <1>7. CASE CallRaises(t)
    BY <1>2, <1>7, KeepsDraft DEF CallRaises, TakenBy, Stages
  <1>8. CASE Advance(t)
    <2>1. heard' = heard /\ rows' = rows
      BY <1>8, Advancing
    <2>2. CASE thread[t].at = "raising"
      BY <1>2, <1>8, <2>1, <2>2, Advancing DEF Busy
    <2>3. CASE thread[t].at = "closing"
      <3>1. TakenBy(thread[t]) = call - 1
        BY <2>3 DEF TakenBy
      <3>2. Holds(Draft(t), h, call)
        BY <1>1, <1>2, <2>3, <3>1, HoldsNext
      <3>3. thread'[t].draft = Draft(t) /\ TakenBy(thread'[t]) = call
        <4>1. CASE LastCall(t)
          BY <1>8, <2>3, <4>1, Advancing DEF TakenBy
        <4>2. CASE ~LastCall(t)
          BY <1>1, <1>8, <2>3, <4>2, Advancing DEF TakenBy
        <4>3. QED
          BY <4>1, <4>2
      <3>4. QED
        BY <1>2, <2>1, <3>2, <3>3
    <2>4. QED
      BY <1>8, <2>2, <2>3 DEF Advance
  <1>9. CASE OpenScores(t)
    <2>1. Goes(t, "writing") \/ Goes(t, "scoring")
      BY <1>9 DEF OpenScores
    <2>2. QED
      BY <1>2, <1>9, <2>1, KeepsDraft DEF OpenScores, TakenBy, Stages
  <1>10. CASE OpenScoresFails(t)
    BY <1>2, <1>10, KeepsDraft DEF OpenScoresFails, TakenBy, Stages
  <1>11. CASE AttachScore(t)
    BY <1>2, <1>11 DEF AttachScore
  <1>12. CASE AttachFails(t)
    BY <1>2, <1>12, KeepsDraft DEF AttachFails, TakenBy, Stages
  <1>13. CASE CloseScores(t)
    BY <1>2, <1>13, KeepsDraft DEF CloseScores, AtScoresEnd, TakenBy, Stages
  <1>14. CASE CloseScoresFails(t)
    BY <1>2, <1>14, KeepsDraft DEF CloseScoresFails, AtScoresEnd, TakenBy, Stages
  <1>15. CASE WriteRow(t)
    <2>1. thread[t].at = "writing" /\ rows'[own] = thread[t].draft /\ heard' = heard
      BY <1>1, <1>15 DEF WriteRow, Types
    <2>2. t \notin Busy'
      BY <1>15 DEF WriteRow, Busy, Types
    <2>3. Len(h) = CallsOf(client, h)
      BY <1>3, <2>1 DEF OnPace, HeardBy
    <2>4. thread[t].draft = ScoresOf(client, h)
      BY <1>1, <2>1, WholeRow
    <2>5. QED
      BY <2>1, <2>2, <2>3, <2>4
  <1>16. ~ \E task \in Tasks : TakeTask(t, task)
    BY <1>1 DEF TakeTask, Busy
  <1>17. QED
    BY <1>4, <1>5, <1>6, <1>7, <1>8, <1>9, <1>10, <1>11, <1>12, <1>13, <1>14, <1>15, <1>16
       DEF Thread, CloseSpan, CloseSpanFails

LEMMA NextDrafted ==
    ASSUME Types, Exclusive, Paced, Drafted, [Next]_vars
    PROVE  Drafted'
  <1>1. ASSUME NEW t \in Threads, Thread(t), StepOf(t) PROVE Drafted'
    <2>1. client' = client
      BY <1>1 DEF StepOf
    <2>2. \A task \in Tasks : rows'[task] # NoRow =>
             /\ Len(heard'[task]) = CallsOf(client, heard'[task])
             /\ rows'[task] = ScoresOf(client, heard'[task])
      BY <1>1, OwnDraft DEF StepOf, Drafted
    <2>3. t \in Busy' => thread'[t].task = thread[t].task
      BY <1>1 DEF StepOf, Busy
    <2>4. \A u \in Busy' :
             Holds(thread'[u].draft, heard'[thread'[u].task], TakenBy(thread'[u]))
      BY <1>1, <2>3, OwnDraft, Others DEF Drafted
    <2>5. QED
      BY <2>1, <2>2, <2>4 DEF Drafted, Holds
  <1>2. ASSUME NEW t \in Threads, NEW task \in Tasks, TakeTask(t, task) PROVE Drafted'
    <2>1. \A u \in Busy' : (u \in Busy /\ thread'[u] = thread[u]) \/ u = t
      BY <1>2, TakingTypes DEF Busy
    <2>2. client' = client /\ heard' = heard /\ rows' = rows
      BY <1>2, TakingTypes
    <2>3. TakenBy(thread'[t]) = 0
      <3>1. thread'[t].at = "opening" /\ thread'[t].call = 1
        BY <1>2, TakingTypes
      <3>2. QED
        BY <3>1 DEF TakenBy
    <2>4. QED
      BY <2>1, <2>2, <2>3 DEF Drafted, Holds
  <1>3. CASE MainStep
    BY <1>3 DEF MainStep, Drafted, Holds, Busy
  <1>4. QED
    BY <1>1, <1>2, <1>3, StepCases

(***************************************************************************)
(* Spans: a call that was heard has its span ended, unless the thread is   *)
(* still to leave it.                                                      *)
(***************************************************************************)
LEMMA KeepsSpans ==
    ASSUME Types, NEW t \in Threads, thread[t].at # "idle", NEW where \in Stages,
           Goes(t, where), where \in {"calling", "closing", "raising"} => thread[t].at = "calling",
           thread[t].at \in {"calling", "closing", "raising"} => thread[t].span
    PROVE  thread'[t].at \in {"calling", "closing", "raising"} => thread'[t].span
  BY GoingOn

LEMMA OwnSpans ==
    ASSUME Types, Exclusive, Paced, Spanned, NEW t \in Threads, Thread(t), StepOf(t), ~untraced'
    PROVE  /\ t \in Busy' =>
                 (thread'[t].at \in {"calling", "closing", "raising"} => thread'[t].span)
           /\ \A n \in DOMAIN heard'[thread[t].task] :
                 \/ [task |-> thread[t].task, call |-> n] \in ended'
                 \/ t \in Busy' /\ thread'[t].at = "closing" /\ thread'[t].call = n
  <1> DEFINE own == thread[t].task
             call == thread[t].call
             h == heard[own]
             InSpan == t \in Busy' =>
                         (thread'[t].at \in {"calling", "closing", "raising"} => thread'[t].span)
             AllEnded == \A n \in DOMAIN heard'[own] :
                 \/ [task |-> own, call |-> n] \in ended'
                 \/ t \in Busy' /\ thread'[t].at = "closing" /\ thread'[t].call = n
  <1> USE DEF measured, context, langfuse
  <1>1. t \in Busy /\ own \in Tasks /\ call \in Nat \ {0} /\ h \in Seq(Reply) /\ ~untraced
        /\ ended \subseteq ended'
    BY DEF StepOf, Activity, Types
  <1>2. thread[t].at \in {"calling", "closing", "raising"} => thread[t].span
    BY <1>1 DEF Spanned
  <1>3. \A n \in DOMAIN h :
           [task |-> own, call |-> n] \in ended \/ (thread[t].at = "closing" /\ call = n)
    BY <1>1 DEF Spanned, Exclusive
  <1>4. thread[t].at # "closing" /\ heard' = heard => AllEnded
    BY <1>1, <1>3
  <1>5. CASE OpenSpan(t)
    <2>1. thread'[t].span = ~untraced
      BY <1>5, <1>1 DEF OpenSpan, StepOf, Activity, Types
    <2>2. QED
      BY <1>1, <1>4, <1>5, <2>1 DEF OpenSpan
  <1>6. CASE OpenSpanFails(t)
    BY <1>6, MarkTypes DEF OpenSpanFails
  <1>7. ASSUME NEW reply \in Replies(t), CallReturns(t, reply) PROVE InSpan /\ AllEnded
    <2>1. reply \in Reply /\ thread[t].at = "calling" /\ heard'[own] = Append(h, reply)
      BY <1>1, <1>7 DEF CallReturns, Replies, Reply, Types
    <2>2. /\ thread'[t].at = "closing" /\ thread'[t].call = call /\ thread'[t].span = thread[t].span
          /\ thread'[t] # Idle
      BY <1>7, GoingOn DEF CallReturns, Stages
    <2>3. Len(h) = call - 1
      BY <1>1, <2>1 DEF Paced, OnPace, HeardBy
    <2>4. \A n \in DOMAIN heard'[own] : n \in DOMAIN h \/ n = call
      BY <1>1, <2>1, <2>3
    <2>5. t \in Busy'
      BY <2>2 DEF Busy
    <2>6. QED
      BY <1>1, <1>2, <1>3, <2>1, <2>2, <2>4, <2>5
  <1>8. CASE CallRaises(t)
    BY <1>2, <1>4, <1>8, KeepsSpans DEF CallRaises, Stages
  <1>9. CASE CloseSpan(t)
    <2>1. heard' = heard
      BY <1>9, Advancing DEF CloseSpan
    <2>2. thread[t].at \in {"closing", "raising"} => [task |-> own, call |-> call] \in ended'
      BY <1>2, <1>9 DEF CloseSpan
    <2>3. AllEnded
      BY <1>1, <1>3, <2>1, <2>2
    <2>4. InSpan
      BY <1>9, Advancing DEF CloseSpan, Busy
    <2>5. QED
      BY <2>3, <2>4
  <1>10. CASE CloseSpanFails(t)
    BY <1>10, MarkTypes DEF CloseSpanFails
  <1>11. CASE OpenScores(t)
    BY <1>2, <1>4, <1>11, KeepsSpans DEF OpenScores, Stages
  <1>12. CASE OpenScoresFails(t)
    BY <1>12, MarkTypes DEF OpenScoresFails
  <1>13. CASE AttachScore(t)
    BY <1>2, <1>4, <1>13 DEF AttachScore
  <1>14. CASE AttachFails(t)
    BY <1>14, MarkTypes DEF AttachFails
  <1>15. CASE CloseScores(t)
    BY <1>2, <1>4, <1>15, KeepsSpans DEF CloseScores, AtScoresEnd, Stages
  <1>16. CASE CloseScoresFails(t)
    BY <1>16, MarkTypes DEF CloseScoresFails
  <1>17. CASE WriteRow(t)
    <2>1. t \notin Busy'
      BY <1>17 DEF WriteRow, Busy, Types
    <2>2. QED
      BY <1>4, <1>17, <2>1 DEF WriteRow
  <1>18. ~ \E task \in Tasks : TakeTask(t, task)
    BY <1>1 DEF TakeTask, Busy
  <1>19. QED
    BY <1>5, <1>6, <1>7, <1>8, <1>9, <1>10, <1>11, <1>12, <1>13, <1>14, <1>15, <1>16, <1>17, <1>18
       DEF Thread

LEMMA NextSpanned ==
    ASSUME Types, Exclusive, Paced, Spanned, [Next]_vars
    PROVE  Spanned'
  <1>1. ASSUME NEW t \in Threads, Thread(t), StepOf(t), ~untraced'
        PROVE  /\ \A u \in Busy' :
                     thread'[u].at \in {"calling", "closing", "raising"} => thread'[u].span
               /\ \A task \in Tasks : \A n \in DOMAIN heard'[task] :
                     \/ [task |-> task, call |-> n] \in ended'
                     \/ \E u \in Busy' : thread'[u].at = "closing" /\ thread'[u].task = task
                                         /\ thread'[u].call = n
    <2>1. ~untraced
      BY <1>1 DEF StepOf
    <2>2. t \in Busy' => thread'[t].task = thread[t].task
      BY <1>1 DEF StepOf, Busy
    <2>3. \A u \in Busy' :
             thread'[u].at \in {"calling", "closing", "raising"} => thread'[u].span
      BY <1>1, <2>1, OwnSpans, Others DEF Spanned
    <2>4. ASSUME NEW task \in Tasks, NEW n \in DOMAIN heard'[task],
                 [task |-> task, call |-> n] \notin ended'
          PROVE  \E u \in Busy' : thread'[u].at = "closing" /\ thread'[u].task = task
                                  /\ thread'[u].call = n
      <3>1. CASE task = thread[t].task
        BY <1>1, <2>2, <2>4, <3>1, OwnSpans
      <3>2. CASE task # thread[t].task
        <4>1. n \in DOMAIN heard[task] /\ [task |-> task, call |-> n] \notin ended
          BY <1>1, <2>4, <3>2 DEF StepOf
        <4>2. PICK u \in Busy : thread[u].at = "closing" /\ thread[u].task = task
                                /\ thread[u].call = n
          BY <2>1, <4>1 DEF Spanned
        <4>3. u # t /\ thread'[u] = thread[u] /\ u \in Busy'
          BY <1>1, <3>2, <4>2 DEF StepOf, Busy
        <4>4. QED
          BY <4>2, <4>3
      <3>3. QED
        BY <3>1, <3>2
    <2>5. QED
      BY <2>3, <2>4
  <1>2. ASSUME NEW t \in Threads, NEW task \in Tasks, TakeTask(t, task) PROVE Spanned'
    <2>1. \A u \in Busy' : (u \in Busy /\ thread'[u] = thread[u]) \/ u = t
      BY <1>2, TakingTypes DEF Busy
    <2>2. \A u \in Busy : u \in Busy' /\ thread'[u] = thread[u]
      BY <1>2, TakingTypes DEF Busy
    <2>3. heard' = heard /\ untraced' = untraced /\ ended' = ended /\ thread'[t].at = "opening"
      BY <1>2, TakingTypes
    <2>4. QED
      BY <2>1, <2>2, <2>3 DEF Spanned
  <1>3. CASE MainStep
    BY <1>3 DEF MainStep, Spanned, Busy
  <1>4. (\E t \in Threads : Thread(t) /\ StepOf(t)) => Spanned'
    BY <1>1 DEF Spanned
  <1>5. QED
    BY <1>2, <1>3, <1>4, StepCases

(***************************************************************************)
(* Scores: one by one they are attached while the thread is at it, and it  *)
(* closes their span when none is left.                                    *)
(***************************************************************************)
LEMMA KeepsTelling ==
    ASSUME Types, NEW t \in Threads, thread[t].at # "idle", NEW where \in Stages,
           Goes(t, where), ToldBy(thread[t], attached, closed), attached' = attached,
           where \in {"calling", "closing", "raising"},
           thread[t].at \in {"opening", "calling"}
    PROVE  ToldBy(thread'[t], attached', closed')
  <1>1. thread'[t].at = where /\ thread'[t].task = thread[t].task
    BY GoingOn
  <1>2. About(attached', thread[t].task) = About(attached, thread[t].task)
    BY DEF About
  <1>3. About(attached, thread[t].task) = {}
    BY DEF ToldBy
  <1>4. About(attached', thread'[t].task) = {}
    BY <1>1, <1>2, <1>3
  <1>5. QED
    BY <1>1, <1>4 DEF ToldBy

LEMMA OwnTelling ==
    ASSUME Types, Exclusive, Paced, Told, NEW t \in Threads, Thread(t), StepOf(t), ~untraced'
    PROVE  /\ t \in Busy' => ToldBy(thread'[t], attached', closed')
           /\ rows'[thread[t].task] # NoRow =>
                 /\ About(attached', thread[t].task) = Owed(thread[t].task, rows'[thread[t].task])
                 /\ thread[t].task \in closed'
  <1> DEFINE own == thread[t].task
             draft == thread[t].draft
  <1> USE DEF measured, context, langfuse
  <1>1. t \in Busy /\ own \in Tasks /\ ~untraced /\ thread[t] \in Activity /\ draft \in Row
    BY DEF StepOf, Activity
  <1>2. ToldBy(thread[t], attached, closed) /\ rows[own] = NoRow
    BY <1>1 DEF Told, Exclusive
  <1>3. CASE OpenSpan(t)
    <2>1. thread'[t].at = "calling" /\ thread'[t].task = own
      BY <1>3, <1>1 DEF OpenSpan, StepOf, Activity, Types
    <2>2. attached' = attached /\ About(attached, own) = {}
      BY <1>2, <1>3 DEF OpenSpan, ToldBy
    <2>3. QED
      BY <1>2, <1>3, <2>1, <2>2 DEF OpenSpan, ToldBy, About
  <1>4. CASE OpenSpanFails(t)
    BY <1>4, MarkTypes DEF OpenSpanFails
  <1>5. ASSUME NEW reply \in Replies(t), CallReturns(t, reply)
        PROVE  ToldBy(thread'[t], attached', closed') /\ rows'[own] = NoRow
    BY <1>2, <1>5, KeepsTelling DEF CallReturns, Stages
  <1>6. CASE CallRaises(t)
    BY <1>2, <1>6, KeepsTelling DEF CallRaises, Stages
  <1>7. CASE CloseSpan(t)
    <2>1. attached' = attached /\ rows' = rows /\ thread[t].at \in {"closing", "raising"}
      BY <1>7, Advancing DEF CloseSpan
    <2>2. About(attached', own) = {}
      BY <1>2, <2>1 DEF ToldBy, About
    <2>3. t \in Busy' => thread'[t].at \in {"attaching", "opening"} /\ thread'[t].task = own
      BY <1>7, Advancing DEF CloseSpan, Busy
    <2>4. QED
      BY <1>2, <2>1, <2>2, <2>3 DEF ToldBy
  <1>8. CASE CloseSpanFails(t)
    BY <1>8, MarkTypes DEF CloseSpanFails
  <1>9. CASE OpenScores(t)
    <2>1. thread'[t].at = "scoring" /\ thread'[t].task = own /\ thread[t].at = "attaching"
      BY <1>1, <1>9, GoingOn DEF OpenScores, Stages
    <2>2. attached' = attached /\ About(attached, own) = {} /\ rows' = rows
      BY <1>2, <1>9, <2>1 DEF OpenScores, ToldBy
    <2>3. QED
      BY <1>2, <2>1, <2>2 DEF ToldBy, About
  <1>10. CASE OpenScoresFails(t)
    BY <1>10, MarkTypes DEF OpenScoresFails
  <1>11. CASE AttachScore(t)
    <2>1. PICK f \in Unattached(t) : attached' = attached \cup {ScoreOf(t, f)}
      BY <1>11, AttachedTypes
    <2>2. thread' = thread /\ rows' = rows /\ thread[t].at = "scoring"
      BY <1>11 DEF AttachScore
    <2>3. About(attached, own) \subseteq Owed(own, draft)
      BY <1>2, <2>2 DEF ToldBy
    <2>4. ScoreOf(t, f) \in Owed(own, draft)
      BY <2>1 DEF Unattached, ScoreOf, Owed
    <2>5. About(attached', own) \subseteq About(attached, own) \cup {ScoreOf(t, f)}
      BY <2>1 DEF About
    <2>6. QED
      BY <1>2, <2>2, <2>3, <2>4, <2>5 DEF ToldBy
  <1>12. CASE AttachFails(t)
    BY <1>12, MarkTypes DEF AttachFails
  <1>13. CASE CloseScores(t)
    <2>1. thread[t].at = "scoring" /\ Unattached(t) = {}
      BY <1>2, <1>13 DEF CloseScores, AtScoresEnd, ToldBy
    <2>2. /\ thread'[t].at = "writing" /\ thread'[t].task = own /\ thread'[t].draft = draft
          /\ attached' = attached /\ rows' = rows /\ own \in closed'
      BY <1>13, <2>1, GoingOn DEF CloseScores, Stages
    <2>3. About(attached, own) \subseteq Owed(own, draft)
      BY <1>2, <2>1 DEF ToldBy
    <2>4. Owed(own, draft) \subseteq About(attached, own)
      BY <2>1 DEF Unattached, ScoreOf, Owed, About
    <2>5. About(attached', own) = Owed(own, draft)
      BY <2>2, <2>3, <2>4 DEF About
    <2>6. QED
      BY <1>2, <2>2, <2>5 DEF ToldBy
  <1>14. CASE CloseScoresFails(t)
    BY <1>14, MarkTypes DEF CloseScoresFails
  <1>15. CASE WriteRow(t)
    <2>1. /\ thread[t].at = "writing" /\ rows'[own] = draft /\ attached' = attached
          /\ closed' = closed /\ t \notin Busy'
      BY <1>1, <1>15 DEF WriteRow, Types, Busy
    <2>2. About(attached, own) = Owed(own, draft) /\ own \in closed
      BY <1>2, <2>1 DEF ToldBy
    <2>3. QED
      BY <2>1, <2>2 DEF About
  <1>16. ~ \E task \in Tasks : TakeTask(t, task)
    BY <1>1 DEF TakeTask, Busy
  <1>17. QED
    BY <1>3, <1>4, <1>5, <1>6, <1>7, <1>8, <1>9, <1>10, <1>11, <1>12, <1>13, <1>14, <1>15, <1>16
       DEF Thread

LEMMA NextTold ==
    ASSUME Types, Exclusive, Paced, Told, [Next]_vars
    PROVE  Told'
  <1>1. ASSUME NEW t \in Threads, Thread(t), StepOf(t), ~untraced'
        PROVE  /\ \A u \in Busy' : ToldBy(thread'[u], attached', closed')
               /\ \A task \in queued' : About(attached', task) = {}
               /\ \A task \in Tasks : rows'[task] # NoRow =>
                     About(attached', task) = Owed(task, rows'[task]) /\ task \in closed'
    <2> DEFINE own == thread[t].task
    <2>1. ~untraced /\ own \in Tasks /\ own \notin queued /\ queued' = queued
          /\ closed \subseteq closed'
      BY <1>1 DEF StepOf, Activity, Exclusive
    <2>2. \A task : task # own => About(attached', task) = About(attached, task)
      BY <1>1 DEF StepOf, About
    <2>3. ASSUME NEW u \in Busy', u # t PROVE ToldBy(thread'[u], attached', closed')
      <3>1. u \in Busy /\ thread'[u] = thread[u] /\ thread[u].task # own
        BY <1>1, <2>3, Others
      <3>2. /\ ToldBy(thread[u], attached, closed)
            /\ About(attached', thread[u].task) = About(attached, thread[u].task)
        BY <2>1, <2>2, <3>1 DEF Told
      <3>3. QED
        BY <2>1, <3>1, <3>2 DEF ToldBy
    <2>4. \A u \in Busy' : ToldBy(thread'[u], attached', closed')
      BY <1>1, <2>3, OwnTelling
    <2>5. \A task \in queued' : About(attached', task) = {}
      BY <2>1, <2>2 DEF Told
    <2>6. ASSUME NEW task \in Tasks, rows'[task] # NoRow
          PROVE  About(attached', task) = Owed(task, rows'[task]) /\ task \in closed'
      <3>1. CASE task = own
        BY <1>1, <2>6, <3>1, OwnTelling
      <3>2. CASE task # own
        BY <1>1, <2>1, <2>2, <2>6, <3>2 DEF StepOf, Told
      <3>3. QED
        BY <3>1, <3>2
    <2>7. QED
      BY <2>4, <2>5, <2>6
  <1>2. ASSUME NEW t \in Threads, NEW task \in Tasks, TakeTask(t, task), ~untraced'
        PROVE  /\ \A u \in Busy' : ToldBy(thread'[u], attached', closed')
               /\ \A r \in queued' : About(attached', r) = {}
               /\ \A r \in Tasks : rows'[r] # NoRow =>
                     About(attached', r) = Owed(r, rows'[r]) /\ r \in closed'
    <2>1. /\ task \in queued /\ queued' = queued \ {task} /\ rows' = rows
          /\ attached' = attached /\ closed' = closed /\ ~untraced
          /\ thread'[t].at = "opening" /\ thread'[t].task = task
      BY <1>2, TakingTypes
    <2>2. \A r : About(attached', r) = About(attached, r)
      BY <2>1 DEF About
    <2>3. \A u \in Busy' : (u \in Busy /\ thread'[u] = thread[u]) \/ u = t
      BY <1>2, TakingTypes DEF Busy
    <2>4. ToldBy(thread'[t], attached', closed')
      BY <2>1, <2>2 DEF ToldBy, Told
    <2>5. ASSUME NEW u \in Busy', u # t PROVE ToldBy(thread'[u], attached', closed')
      <3>1. ToldBy(thread[u], attached, closed) /\ thread'[u] = thread[u]
        BY <2>1, <2>3, <2>5 DEF Told
      <3>2. QED
        BY <2>1, <2>2, <3>1 DEF ToldBy
    <2>6. QED
      BY <2>1, <2>2, <2>4, <2>5 DEF Told
  <1>3. CASE MainStep
    <2>1. \A r : About(attached', r) = About(attached, r)
      BY <1>3 DEF MainStep, About
    <2>2. \A a : ToldBy(a, attached, closed) => ToldBy(a, attached', closed')
      BY <1>3, <2>1 DEF MainStep, ToldBy
    <2>3. QED
      BY <1>3, <2>1, <2>2 DEF MainStep, Told, Busy
  <1>4. (\E t \in Threads : Thread(t) /\ StepOf(t)) => Told'
    BY <1>1 DEF Told
  <1>5. (\E t \in Threads, task \in Tasks : TakeTask(t, task)) => Told'
    BY <1>2 DEF Told
  <1>6. QED
    BY <1>3, <1>4, <1>5, StepCases

LEMMA NextSettled ==
    ASSUME Types, Paced, Settled, [Next]_vars
    PROVE  Settled'
  <1>1. ASSUME NEW t \in Threads, StepOf(t) PROVE Settled'
    BY <1>1 DEF StepOf, Settled
  <1>2. ASSUME NEW t \in Threads, NEW task \in Tasks, TakeTask(t, task) PROVE Settled'
    BY <1>2, TakingTypes DEF Settled
  <1>3. CASE MainStep
    BY <1>3 DEF MainStep, Settled, Busy, PoolIsDone
  <1>4. QED
    BY <1>1, <1>2, <1>3, StepCases

(***************************************************************************)
(* Reached: spans and scores are of calls that were made.                  *)
(***************************************************************************)
LEMMA OwnReach ==
    ASSUME Types, Paced, NEW t \in Threads, Thread(t), StepOf(t)
    PROVE  /\ heard'[thread[t].task] = heard[thread[t].task]
              \/ \E reply \in Reply \cap Replies(t) :
                    /\ heard'[thread[t].task] = Append(heard[thread[t].task], reply)
                    /\ Len(heard[thread[t].task]) = thread[t].call - 1
           /\ \A span \in ended' \ ended :
                 span.task = thread[t].task /\ span.call <= 1 + Len(heard[thread[t].task])
           /\ attached' # attached => heard[thread[t].task] # <<>>
  <1> DEFINE own == thread[t].task
             call == thread[t].call
             h == heard[own]
  <1> USE DEF measured, context, langfuse
  <1>1. /\ t \in Busy /\ own \in Tasks /\ call \in Nat \ {0} /\ h \in Seq(Reply)
        /\ OnPace(thread[t], h)
    BY DEF StepOf, Activity, Types, Paced
  <1>2. ASSUME NEW reply \in Replies(t), CallReturns(t, reply)
        PROVE  /\ reply \in Reply /\ heard'[own] = Append(h, reply) /\ Len(h) = call - 1
               /\ ended' = ended /\ attached' = attached
    BY <1>1, <1>2 DEF CallReturns, Replies, Reply, Types, OnPace, HeardBy
  <1>3. CASE CloseSpan(t)
    <2>1. heard' = heard /\ attached' = attached /\ thread[t].at \in {"closing", "raising"}
      BY <1>3, Advancing DEF CloseSpan
    <2>2. call <= 1 + Len(h)
      BY <1>1, <2>1 DEF OnPace, HeardBy
    <2>3. ended' \ ended \subseteq {[task |-> own, call |-> call]}
      BY <1>3 DEF CloseSpan
    <2>4. QED
      BY <2>1, <2>2, <2>3
  <1>4. CASE CloseSpanFails(t)
    BY <1>4, Advancing DEF CloseSpanFails
  <1>5. CASE AttachScore(t)
    <2>1. Len(h) = call
      BY <1>1, <1>5 DEF AttachScore, OnPace, HeardBy
    <2>2. h # <<>>
      BY <1>1, <2>1
    <2>3. QED
      BY <1>5, <2>2 DEF AttachScore
  <1>6. CASE OpenSpan(t) \/ OpenSpanFails(t) \/ CallRaises(t) \/ OpenScores(t) \/ WriteRow(t)
    BY <1>6 DEF OpenSpan, OpenSpanFails, CallRaises, OpenScores, WriteRow
  <1>7. CASE OpenScoresFails(t) \/ AttachFails(t) \/ CloseScores(t) \/ CloseScoresFails(t)
    BY <1>7 DEF OpenScoresFails, AttachFails, CloseScores, CloseScoresFails
  <1>8. ~ \E task \in Tasks : TakeTask(t, task)
    BY <1>1 DEF TakeTask, Busy
  <1>9. QED
    BY <1>2, <1>3, <1>4, <1>5, <1>6, <1>7, <1>8 DEF Thread

LEMMA NextReached ==
    ASSUME Types, Paced, Reached, [Next]_vars
    PROVE  Reached'
  <1>1. ASSUME NEW t \in Threads, Thread(t), StepOf(t) PROVE Reached'
    <2> DEFINE own == thread[t].task
    <2>1. own \in Tasks /\ heard[own] \in Seq(Reply)
      BY <1>1 DEF StepOf, Activity, Types
    <2>2. Len(heard'[own]) >= Len(heard[own]) /\ (heard[own] # <<>> => heard'[own] # <<>>)
      <3>1. CASE heard'[own] = heard[own]
        BY <2>1, <3>1
      <3>2. ASSUME NEW reply \in Reply, heard'[own] = Append(heard[own], reply)
            PROVE  Len(heard'[own]) >= Len(heard[own]) /\ heard'[own] # <<>>
        BY <2>1, <3>2, HearingMore
      <3>3. QED
        BY <1>1, <3>1, <3>2, OwnReach
    <2>3. \A task \in Tasks : task = own \/ heard'[task] = heard[task]
      BY <1>1 DEF StepOf
    <2>4. ASSUME NEW span \in ended' PROVE span.call <= 1 + Len(heard'[span.task])
      <3>1. CASE span \in ended
        <4>1. span.task \in Tasks /\ span.call \in Nat /\ heard[span.task] \in Seq(Reply)
              /\ span.call <= 1 + Len(heard[span.task])
          BY <3>1 DEF Types, Reached
        <4>2. CASE span.task = own
          <5>1. heard'[own] \in Seq(Reply)
            BY <1>1, <2>1, OwnReach, HearingMore
          <5>2. QED
            BY <2>1, <2>2, <4>1, <4>2, <5>1
        <4>3. CASE span.task # own
          BY <2>3, <4>1, <4>3
        <4>4. QED
          BY <4>2, <4>3
      <3>2. CASE span \notin ended
        <4>1. span.task = own /\ span.call <= 1 + Len(heard[own])
          BY <1>1, <3>2, OwnReach
        <4>2. heard'[own] \in Seq(Reply) /\ span.call \in Nat
          <5>1. span.call \in Nat
            BY NextTypes DEF Types
          <5>2. QED
            BY <1>1, <2>1, <5>1, OwnReach, HearingMore
        <4>3. QED
          BY <2>1, <2>2, <4>1, <4>2
      <3>3. QED
        BY <3>1, <3>2
    <2>5. ASSUME NEW score \in attached' PROVE heard'[score.task] # <<>>
      <3>1. CASE score \in attached
        <4>1. score.task \in Tasks /\ heard[score.task] # <<>>
          BY <3>1 DEF Types, Reached
        <4>2. QED
          BY <2>2, <2>3, <4>1
      <3>2. CASE score \notin attached
        BY <1>1, <2>2, <3>2, OwnReach DEF StepOf
      <3>3. QED
        BY <3>1, <3>2
    <2>6. QED
      BY <2>4, <2>5 DEF Reached
  <1>2. ASSUME NEW t \in Threads, NEW task \in Tasks, TakeTask(t, task) PROVE Reached'
    BY <1>2, TakingTypes DEF Reached
  <1>3. CASE MainStep
    BY <1>3 DEF MainStep, Reached
  <1>4. QED
    BY <1>1, <1>2, <1>3, StepCases

LEMMA NextSourced ==
    ASSUME Types, Paced, Sourced, [Next]_vars
    PROVE  Sourced'
  <1>1. ASSUME NEW t \in Threads, Thread(t), StepOf(t) PROVE Sourced'
    <2> DEFINE own == thread[t].task
               h == heard[own]
    <2>1. own \in Tasks /\ h \in Seq(Reply) /\ client' = client
          /\ \A task \in Tasks : task = own \/ heard'[task] = heard[task]
      BY <1>1 DEF StepOf, Activity, Types
    <2>2. CASE heard'[own] = h
      BY <2>1, <2>2 DEF Sourced
    <2>3. ASSUME NEW reply \in Reply \cap Replies(t), heard'[own] = Append(h, reply),
                 Len(h) = thread[t].call - 1
          PROVE  \A n \in DOMAIN heard'[own] : heard'[own][n] \in
                    IF n = 1 THEN CandidateReplies[client] ELSE JudgeReplies
      <3>1. \A n \in DOMAIN heard'[own] : n \in DOMAIN h \/ n = Len(h) + 1
        BY <2>1, <2>3
      <3>2. \A n \in DOMAIN h : heard'[own][n] = h[n]
        BY <2>1, <2>3
      <3>3. heard'[own][Len(h) + 1] = reply
        BY <2>1, <2>3
      <3>4. Len(h) + 1 = thread[t].call
        BY <1>1, <2>3 DEF StepOf, Activity
      <3>5. QED
        BY <2>1, <3>1, <3>2, <3>3, <3>4 DEF Sourced, Replies
    <2>4. CASE heard'[own] # h
      <3>1. \A n \in DOMAIN heard'[own] : heard'[own][n] \in
               IF n = 1 THEN CandidateReplies[client] ELSE JudgeReplies
        BY <1>1, <2>3, <2>4, OwnReach
      <3>2. QED
        BY <2>1, <3>1 DEF Sourced
    <2>5. QED
      BY <2>2, <2>4
  <1>2. ASSUME NEW t \in Threads, NEW task \in Tasks, TakeTask(t, task) PROVE Sourced'
    BY <1>2, TakingTypes DEF Sourced
  <1>3. CASE MainStep
    BY <1>3 DEF MainStep, Sourced
  <1>4. QED
    BY <1>1, <1>2, <1>3, StepCases

-----------------------------------------------------------------------------
(***************************************************************************)
(* The invariant, and what follows from it.                                *)
(***************************************************************************)
LEMMA InitHolds == Init => IInv
  <1> SUFFICES ASSUME Init PROVE IInv
    OBVIOUS
  <1>1. Types
    BY InitTypes
  <1>2. Busy = {}
    BY DEF Init, Busy
  <1>3. /\ heard = [task \in Tasks |-> <<>>] /\ rows = [task \in Tasks |-> NoRow]
        /\ queued = Tasks /\ ended = {} /\ attached = {} /\ manifest = NoRow
    BY DEF Init
  <1>4. Exclusive
    BY <1>2, <1>3 DEF Exclusive
  <1>5. Paced
    <2>1. \A task \in Tasks : Len(heard[task]) = 0
      BY <1>3
    <2>2. QED
      BY <1>2, <2>1, LastCallNumber DEF Paced
  <1>6. Drafted
    BY <1>2, <1>3 DEF Drafted
  <1>7. Spanned
    BY <1>2, <1>3 DEF Spanned
  <1>8. Told
    BY <1>2, <1>3 DEF Told, About
  <1>9. Settled /\ Reached
    BY <1>3 DEF Settled, Reached
  <1>10. Sourced
    BY <1>3 DEF Sourced
  <1>11. QED
    BY <1>1, <1>4, <1>5, <1>6, <1>7, <1>8, <1>9, <1>10 DEF IInv

LEMMA NextHolds == IInv /\ [Next]_vars => IInv'
  BY NextTypes, NextExclusive, NextPaced, NextDrafted, NextSpanned, NextTold, NextSettled,
     NextReached, NextSourced DEF IInv

LEMMA Invariant == Spec => []IInv
  BY InitHolds, NextHolds, PTL DEF Spec

\* A thread is on one of the calls its row takes, no two threads are on the same
\* row, and Langfuse hears of no call that was not made: the type invariant.
THEOREM MeasurementTypeCorrect == Spec => []TypeOK
  <1>1. ASSUME IInv PROVE TypeOK
    <2> USE <1>1 DEF IInv
    <2>1. ASSUME NEW task \in Tasks
          PROVE  /\ Len(heard[task]) <= 1 + Len(JudgedFields)
                 /\ rows[task] = NoRow \/ rows[task] \in [AllFields -> {0, 1, Missing}]
      <3>1. Len(heard[task]) \in Nat /\ Len(heard[task]) <= CallsOf(client, heard[task])
        BY DEF Types, Paced
      <3>2. QED
        BY <3>1, LastCallNumber DEF Types, Row, Scores
    <2>2. ASSUME NEW t \in Busy
          PROVE  /\ thread[t].task \in Tasks \ queued
                 /\ rows[thread[t].task] = NoRow
                 /\ thread[t].call \in 1 .. CallsOf(client, heard[thread[t].task])
                 /\ \A u \in Busy : thread[u].task = thread[t].task => t = u
      <3>1. thread[t] \in Activity
        BY BusyTypes DEF Busy
      <3>2. thread[t].call \in Nat \ {0}
            /\ thread[t].call <= CallsOf(client, heard[thread[t].task])
        BY <3>1 DEF Activity, Paced, OnPace
      <3>3. QED
        BY <3>1, <3>2, LastCallNumber DEF Activity, Exclusive
    <2>3. QED
      BY <2>1, <2>2 DEF Types, Reached, TypeOK
  <1>2. QED
    BY <1>1, Invariant, PTL

\* A run that is called traced is complete in Langfuse, and one that is called
\* untraced was announced once: TracedIsComplete, whichever calls of Langfuse fail.
THEOREM TracingIsComplete == Spec => []TracedIsComplete
  <1>1. ASSUME IInv PROVE TracedIsComplete
    <2> USE <1>1 DEF IInv
    <2> SUFFICES ASSUME manifest # NoRow
                 PROVE  IF manifest.untraced THEN warnings = 1
                        ELSE /\ warnings = 0
                             /\ \A task \in {u \in Tasks : rows[u] # NoRow} :
                                   /\ \A n \in DOMAIN heard[task] :
                                         [task |-> task, call |-> n] \in ended
                                   /\ About(attached, task) = Owed(task, rows[task])
                                   /\ task \in closed
      BY DEF TracedIsComplete, About, Owed
    <2>1. Busy = {} /\ manifest.untraced = untraced
      BY DEF Settled
    <2>2. CASE untraced
      BY <2>1, <2>2 DEF Types
    <2>3. CASE ~untraced
      BY <2>1, <2>3 DEF Types, Spanned, Told
    <2>4. QED
      BY <2>2, <2>3 DEF Types
  <1>2. QED
    BY <1>1, Invariant, PTL

(***************************************************************************)
(* What is wrong with a reply, in the words of the providers.              *)
(***************************************************************************)
LEMMA FailedCandidate ==
    ASSUME NEW p \in DOMAIN CandidateReplies, NEW reply \in CandidateReplies[p]
    PROVE  Failed(p, reply) <=> reply.sign \notin OtherSigns[p] \/ reply.text = Garbled
  <1>1. p \in {"anthropic", "openai", "gemini"}
        /\ reply.sign \in OtherSigns[p] \cup RefusalSigns[p]
    BY VocabularyAssumption DEF OtherSigns
  <1>2. CASE p = "anthropic"
    BY <1>1, <1>2 DEF Failed, Failure, AnthropicFailure, SchemaFailure, OtherSigns, RefusalSigns
  <1>3. CASE p = "openai"
    BY <1>1, <1>3 DEF Failed, Failure, OpenAIFailure, SchemaFailure, OtherSigns, RefusalSigns
  <1>4. CASE p = "gemini"
    BY <1>1, <1>4 DEF Failed, Failure, GeminiFailure, GeminiRefusals, SchemaFailure, OtherSigns,
                      RefusalSigns
  <1>5. QED
    BY <1>1, <1>2, <1>3, <1>4

LEMMA ZeroVerdict ==
    ASSUME NEW reply \in JudgeReplies
    PROVE  JudgedScore(reply) = 0 <=>
              reply.sign \in OtherSigns["gemini"] /\ reply.text = "fail"
  <1>1. /\ reply.sign \in OtherSigns["gemini"] \cup RefusalSigns["gemini"]
        /\ reply.text \in {"pass", "fail", Garbled}
    BY VocabularyAssumption
  <1>2. Failed("gemini", reply) <=> reply.sign \notin OtherSigns["gemini"] \/ reply.text = Garbled
    BY <1>1 DEF Failed, Failure, GeminiFailure, GeminiRefusals, SchemaFailure, OtherSigns,
                RefusalSigns
  <1>3. Garbled # "fail" /\ Missing # 0
    BY RowAssumption
  <1>4. QED
    BY <1>1, <1>2, <1>3 DEF JudgedScore

\* A zero in a persisted row is a failed candidate, a wrong value or a judge's fail:
\* ZerosAreEarned, for every provider and every reply it may give.
THEOREM ZerosEarned == Spec => []ZerosAreEarned
  <1>1. ASSUME IInv, NEW task \in Tasks, rows[task] # NoRow
        PROVE  LET answer == heard[task][1]
                   failed == answer.sign \notin OtherSigns[client] \/ answer.text = Garbled
               IN  /\ \A f \in DeterministicFields :
                         rows[task][f] = 0 <=> failed \/ f \notin answer.text
                   /\ \A i \in DOMAIN JudgedFields :
                         rows[task][JudgedFields[i]] = 0 <=>
                             \/ failed
                             \/ /\ heard[task][1 + i].sign \in OtherSigns["gemini"]
                                /\ heard[task][1 + i].text = "fail"
    <2> DEFINE h == heard[task]
               row == rows[task]
               failed == h[1].sign \notin OtherSigns[client] \/ h[1].text = Garbled
    <2>1. /\ h \in Seq(Reply) /\ Len(h) = CallsOf(client, h) /\ row = ScoresOf(client, h)
          /\ client \in DOMAIN CandidateReplies
      BY <1>1 DEF IInv, Types, Drafted
    <2>2. 1 \in DOMAIN h
      BY <2>1, LastCallNumber
    <2>3. h[1] \in CandidateReplies[client]
      BY <1>1, <2>2 DEF IInv, Sourced
    <2>4. Failed(client, h[1]) <=> failed
      BY <2>1, <2>3, FailedCandidate
    <2>5. CASE failed
      <3>1. row = AllZero
        BY <2>1, <2>4, <2>5 DEF ScoresOf
      <3>2. \A f \in AllFields : row[f] = 0
        BY <3>1 DEF AllZero
      <3>3. \A i \in DOMAIN JudgedFields : JudgedFields[i] \in AllFields
        BY DEF AllFields, JudgedSet
      <3>4. QED
        BY <2>5, <3>2, <3>3, RowTypes
    <2>6. CASE ~failed
      <3> DEFINE Number(f) == CHOOSE i \in DOMAIN JudgedFields : JudgedFields[i] = f
      <3>1. row = [f \in AllFields |-> IF f \in DeterministicFields
                                       THEN DeterministicScores(h[1])[f]
                                       ELSE JudgedScore(h[1 + Number(f)])]
        BY <2>1, <2>4, <2>6 DEF ScoresOf
      <3>2. ASSUME NEW f \in DeterministicFields PROVE row[f] = 0 <=> f \notin h[1].text
        BY <3>1, RowTypes DEF DeterministicScores
      <3>3. ASSUME NEW i \in DOMAIN JudgedFields
            PROVE  row[JudgedFields[i]] = 0 <=>
                      h[1 + i].sign \in OtherSigns["gemini"] /\ h[1 + i].text = "fail"
        <4>1. JudgedFields[i] \in AllFields /\ JudgedFields[i] \notin DeterministicFields
          BY RowAssumption DEF AllFields, JudgedSet
        <4>2. Number(JudgedFields[i]) = i
          BY RowAssumption
        <4>3. row[JudgedFields[i]] = JudgedScore(h[1 + i])
          BY <3>1, <4>1, <4>2
        <4>4. 1 + i \in DOMAIN h /\ 1 + i # 1
          <5>1. h # <<>> /\ i \in 1 .. Len(JudgedFields) /\ Len(JudgedFields) \in Nat
            BY <2>1, <2>2, RowAssumption
          <5>2. Len(h) = 1 + Len(JudgedFields)
            BY <2>1, <2>4, <2>6, <5>1, LastCallNumber
          <5>3. QED
            BY <2>1, <5>1, <5>2
        <4>5. h[1 + i] \in JudgeReplies
          BY <1>1, <4>4 DEF IInv, Sourced
        <4>6. QED
          BY <4>3, <4>5, ZeroVerdict
      <3>4. QED
        BY <2>6, <3>2, <3>3
    <2>7. QED
      BY <2>5, <2>6
  <1>2. ASSUME IInv PROVE ZerosAreEarned
    BY <1>1, <1>2 DEF ZerosAreEarned
  <1>3. QED
    BY <1>2, Invariant, PTL

-----------------------------------------------------------------------------
(***************************************************************************)
(* The refinement: with everything about Langfuse forgotten, each step is  *)
(* one of code that has no tracing.                                        *)
(***************************************************************************)
LEMMA SameFailures ==
    \A p, reply : Untouched!Failed(p, reply) = Failed(p, reply)
  BY DEF Untouched!Failed, Failed, Untouched!Failure, Failure, Untouched!AnthropicFailure,
         AnthropicFailure, Untouched!OpenAIFailure, OpenAIFailure, Untouched!GeminiFailure,
         GeminiFailure, Untouched!GeminiRefusals, GeminiRefusals, Untouched!SchemaFailure,
         SchemaFailure

LEMMA SameRules ==
    ASSUME NEW p, NEW h
    PROVE  Untouched!CallsOf(p, h) = CallsOf(p, h) /\ Untouched!ScoresOf(p, h) = ScoresOf(p, h)
  <1>1. Untouched!CallsOf(p, h) = CallsOf(p, h)
    BY SameFailures DEF Untouched!CallsOf, CallsOf
  <1>2. \A reply : Untouched!JudgedScore(reply) = JudgedScore(reply)
    BY SameFailures DEF Untouched!JudgedScore, JudgedScore
  <1>3. \A reply : Untouched!DeterministicScores(reply) = DeterministicScores(reply)
    BY DEF Untouched!DeterministicScores, DeterministicScores
  <1>4. Untouched!AllFields = AllFields /\ Untouched!AllZero = AllZero
    BY DEF Untouched!AllFields, AllFields, Untouched!AllZero, AllZero, Untouched!JudgedSet,
           JudgedSet
  <1>5. Untouched!ScoresOf(p, h) = ScoresOf(p, h)
    BY SameFailures, <1>2, <1>3, <1>4 DEF Untouched!ScoresOf, ScoresOf
  <1>6. QED
    BY <1>1, <1>5

LEMMA ThreadMeasures ==
    ASSUME IInv, NEW t \in Threads, Thread(t), StepOf(t)
    PROVE  [Untouched!Next]_(Untouched!vars)
  <1> DEFINE own == thread[t].task
             h == heard[own]
  <1> USE DEF measured, context, langfuse
  <1>1. /\ t \in Busy /\ own \in Tasks /\ thread[t].call \in Nat \ {0} /\ h \in Seq(Reply)
        /\ OnPace(thread[t], h) /\ rows[own] = NoRow
    BY DEF StepOf, Activity, IInv, Types, Paced, Exclusive
  <1>2. thread[t].at \in {"calling", "raising"} => Len(h) < CallsOf(client, h)
    BY <1>1, LastCallNumber DEF OnPace, HeardBy
  <1>3. ASSUME NEW reply \in Replies(t), CallReturns(t, reply) PROVE Untouched!Next
    <2>1. /\ thread[t].at = "calling" /\ heard' = [heard EXCEPT ![own] = Append(@, reply)]
          /\ UNCHANGED <<client, rows, raised>>
      BY <1>3 DEF CallReturns
    <2>2. Len(h) = thread[t].call - 1
      BY <1>1, <2>1 DEF OnPace, HeardBy
    <2>3. reply \in Untouched!Replies(own)
      <3>1. h = <<>> <=> thread[t].call = 1
        BY <1>1, <2>2
      <3>2. QED
        BY <3>1 DEF Replies, Untouched!Replies
    <2>4. Untouched!Answer(own, reply)
      BY <1>1, <1>2, <2>1, <2>3, SameRules DEF Untouched!Answer
    <2>5. QED
      BY <1>1, <2>3, <2>4 DEF Untouched!Next
  <1>4. CASE Advance(t) /\ thread[t].at = "raising"
    <2>1. raised' = TRUE /\ UNCHANGED <<client, heard, rows>>
      BY <1>4 DEF Advance
    <2>2. Untouched!Raise(own)
      BY <1>1, <1>2, <1>4, <2>1, SameRules DEF Untouched!Raise
    <2>3. QED
      BY <1>1, <2>2 DEF Untouched!Next
  <1>5. CASE Advance(t) /\ thread[t].at # "raising"
    BY <1>5 DEF Advance, Untouched!vars
  <1>6. CASE WriteRow(t)
    <2>1. /\ thread[t].at = "writing" /\ rows' = [rows EXCEPT ![own] = thread[t].draft]
          /\ UNCHANGED <<client, heard, raised>>
      BY <1>6 DEF WriteRow
    <2>2. Len(h) = CallsOf(client, h)
      BY <1>1, <2>1 DEF OnPace, HeardBy
    <2>3. thread[t].draft = ScoresOf(client, h)
      BY <1>1, <2>1, WholeRow DEF IInv
    <2>4. Untouched!Persist(own)
      BY <1>1, <2>1, <2>2, <2>3, SameRules DEF Untouched!Persist
    <2>5. QED
      BY <1>1, <2>4 DEF Untouched!Next
  <1>7. CASE OpenSpan(t) \/ OpenSpanFails(t) \/ CallRaises(t) \/ OpenScores(t)
    BY <1>7 DEF OpenSpan, OpenSpanFails, CallRaises, OpenScores, Untouched!vars
  <1>8. CASE OpenScoresFails(t) \/ AttachScore(t) \/ AttachFails(t) \/ CloseScores(t)
             \/ CloseScoresFails(t)
    BY <1>8 DEF OpenScoresFails, AttachScore, AttachFails, CloseScores, CloseScoresFails,
                Untouched!vars
  <1>9. ~ \E task \in Tasks : TakeTask(t, task)
    BY <1>1 DEF TakeTask, Busy
  <1>10. QED
    BY <1>3, <1>4, <1>5, <1>6, <1>7, <1>8, <1>9 DEF Thread, CloseSpan, CloseSpanFails

\* Whatever Langfuse does, the calls, the rows and the abort are those of code without
\* tracing: Measurement implements Scoring.
THEOREM ScoringImplemented == Spec => ImplementsScoring
  <1>1. Init => Untouched!Init
    BY DEF Init, Untouched!Init
  <1>2. ASSUME IInv, [Next]_vars PROVE [Untouched!Next]_(Untouched!vars)
    <2>1. ASSUME NEW t \in Threads, NEW task \in Tasks, TakeTask(t, task)
          PROVE  UNCHANGED Untouched!vars
      BY <1>2, <2>1, TakingTypes DEF Untouched!vars, IInv
    <2>2. CASE MainStep
      BY <2>2 DEF MainStep, Untouched!vars
    <2>3. QED
      BY <1>2, <2>1, <2>2, StepCases, ThreadMeasures DEF IInv
  <1>3. QED
    BY <1>1, <1>2, Invariant, PTL DEF Spec, ImplementsScoring, Untouched!Spec
=============================================================================
