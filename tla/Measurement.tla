---------------------------- MODULE Measurement -----------------------------
(***************************************************************************)
(* _score_row of src/harness/runner.py on the threads of one invocation,   *)
(* with the TraceContext of tracing.py that they share: a span around each *)
(* client call, the scores of a row attached to a span of their own, and   *)
(* Langfuse failing at any of these points.  Which rows an invocation      *)
(* measures, and what it does with the file they go to, is in RunEval.     *)
(***************************************************************************)
EXTENDS RowScores, FiniteSets

CONSTANTS Threads, Tasks, CandidateReplies, JudgeReplies, NoRow,
          Keyless,         \* whether runs without Langfuse credentials are made
          MaxTraceFaults,  \* bound: Langfuse calls that raise
          MaxRaises        \* bound: client calls that raise

ASSUME MeasurementAssumption ==
    /\ Keyless \subseteq BOOLEAN
    /\ MaxTraceFaults \in Nat /\ MaxRaises \in Nat

VARIABLES
    client,    \* the candidate's provider
    heard,     \* replies to the calls made for each task
    rows,      \* field scores of each persisted row
    raised,    \* the abort event
    queued,    \* tasks no thread has taken
    thread,    \* what each thread is doing
    manifest,  \* the final manifest, once it is written
    \* The TraceContext.
    untraced,  \* its flag
    warnings,  \* warnings given about tracing
    \* What has reached Langfuse.
    ended,     \* spans of calls: [task, number of the call]
    attached,  \* scores: [task, field, value]
    closed,    \* tasks whose scores span has ended
    budget

measured == <<client, heard, rows, raised>>
langfuse == <<ended, attached, closed>>
context  == <<untraced, warnings>>
vars     == <<measured, queued, thread, manifest, context, langfuse, budget>>

Idle == [at |-> "idle"]

Spend(kind) ==
    /\ budget[kind] > 0
    /\ budget' = [budget EXCEPT ![kind] = @ - 1]

\* TraceContext.for_run: without credentials it is untraced from the start, and
\* says so.
Init ==
    /\ client \in DOMAIN CandidateReplies
    /\ heard = [task \in Tasks |-> <<>>]
    /\ rows = [task \in Tasks |-> NoRow]
    /\ raised = FALSE
    /\ queued = Tasks
    /\ thread = [t \in Threads |-> Idle]
    /\ manifest = NoRow
    /\ untraced \in Keyless
    /\ warnings = IF untraced THEN 1 ELSE 0
    /\ ended = {} /\ attached = {} /\ closed = {}
    /\ budget = [trace |-> MaxTraceFaults, call |-> MaxRaises]

\* Under the context's lock: only the first transition warns.
MarkUntraced ==
    /\ untraced' = TRUE
    /\ warnings' = IF untraced THEN warnings ELSE warnings + 1

-----------------------------------------------------------------------------
(* A thread: one client call after another, each in its span *)

\* draft is the row so far; span, whether the current call has an open one.
At(t, where, task, call, span, draft) ==
    [thread EXCEPT ![t] = [at |-> where, task |-> task, call |-> call, span |-> span,
                           draft |-> draft]]

Goes(t, where) == thread' = [thread EXCEPT ![t].at = where]

TakeTask(t, task) ==
    /\ thread[t] = Idle
    /\ task \in queued
    /\ ~raised
    /\ queued' = queued \ {task}
    /\ thread' = At(t, "opening", task, 1, FALSE, AllZero)
    /\ UNCHANGED <<measured, manifest, context, langfuse, budget>>

\* Faulty variant of OpenSpan: nothing is yielded when there is no span.
OpenSpan_OnlyTraced(t) ==
    /\ thread[t].at = "opening"
    /\ ~untraced
    /\ thread' = [thread EXCEPT ![t].at = "calling", ![t].span = TRUE]
    /\ UNCHANGED <<measured, queued, manifest, context, langfuse, budget>>

\* start_span, or a bare yield when the context is untraced.
OpenSpan(t) ==
    /\ thread[t].at = "opening"
    /\ thread' = [thread EXCEPT ![t].at = "calling", ![t].span = ~untraced]
    /\ UNCHANGED <<measured, queued, manifest, context, langfuse, budget>>

OpenSpanFails(t) ==
    /\ thread[t].at = "opening"
    /\ ~untraced
    /\ Spend("trace")
    /\ MarkUntraced
    /\ Goes(t, "calling")
    /\ UNCHANGED <<measured, queued, manifest, langfuse>>

\* complete_structured returns: the candidate's on call 1, then the judge's.
CallReturns(t, reply) ==
    /\ thread[t].at = "calling"
    /\ heard' = [heard EXCEPT ![thread[t].task] = Append(@, reply)]
    /\ Goes(t, "closing")
    /\ UNCHANGED <<client, rows, raised, queued, manifest, context, langfuse, budget>>

\* TransportExhausted, or anything else, on its way out of the with block.
CallRaises(t) ==
    /\ thread[t].at = "calling"
    /\ Spend("call")
    /\ Goes(t, "raising")
    /\ UNCHANGED <<measured, queued, manifest, context, langfuse>>

\* The row with what the latest reply adds to it.
Draft(t) ==
    LET reply == heard[thread[t].task][thread[t].call]
    IN  IF thread[t].call > 1
        THEN [thread[t].draft EXCEPT ![JudgedFields[thread[t].call - 1]] = JudgedScore(reply)]
        ELSE IF Failed(client, reply)
        THEN AllZero
        ELSE [f \in AllFields |->
                IF f \in DeterministicFields THEN DeterministicScores(reply)[f] ELSE 0]

\* Faulty variant of LastCall: the judge is asked about a failure too.
LastCall_JudgeAnyway(t) == thread[t].call = 1 + Len(JudgedFields)

LastCall(t) == thread[t].call = CallsOf(client, heard[thread[t].task])

\* After the with block: on to the next call, to the scores, or out.
Advance(t) ==
    \/ /\ thread[t].at = "raising"
       /\ thread' = [thread EXCEPT ![t] = Idle]
       /\ raised' = TRUE
       /\ UNCHANGED <<client, heard, rows>>
    \/ /\ thread[t].at = "closing"
       /\ thread' = IF LastCall(t)
                    THEN At(t, "attaching", thread[t].task, thread[t].call, FALSE, Draft(t))
                    ELSE At(t, "opening", thread[t].task, thread[t].call + 1, FALSE, Draft(t))
       /\ UNCHANGED measured

\* The finally of _span: span.end() if there is a span.
CloseSpan(t) ==
    /\ thread[t].at \in {"closing", "raising"}
    /\ ended' = IF thread[t].span
                THEN ended \cup {[task |-> thread[t].task, call |-> thread[t].call]} ELSE ended
    /\ Advance(t)
    /\ UNCHANGED <<queued, manifest, context, attached, closed, budget>>

CloseSpanFails(t) ==
    /\ thread[t].at \in {"closing", "raising"}
    /\ thread[t].span
    /\ Spend("trace")
    /\ MarkUntraced
    /\ Advance(t)
    /\ UNCHANGED <<queued, manifest, langfuse>>

-----------------------------------------------------------------------------
(* record_item_scores, and the row *)

OpenScores(t) ==
    /\ thread[t].at = "attaching"
    /\ Goes(t, IF untraced THEN "writing" ELSE "scoring")
    /\ UNCHANGED <<measured, queued, manifest, context, langfuse, budget>>

\* Faulty variant of OpenScoresFails: the failure leaves record_item_scores.
OpenScoresFails_Raises(t) ==
    /\ thread[t].at = "attaching"
    /\ ~untraced
    /\ Spend("trace")
    /\ MarkUntraced
    /\ raised' = TRUE
    /\ thread' = [thread EXCEPT ![t] = Idle]
    /\ UNCHANGED <<client, heard, rows, queued, manifest, langfuse>>

OpenScoresFails(t) ==
    /\ thread[t].at = "attaching"
    /\ ~untraced
    /\ Spend("trace")
    /\ MarkUntraced
    /\ Goes(t, "writing")
    /\ UNCHANGED <<measured, queued, manifest, langfuse>>

ScoreOf(t, f) == [task |-> thread[t].task, field |-> f, value |-> thread[t].draft[f]]

\* Faulty variant of Unattached: a missing score ends the loop.
Unattached_Break(t) ==
    {f \in AllFields : /\ ScoreOf(t, f) \notin attached
                       /\ \A g \in AllFields : thread[t].draft[g] # Missing}

\* Scores still to attach: fields without a verdict are passed over.
Unattached(t) ==
    {f \in AllFields : thread[t].draft[f] # Missing /\ ScoreOf(t, f) \notin attached}

\* The loop has an order of its own.
AttachScore(t) ==
    /\ thread[t].at = "scoring"
    /\ Unattached(t) # {}
    /\ attached' = attached \cup {ScoreOf(t, CHOOSE f \in Unattached(t) : TRUE)}
    /\ UNCHANGED <<measured, queued, thread, manifest, context, ended, closed, budget>>

AttachFails(t) ==
    /\ thread[t].at = "scoring"
    /\ Unattached(t) # {}
    /\ Spend("trace")
    /\ MarkUntraced
    /\ Goes(t, "scored")
    /\ UNCHANGED <<measured, queued, manifest, langfuse>>

AtScoresEnd(t) == thread[t].at = "scored" \/ (thread[t].at = "scoring" /\ Unattached(t) = {})

CloseScores(t) ==
    /\ AtScoresEnd(t)
    /\ closed' = closed \cup {thread[t].task}
    /\ Goes(t, "writing")
    /\ UNCHANGED <<measured, queued, manifest, context, ended, attached, budget>>

CloseScoresFails(t) ==
    /\ AtScoresEnd(t)
    /\ Spend("trace")
    /\ MarkUntraced
    /\ Goes(t, "writing")
    /\ UNCHANGED <<measured, queued, manifest, langfuse>>

WriteRow(t) ==
    /\ thread[t].at = "writing"
    /\ rows' = [rows EXCEPT ![thread[t].task] = thread[t].draft]
    /\ thread' = [thread EXCEPT ![t] = Idle]
    /\ UNCHANGED <<client, heard, raised, queued, manifest, context, langfuse, budget>>

-----------------------------------------------------------------------------
(* The main thread, once the pool is shut down *)

PoolIsDone ==
    /\ \A t \in Threads : thread[t] = Idle
    /\ queued = {} \/ raised
    /\ manifest = NoRow

\* trace.flush(), and then the final manifest of a run without earlier rows.
Finalize ==
    /\ PoolIsDone
    /\ manifest' = [completed |-> ~raised, untraced |-> untraced]
    /\ UNCHANGED <<measured, queued, thread, context, langfuse, budget>>

FlushFails ==
    /\ PoolIsDone
    /\ ~untraced
    /\ Spend("trace")
    /\ MarkUntraced
    /\ manifest' = [completed |-> ~raised, untraced |-> TRUE]
    /\ UNCHANGED <<measured, queued, thread, langfuse>>

Replies(t) == IF thread[t].call = 1 THEN CandidateReplies[client] ELSE JudgeReplies

Thread(t) ==
    \/ \E task \in Tasks : TakeTask(t, task)
    \/ OpenSpan(t) \/ OpenSpanFails(t)
    \/ thread[t].at = "calling" /\ \E reply \in Replies(t) : CallReturns(t, reply)
    \/ CallRaises(t)
    \/ CloseSpan(t) \/ CloseSpanFails(t)
    \/ OpenScores(t) \/ OpenScoresFails(t)
    \/ AttachScore(t) \/ AttachFails(t)
    \/ CloseScores(t) \/ CloseScoresFails(t)
    \/ WriteRow(t)

Next == (\E t \in Threads : Thread(t)) \/ Finalize \/ FlushFails

Spec == Init /\ [][Next]_vars

\* Threads are scheduled and client calls return or raise (RetryTransport); a
\* Langfuse call returns or raises.
Fairness == WF_vars(Finalize \/ FlushFails) /\ \A t \in Threads : WF_vars(Thread(t))

FairSpec == Spec /\ Fairness

-----------------------------------------------------------------------------
(* Properties *)

Busy == {t \in Threads : thread[t] # Idle}

\* A thread is on one of the calls its row takes, two threads are never on the same
\* row, and what has reached Langfuse is about calls that were made.
TypeOK ==
    /\ client \in DOMAIN CandidateReplies
    /\ \A task \in Tasks :
          /\ Len(heard[task]) <= 1 + Len(JudgedFields)
          /\ rows[task] = NoRow \/ rows[task] \in [AllFields -> {0, 1, Missing}]
    /\ raised \in BOOLEAN /\ untraced \in BOOLEAN /\ warnings \in Nat
    /\ \A t \in Busy :
          /\ thread[t].task \in Tasks \ queued
          /\ rows[thread[t].task] = NoRow
          /\ thread[t].call \in 1 .. CallsOf(client, heard[thread[t].task])
          /\ \A u \in Busy : thread[u].task = thread[t].task => t = u
    /\ \A span \in ended : span.call <= 1 + Len(heard[span.task])
    /\ \A score \in attached : heard[score.task] # <<>>
    /\ budget \in [trace : 0 .. MaxTraceFaults, call : 0 .. MaxRaises]

\* A run is only called traced if Langfuse has everything about its rows: an ended
\* span for every call that was made, and in an ended span a score for every field
\* with a verdict and for no other (RunArtifact.untraced, spec section 8).  One that
\* is called untraced was announced as such exactly once, however many threads
\* found Langfuse failing.
TracedIsComplete ==
    manifest # NoRow =>
        IF manifest.untraced THEN warnings = 1
        ELSE /\ warnings = 0
             /\ \A task \in {u \in Tasks : rows[u] # NoRow} :
                   /\ \A n \in DOMAIN heard[task] : [task |-> task, call |-> n] \in ended
                   /\ {score \in attached : score.task = task} =
                         {[task |-> task, field |-> f, value |-> rows[task][f]] :
                             f \in {g \in AllFields : rows[task][g] # Missing}}
                   /\ task \in closed

\* How generation ends when nothing was refused.
OtherSigns ==
    [anthropic |-> {"end_turn", "max_tokens"},
     openai    |-> {"output text"},
     gemini    |-> {"STOP", "MAX_TOKENS", "no candidates"}]

RefusalSigns ==
    [anthropic |-> {"refusal"}, openai |-> {"refusal item"}, gemini |-> GeminiRefusals]

\* Providers use no sign that is not listed here, and a verdict is pass or fail.
ASSUME VocabularyAssumption ==
    /\ DOMAIN CandidateReplies \subseteq DOMAIN OtherSigns
    /\ \A provider \in DOMAIN CandidateReplies :
          \A reply \in CandidateReplies[provider] :
             reply.sign \in OtherSigns[provider] \cup RefusalSigns[provider]
    /\ \A reply \in JudgeReplies :
          /\ reply.sign \in OtherSigns["gemini"] \cup RefusalSigns["gemini"]
          /\ reply.text \in {"pass", "fail", Garbled}

\* A zero is earned: by a candidate that refused or did not follow the schema, even
\* if its text validates; by a wrong value; or by a judge that answered, with a
\* fail.  A refusal or a broken answer of the judge is never one (spec section 7).
ZerosAreEarned ==
    \A task \in {u \in Tasks : rows[u] # NoRow} :
        LET answer == heard[task][1]
            failed == answer.sign \notin OtherSigns[client] \/ answer.text = Garbled
        IN  /\ \A f \in DeterministicFields :
                  rows[task][f] = 0 <=> failed \/ f \notin answer.text
            /\ \A i \in DOMAIN JudgedFields :
                  rows[task][JudgedFields[i]] = 0 <=>
                      \/ failed
                      \/ /\ heard[task][1 + i].sign \in OtherSigns["gemini"]
                         /\ heard[task][1 + i].text = "fail"

\* Tracing does not take part in the measurement: whatever Langfuse does, the calls
\* that are made, the rows that are persisted and the exceptions that abort the run
\* are possible for code that has no tracing at all.
Untouched == INSTANCE Scoring

ImplementsScoring == Untouched!Spec

\* The invocation ends, and with every row unless a client call raised.
MeasurementEnds ==
    <>(manifest # NoRow /\ (raised \/ \A task \in Tasks : rows[task] # NoRow))
=============================================================================
