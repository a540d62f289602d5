------------------------------ MODULE Scoring -------------------------------
(***************************************************************************)
(* Measuring rows with no tracing at all: what run_eval promises to do in  *)
(* the same way whatever becomes of Langfuse (spec section 8, bounded      *)
(* degradation).                                                           *)
(***************************************************************************)
EXTENDS RowScores

CONSTANTS Tasks,             \* the rows to measure
          CandidateReplies,  \* what the candidate's provider may answer, by provider
          JudgeReplies,      \* what the judge's provider may answer
          NoRow              \* no row yet

VARIABLES client,  \* the candidate's provider
          heard,   \* replies to the calls made for each task
          rows,    \* field scores of each persisted row
          raised   \* some call raised

vars == <<client, heard, rows, raised>>

Replies(task) ==
    IF heard[task] = <<>> THEN CandidateReplies[client] ELSE JudgeReplies

Init ==
    /\ client \in DOMAIN CandidateReplies
    /\ heard = [task \in Tasks |-> <<>>]
    /\ rows = [task \in Tasks |-> NoRow]
    /\ raised = FALSE

\* The next call of a row is answered.
Answer(task, reply) ==
    /\ rows[task] = NoRow
    /\ Len(heard[task]) < CallsOf(client, heard[task])
    /\ reply \in Replies(task)
    /\ heard' = [heard EXCEPT ![task] = Append(@, reply)]
    /\ UNCHANGED <<client, rows, raised>>

\* It raises: the row is not measured in this invocation.
Raise(task) ==
    /\ rows[task] = NoRow
    /\ Len(heard[task]) < CallsOf(client, heard[task])
    /\ raised' = TRUE
    /\ UNCHANGED <<client, heard, rows>>

Persist(task) ==
    /\ rows[task] = NoRow
    /\ Len(heard[task]) = CallsOf(client, heard[task])
    /\ rows' = [rows EXCEPT ![task] = ScoresOf(client, heard[task])]
    /\ UNCHANGED <<client, heard, raised>>

Next ==
    \E task \in Tasks :
        \/ \E reply \in Replies(task) : Answer(task, reply)
        \/ Raise(task)
        \/ Persist(task)

Spec == Init /\ [][Next]_vars
=============================================================================
