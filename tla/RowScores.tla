----------------------------- MODULE RowScores ------------------------------
(***************************************************************************)
(* What one row is made of: how the clients of src/harness/models read a   *)
(* provider's reply, what judge_field makes of it, and the field scores    *)
(* that _score_row of runner.py derives from the replies it has heard.     *)
(*                                                                         *)
(* A reply has a sign, by which its provider says how generation ended,    *)
(* and a text: Garbled if it does not validate against the schema, and     *)
(* otherwise the deterministic fields a candidate got right, or a verdict. *)
(***************************************************************************)
EXTENDS Naturals, Sequences

CONSTANTS DeterministicFields,  \* scored by comparison
          JudgedFields,         \* a sequence: one judge call each, in this order
          Garbled,              \* a text that is not of the schema
          Missing               \* the score of a field whose judge call failed

JudgedSet == {JudgedFields[i] : i \in DOMAIN JudgedFields}

ASSUME RowAssumption ==
    /\ JudgedFields \in Seq(JudgedSet)
    /\ \A i, j \in DOMAIN JudgedFields : JudgedFields[i] = JudgedFields[j] => i = j
    /\ JudgedSet \cap DeterministicFields = {}
    /\ Missing \notin {0, 1}
    /\ Garbled \notin {"pass", "fail"}

AllFields == DeterministicFields \cup JudgedSet

\* model_validate_json, of the text of a reply.
SchemaFailure(reply) == IF reply.text = Garbled THEN "schema_invalid" ELSE "none"

\* complete_structured of each client: what is wrong with a reply.  A refusal is a
\* stop reason, an item of the output, or a finish reason of the first candidate and
\* a blocked prompt; running out of tokens is none, nor is having no candidate.
AnthropicFailure(reply) ==
    IF reply.sign = "refusal" THEN "refusal" ELSE SchemaFailure(reply)

OpenAIFailure(reply) ==
    IF reply.sign = "refusal item" THEN "refusal" ELSE SchemaFailure(reply)

GeminiRefusals == {"SAFETY", "prompt blocked"}

GeminiFailure(reply) ==
    IF reply.sign \in GeminiRefusals THEN "refusal" ELSE SchemaFailure(reply)

Failure(provider, reply) ==
    CASE provider = "anthropic" -> AnthropicFailure(reply)
      [] provider = "openai"    -> OpenAIFailure(reply)
      [] provider = "gemini"    -> GeminiFailure(reply)

Failed(provider, reply) == Failure(provider, reply) # "none"

\* Faulty variant of JudgedScore: an error of the judge is a fail.
JudgedScore_ErrorIsFail(reply) ==
    IF ~Failed("gemini", reply) /\ reply.text = "pass" THEN 1 ELSE 0

\* judge_field and its int(verdict == "pass"): the judge's failures are missing
\* scores, whoever's fault they are.
JudgedScore(reply) ==
    IF Failed("gemini", reply) THEN Missing
    ELSE IF reply.text = "pass" THEN 1 ELSE 0

\* score_deterministic of the candidate's extraction.
DeterministicScores(reply) ==
    [f \in DeterministicFields |-> IF f \in reply.text THEN 1 ELSE 0]

AllZero == [f \in AllFields |-> 0]

\* The calls a row takes, the candidate's first.
CallsOf(provider, heard) ==
    IF heard # <<>> /\ Failed(provider, heard[1]) THEN 1 ELSE 1 + Len(JudgedFields)

\* The whole row, from everything that was heard for it.
ScoresOf(provider, heard) ==
    IF Failed(provider, heard[1])
    THEN AllZero
    ELSE [f \in AllFields |->
            IF f \in DeterministicFields
            THEN DeterministicScores(heard[1])[f]
            ELSE JudgedScore(heard[1 + CHOOSE i \in DOMAIN JudgedFields : JudgedFields[i] = f])]
=============================================================================
