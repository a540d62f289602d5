--------------------------- MODULE MCMeasurement ----------------------------
(***************************************************************************)
(* Two rows on two threads, with two deterministic and two judged fields,  *)
(* and replies of every kind the clients tell apart.                       *)
(***************************************************************************)
EXTENDS Measurement, TLC

CONSTANTS t1, t2, order, name, summary, action, garbled

MCThreads == {t1, t2}
MCJudgedFields == <<summary, action>>

Reply(sign, text) == [sign |-> sign, text |-> text]

MCCandidateReplies ==
    [anthropic |-> {Reply("end_turn", {order}), Reply("refusal", {order})},
     openai    |-> {Reply("output text", garbled), Reply("refusal item", garbled)}]

MCJudgeReplies ==
    {Reply("STOP", "pass"), Reply("STOP", "fail"), Reply("SAFETY", "fail")}
=============================================================================
