------------------------ MODULE RetryTransportProofs ------------------------
(***************************************************************************)
(* The time one provider call can take, for all values of the constants.   *)
(***************************************************************************)
EXTENDS RetryTransport, TLAPS

\* While the call goes on, every attempt has started within the budget; that
\* is what the check before each sleep establishes, and it is stronger than
\* WithinPatience by exactly one request timeout.
StartsWithinBudget ==
    /\ clock \in Nat
    /\ pc \in {"calling", "sleeping"} => clock <= PatienceBudget
    /\ WithinPatience

\* A wait is always followed by an attempt that max_attempts still allows.
SleepsBeforeLast == pc = "sleeping" => attempt < MaxAttempts

\* Every step of a call advances its clock by a Nat, keeps to the states of
\* the loop and counts no attempt beyond max_attempts.
LEMMA StepTypeOK ==
    ASSUME TypeOK, SleepsBeforeLast, [Next]_vars
    PROVE  TypeOK' /\ SleepsBeforeLast'
<1> USE RetryAssumption DEF TypeOK, SleepsBeforeLast
<1>1. CASE UNCHANGED vars
  BY <1>1 DEF vars
<1>2. CASE \E d \in Durations : Attempt(d)
  <2>1. PICK d \in Durations : Attempt(d)
    BY <1>2
  <2>2. d \in Nat /\ d <= RequestTimeout
    OBVIOUS
  <2>3. CASE Respond(d) \/ FailOther(d) \/ AttemptsExhausted(d)
    <3>1. PICK how \in {"returned", "raised", "exhausted"} : End(how, d)
      BY <2>3 DEF Respond, FailOther, AttemptsExhausted
    <3> QED
      BY <2>2, <3>1 DEF End
  <2>4. ASSUME NEW delay \in Delays \cap (0 .. Cap(attempt)), PatienceExhausted(d, delay)
        PROVE  TypeOK' /\ SleepsBeforeLast'
    BY <2>2, <2>4 DEF PatienceExhausted, End
  <2>5. ASSUME NEW delay \in Delays \cap (0 .. Cap(attempt)), Sleep(d, delay)
        PROVE  TypeOK' /\ SleepsBeforeLast'
    <3>1. delay \in Nat
      OBVIOUS
    <3> QED
      BY <2>2, <2>5, <3>1 DEF Sleep
  <2> QED
    BY <2>1, <2>3, <2>4, <2>5 DEF Attempt
<1>3. CASE Wake
  BY <1>3 DEF Wake
<1> QED
  BY <1>1, <1>2, <1>3 DEF Next

\* A turn of the loop keeps attempts starting within the budget.
LEMMA StepStartsWithinBudget ==
    ASSUME TypeOK, StartsWithinBudget, [Next]_vars
    PROVE  StartsWithinBudget'
<1> USE RetryAssumption DEF TypeOK, StartsWithinBudget, WithinPatience
<1>1. CASE UNCHANGED vars
  BY <1>1 DEF vars
<1>2. CASE \E d \in Durations : Attempt(d)
  <2>1. PICK d \in Durations : Attempt(d)
    BY <1>2
  <2>2. d \in Nat /\ d <= RequestTimeout
    OBVIOUS
  <2>3. CASE Respond(d) \/ FailOther(d) \/ AttemptsExhausted(d)
    BY <2>2, <2>3 DEF Respond, FailOther, AttemptsExhausted, End
  <2>4. ASSUME NEW delay \in Delays \cap (0 .. Cap(attempt)), PatienceExhausted(d, delay)
        PROVE  StartsWithinBudget'
    BY <2>2, <2>4 DEF PatienceExhausted, End
  <2>5. ASSUME NEW delay \in Delays \cap (0 .. Cap(attempt)), Sleep(d, delay)
        PROVE  StartsWithinBudget'
    <3>1. delay \in Nat
      OBVIOUS
    <3>2. clock + d + delay <= PatienceBudget
      BY <2>5 DEF Sleep, Affordable
    <3> QED
      BY <2>2, <2>5, <3>1, <3>2 DEF Sleep
  <2> QED
    BY <2>1, <2>3, <2>4, <2>5 DEF Attempt
<1>3. CASE Wake
  BY <1>3 DEF Wake
<1> QED
  BY <1>1, <1>2, <1>3 DEF Next

\* No attempt is counted beyond max_attempts, and the call is always in one of
\* the states of the loop of retry_transport.
THEOREM RetryTypeCorrect == Spec => []TypeOK
<1>1. ASSUME Init PROVE TypeOK /\ SleepsBeforeLast
  <2>1. 1 \in 1 .. MaxAttempts
    <3>1. MaxAttempts \in Nat /\ MaxAttempts # 0
      BY RetryAssumption
    <3> QED
      BY <3>1
  <2> QED
    BY <1>1, <2>1 DEF Init, TypeOK, SleepsBeforeLast
<1>2. TypeOK /\ SleepsBeforeLast /\ [Next]_vars => TypeOK' /\ SleepsBeforeLast'
  BY StepTypeOK
<1> QED
  BY <1>1, <1>2, PTL DEF Spec

\* The bound the module docstring of retry.py calls provable: one call never
\* takes longer than the patience budget plus one request timeout, whatever
\* the number of attempts, the backoff and the jitter.
THEOREM PatienceIsBounded == Spec => []WithinPatience
<1>1. Init => StartsWithinBudget
  BY RetryAssumption DEF Init, StartsWithinBudget, WithinPatience
<1>2. TypeOK /\ StartsWithinBudget /\ [Next]_vars => StartsWithinBudget'
  BY StepStartsWithinBudget
<1>3. StartsWithinBudget => WithinPatience
  BY DEF StartsWithinBudget
<1> QED
  BY <1>1, <1>2, <1>3, RetryTypeCorrect, PTL DEF Spec

-----------------------------------------------------------------------------
(* Fast failures *)

\* While no attempt has hung, attempts begin as early as the schedule says, so
\* the check before a sleep never fails.
OnSchedule(begun) ==
    ~hung =>
        /\ pc = "calling" => clock <= begun[attempt]
        /\ pc = "sleeping" => clock <= begun[attempt + 1]
        /\ pc = "exhausted" => attempt = MaxAttempts

\* A turn of the loop keeps a call without a hanging attempt on schedule.
LEMMA StepOnSchedule ==
    ASSUME NEW begun, FastBurstFits(begun),
           TypeOK, SleepsBeforeLast, OnSchedule(begun), [Next]_vars
    PROVE  OnSchedule(begun)'
<1> USE RetryAssumption DEF TypeOK, SleepsBeforeLast, OnSchedule
<1>1. CASE UNCHANGED vars
  BY <1>1 DEF vars
<1>2. CASE \E d \in Durations : Attempt(d)
  <2>1. PICK d \in Durations : Attempt(d)
    BY <1>2
  <2>2. CASE Respond(d) \/ FailOther(d) \/ AttemptsExhausted(d)
    BY <2>2 DEF Respond, FailOther, AttemptsExhausted, End
  <2>3. ASSUME NEW delay \in Delays \cap (0 .. Cap(attempt)), attempt < MaxAttempts,
               d \in FastDurations, ~hung, pc = "calling"
        PROVE  /\ clock + d + delay <= begun[attempt + 1]
               /\ clock + d + delay <= PatienceBudget
    <3>1. attempt \in 1 .. (MaxAttempts - 1) /\ attempt + 1 \in 1 .. MaxAttempts
      BY <2>3
    <3>2. begun[attempt] + d + delay <= begun[attempt + 1]
      BY <2>3, <3>1 DEF FastBurstFits
    <3>3. begun[attempt] \in 0 .. PatienceBudget /\ begun[attempt + 1] \in 0 .. PatienceBudget
      BY <3>1 DEF FastBurstFits
    <3>4. d \in Nat /\ delay \in Nat /\ clock <= begun[attempt]
      BY <2>3
    <3> QED
      BY <3>2, <3>3, <3>4
  <2>4. ASSUME NEW delay \in Delays \cap (0 .. Cap(attempt)), PatienceExhausted(d, delay)
        PROVE  OnSchedule(begun)'
    <3>1. hung \/ d \notin FastDurations
      BY <2>3, <2>4 DEF PatienceExhausted, Affordable
    <3> QED
      BY <2>4, <3>1 DEF PatienceExhausted, End
  <2>5. ASSUME NEW delay \in Delays \cap (0 .. Cap(attempt)), Sleep(d, delay)
        PROVE  OnSchedule(begun)'
    BY <2>3, <2>5 DEF Sleep
  <2> QED
    BY <2>1, <2>2, <2>4, <2>5 DEF Attempt
<1>3. CASE Wake
  BY <1>3 DEF Wake
<1> QED
  BY <1>1, <1>2, <1>3 DEF Next

\* "Fast-fail bursts are unaffected": if the schedule of the longest waits fits
\* into the patience budget, then the budget never ends a call none of whose
\* attempts hung, for all values of the parameters (retry_transport).
THEOREM FastFailsHaveTime ==
    ASSUME NEW begun, FastBurstFits(begun)
    PROVE  Spec => []FastFailGetsEveryAttempt
<1> DEFINE Fast == TypeOK /\ SleepsBeforeLast /\ OnSchedule(begun)
<1>1. ASSUME Init PROVE Fast
  <2>1. MaxAttempts >= 1 /\ 1 \in 1 .. MaxAttempts
    BY RetryAssumption
  <2>2. begun[1] \in 0 .. PatienceBudget
    BY <2>1 DEF FastBurstFits
  <2>3. 0 <= begun[1]
    BY <2>2, RetryAssumption
  <2>4. OnSchedule(begun)
    BY <1>1, <2>3 DEF Init, OnSchedule
  <2>5. TypeOK /\ SleepsBeforeLast
    BY <1>1, <2>1 DEF Init, TypeOK, SleepsBeforeLast
  <2> QED
    BY <2>4, <2>5
<1>2. Fast /\ [Next]_vars => Fast'
  BY StepTypeOK, StepOnSchedule
<1>3. Fast => FastFailGetsEveryAttempt
  BY DEF OnSchedule, FastFailGetsEveryAttempt
<1> HIDE DEF Fast
<1> QED
  BY <1>1, <1>2, <1>3, PTL DEF Spec
=============================================================================
