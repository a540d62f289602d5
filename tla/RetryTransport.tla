--------------------------- MODULE RetryTransport ---------------------------
(***************************************************************************)
(* One provider call under retry_transport (src/harness/models/retry.py):  *)
(* a loop of attempts bounded twice, by a number of attempts and by wall   *)
(* clock.  Time is counted in ticks from the first attempt.  A step is an  *)
(* attempt with what follows from it, or the end of a wait.                *)
(***************************************************************************)
EXTENDS Integers

CONSTANTS MaxAttempts,     \* max_attempts
          BaseDelay,       \* base_delay
          MaxBackoff,      \* max_backoff
          PatienceBudget,  \* patience_budget
          RequestTimeout,  \* per-request timeout of the SDK client (external)
          Delays,          \* waits considered: bounds the values of jitter()
          Durations,       \* how long one attempt may take
          FastDurations    \* those of a provider that fails without hanging

ASSUME RetryAssumption ==
    /\ MaxAttempts \in Nat \ {0}
    /\ BaseDelay \in Nat /\ MaxBackoff \in Nat \ {0}
    /\ PatienceBudget \in Nat \ {0}
    /\ RequestTimeout \in Nat
    /\ Delays \subseteq Nat
    /\ Durations \subseteq 0 .. RequestTimeout
    /\ FastDurations \subseteq Durations

VARIABLES pc,       \* "calling", "sleeping", or how the call ended
          attempt,  \* the attempt being made, or the one just made
          clock,    \* when it started; when the sleep will end; when the call ended
          hung      \* some attempt was not fast

vars == <<pc, attempt, clock, hung>>

Init ==
    /\ pc = "calling"
    /\ attempt = 1
    /\ clock = 0
    /\ hung = FALSE

\* The longest wait after attempt n; jitter() in [0, 1) scales it down.
Cap(n) == IF BaseDelay * 2 ^ (n - 1) < MaxBackoff
          THEN BaseDelay * 2 ^ (n - 1) ELSE MaxBackoff

\* The attempt takes d ticks and the call ends.
End(how, d) ==
    /\ pc' = how
    /\ clock' = clock + d
    /\ hung' = (hung \/ d \notin FastDurations)
    /\ UNCHANGED attempt

\* The SDK returns a response.  What it contains is never a reason to retry.
Respond(d) == pc = "calling" /\ End("returned", d)

\* An exception that is_transport_error rejects propagates at once.
FailOther(d) == pc = "calling" /\ End("raised", d)

\* A transport error of the last attempt: TransportExhausted.
AttemptsExhausted(d) ==
    /\ pc = "calling"
    /\ attempt >= MaxAttempts
    /\ End("exhausted", d)

\* Faulty variant of Affordable: the wait itself is not accounted for.
Affordable_ElapsedOnly(elapsed, delay) == elapsed <= PatienceBudget

\* Faulty variant of Affordable: time for a hanging attempt is kept in reserve.
Affordable_WithReserve(elapsed, delay) == elapsed + delay + RequestTimeout <= PatienceBudget

\* The wait ends within the patience budget.
Affordable(elapsed, delay) == elapsed + delay <= PatienceBudget

\* The planned wait would overrun the budget: TransportExhausted.
PatienceExhausted(d, delay) ==
    /\ pc = "calling"
    /\ attempt < MaxAttempts
    /\ ~Affordable(clock + d, delay)
    /\ End("exhausted", d)

\* A transport error, and a wait that starts.
Sleep(d, delay) ==
    /\ pc = "calling"
    /\ attempt < MaxAttempts
    /\ Affordable(clock + d, delay)
    /\ pc' = "sleeping"
    /\ clock' = clock + d + delay
    /\ hung' = (hung \/ d \notin FastDurations)
    /\ UNCHANGED attempt

\* Faulty variant of Wake: the attempt is not counted.
Wake_SameAttempt ==
    /\ pc = "sleeping"
    /\ pc' = "calling"
    /\ UNCHANGED <<attempt, clock, hung>>

\* The wait is over and the next attempt starts.
Wake ==
    /\ pc = "sleeping"
    /\ pc' = "calling"
    /\ attempt' = attempt + 1
    /\ UNCHANGED <<clock, hung>>

Attempt(d) ==
    \/ Respond(d)
    \/ FailOther(d)
    \/ AttemptsExhausted(d)
    \/ \E delay \in Delays \cap (0 .. Cap(attempt)) : PatienceExhausted(d, delay) \/ Sleep(d, delay)

Next == Wake \/ \E d \in Durations : Attempt(d)

Spec == Init /\ [][Next]_vars

\* An attempt ends (the client's timeout), and so does a sleep.
FairSpec == Spec /\ WF_vars(Next)

-----------------------------------------------------------------------------
(* Properties *)

\* The attempt number never passes max_attempts, and the loop is in one of its
\* states.
TypeOK ==
    /\ pc \in {"calling", "sleeping", "returned", "raised", "exhausted"}
    /\ attempt \in 1 .. MaxAttempts
    /\ clock \in Nat
    /\ hung \in BOOLEAN

\* "Worst-case wall time for a single call is provably bounded by budget + one
\* final request timeout" (module docstring of retry.py), however attempts and
\* waits combine.
WithinPatience == clock <= PatienceBudget + RequestTimeout

\* "Fast-fail bursts are unaffected [...] those still get all 12 attempts"
\* (module docstring of retry.py): a call that only ever failed fast is not
\* given up because of the patience budget.
FastFailGetsEveryAttempt ==
    pc = "exhausted" /\ ~hung => attempt = MaxAttempts

\* What the docstring's "fits comfortably" asks of the parameters: if no attempt
\* hangs, attempt n has begun by begun[n], and the last of these is in the budget.
FastBurstFits(begun) ==
    /\ begun \in [1 .. MaxAttempts -> 0 .. PatienceBudget]
    /\ \A n \in 1 .. (MaxAttempts - 1) :
        \A d \in FastDurations, delay \in Delays \cap (0 .. Cap(n)) :
            begun[n] + d + delay <= begun[n + 1]

\* A call ends: it never waits forever, even if attempts and waits take no time.
CallEnds == <>(pc \in {"returned", "raised", "exhausted"})
=============================================================================
