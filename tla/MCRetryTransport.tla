-------------------------- MODULE MCRetryTransport --------------------------
(***************************************************************************)
(* RetryTransport with the values of the repository, in half seconds (the  *)
(* unit of base_delay).                                                    *)
(***************************************************************************)
EXTENDS RetryTransport

\* A provider that rejects at once or within two seconds, one that fails after
\* 30 seconds, and one that hangs until the client gives up.
RealFast      == {0, 1, 4}
RealDurations == RealFast \cup {60, RequestTimeout}

\* No wait, the longest wait after each attempt, and two in between.
RealDelays == {0, 3, 90} \cup {Cap(n) : n \in 1 .. MaxAttempts}

\* The backoff schedule with the longest waits and the slowest fast failures: the
\* values of the repository satisfy what FastFailsHaveTime is proved under.
Schedule[n \in 1 .. MaxAttempts] ==
    IF n = 1 THEN 0 ELSE Schedule[n - 1] + 4 + Cap(n - 1)

ASSUME ScheduleAssumption == FastBurstFits(Schedule)
=============================================================================
