------------------------------- MODULE Backoff -------------------------------
(***************************************************************************)
(* The delays between the attempts of one work call: retryDelay and        *)
(* nextRetryDelay (src/flow/run.go) as the loops of typedRunner.work and   *)
(* runBulk drive them, from a policy's Backoff with its defaults           *)
(* (src/flow/policy.go).  A time.Duration is a signed integer that wraps   *)
(* around; its largest value, 2^63 - 1 in the code, is the constant        *)
(* MaxDuration.                                                            *)
(***************************************************************************)
EXTENDS Integers

CONSTANTS MaxDuration,  \* the largest time.Duration
          DefaultBase,  \* what withDefaults puts for a zero Base: 2 seconds
          DefaultCap,   \* and for a zero Cap: 1 minute
          MaxRetries    \* bound on the retries of one call

ASSUME BackoffAssumption ==
    /\ MaxDuration \in Nat
    /\ DefaultBase \in 1 .. MaxDuration
    /\ DefaultCap \in 1 .. MaxDuration
    /\ MaxRetries \in Nat

VARIABLES base,     \* Backoff.Base after withDefaults
          cap,      \* Backoff.Cap after withDefaults
          retries,  \* how often the call has been retried
          delay,    \* the loop's delay
          wait      \* the time the last retry waited, or 0

backoffVars == <<base, cap, retries, delay, wait>>

Duration == -MaxDuration - 1 .. MaxDuration

\* What an addition or doubling of two durations yields: it wraps around.
Wrap(x) ==
    IF x > MaxDuration THEN x - 2 * (MaxDuration + 1)
    ELSE IF x < -MaxDuration - 1 THEN x + 2 * (MaxDuration + 1) ELSE x

OrDefault(value, default) == IF value <= 0 THEN default ELSE value

\* delay as retryDelay clamps it, and the jitters it may draw.
Clamped(d, maximum) == IF d < 0 THEN 0 ELSE IF d > maximum THEN maximum ELSE d
Jitters(d, maximum) == 0 .. Clamped(d, maximum) \div 2

\* Mutation of RetryDelay: the cap is applied before the jitter only.
RetryDelayJitterLast(d, maximum, jitter) ==
    IF maximum <= 0 THEN 0 ELSE Wrap(Clamped(d, maximum) + jitter)

\* retryDelay with the jitter it has drawn.
RetryDelay(d, maximum, jitter) ==
    IF maximum <= 0 THEN 0
    ELSE IF Clamped(d, maximum) >= Wrap(maximum - jitter) THEN maximum
    ELSE Wrap(Clamped(d, maximum) + jitter)

\* Mutation of NextRetryDelay: double first, compare with the cap afterwards.
NextRetryDelayDoubleFirst(d, maximum) ==
    IF maximum <= 0 THEN 0
    ELSE IF Wrap(2 * d) > maximum THEN maximum ELSE Wrap(2 * d)

\* nextRetryDelay
NextRetryDelay(d, maximum) ==
    IF maximum <= 0 THEN 0
    ELSE IF d >= maximum THEN maximum
    ELSE IF d <= 0 THEN 0
    ELSE IF d > Wrap(maximum - d) THEN maximum ELSE Wrap(2 * d)
------------------------------------------------------------------------------

\* validatePolicy refuses negative durations; withDefaults replaces zeros.
BackoffInit ==
    /\ \E b, c \in 0 .. MaxDuration :
         /\ base = OrDefault(b, DefaultBase)
         /\ cap = OrDefault(c, DefaultCap)
    /\ retries = 0
    /\ delay = base
    /\ wait = 0

\* One retry: wait for a jittered delay, then compute the next one.
Retry ==
    /\ retries < MaxRetries
    /\ retries' = retries + 1
    /\ \E jitter \in Jitters(delay, cap) : wait' = RetryDelay(delay, cap, jitter)
    /\ delay' = NextRetryDelay(delay, cap)
    /\ UNCHANGED <<base, cap>>

BackoffNext == Retry

BackoffSpec == BackoffInit /\ [][BackoffNext]_backoffVars
------------------------------------------------------------------------------
(* Properties                                                                *)

Least(x, y) == IF x < y THEN x ELSE y

\* Every variable is a duration of its range: no sum or doubling has wrapped
\* around (retryDelay, nextRetryDelay).
TypeOK ==
    /\ base \in 1 .. MaxDuration /\ cap \in 1 .. MaxDuration
    /\ retries \in 0 .. MaxRetries
    /\ delay \in 1 .. MaxDuration
    /\ wait \in 0 .. MaxDuration

\* Every retry waits at least the base delay and at most the cap, whatever the
\* jitter and however close both are to the largest duration: a provider is
\* never called again at once and never later than the policy says (the select
\* on time.After in typedRunner.work and runBulk).
WaitWithinPolicy == retries > 0 => Least(base, cap) <= wait /\ wait <= cap
==============================================================================
