------------------------------- MODULE Backoff -------------------------------
(***************************************************************************)
(* The delay before an attempt is repeated (outbox._retry_delay_seconds):  *)
(* it doubles from retry_initial_seconds up to retry_max_seconds.  The     *)
(* variable delay is the input, one initial state for each.                *)
(***************************************************************************)
EXTENDS Naturals

CONSTANTS
  Attempts, \* attempt counts
  Seconds   \* values of the two settings

ASSUME BackoffAssumption == Attempts \subseteq Nat \ {0} /\ Seconds \subseteq Nat \ {0}

VARIABLE delay

\* Faulty variant: the last doubling is not capped.
DoubledUncapped(seconds, maximum) == 2 * seconds

DoubledOnce(seconds, maximum) == IF 2 * seconds <= maximum THEN 2 * seconds ELSE maximum

\* load_config refuses an initial delay above the maximum.
BackoffInit ==
  delay \in {d \in [attempt : Attempts, initial : Seconds, maximum : Seconds] :
               d.initial <= d.maximum}

\* The delay after so many rounds of the loop.
RetryDelaySeconds(attempt, initial, maximum) ==
  LET Delay[rounds \in Nat] ==
        IF rounds = 0 THEN initial
        ELSE LET seconds == Delay[rounds - 1]
             IN IF seconds < maximum THEN DoubledOnce(seconds, maximum) ELSE seconds
  IN IF initial >= maximum THEN initial ELSE Delay[attempt - 1]

-----------------------------------------------------------------------------
\* The delay of every attempt is the initial one doubled for each attempt
\* before it, and never above the maximum (_retry_delay_seconds).
DelayIsCapped ==
  LET Doubled[n \in Nat] == IF n = 0 THEN delay.initial ELSE 2 * Doubled[n - 1]
      unlimited == Doubled[delay.attempt - 1]
  IN RetryDelaySeconds(delay.attempt, delay.initial, delay.maximum)
       = (IF unlimited < delay.maximum THEN unlimited ELSE delay.maximum)
=============================================================================
