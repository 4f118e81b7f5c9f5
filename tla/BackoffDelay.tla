---------------------------- MODULE BackoffDelay ----------------------------
(***************************************************************************)
(* How long a retry owner waits after each failure in a row: Delay of      *)
(* internal/backoff for the settings RetryConfig.Validate accepts, as a    *)
(* controller and each slot of the warm pool use it (internal/provider:    *)
(* pool_retry.go).                                                         *)
(*                                                                         *)
(* A Duration is a signed word; MaxDuration is the largest.  The random    *)
(* sample is a number of quarters.                                         *)
(***************************************************************************)
EXTENDS Integers

CONSTANTS
    MaxDuration,  \* 2^63 - 1, scaled down
    Durations,    \* what the settings may say
    MaxFailures   \* bound on the failures in a row

BackoffAssumption ==
    /\ MaxDuration \in Nat /\ MaxFailures \in Nat /\ Durations \subseteq -1 .. MaxDuration

VARIABLES
    settings,  \* RetryConfig
    failures,  \* in a row
    delay,     \* what Delay returned last
    longest    \* what it returns for the largest sample

vars == <<settings, failures, delay, longest>>

Samples == 0 .. 4

\* What a Duration keeps of the sum of two.
Wrapped(x) ==
    CASE x > MaxDuration -> x - 2 * (MaxDuration + 1)
      [] x < -MaxDuration - 1 -> x + 2 * (MaxDuration + 1)
      [] OTHER -> x

\* A mutant: the loop only looks whether it is there already.
Turn_Unguarded(d) == IF d >= settings.max THEN d ELSE Wrapped(d + d)

\* One turn of the loop of Delay, nothing once the loop has ended.
Turn(d) ==
    CASE d >= settings.max -> d
      [] d < settings.max /\ d > settings.max \div 2 -> settings.max
      [] OTHER -> Wrapped(d + d)

Looped(n) ==
    LET d[i \in 0 .. n] == IF i = 0 THEN settings.initial ELSE Turn(d[i - 1])
    IN  d[n]

Least(a, b) == IF a < b THEN a ELSE b

Jittered(d, sample) == d \div 2 + ((d - d \div 2) * sample) \div 4

Delay(f, sample) ==
    CASE f = 0 -> 0
      [] f > 0 /\ f >= settings.cooldownAfter -> settings.cooldown
      [] OTHER -> Jittered(Least(Looped(f - 1), settings.max), sample)

Validate_AnyCooldown(r) == r.initial > 0 /\ r.max >= r.initial /\ r.cooldownAfter >= 1

\* RetryConfig.Validate
Validate(r) ==
    r.initial > 0 /\ r.max >= r.initial /\ r.cooldown >= r.max /\ r.cooldownAfter >= 1

Init ==
    /\ settings \in {r \in [initial : Durations, max : Durations, cooldown : Durations,
                            cooldownAfter : 0 .. MaxFailures + 1] : Validate(r)}
    /\ failures = 0 /\ delay = 0 /\ longest = 0

Failure ==
    /\ failures < MaxFailures
    /\ failures' = failures + 1
    /\ \E sample \in Samples : delay' = Delay(failures', sample)
    /\ longest' = Delay(failures', 4)
    /\ UNCHANGED settings

Reset == failures' = 0 /\ delay' = 0 /\ longest' = 0 /\ UNCHANGED settings

Next == Failure \/ Reset

Spec == Init /\ [][Next]_vars

-----------------------------------------------------------------------------
(* The delay is what the README calls it, for all settings and in spite of *)
(* the width of a Duration: without jitter the initial delay, doubled with *)
(* every failure and capped by the maximum, then the cooldown; jitter      *)
(* takes at most half of it.                                               *)
Doubled(n) ==
    LET d[i \in 0 .. n] == IF i = 0 THEN settings.initial ELSE 2 * d[i - 1]
    IN  d[n]

IsExponential ==
    failures > 0 =>
        /\ longest = IF failures >= settings.cooldownAfter THEN settings.cooldown
                     ELSE Least(Doubled(failures - 1), settings.max)
        /\ delay \in longest \div 2 .. longest

\* Failures in a row never shorten the wait, jitter aside: neither the cap, nor
\* the cooldown, nor a wrap-around brings the next attempt closer.
NeverEases == failures' > failures => longest' >= longest /\ delay' >= delay \div 2

=============================================================================
