----------------------------- MODULE StartRetry -----------------------------
(***************************************************************************)
(* internal/controller/retry.go: the back-off between failed starts of one *)
(* controller.                                                             *)
(*                                                                         *)
(* `retry` is NextRetryAt together with the timer: none, a deadline in the *)
(* future ("backoff"), or a deadline that has passed with the timer still  *)
(* to fire ("due").  The code numbers the attempts and the failures and    *)
(* compares an attempt with the failures recorded since it began; `since`  *)
(* keeps the outcome of that comparison: no failure, exactly one and it    *)
(* was the attempt's own, or anything else.                                *)
(***************************************************************************)
EXTENDS InstanceState

VARIABLES retry, since

retryVars == <<retry, since>>

RetryStates == {"none", "backoff", "due"}

SinceStates == {"none", "own", "other"}

initRetry == retry = "none" /\ since = [n \in Names |-> "none"]

\* recordStartAttempt and setAttempt: n is a new attempt.
recordStartAttempt(n) ==
    /\ since' = [since EXCEPT ![n] = "none"]
    /\ UNCHANGED retry

\* recordStartFailureFor, past its early returns.
recordStartFailure(n) ==
    /\ retry' = "backoff"
    /\ since' = [m \in Names |-> IF m = n /\ since[n] = "none" THEN "own" ELSE "other"]

clearRetry == retry' = "none" /\ UNCHANGED since

\* A start clears the failures that came before it, not later ones.
recordStartSuccess(n) ==
    IF since[n] = "none" THEN clearRetry ELSE UNCHANGED retryVars

\* A job disproves the attempt's own failure as well.  The caller has just
\* changed the entry; should it leave the map before the attempt is read, the
\* zero attempt clears nothing.
recordWorkSuccess(n) ==
    \/ since[n] # "other" /\ clearRetry
    \/ UNCHANGED retryVars

retryAllowed == retry # "backoff"

\* NextRetryAt passes; the timer is about to fire.
RetryDeadline == retry = "backoff" /\ retry' = "due" /\ UNCHANGED since

=============================================================================
