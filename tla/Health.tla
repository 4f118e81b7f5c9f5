------------------------------- MODULE Health -------------------------------
(***************************************************************************)
(* The health server (internal/health/health.go) beside the scale sets     *)
(* that register with it and report their connection                       *)
(* (runScaleSetController in cmd/runner/main.go) and the controllers it    *)
(* asks for their status (RuntimeStatus in internal/controller).           *)
(*                                                                         *)
(* A probe of /readyz holds the read lock from its first set to its last,  *)
(* and reads the status of a controller in steps, each under a lock of the *)
(* controller.  /healthz reads the same things; it is compared with        *)
(* /readyz in one state.                                                   *)
(***************************************************************************)
EXTENDS Integers, FiniteSets

CONSTANTS
    Sets,        \* the scale sets of the configuration
    MaxRunners,  \* max-runners of each
    MaxChanges   \* bound on what happens to the controllers

HealthAssumption ==
    IsFiniteSet(Sets) /\ Sets # {} /\ MaxRunners \in Nat /\ MaxChanges \in Nat

VARIABLES
    set,          \* runScaleSetController: "starting", "registered", "connecting",
                  \* "listening", "lost", "waiting", "leaving", "done"
    controllers,  \* h.controllers
    ready,        \* h.states[name].Ready
    status,       \* of each controller: draining, waiting for capacity, failed starts
                  \* since the last success, demand current, target, runners counted
    probe,        \* the request to /readyz
    faulty,       \* the faults that have lasted since the probe began
    changes

vars == <<set, controllers, ready, status, probe, faulty, changes>>

Calm == [draining |-> FALSE, waiting |-> FALSE, failing |-> FALSE, fresh |-> FALSE,
         target |-> 0, count |-> 0]

\* Where a probe is, the controllers still to read, the one it reads and what
\* it has read of it, and the answer of the last one.
NoProbe == [at |-> "idle", left |-> {}, of |-> {}, seen |-> Calm, answer |-> "none"]

-----------------------------------------------------------------------------
(* RuntimeStatus.                                                          *)

Degraded(s) == ~s.draining /\ ~s.waiting /\ s.fresh /\ s.failing /\ s.count < s.target

\* The faults of the registered sets.
Faults ==
    {<<n, "disconnected">> : n \in {m \in controllers : ~ready[m]}}
    \cup {<<n, "draining">> : n \in {m \in controllers : status[m].draining}}
    \cup {<<n, "degraded">> : n \in {m \in controllers : Degraded(status[m])}}

\* What has lasted still does.  Of a degraded set whose target rises it is said anew:
\* a probe compares the target it read with runners counted later.
StillFaulty ==
    faulty' = {x \in faulty \cap Faults' :
                   x[2] = "degraded" => status'[x[1]].target <= status[x[1]].target}

-----------------------------------------------------------------------------
(* The scale sets.  They take the write lock, which waits for a probe.     *)

NoReader == probe.at = "idle"

SetGoes(n, from, to) == set[n] \in from /\ set' = [set EXCEPT ![n] = to]

RegisterController(n) ==
    /\ NoReader /\ SetGoes(n, {"starting"}, "registered")
    /\ controllers' = controllers \cup {n} /\ ready' = [ready EXCEPT ![n] = FALSE]
    /\ UNCHANGED <<status, probe, changes>> /\ StillFaulty

\* MarkDisconnected("connecting"), or with the error of the listener.
MarkDisconnected_OnlyFirst(n) ==
    \/ SetGoes(n, {"registered", "waiting"}, "connecting") /\ ready' = [ready EXCEPT ![n] = FALSE]
    \/ SetGoes(n, {"lost"}, "waiting") /\ UNCHANGED ready

MarkDisconnected(n) ==
    /\ \/ SetGoes(n, {"registered", "waiting"}, "connecting")
       \/ SetGoes(n, {"lost"}, "waiting")
    /\ ready' = [ready EXCEPT ![n] = FALSE]

Disconnect(n) ==
    /\ NoReader /\ MarkDisconnected(n)
    /\ UNCHANGED <<controllers, status, probe, changes>> /\ StillFaulty

\* onReady of listenOnce: the session is there.
MarkConnected(n) ==
    /\ NoReader /\ SetGoes(n, {"connecting"}, "listening")
    /\ ready' = [ready EXCEPT ![n] = TRUE]
    /\ UNCHANGED <<controllers, status, probe, changes>> /\ StillFaulty

\* listenOnce returns an error.
ListenFails(n) ==
    /\ SetGoes(n, {"connecting", "listening"}, "lost") /\ changes < MaxChanges
    /\ changes' = changes + 1 /\ UNCHANGED <<controllers, ready, status, probe>> /\ StillFaulty

\* The context ends; the process does not go on without one of its sets.
Leave(n) ==
    /\ SetGoes(n, {"starting", "connecting", "listening", "waiting"}, "leaving")
    /\ UNCHANGED <<controllers, ready, status, probe, changes>> /\ StillFaulty

UnregisterController(n) ==
    /\ NoReader /\ SetGoes(n, {"leaving"}, "done")
    /\ controllers' = controllers \ {n} /\ ready' = [ready EXCEPT ![n] = FALSE]
    /\ UNCHANGED <<status, probe, changes>> /\ StillFaulty

-----------------------------------------------------------------------------
(* The controllers.                                                        *)

Changed(n, to) ==
    /\ changes < MaxChanges /\ changes' = changes + 1
    /\ status' = [status EXCEPT ![n] = to]
    /\ UNCHANGED <<set, controllers, ready, probe>> /\ StillFaulty

\* Demand, its answer, starts and ends of runners; a failed start may be recorded when
\* the target it was for has fallen.
ControllerChanges(n) ==
    \/ Changed(n, [status[n] EXCEPT !.draining = TRUE])
    \/ Changed(n, [status[n] EXCEPT !.waiting = ~@])
    \/ Changed(n, [status[n] EXCEPT !.failing = ~@])
    \/ Changed(n, [status[n] EXCEPT !.fresh = ~@])
    \/ \E t \in 0..MaxRunners : Changed(n, [status[n] EXCEPT !.target = t])
    \/ status[n].count < MaxRunners /\ Changed(n, [status[n] EXCEPT !.count = @ + 1])
    \/ status[n].count > 0 /\ Changed(n, [status[n] EXCEPT !.count = @ - 1])

-----------------------------------------------------------------------------
(* handleReadyz.                                                           *)

Answers(answer) == probe' = [NoProbe EXCEPT !.answer = answer]

Unready_AllOfThem == \A n \in controllers : ~ready[n]

Unready == controllers = {} \/ \E n \in controllers : ~ready[n]

\* RLock; a set that is not connected ends the probe.
Probe ==
    /\ NoReader
    /\ IF Unready
       THEN Answers("not ready")
       ELSE probe' = [NoProbe EXCEPT !.at = "counters", !.left = controllers]
    /\ faulty' = Faults
    /\ UNCHANGED <<set, controllers, ready, status, changes>>

Reading(step) == probe.at = step /\ UNCHANGED <<set, controllers, ready, status, faulty, changes>>

\* Under runtimeMu.
ReadCounters ==
    /\ Reading("counters")
    /\ \E n \in probe.left :
           probe' = [probe EXCEPT !.at = "draining", !.of = {n}, !.left = @ \ {n},
                                  !.seen = [Calm EXCEPT !.failing = status[n].failing,
                                                        !.waiting = status[n].waiting]]

ReadDraining ==
    /\ Reading("draining")
    /\ \E n \in probe.of :
           probe' = [probe EXCEPT !.at = "target", !.seen.draining = status[n].draining]

\* scaleTarget, under desiredMu.
ReadTarget ==
    /\ Reading("target")
    /\ \E n \in probe.of :
           probe' = [probe EXCEPT !.at = "counts", !.seen.fresh = status[n].fresh,
                                  !.seen.target = status[n].target]

\* Under the lock of the instances; then the verdict on this set.
ReadCounts ==
    /\ Reading("counts")
    /\ \E n \in probe.of :
           LET seen == [probe.seen EXCEPT !.count = status[n].count]
           IN  CASE seen.draining \/ Degraded(seen) -> Answers("not ready")
                 [] ~(seen.draining \/ Degraded(seen)) /\ probe.left = {} -> Answers("ok")
                 [] OTHER -> probe' = [probe EXCEPT !.at = "counters", !.of = {}]

\* handleHealthz: "ok" or "degraded", from what one state holds.
Healthz_ConnectionOnly == \A n \in controllers : ready[n]

Healthz == \A n \in controllers : ready[n] /\ ~status[n].draining /\ ~Degraded(status[n])

\* handleReadyz, its reads taken together.
Readyz == controllers # {} /\ Faults = {}

-----------------------------------------------------------------------------
Init ==
    /\ set = [n \in Sets |-> "starting"] /\ controllers = {} /\ ready = [n \in Sets |-> FALSE]
    /\ \E t \in 0..MaxRunners : status = [n \in Sets |-> [Calm EXCEPT !.fresh = TRUE, !.target = t]]
    /\ probe = NoProbe /\ faulty = {} /\ changes = 0

Next ==
    \/ \E n \in Sets : RegisterController(n) \/ Disconnect(n) \/ MarkConnected(n) \/ ListenFails(n)
                       \/ Leave(n) \/ UnregisterController(n) \/ ControllerChanges(n)
    \/ Probe \/ ReadCounters \/ ReadDraining \/ ReadTarget \/ ReadCounts

Spec == Init /\ [][Next]_vars

-----------------------------------------------------------------------------
TypeOK ==
    /\ controllers = {n \in Sets : set[n] \notin {"starting", "done"}}
                     \ {n \in Sets : set[n] = "leaving" /\ n \notin controllers}
    /\ \A n \in Sets : ready[n] => set[n] \in {"listening", "lost", "leaving"}
    /\ probe.at = "idle" \/ Cardinality(probe.of) <= 1
    /\ probe.answer \in {"none", "ok", "not ready"}

\* A scale set that is disconnected, or draining, or short of runners after
\* failed starts, from the beginning of a probe to its end makes the answer 503:
\* that the status is read in pieces hides no fault that lasts (README, "Status
\* dashboard") - with one exception.  RuntimeStatus reads the target before it counts
\* the runners, so a set that is short throughout while its target rises may be found
\* with runners enough for the target it had.
LastingFaultShows == probe.answer = "ok" => faulty = {}

\* The two endpoints never disagree about scale sets that are registered.
EndpointsAgree == controllers # {} => (Healthz <=> Readyz)

=============================================================================
