---------------------------- MODULE InstanceState ---------------------------
(***************************************************************************)
(* internal/controller/state.go: instanceState, the map from runner names  *)
(* to managed instances that a controller takes every decision from.       *)
(*                                                                         *)
(* Each method of the Go type is one critical section under its mutex.  It *)
(* is modelled by a state formula for the condition it returns, where it   *)
(* returns one, and by an action for what it does to the map.  The modules *)
(* that extend this one decide who calls what, and when.                   *)
(***************************************************************************)
EXTENDS Integers, FiniteSets

CONSTANT Names      \* the runner names in circulation

ASSUME NamesAssumption == IsFiniteSet(Names)

VARIABLE instances

InstancePhases == {"absent", "provisioning", "idle", "busy", "removing"}

Reasons == {"none", "job-completed", "scaled-down", "drain", "exited", "readiness-failed"}

\* A name that is not a key of the map.
Absent ==
    [phase |-> "absent",      \* of the runner; "absent" when it has no entry
     id |-> FALSE,            \* the provider's instance ID is recorded
     runnerID |-> FALSE,      \* the GitHub runner ID is known
     reason |-> "none",       \* removeReason
     job |-> FALSE,           \* the job of a JobStarted is recorded
     worked |-> FALSE,        \* there is evidence that it held a job
     inFlight |-> FALSE,      \* cleanupInFlight
     backoff |-> FALSE]       \* cleanupRetryAt lies in the future

InstanceType ==
    [phase : InstancePhases, id : BOOLEAN, runnerID : BOOLEAN, reason : Reasons,
     job : BOOLEAN, worked : BOOLEAN, inFlight : BOOLEAN, backoff : BOOLEAN]

Tracked == {n \in Names : instances[n].phase # "absent"}

Idle == {n \in Names : instances[n].phase = "idle"}

Busy == {n \in Names : instances[n].phase = "busy"}

Removing == {n \in Names : instances[n].phase = "removing"}

-----------------------------------------------------------------------------
(***************************************************************************)
(* Counting.                                                               *)
(***************************************************************************)

\* Removed because it looked idle: GitHub may still say that it holds a job.
IsUnassignedRemoval(n) ==
    /\ n \in Removing
    /\ instances[n].reason \in {"scaled-down", "drain", "readiness-failed"}

Counted_WithoutRemovals == Tracked \ Removing

\* The instances that may still serve work.
Counted == {n \in Tracked : n \in Removing => IsUnassignedRemoval(n)}

count == Cardinality(Counted)

\* What scale-down plans with: no removal counts.
plannedCount == Cardinality(Tracked \ Removing)

servingCount == Cardinality(Idle) + Cardinality(Busy)

-----------------------------------------------------------------------------
(***************************************************************************)
(* Starting an instance.                                                   *)
(***************************************************************************)

initInstances == instances = [n \in Names |-> Absent]

reserve(n) == instances' = [instances EXCEPT ![n] = [Absent EXCEPT !.phase = "provisioning"]]

failProvision(n) ==
    instances' = IF n \in Tracked /\ ~instances[n].id
                 THEN [instances EXCEPT ![n] = Absent]
                 ELSE instances

\* The provider returned an instance.  It serves at once, unless the provider
\* can say when it is ready.
markStarted(n, known, phase) ==
    instances' = [instances EXCEPT ![n].id = TRUE, ![n].runnerID = known,
                                   ![n].phase = IF @ = "provisioning" THEN phase ELSE @]

markReady(n, known) == markStarted(n, known, "idle")

markProvisioned(n, known) == markStarted(n, known, "provisioning")

\* A readiness verdict counts only while the instance is still provisioning.
acceptsReadiness(n) == instances[n].id /\ instances[n].phase = "provisioning"

readinessResult(n, failed) ==
    instances' = IF failed
                 THEN [instances EXCEPT ![n].phase = "removing", ![n].reason = "readiness-failed"]
                 ELSE [instances EXCEPT ![n].phase = "idle"]

-----------------------------------------------------------------------------
(***************************************************************************)
(* Jobs and exits.                                                         *)
(***************************************************************************)

acceptsJob(n) ==
    \/ instances[n].phase \in {"idle", "provisioning"}
    \/ n \in Busy /\ ~instances[n].job
    \/ IsUnassignedRemoval(n)

markBusy(n) ==
    instances' = [instances EXCEPT ![n].phase = IF n \in Removing THEN @ ELSE "busy",
                                   ![n].job = TRUE, ![n].worked = TRUE]

acceptsDone_Any(n, reason) == n \in Tracked

\* markDone for a completed job may take over an unassigned removal; for a
\* drain it only applies to an instance that is not being removed.
acceptsDone(n, reason) ==
    /\ n \in Tracked
    /\ n \in Removing => reason = "job-completed" /\ IsUnassignedRemoval(n)

markDone(n, reason) ==
    instances' = [instances EXCEPT ![n].phase = "removing", ![n].reason = reason,
                                   ![n].worked = @ \/ reason = "job-completed"]

\* The instance a watcher still has to watch.
contains(n) ==
    /\ n \in Tracked /\ instances[n].id
    /\ n \in Removing => instances[n].reason = "readiness-failed"

\* markExited finds the instance under the same condition.
acceptsExit(n) == contains(n)

\* It exited before any evidence of a job: a failed start.
exitedUnassigned(n) == ~instances[n].worked /\ instances[n].reason # "readiness-failed"

markExited(n) == instances' = [instances EXCEPT ![n].phase = "removing", ![n].reason = "exited"]

hasWork(n) == n \in Tracked /\ instances[n].worked /\ instances[n].reason # "exited"

-----------------------------------------------------------------------------
(***************************************************************************)
(* Removal.                                                                *)
(***************************************************************************)

canTrim(target) == plannedCount > target /\ Idle # {}

markIdleAboveTarget(n) ==
    /\ n \in Idle
    /\ instances' = [instances EXCEPT ![n].phase = "removing", ![n].reason = "scaled-down"]

\* The drain boundary: everything that is not serving a job goes.
idleForRemoval ==
    instances' = [n \in Names |->
        IF instances[n].phase \in {"idle", "provisioning"}
        THEN [instances[n] EXCEPT !.phase = "removing", !.reason = "drain"]
        ELSE instances[n]]

Claimable_Again ==
    {n \in Removing : instances[n].id /\ ~instances[n].backoff}

\* One cleanup owner at a time.
Claimable ==
    {n \in Removing : instances[n].id /\ ~instances[n].inFlight /\ ~instances[n].backoff}

claimRemoval(n) == n \in Claimable /\ instances' = [instances EXCEPT ![n].inFlight = TRUE]

deregistrationNeeded(n) == instances[n].id /\ IsUnassignedRemoval(n)

restoreBusy(n) ==
    instances' = [instances EXCEPT ![n] =
        [@ EXCEPT !.phase = "busy", !.worked = TRUE, !.reason = "none",
                  !.inFlight = FALSE, !.backoff = FALSE]]

canRetry(n) == n \in Removing /\ instances[n].id /\ instances[n].inFlight

retryRemoval(n) == instances' = [instances EXCEPT ![n].inFlight = FALSE, ![n].backoff = TRUE]

\* Time passes the instance's cleanupRetryAt.
cleanupRetryDue(n) == instances[n].backoff /\ instances' = [instances EXCEPT ![n].backoff = FALSE]

canFinish(n) == n \in Removing /\ instances[n].id

finishRemoval(n) == instances' = [instances EXCEPT ![n] = Absent]

detachAll == instances' = [n \in Names |-> Absent]

=============================================================================
