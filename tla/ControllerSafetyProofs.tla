------------------------ MODULE ControllerSafetyProofs ------------------------
(***************************************************************************)
(* Theorems about Controller that rest on the inductive invariant of       *)
(* ControllerProofs: who owns the leases, what a drain leaves, how many    *)
(* runners there are, whose job is spared, and who wakes the worker.       *)
(***************************************************************************)
EXTENDS ControllerProofs, FiniteSetTheorems

-----------------------------------------------------------------------------
(***************************************************************************)
(* What each goroutine leaves alone.                                       *)
(***************************************************************************)

LEMMA BystandersFrame ==
  ASSUME Bystanders PROVE UNCHANGED <<leases, worker, cleanup, restored, stopVars>>
<1> USE DEF taskVars
<1>1. CASE Listen
  BY <1>1 DEF Listen, PendCompletion, SignalCompletion, SignalDesired, HandleDesiredRunnerCount,
              HandleJobStarted, HandleJobCompleted, Listening
<1>2. ASSUME NEW o \in Observers, Observe(o) PROVE UNCHANGED <<leases, worker, cleanup, restored, stopVars>>
  BY <1>2 DEF Observe, ObserverCancelled, ObserveExit, MarkExited, RaiseBarrier, ReportReady,
              ReportUnready, ObservedSuccess, ObservedFailure, ObserverSignals, Observing
<1>3. ASSUME NEW n \in Names, World(n) PROVE UNCHANGED <<leases, worker, cleanup, restored, stopVars>>
  BY <1>3 DEF World, Outside, JobAssigned, JobEnds, ProcessExits, ProcessCrashes
<1> QED BY <1>1, <1>2, <1>3
        DEF Bystanders, RetryDeadlinePasses, RetryTimerFires, CleanupDeadlinePasses, CleanupTimerFires, Waiting

\* Outside the observers themselves, only a desired count touches them.
LEMMA BystandersObserve ==
  ASSUME Bystanders, \A o \in Observers : ~Observe(o)
  PROVE  UNCHANGED observers \/ observers' = [o \in Observers |-> [observers[o] EXCEPT !.fresh = FALSE]]
<1>1. Listen => UNCHANGED observers \/ observers' = [o \in Observers |-> [observers[o] EXCEPT !.fresh = FALSE]]
  BY DEF Listen, PendCompletion, SignalCompletion, SignalDesired, HandleDesiredRunnerCount,
         HandleJobStarted, HandleJobCompleted
<1>2. \A n \in Names : World(n) => UNCHANGED observers
  BY DEF World, JobAssigned, JobEnds, ProcessExits, ProcessCrashes, Outside, taskVars
<1>3. /\ RetryDeadlinePasses \/ RetryTimerFires => UNCHANGED observers
      /\ \A n \in Names : CleanupDeadlinePasses(n) \/ CleanupTimerFires(n) => UNCHANGED observers
  BY DEF RetryDeadlinePasses, RetryTimerFires, CleanupDeadlinePasses, CleanupTimerFires, Waiting
<1> QED BY <1>1, <1>2, <1>3 DEF Bystanders

LEMMA DecidingFrame ==
  ASSUME Decide
  PROVE  /\ UNCHANGED <<demandVars, restored, observers, cleanupTimers, listener, stopVars, process, inbox, faults>>
         /\ UNCHANGED github \/ \E n \in Names : ReserveName(n)
BY DEF Decide, LoopStops, LoopWakes, EnterPass, NothingToClaim, ReadTarget, CompareCount, NothingToTrim,
       CheckSatisfied, ClearSatisfiedRetry, BeginAcquire, CapacityGranted, CapacityAbandoned, RereadTarget,
       AbandonStart, ClaimCleanup, ScaleDown, ReserveName, OnlyWorker, Deciding, worldVars

LEMMA StartingFrame ==
  ASSUME NEW n \in Names, Start(n)
  PROVE  /\ UNCHANGED <<demandVars, restored, cleanupTimers, listener, stopVars, inbox>>
         /\ worker.runner = n /\ worker.at \in StartSteps \cup {"cleaning"}
BY DEF Start, RecordStartAttempt, GenerateJIT, GenerateJITFails, ProviderStarts, ProviderStartFails,
       DropProvision, MarkStarted, RemoveOrphan, RecordStartSuccess, LaunchedRemoved, LaunchedDraining,
       LaunchedCleaned, LaunchedWatched, Starting, StartSteps

LEMMA CleaningFrame ==
  ASSUME NEW n \in Names, Clean(n)
  PROVE  /\ UNCHANGED <<demandVars, worker, observers, listener, stopVars, inbox>>
         /\ ~FinishRemoval(n) => UNCHANGED leases
BY DEF Clean, LookUpRunner, AskGitHub, Refused, SignalRestored, RemoveInstance, FinishRemoval, SignalRemoved,
       Cleaning

LEMMA StoppingFrame ==
  ASSUME Stop
  PROVE  UNCHANGED <<demandVars, wakeVars, worker, restored, observers, cleanupTimers, listener, github, inbox>>
BY DEF Stop, DrainBegins, DrainStopsWork, DrainBoundary, DrainCompletes, DrainExpires, SessionEnds,
       ShutdownBegins, ShutdownStopsWork, ShutdownDetaches, ShutdownEnds, DrainClaims, ShutdownRemoves, Stopping

\* The worker has a runner only while it starts it or cleans up after it.
LEMMA DecidingWorker ==
  ASSUME TypeOK, Decide, worker.at \notin StartSteps \cup {"cleaning"} => worker.runner = NoName
  PROVE  /\ worker.at \notin StartSteps \cup {"cleaning"}
         /\ \/ worker'.at \notin StartSteps \cup {"cleaning"} /\ worker'.runner = NoName
            \/ \E n \in Names : ReserveName(n) /\ worker'.at = "reserved" /\ worker'.runner = n
<1>1. worker.at \notin StartSteps \cup {"cleaning"}
  BY DEF Decide, LoopStops, LoopWakes, EnterPass, NothingToClaim, ReadTarget, CompareCount, NothingToTrim,
       CheckSatisfied, ClearSatisfiedRetry, BeginAcquire, CapacityGranted, CapacityAbandoned, RereadTarget,
       AbandonStart, ClaimCleanup, ScaleDown, ReserveName, StartSteps
<1>2. ASSUME NEW n \in Names, ReserveName(n) PROVE worker'.at = "reserved" /\ worker'.runner = n
  BY <1>2 DEF ReserveName, WorkerAt
<1>3. ASSUME ~\E n \in Names : ReserveName(n)
      PROVE  worker'.at \notin StartSteps \cup {"cleaning"} /\ worker'.runner = NoName
  BY <1>1, <1>3
     DEF Decide, LoopStops, LoopWakes, EnterPass, NothingToClaim, ReadTarget, CompareCount, NothingToTrim,
       CheckSatisfied, ClearSatisfiedRetry, BeginAcquire, CapacityGranted, CapacityAbandoned, RereadTarget,
       AbandonStart, ClaimCleanup, ScaleDown, OnlyWorker, workerGoes, workerSteps, WorkerAt, returnLease,
       StartSteps, TypeOK, WorkerType
<1> QED BY <1>1, <1>2, <1>3

\* Only the end of a removal takes its entry from the map, with its lease.
LEMMA CleaningTracks ==
  ASSUME InstancesOK, NEW n \in Names, Clean(n)
  PROVE  \/ Tracked' = Tracked /\ UNCHANGED leases
         \/ Tracked' = Tracked \ {n} /\ leases' = leases \ {n}
<1>1. CASE UNCHANGED instances /\ UNCHANGED leases
  BY <1>1 DEF Tracked
<1>2. CASE canRetry(n) /\ retryRemoval(n) /\ UNCHANGED leases
  BY <1>2 DEF canRetry, retryRemoval, InstancesOK, InstanceType, Tracked, Removing
<1>3. CASE Refused(n)
  <2>1. CASE deregistrationNeeded(n)
    <3>1. n \in Removing /\ instances \in [Names -> InstanceType] /\ UNCHANGED leases
      BY <1>3, <2>1, Zenon DEF Refused, deregistrationNeeded, IsUnassignedRemoval, InstancesOK
    <3>2. restoreBusy(n)
      BY <1>3, <2>1, Zenon DEF Refused
    <3>3. \A m \in Names : instances'[m].phase = IF m = n THEN "busy" ELSE instances[m].phase
      BY <3>1, <3>2 DEF restoreBusy, InstanceType
    <3> QED BY <3>1, <3>3 DEF Tracked, Removing
  <2>2. CASE ~deregistrationNeeded(n)
    BY <1>1, <1>3, <2>2, Zenon DEF Refused
  <2> QED BY <2>1, <2>2
<1>4. CASE FinishRemoval(n)
  BY <1>1, <1>4 DEF FinishRemoval, finishRemoval, InstancesOK, Tracked, Absent
<1> QED BY <1>1, <1>2, <1>3, <1>4
        DEF Clean, LookUpRunner, AskGitHub, SignalRestored, RemoveInstance, SignalRemoved, removalFails

LEMMA DecidingAt ==
  ASSUME TypeOK, Decide PROVE worker'.at \notin (StartSteps \cup {"cleaning"}) \ {"reserved"}
<1>1. ASSUME NEW n \in Names, ReserveName(n) PROVE worker'.at = "reserved"
  BY <1>1 DEF ReserveName, WorkerAt
<1> QED BY <1>1
     DEF Decide, LoopStops, LoopWakes, EnterPass, NothingToClaim, ReadTarget, CompareCount, NothingToTrim,
       CheckSatisfied, ClearSatisfiedRetry, BeginAcquire, CapacityGranted, CapacityAbandoned, RereadTarget,
       AbandonStart, ClaimCleanup, ScaleDown, OnlyWorker, workerGoes, workerSteps, WorkerAt, returnLease,
       StartSteps, TypeOK, WorkerType

\* Where each step of a start takes the worker.
LEMMA StartingWorker ==
  ASSUME TypeOK, NEW n \in Names
  PROVE  /\ RecordStartAttempt(n) => worker.at = "reserved" /\ worker'.at = "jit" /\ worker'.runner = n
         /\ GenerateJIT(n) => worker.at = "jit" /\ worker'.at = "starting" /\ worker'.runner = n
         /\ GenerateJITFails(n) => worker.at = "jit" /\ worker'.at = "failing" /\ worker'.runner = n
         /\ ProviderStarts(n) => worker.at = "starting" /\ worker'.at = "marking" /\ worker'.runner = n
         /\ ProviderStartFails(n) => worker.at = "starting" /\ worker'.at = "failing" /\ worker'.runner = n
         /\ DropProvision(n) => worker.at = "failing" /\ worker'.at = "asleep" /\ worker'.runner = NoName
         /\ MarkStarted(n) => /\ worker.at = "marking" /\ worker'.runner = n
                              /\ IF n \in Tracked THEN worker'.at \in {"launched", "succeeding"}
                                                  ELSE worker'.at = "orphan"
         /\ RemoveOrphan(n) => worker.at = "orphan" /\ worker'.at = "asleep" /\ worker'.runner = NoName
         /\ RecordStartSuccess(n) => worker.at = "succeeding" /\ worker'.at = "launched" /\ worker'.runner = n
         /\ LaunchedRemoved(n) => worker.at = "launched" /\ worker'.at = "entering" /\ worker'.runner = NoName
         /\ LaunchedDraining(n) => worker.at = "launched" /\ worker'.at = "cleaning" /\ worker'.runner = n
         /\ LaunchedCleaned(n) => worker.at = "cleaning" /\ worker'.at = "asleep" /\ worker'.runner = NoName
         /\ LaunchedWatched(n) => worker.at = "launched" /\ worker'.at = "entering" /\ worker'.runner = NoName
<1> USE WorkerFields DEF Starting, workerGoes, workerSteps, WorkerSteps
<1>1. RecordStartAttempt(n) => worker.at = "reserved" /\ worker'.at = "jit" /\ worker'.runner = n
  BY DEF RecordStartAttempt
<1>2. GenerateJIT(n) => worker.at = "jit" /\ worker'.at = "starting" /\ worker'.runner = n
  BY DEF GenerateJIT
<1>3. GenerateJITFails(n) => worker.at = "jit" /\ worker'.at = "failing" /\ worker'.runner = n
  BY DEF GenerateJITFails
<1>4. ProviderStarts(n) => worker.at = "starting" /\ worker'.at = "marking" /\ worker'.runner = n
  BY DEF ProviderStarts
<1>5. ProviderStartFails(n) => worker.at = "starting" /\ worker'.at = "failing" /\ worker'.runner = n
  BY DEF ProviderStartFails
<1>6. DropProvision(n) => worker.at = "failing" /\ worker'.at = "asleep" /\ worker'.runner = NoName
  BY DEF DropProvision
<1>7. MarkStarted(n) => /\ worker.at = "marking" /\ worker'.runner = n
                        /\ IF n \in Tracked THEN worker'.at \in {"launched", "succeeding"}
                                            ELSE worker'.at = "orphan"
  <2>1. MarkStarted(n) => worker.at = "marking" /\ worker.runner = n
    BY DEF MarkStarted
  <2> QED BY <2>1, WorkerMarks
<1>8. RemoveOrphan(n) => worker.at = "orphan" /\ worker'.at = "asleep" /\ worker'.runner = NoName
  BY DEF RemoveOrphan
<1>9. RecordStartSuccess(n) => worker.at = "succeeding" /\ worker'.at = "launched" /\ worker'.runner = n
  BY DEF RecordStartSuccess
<1>10. LaunchedRemoved(n) => worker.at = "launched" /\ worker'.at = "entering" /\ worker'.runner = NoName
  BY DEF LaunchedRemoved
<1>11. LaunchedDraining(n) => worker.at = "launched" /\ worker'.at = "cleaning" /\ worker'.runner = n
  BY DEF LaunchedDraining
<1>12. LaunchedCleaned(n) => worker.at = "cleaning" /\ worker'.at = "asleep" /\ worker'.runner = NoName
  BY DEF LaunchedCleaned
<1>13. LaunchedWatched(n) => worker.at = "launched" /\ worker'.at = "entering" /\ worker'.runner = NoName
  BY DEF LaunchedWatched
<1> QED BY <1>1, <1>2, <1>3, <1>4, <1>5, <1>6, <1>7, <1>8, <1>9, <1>10, <1>11, <1>12, <1>13

-----------------------------------------------------------------------------
(***************************************************************************)
(* The leases.                                                             *)
(***************************************************************************)

\* The worker names a runner only while it starts it or cleans up after it.
WorkerRunner == worker.at \notin StartSteps \cup {"cleaning"} => worker.runner = NoName

\* A start that went well leaves the lease to the entry, or to Shutdown.
LaunchedLease ==
    worker.at \in {"succeeding", "launched", "cleaning"} /\ worker.runner \in leases =>
       worker.runner \in Tracked \cup detached

DetachedLate == detached # {} => stopper = "removing"

LeaseInv == LeaseHasOwner /\ WorkerRunner /\ LaunchedLease /\ DetachedLate

LEMMA InitLease == Init => LeaseInv
BY DEF Init, InitWith, LeaseInv, LeaseHasOwner, WorkerRunner, LaunchedLease, DetachedLate, WorkerAt

\* A step that keeps leases, worker and stopper, and loses no entry.
LEMMA KeptLease ==
  ASSUME LeaseInv, UNCHANGED <<leases, worker, detached>>, detached # {} => stopper' = stopper,
         \A n \in Names : n \in Tracked => n \in Tracked'
  PROVE  LeaseInv'
<1>1. Tracked \subseteq Tracked'
  BY DEF Tracked
<1> QED BY <1>1 DEF LeaseInv, LeaseHasOwner, WorkerRunner, LaunchedLease, DetachedLate

LEMMA DecidingLease ==
  ASSUME TypeOK, Owned, LeaseInv, Decide PROVE LeaseInv'
<1>1. UNCHANGED <<detached, stopper>>
  BY DecidingFrame DEF stopVars
<1>2. worker.at \notin StartSteps \cup {"cleaning"} /\ worker.runner = NoName
  BY DecidingWorker DEF LeaseInv, WorkerRunner
<1>3. \A l \in leases : (l = NoName /\ worker.at \in {"recheck", "verify"}) \/ l \in Tracked \cup detached
  BY <1>2, NoNameAssumption DEF LeaseInv, LeaseHasOwner
<1>4. ASSUME NEW n \in Names, ReserveName(n) PROVE LeaseInv'
  <2>1. worker'.at = "reserved" /\ worker'.runner = n /\ leases' = (leases \ {NoName}) \cup {n}
    BY <1>4 DEF ReserveName, WorkerAt
  <2>2. Tracked \subseteq Tracked'
    BY <1>4, SplitTypes DEF ReserveName, reserve, InstancesOK, Tracked, Absent
  <2> QED BY <1>1, <1>3, <2>1, <2>2 DEF LeaseInv, LeaseHasOwner, WorkerRunner, LaunchedLease, DetachedLate, StartSteps
<1>5. ASSUME ~\E n \in Names : ReserveName(n) PROVE LeaseInv'
  <2>1. Tracked' = Tracked
    BY <1>5, DecidingAges, SplitTypes DEF Keeps
  <2>2. worker'.at \notin StartSteps \cup {"cleaning"} /\ worker'.runner = NoName
    BY <1>2, <1>5, DecidingWorker
  <2>3. \/ leases' = leases \ {NoName}
        \/ leases' = leases /\ (worker.at \in {"recheck", "verify"} => worker'.at \in {"recheck", "verify"})
        \/ leases' = leases \cup {NoName} /\ worker'.at = "recheck"
    BY <1>5
       DEF Decide, LoopStops, LoopWakes, EnterPass, NothingToClaim, ReadTarget, CompareCount, NothingToTrim,
       CheckSatisfied, ClearSatisfiedRetry, BeginAcquire, CapacityGranted, CapacityAbandoned, RereadTarget,
       AbandonStart, ClaimCleanup, ScaleDown, OnlyWorker, workerGoes, workerSteps, WorkerAt, returnLease
  <2>4. LeaseHasOwner'
    BY <1>1, <1>3, <2>1, <2>3 DEF LeaseHasOwner
  <2> QED BY <1>1, <2>2, <2>4 DEF LeaseInv, WorkerRunner, LaunchedLease, DetachedLate, StartSteps
<1> QED BY <1>4, <1>5

LEMMA StartingLease ==
  ASSUME TypeOK, Owned, LeaseInv, NEW n \in Names, Start(n) PROVE LeaseInv'
<1>1. /\ UNCHANGED <<detached, stopper>>
      /\ worker.runner = n /\ n # NoName /\ worker.at \in StartSteps \cup {"cleaning"}
  BY StartingFrame, NoNameAssumption DEF stopVars
<1>2. \A l \in leases : l \in Tracked \cup detached \/ l = n
  BY <1>1 DEF LeaseInv, LeaseHasOwner, StartSteps
<1>3. DetachedLate'
  BY <1>1 DEF LeaseInv, DetachedLate
<1>4. CASE DropProvision(n)
  <2>1. Tracked \ {n} \subseteq Tracked' /\ leases' = leases \ {n}
    BY <1>4, SplitTypes DEF DropProvision, failProvision, InstancesOK, Tracked
  <2>2. worker'.at = "asleep" /\ worker'.runner = NoName
    BY <1>4, StartingWorker
  <2> QED BY <1>1, <1>2, <1>3, <2>1, <2>2 DEF LeaseInv, LeaseHasOwner, WorkerRunner, LaunchedLease
<1>5. ASSUME ~DropProvision(n) PROVE Tracked' = Tracked
  BY <1>5, StartingAges, SplitTypes DEF TypeOK, WorkerType, Keeps
<1>6. CASE RemoveOrphan(n)
  <2>1. leases' = leases \ {n} /\ worker'.at = "asleep" /\ worker'.runner = NoName
    BY <1>6, StartingWorker DEF RemoveOrphan
  <2>2. Tracked' = Tracked
    BY <1>5, <1>6, StartingWorker
  <2> QED BY <1>1, <1>2, <1>3, <2>1, <2>2 DEF LeaseInv, LeaseHasOwner, WorkerRunner, LaunchedLease
<1>7. CASE ~DropProvision(n) /\ ~RemoveOrphan(n)
  <2>1. UNCHANGED leases
    BY <1>7 DEF Start, RecordStartAttempt, GenerateJIT, GenerateJITFails, ProviderStarts, ProviderStartFails,
                MarkStarted, RecordStartSuccess, LaunchedRemoved, LaunchedDraining, LaunchedCleaned, LaunchedWatched
  <2>2. \/ /\ worker'.runner = n /\ worker'.at \in StartSteps \cup {"cleaning"}
           /\ \/ worker'.at \notin {"succeeding", "launched", "cleaning"}
              \/ worker.at \in {"succeeding", "launched", "cleaning"}
              \/ n \in Tracked
        \/ /\ worker'.runner = NoName /\ worker'.at \notin StartSteps \cup {"cleaning"}
           /\ worker.at \in {"succeeding", "launched", "cleaning"}
    BY <1>7, StartingWorker DEF Start, StartSteps
  <2>3. worker.at \in {"succeeding", "launched", "cleaning"} /\ n \in leases => n \in Tracked \cup detached
    BY <1>1 DEF LeaseInv, LaunchedLease
  <2> QED BY <1>1, <1>2, <1>3, <1>5, <1>7, <2>1, <2>2, <2>3
          DEF LeaseInv, LeaseHasOwner, WorkerRunner, LaunchedLease, StartSteps
<1> QED BY <1>4, <1>6, <1>7

LEMMA StoppingLease ==
  ASSUME TypeOK, Owned, LeaseInv, Stop PROVE LeaseInv'
<1>1. UNCHANGED worker
  BY StoppingFrame
<1>2. CASE ShutdownDetaches
  <2>1. /\ stopper = "detaching" /\ stopper' = "removing" /\ detached = {}
        /\ leases' = leases \ (Tracked \ detached')
    BY <1>2 DEF ShutdownDetaches, LeaseInv, DetachedLate
  <2> QED BY <1>1, <2>1 DEF LeaseInv, LeaseHasOwner, WorkerRunner, LaunchedLease, DetachedLate
<1>3. ASSUME NEW n \in Names, ShutdownRemoves(n) PROVE LeaseInv'
  <2>1. /\ UNCHANGED <<instances, stopper>> /\ stopper = "removing"
        /\ leases' = leases \ {n} /\ detached' = detached \ {n}
    BY <1>3 DEF ShutdownRemoves
  <2>2. Tracked' = Tracked
    BY <2>1 DEF Tracked
  <2> QED BY <1>1, <2>1, <2>2 DEF LeaseInv, LeaseHasOwner, WorkerRunner, LaunchedLease, DetachedLate
<1>4. ASSUME ~ShutdownDetaches, ~\E n \in Names : ShutdownRemoves(n) PROVE LeaseInv'
  <2>1. Tracked' = Tracked
    BY <1>4, StoppingAges, SplitTypes DEF Keeps
  <2>2. UNCHANGED <<leases, detached>> /\ (stopper = "removing" => detached = {} \/ stopper' = stopper)
    BY <1>4
       DEF Stop, DrainBegins, DrainStopsWork, DrainBoundary, DrainCompletes, DrainExpires, SessionEnds,
           ShutdownBegins, ShutdownStopsWork, ShutdownEnds, DrainClaims, stopVars
  <2> QED BY <1>1, <2>1, <2>2, KeptLease DEF LeaseInv, DetachedLate
<1> QED BY <1>2, <1>3, <1>4

LEMMA NextLease ==
  ASSUME TypeOK, Owned, LeaseInv, [Next]_vars PROVE LeaseInv'
<1>1. CASE UNCHANGED vars
  BY <1>1, KeptLease, NoChange DEF vars, stopVars, Keeps
<1>2. CASE Bystanders
  BY <1>2, BystandersFrame, BystandersAge, SplitTypes, KeptLease DEF stopVars, Keeps
<1>3. ASSUME NEW n \in Names, Clean(n) PROVE LeaseInv'
  <2>1. UNCHANGED <<worker, detached, stopper>>
    BY <1>3, CleaningFrame DEF stopVars
  <2>2. \/ Tracked' = Tracked /\ UNCHANGED leases
        \/ Tracked' = Tracked \ {n} /\ leases' = leases \ {n}
    BY <1>3, CleaningTracks, SplitTypes
  <2> QED BY <2>1, <2>2 DEF LeaseInv, LeaseHasOwner, WorkerRunner, LaunchedLease, DetachedLate
<1> QED BY <1>1, <1>2, <1>3, DecidingLease, StartingLease, StoppingLease DEF Next, Over, Bystanders

\* No lease leaks, whatever fails, is refused or is cut short: each belongs to an
\* instance in the map or in Shutdown's hands, or to the worker's present start.
THEOREM LeaseHasOwnerHolds == Spec => []LeaseHasOwner
<1>1. Init => LeaseInv
  BY InitLease
<1>2. IInv /\ LeaseInv /\ [Next]_vars => LeaseInv'
  BY NextLease DEF IInv
<1>3. LeaseInv => LeaseHasOwner
  BY DEF LeaseInv
<1> QED BY <1>1, <1>2, <1>3, Inductive, PTL DEF Spec

-----------------------------------------------------------------------------
(***************************************************************************)
(* What each operation on the map leaves in it.                            *)
(***************************************************************************)

\* The entry of n alone changes, to one with this phase, removal reason,
\* instance ID, cleanup in flight and back-off.
Edit(n, phase, reason, id, inFlight, backoff) ==
    /\ \A m \in Names \ {n} : instances'[m] = instances[m]
    /\ instances'[n].phase = phase
    /\ instances'[n].reason = reason
    /\ instances'[n].id = id
    /\ instances'[n].inFlight = inFlight
    /\ instances'[n].backoff = backoff

LEMMA EditByEntry ==
  ASSUME InstancesOK, NEW n \in Names, NEW e \in InstanceType, instances' = [instances EXCEPT ![n] = e]
  PROVE  Edit(n, e.phase, e.reason, e.id, e.inFlight, e.backoff)
BY DEF InstancesOK, Edit

LEMMA StartEdits ==
  ASSUME InstancesOK, NEW n \in Names, NEW known \in BOOLEAN, NEW phase \in InstancePhases
  PROVE  /\ reserve(n) => Edit(n, "provisioning", "none", FALSE, FALSE, FALSE)
         /\ failProvision(n) =>
              \/ UNCHANGED instances
              \/ /\ n \in Tracked /\ ~instances[n].id
                 /\ Edit(n, "absent", "none", FALSE, FALSE, FALSE)
         /\ markStarted(n, known, phase) =>
              Edit(n, IF instances[n].phase = "provisioning" THEN phase ELSE instances[n].phase,
                   instances[n].reason, TRUE, instances[n].inFlight, instances[n].backoff)
<1>1. reserve(n) => Edit(n, "provisioning", "none", FALSE, FALSE, FALSE)
  BY DEF reserve, Absent, InstancesOK, Edit
<1>2. failProvision(n) =>
        \/ UNCHANGED instances
        \/ n \in Tracked /\ ~instances[n].id /\ Edit(n, "absent", "none", FALSE, FALSE, FALSE)
  BY DEF failProvision, Absent, InstancesOK, Edit
<1>3. ASSUME markStarted(n, known, phase)
      PROVE  Edit(n, IF instances[n].phase = "provisioning" THEN phase ELSE instances[n].phase,
                  instances[n].reason, TRUE, instances[n].inFlight, instances[n].backoff)
  <2> DEFINE e == [instances[n] EXCEPT
                  !.id = TRUE, !.runnerID = known,
                  !.phase = IF @ = "provisioning" THEN phase ELSE @]
  <2>1. instances' = [instances EXCEPT ![n] = e]
    BY <1>3 DEF InstancesOK, markStarted
  <2>2. /\ e.phase = (IF instances[n].phase = "provisioning" THEN phase ELSE instances[n].phase)
        /\ e.reason = instances[n].reason /\ e.id = TRUE
        /\ e.inFlight = instances[n].inFlight /\ e.backoff = instances[n].backoff
    BY DEF InstancesOK, InstanceType
  <2> QED BY <2>1, <2>2 DEF InstancesOK, Edit
<1> QED BY <1>1, <1>2, <1>3

LEMMA JobEdits ==
  ASSUME InstancesOK, NEW n \in Names, NEW reason \in Reasons
  PROVE  /\ markBusy(n) =>
              Edit(n, IF n \in Removing THEN "removing" ELSE "busy", instances[n].reason,
                   instances[n].id, instances[n].inFlight, instances[n].backoff)
         /\ markDone(n, reason) =>
              Edit(n, "removing", reason, instances[n].id, instances[n].inFlight, instances[n].backoff)
         /\ markExited(n) =>
              Edit(n, "removing", "exited", instances[n].id, instances[n].inFlight, instances[n].backoff)
<1>1. ASSUME markBusy(n)
      PROVE  Edit(n, IF n \in Removing THEN "removing" ELSE "busy", instances[n].reason,
                  instances[n].id, instances[n].inFlight, instances[n].backoff)
  <2> DEFINE e == [instances[n] EXCEPT !.phase = IF n \in Removing THEN @ ELSE "busy",
                                       !.job = TRUE, !.worked = TRUE]
  <2>1. instances' = [instances EXCEPT ![n] = e]
    BY <1>1 DEF InstancesOK, markBusy
  <2>2. /\ e.phase = (IF n \in Removing THEN "removing" ELSE "busy")
        /\ e.reason = instances[n].reason /\ e.id = instances[n].id
        /\ e.inFlight = instances[n].inFlight /\ e.backoff = instances[n].backoff
    BY DEF InstancesOK, InstanceType, Removing
  <2> QED BY <2>1, <2>2 DEF InstancesOK, Edit
<1>2. ASSUME markDone(n, reason)
      PROVE  Edit(n, "removing", reason, instances[n].id, instances[n].inFlight, instances[n].backoff)
  <2> DEFINE e == [instances[n] EXCEPT !.phase = "removing", !.reason = reason,
                                       !.worked = @ \/ reason = "job-completed"]
  <2>1. instances' = [instances EXCEPT ![n] = e]
    BY <1>2 DEF InstancesOK, markDone
  <2>2. /\ e.phase = "removing" /\ e.reason = reason /\ e.id = instances[n].id
        /\ e.inFlight = instances[n].inFlight /\ e.backoff = instances[n].backoff
    BY DEF InstancesOK, InstanceType
  <2> QED BY <2>1, <2>2 DEF InstancesOK, Edit
<1>3. ASSUME markExited(n)
      PROVE  Edit(n, "removing", "exited", instances[n].id, instances[n].inFlight, instances[n].backoff)
  <2> DEFINE e == [instances[n] EXCEPT !.phase = "removing", !.reason = "exited"]
  <2>1. instances' = [instances EXCEPT ![n] = e]
    BY <1>3 DEF InstancesOK, markExited
  <2>2. /\ e.phase = "removing" /\ e.reason = "exited" /\ e.id = instances[n].id
        /\ e.inFlight = instances[n].inFlight /\ e.backoff = instances[n].backoff
    BY DEF InstancesOK, InstanceType
  <2> QED BY <2>1, <2>2 DEF InstancesOK, Edit
<1> QED BY <1>1, <1>2, <1>3

LEMMA ReadinessEdits ==
  ASSUME InstancesOK, NEW n \in Names
  PROVE  /\ readinessResult(n, TRUE) =>
              Edit(n, "removing", "readiness-failed", instances[n].id, instances[n].inFlight, instances[n].backoff)
         /\ readinessResult(n, FALSE) =>
              Edit(n, "idle", instances[n].reason, instances[n].id, instances[n].inFlight, instances[n].backoff)
         /\ markIdleAboveTarget(n) =>
              /\ n \in Idle
              /\ Edit(n, "removing", "scaled-down", instances[n].id, instances[n].inFlight, instances[n].backoff)
<1> DEFINE e(p, r) == [instances[n] EXCEPT !.phase = p, !.reason = r]
<1>1. \A p, r : /\ e(p, r).phase = p /\ e(p, r).reason = r /\ e(p, r).id = instances[n].id
                /\ e(p, r).inFlight = instances[n].inFlight /\ e(p, r).backoff = instances[n].backoff
  BY DEF InstancesOK, InstanceType
<1>2. readinessResult(n, TRUE) => instances' = [instances EXCEPT ![n] = e("removing", "readiness-failed")]
  BY DEF InstancesOK, readinessResult
<1>3. markIdleAboveTarget(n) => n \in Idle /\ instances' = [instances EXCEPT ![n] = e("removing", "scaled-down")]
  BY DEF InstancesOK, markIdleAboveTarget
<1>4. readinessResult(n, FALSE) =>
        Edit(n, "idle", instances[n].reason, instances[n].id, instances[n].inFlight, instances[n].backoff)
  BY DEF InstancesOK, InstanceType, readinessResult, Edit
<1>5. ASSUME NEW p, NEW r, instances' = [instances EXCEPT ![n] = e(p, r)]
      PROVE  Edit(n, p, r, instances[n].id, instances[n].inFlight, instances[n].backoff)
  BY <1>1, <1>5 DEF InstancesOK, Edit
<1> HIDE DEF e
<1> QED BY <1>2, <1>3, <1>4, <1>5

LEMMA RemovalEdits ==
  ASSUME InstancesOK, NEW n \in Names
  PROVE  /\ claimRemoval(n) =>
              /\ n \in Claimable
              /\ Edit(n, "removing", instances[n].reason, instances[n].id, TRUE, instances[n].backoff)
         /\ restoreBusy(n) => Edit(n, "busy", "none", instances[n].id, FALSE, FALSE)
         /\ retryRemoval(n) =>
              Edit(n, instances[n].phase, instances[n].reason, instances[n].id, FALSE, TRUE)
         /\ cleanupRetryDue(n) =>
              /\ instances[n].backoff
              /\ Edit(n, instances[n].phase, instances[n].reason, instances[n].id, instances[n].inFlight, FALSE)
         /\ finishRemoval(n) => Edit(n, "absent", "none", FALSE, FALSE, FALSE)
<1>1. claimRemoval(n) =>
        /\ n \in Claimable
        /\ Edit(n, "removing", instances[n].reason, instances[n].id, TRUE, instances[n].backoff)
  BY DEF InstancesOK, InstanceType, claimRemoval, Claimable, Removing, Edit
<1>2. ASSUME restoreBusy(n) PROVE Edit(n, "busy", "none", instances[n].id, FALSE, FALSE)
  <2> DEFINE e == [instances[n] EXCEPT !.phase = "busy", !.worked = TRUE, !.reason = "none",
                                       !.inFlight = FALSE, !.backoff = FALSE]
  <2>1. instances' = [instances EXCEPT ![n] = e]
    BY <1>2 DEF InstancesOK, restoreBusy
  <2>2. e.phase = "busy" /\ e.reason = "none" /\ e.id = instances[n].id /\ e.inFlight = FALSE /\ e.backoff = FALSE
    BY DEF InstancesOK, InstanceType
  <2> QED BY <2>1, <2>2 DEF InstancesOK, Edit
<1>3. ASSUME retryRemoval(n)
      PROVE  Edit(n, instances[n].phase, instances[n].reason, instances[n].id, FALSE, TRUE)
  <2> DEFINE e == [instances[n] EXCEPT !.inFlight = FALSE, !.backoff = TRUE]
  <2>1. instances' = [instances EXCEPT ![n] = e]
    BY <1>3 DEF InstancesOK, retryRemoval
  <2>2. /\ e.phase = instances[n].phase /\ e.reason = instances[n].reason /\ e.id = instances[n].id
        /\ e.inFlight = FALSE /\ e.backoff = TRUE
    BY DEF InstancesOK, InstanceType
  <2> QED BY <2>1, <2>2 DEF InstancesOK, Edit
<1>4. cleanupRetryDue(n) =>
        /\ instances[n].backoff
        /\ Edit(n, instances[n].phase, instances[n].reason, instances[n].id, instances[n].inFlight, FALSE)
  BY DEF InstancesOK, InstanceType, cleanupRetryDue, Edit
<1>5. finishRemoval(n) => Edit(n, "absent", "none", FALSE, FALSE, FALSE)
  BY DEF InstancesOK, finishRemoval, Absent, Edit
<1> QED BY <1>1, <1>2, <1>3, <1>4, <1>5

LEMMA BoundaryEdits ==
  ASSUME InstancesOK, NEW n \in Names
  PROVE  /\ idleForRemoval =>
              /\ instances[n].phase \in {"idle", "provisioning"} =>
                   /\ instances'[n].phase = "removing" /\ instances'[n].reason = "drain"
                   /\ instances'[n].id = instances[n].id /\ instances'[n].inFlight = instances[n].inFlight
                   /\ instances'[n].backoff = instances[n].backoff
              /\ instances[n].phase \notin {"idle", "provisioning"} => instances'[n] = instances[n]
         /\ detachAll => /\ instances'[n].phase = "absent" /\ instances'[n].reason = "none"
                         /\ ~instances'[n].id /\ ~instances'[n].inFlight /\ ~instances'[n].backoff
<1>1. detachAll => /\ instances'[n].phase = "absent" /\ instances'[n].reason = "none"
                   /\ ~instances'[n].id /\ ~instances'[n].inFlight /\ ~instances'[n].backoff
  BY DEF detachAll, Absent
<1>2. idleForRemoval =>
         instances'[n] = IF instances[n].phase \in {"idle", "provisioning"}
                         THEN [instances[n] EXCEPT !.phase = "removing", !.reason = "drain"]
                         ELSE instances[n]
  BY DEF idleForRemoval
<1> QED BY <1>1, <1>2 DEF InstancesOK, InstanceType

\* The edits each goroutine makes.
LEMMA ListeningEdits ==
  ASSUME Listen
  PROVE  \/ UNCHANGED instances
         \/ \E n \in Names : HandleJobStarted(n) /\ acceptsJob(n) /\ markBusy(n)
         \/ \E n \in Names : HandleJobCompleted(n) /\ acceptsDone(n, "job-completed") /\ markDone(n, "job-completed")
BY DEF Listen, PendCompletion, SignalCompletion, SignalDesired, HandleDesiredRunnerCount,
       HandleJobStarted, HandleJobCompleted

LEMMA ObservingEdits ==
  ASSUME NEW o \in Observers, Observe(o)
  PROVE  /\ o[1] \in Names /\ o \in Names \X ObserverKinds
         /\ \/ UNCHANGED instances
            \/ MarkExited(o) /\ acceptsExit(o[1]) /\ markExited(o[1])
            \/ ReportReady(o) /\ acceptsReadiness(o[1]) /\ readinessResult(o[1], FALSE)
            \/ ReportUnready(o) /\ acceptsReadiness(o[1]) /\ readinessResult(o[1], TRUE)
<1>1. o[1] \in Names /\ o \in Names \X ObserverKinds
  BY DEF Observers
<1> QED BY <1>1
    DEF Observe, ObserverCancelled, ObserveExit, MarkExited, RaiseBarrier, ReportReady,
        ReportUnready, ObservedSuccess, ObservedFailure, ObserverSignals

LEMMA BystandingEdits ==
  ASSUME Bystanders
  PROVE  \/ UNCHANGED instances
         \/ \E n \in Names : HandleJobStarted(n) /\ acceptsJob(n) /\ markBusy(n)
         \/ \E n \in Names : HandleJobCompleted(n) /\ acceptsDone(n, "job-completed") /\ markDone(n, "job-completed")
         \/ \E n \in Names : CleanupDeadlinePasses(n) /\ cleanupRetryDue(n)
         \/ \E o \in Observers :
               \/ MarkExited(o) /\ acceptsExit(o[1]) /\ markExited(o[1])
               \/ ReportReady(o) /\ acceptsReadiness(o[1]) /\ readinessResult(o[1], FALSE)
               \/ ReportUnready(o) /\ acceptsReadiness(o[1]) /\ readinessResult(o[1], TRUE)
<1>1. ASSUME NEW n \in Names, World(n) PROVE UNCHANGED instances
  BY <1>1 DEF World, JobAssigned, JobEnds, ProcessExits, ProcessCrashes, Outside
<1>2. CASE RetryDeadlinePasses \/ RetryTimerFires \/ \E n \in Names : CleanupTimerFires(n)
  BY <1>2 DEF RetryDeadlinePasses, RetryTimerFires, CleanupTimerFires
<1>3. ASSUME NEW n \in Names, CleanupDeadlinePasses(n) PROVE cleanupRetryDue(n)
  BY <1>3 DEF CleanupDeadlinePasses
<1> QED BY <1>1, <1>2, <1>3, ListeningEdits, ObservingEdits DEF Bystanders

LEMMA DecidingEdits ==
  ASSUME Decide
  PROVE  \/ UNCHANGED instances
         \/ \E n \in Names : \/ ClaimCleanup(n) /\ claimRemoval(n)
                             \/ ScaleDown(n) /\ canTrim(worker.target) /\ markIdleAboveTarget(n)
                             \/ ReserveName(n) /\ reserve(n)
BY DEF Decide, LoopStops, LoopWakes, EnterPass, NothingToClaim, ReadTarget, CompareCount, NothingToTrim,
       CheckSatisfied, ClearSatisfiedRetry, BeginAcquire, CapacityGranted, CapacityAbandoned, RereadTarget,
       AbandonStart, OnlyWorker, ClaimCleanup, ScaleDown, ReserveName

LEMMA StartingEdits ==
  ASSUME TypeOK, NEW n \in Names, Start(n)
  PROVE  \/ UNCHANGED instances
         \/ DropProvision(n) /\ failProvision(n)
         \/ /\ MarkStarted(n) /\ n \in Tracked /\ worker.known \in BOOLEAN
            /\ markStarted(n, worker.known, "provisioning") \/ markStarted(n, worker.known, "idle")
         \/ LaunchedDraining(n) /\ ~worker.removeNow /\ acceptsDone(n, "drain") /\ markDone(n, "drain")
<1>1. worker.known \in BOOLEAN
  BY DEF TypeOK, WorkerType
<1> QED BY <1>1
   DEF Start, RecordStartAttempt, GenerateJIT, GenerateJITFails, ProviderStarts, ProviderStartFails,
       DropProvision, MarkStarted, markProvisioned, markReady, RemoveOrphan, RecordStartSuccess,
       LaunchedRemoved, LaunchedDraining, LaunchedCleaned, LaunchedWatched

LEMMA CleaningEdits ==
  ASSUME NEW n \in Names, Clean(n)
  PROVE  \/ UNCHANGED instances
         \/ canRetry(n) /\ retryRemoval(n) /\ removalFails(n)
         \/ Refused(n) /\ deregistrationNeeded(n) /\ restoreBusy(n)
         \/ FinishRemoval(n) /\ canFinish(n) /\ finishRemoval(n)
BY DEF Clean, LookUpRunner, AskGitHub, Refused, SignalRestored, RemoveInstance, FinishRemoval, SignalRemoved,
       removalFails

LEMMA StoppingEdits ==
  ASSUME Stop
  PROVE  \/ UNCHANGED instances
         \/ DrainBoundary /\ idleForRemoval
         \/ ShutdownDetaches /\ detachAll
         \/ \E n \in Names : DrainClaims(n) /\ claimRemoval(n)
BY DEF Stop, DrainBegins, DrainStopsWork, DrainBoundary, DrainCompletes, DrainExpires, SessionEnds,
       ShutdownBegins, ShutdownStopsWork, ShutdownDetaches, ShutdownEnds, DrainClaims, ShutdownRemoves

-----------------------------------------------------------------------------
(***************************************************************************)
(* What a drain leaves.                                                    *)
(***************************************************************************)

\* Only the worker and the observers bring an instance into service.
Settles == \A m \in Names : instances'[m].phase \in {instances[m].phase, "absent", "busy", "removing"}

LEMMA SettlesLemma ==
  ASSUME InstancesOK
  PROVE  /\ UNCHANGED instances => Settles
         /\ Listen => Settles
         /\ \A n \in Names : Clean(n) \/ CleanupDeadlinePasses(n) => Settles
         /\ Stop => Settles
<1>1. ASSUME NEW n \in Names, NEW p \in {instances[n].phase, "absent", "busy", "removing"}, NEW r, NEW i, NEW f, NEW b,
             Edit(n, p, r, i, f, b)
      PROVE  Settles
  BY <1>1 DEF Edit, Settles
<1>2. UNCHANGED instances => Settles
  BY DEF Settles
<1>3. ASSUME Listen PROVE Settles
  <2>1. ASSUME NEW n \in Names, markBusy(n) PROVE Settles
    BY <1>1, <2>1, JobEdits DEF Reasons
  <2>2. ASSUME NEW n \in Names, markDone(n, "job-completed") PROVE Settles
    BY <1>1, <2>2, JobEdits DEF Reasons
  <2> QED BY <1>2, <1>3, <2>1, <2>2, ListeningEdits
<1>4. ASSUME NEW n \in Names, Clean(n) PROVE Settles
  BY <1>1, <1>2, <1>4, CleaningEdits, RemovalEdits
<1>5. ASSUME NEW n \in Names, CleanupDeadlinePasses(n) PROVE Settles
  BY <1>1, <1>5, RemovalEdits DEF CleanupDeadlinePasses
<1>6. ASSUME Stop PROVE Settles
  <2>1. idleForRemoval \/ detachAll => Settles
    BY BoundaryEdits DEF Settles
  <2>2. ASSUME NEW n \in Names, claimRemoval(n) PROVE Settles
    BY <1>1, <2>2, RemovalEdits
  <2> QED BY <1>2, <1>6, <2>1, <2>2, StoppingEdits
<1> QED BY <1>2, <1>3, <1>4, <1>5, <1>6

\* Past the drain boundary nothing serves without a job, and nobody observes.
Boundary ==
    stopper \in {"sweeping", "drained"} =>
       /\ \A n \in Names : instances[n].phase \notin {"idle", "provisioning"}
       /\ \A o \in Observers : observers[o].at = "none"

DrainInv == Boundary /\ DrainLeavesNothing

LEMMA NextDrain ==
  ASSUME TypeOK, Owned, DrainInv, [Next]_vars PROVE DrainInv'
<1>1. InstancesOK
  BY SplitTypes
<1>2. ASSUME Settles, Tracked' \subseteq Tracked, UNCHANGED <<stopper, observers>> PROVE DrainInv'
  BY <1>2 DEF DrainInv, Boundary, DrainLeavesNothing, Settles
<1>3. CASE UNCHANGED vars
  BY <1>1, <1>2, <1>3, SettlesLemma, NoChange DEF vars, stopVars, taskVars, Keeps
<1>4. CASE stopper \in {"sweeping", "drained"} /\ ~Stop /\ Next
  <2>1. worker.at = "stopped"
    BY <1>4 DEF Owned, StopOrder
  <2>2. \A o \in Observers : observers[o].at = "none"
    BY <1>4 DEF DrainInv, Boundary
  <2>3. ~Decide /\ \A n \in Names : ~Start(n)
    BY <2>1, StartingFrame
       DEF StartSteps, Decide, LoopStops, LoopWakes, EnterPass, NothingToClaim, ReadTarget, CompareCount, NothingToTrim,
       CheckSatisfied, ClearSatisfiedRetry, BeginAcquire, CapacityGranted, CapacityAbandoned, RereadTarget,
       AbandonStart, ClaimCleanup, ScaleDown, ReserveName
  <2>4. \A o \in Observers : ~Observe(o)
    BY <2>2 DEF Observe, ObserverCancelled, ObserveExit, MarkExited, RaiseBarrier, ReportReady,
         ReportUnready, ObservedSuccess, ObservedFailure, ObserverSignals
  <2>5. CASE Bystanders
    <3>1. UNCHANGED stopper /\ Tracked' = Tracked
      BY <1>1, <2>5, BystandersFrame, BystandersAge DEF stopVars, Keeps
    <3>2. Settles
      BY <1>1, <2>4, <2>5, SettlesLemma
         DEF Bystanders, RetryDeadlinePasses, RetryTimerFires, CleanupTimerFires, World, Outside, JobAssigned,
             JobEnds, ProcessExits, ProcessCrashes
    <3>3. UNCHANGED observers \/ observers' = [o \in Observers |-> [observers[o] EXCEPT !.fresh = FALSE]]
      BY <2>4, <2>5, BystandersObserve
    <3>4. \A o \in Observers : observers'[o].at = "none"
      BY <2>2, <3>3 DEF TypeOK, ObserverType
    <3> QED BY <3>1, <3>2, <3>4 DEF DrainInv, Boundary, DrainLeavesNothing, Settles
  <2>6. ASSUME NEW n \in Names, Clean(n) PROVE DrainInv'
    BY <1>1, <1>2, <2>6, SettlesLemma, CleaningFrame, CleaningTracks DEF stopVars
  <2>7. stopper # "over"
    BY <1>4
  <2> QED BY <1>4, <2>3, <2>5, <2>6, <2>7 DEF Next, Over, Bystanders
<1>5. CASE Stop
  <2>1. Settles /\ (Tracked' \subseteq Tracked) /\ UNCHANGED observers
    BY <1>1, <1>5, SettlesLemma, StoppingAges, StoppingFrame DEF Ages, Tracked
  <2>2. CASE DrainBoundary
    <3>1. \A n \in Names : instances'[n].phase \notin {"idle", "provisioning"}
      BY <1>1, <2>2 DEF DrainBoundary, idleForRemoval, InstancesOK, InstanceType
    <3>2. stopper' = "sweeping" /\ \A o \in Observers : observers'[o].at = "none"
      BY <2>1, <2>2 DEF DrainBoundary, Quiet
    <3> QED BY <3>1, <3>2 DEF DrainInv, Boundary, DrainLeavesNothing
  <2>3. CASE DrainCompletes
    <3>1. stopper = "sweeping" /\ Busy = {} /\ Removing = {} /\ UNCHANGED instances
      BY <2>3 DEF DrainCompletes
    <3>2. Tracked = {}
      BY <1>1, <3>1 DEF DrainInv, Boundary, Busy, Removing, Tracked, InstancesOK, InstanceType, InstancePhases
    <3> QED BY <2>1, <3>1, <3>2 DEF DrainInv, Boundary, DrainLeavesNothing
  <2>4. CASE ~DrainBoundary /\ ~DrainCompletes
    <3>1. stopper' \in {"sweeping", "drained"} => stopper' = stopper
      BY <1>5, <2>4
         DEF Stop, DrainBegins, DrainStopsWork, DrainExpires, SessionEnds,
             ShutdownBegins, ShutdownStopsWork, ShutdownDetaches, ShutdownEnds, DrainClaims, ShutdownRemoves, stopVars
    <3> QED BY <2>1, <3>1 DEF DrainInv, Boundary, DrainLeavesNothing, Settles
  <2> QED BY <2>2, <2>3, <2>4
<1>6. CASE stopper \notin {"sweeping", "drained"} /\ ~Stop /\ Next
  <2>1. UNCHANGED stopper
    BY <1>6, BystandersFrame, DecidingFrame, StartingFrame, CleaningFrame
       DEF Next, Over, Bystanders, stopVars, vars
  <2> QED BY <1>6, <2>1 DEF DrainInv, Boundary, DrainLeavesNothing
<1> QED BY <1>3, <1>4, <1>5, <1>6

\* When Drain reports completion, no runner is left that Shutdown would cut off:
\* not one that serves, nor one being removed or on its way up.
THEOREM DrainLeavesNothingHolds == Spec => []DrainLeavesNothing
<1>1. Init => DrainInv
  BY DEF Init, InitWith, DrainInv, Boundary, DrainLeavesNothing
<1>2. IInv /\ DrainInv /\ [Next]_vars => DrainInv'
  BY NextDrain DEF IInv
<1>3. DrainInv => DrainLeavesNothing
  BY DEF DrainInv
<1> QED BY <1>1, <1>2, <1>3, Inductive, PTL DEF Spec

-----------------------------------------------------------------------------
(***************************************************************************)
(* How many runners there are.                                             *)
(***************************************************************************)

\* Every removal has its reason.
RemovalReasons == \A n \in Removing : instances[n].reason # "none"

LEMMA CountedTerminal ==
  /\ InstancesOK /\ RemovalReasons => Counted = {n \in Tracked : ~Terminal(n)}
  /\ InstancesOK' /\ RemovalReasons' => Counted' = {n \in Tracked' : ~Terminal(n)'}
<1>1. ASSUME InstancesOK, RemovalReasons, NEW n \in Tracked
      PROVE  (n \in Removing => IsUnassignedRemoval(n)) <=> ~Terminal(n)
  BY <1>1 DEF Terminal, RemovalReasons, IsUnassignedRemoval, Removing, Tracked, InstancesOK, InstanceType, Reasons
<1>2. ASSUME InstancesOK', RemovalReasons', NEW n \in Tracked'
      PROVE  (n \in Removing' => IsUnassignedRemoval(n)') <=> ~Terminal(n)'
  BY <1>2 DEF Terminal, RemovalReasons, IsUnassignedRemoval, Removing, Tracked, InstancesOK, InstanceType, Reasons
<1> QED BY <1>1, <1>2 DEF Counted

LEMMA NextReasons ==
  ASSUME TypeOK, RemovalReasons, [Next]_vars PROVE RemovalReasons'
<1>1. InstancesOK
  BY SplitTypes
<1>2. CASE UNCHANGED instances
  BY <1>2 DEF RemovalReasons, Removing
<1>3. ASSUME NEW n \in Names, NEW p, NEW r, NEW i, NEW f, NEW b, Edit(n, p, r, i, f, b),
             p = "removing" => r # "none" \/ (instances[n].phase = "removing" /\ r = instances[n].reason)
      PROVE  RemovalReasons'
  BY <1>3 DEF Edit, RemovalReasons, Removing
<1>4. ASSUME NEW n \in Names, NEW reason \in Reasons
      PROVE  /\ markBusy(n) => RemovalReasons'
             /\ markDone(n, reason) /\ reason # "none" => RemovalReasons'
             /\ markExited(n) => RemovalReasons'
  BY <1>1, <1>3, JobEdits DEF Removing
<1>5. ASSUME NEW n \in Names
      PROVE  /\ readinessResult(n, TRUE) \/ readinessResult(n, FALSE) => RemovalReasons'
             /\ markIdleAboveTarget(n) => RemovalReasons'
  BY <1>1, <1>3, ReadinessEdits
<1>6. ASSUME NEW n \in Names
      PROVE  /\ claimRemoval(n) \/ retryRemoval(n) \/ cleanupRetryDue(n) => RemovalReasons'
             /\ restoreBusy(n) \/ finishRemoval(n) => RemovalReasons'
  BY <1>1, <1>3, RemovalEdits DEF Claimable, Removing
<1>7. ASSUME NEW n \in Names, NEW known \in BOOLEAN
      PROVE  /\ reserve(n) \/ failProvision(n) => RemovalReasons'
             /\ markStarted(n, known, "provisioning") \/ markStarted(n, known, "idle") => RemovalReasons'
  BY <1>1, <1>2, <1>3, StartEdits DEF InstancePhases
<1>8. idleForRemoval \/ detachAll => RemovalReasons'
  BY <1>1, BoundaryEdits DEF RemovalReasons, Removing
<1>9. CASE Bystanders
  BY <1>2, <1>4, <1>5, <1>6, <1>9, BystandingEdits, ObservingEdits DEF Reasons, Observers
<1>10. CASE Decide
  BY <1>2, <1>5, <1>6, <1>7, <1>10, DecidingEdits
<1>11. ASSUME NEW n \in Names, Start(n) PROVE RemovalReasons'
  BY <1>2, <1>4, <1>7, <1>11, StartingEdits DEF Reasons
<1>12. ASSUME NEW n \in Names, Clean(n) PROVE RemovalReasons'
  BY <1>2, <1>6, <1>12, CleaningEdits
<1>13. CASE Stop
  BY <1>2, <1>6, <1>8, <1>13, StoppingEdits
<1> QED BY <1>2, <1>9, <1>10, <1>11, <1>12, <1>13 DEF Next, Over, Bystanders, vars

LEMMA InitReasons == Init => RemovalReasons
BY DEF Init, InitWith, initInstances, RemovalReasons, Removing, Absent

\* Why a runner is being removed is fixed when the removal is claimed: one whose
\* process failed to start, was seen to exit or completed its job is never again
\* taken for one that may serve (markDone, markExited, claimRemoval).
THEOREM ReasonsHold == Spec => []RemovalReasons
<1>1. IInv /\ RemovalReasons /\ [Next]_vars => RemovalReasons'
  BY NextReasons DEF IInv
<1> QED BY <1>1, InitReasons, Inductive, PTL DEF Spec

\* The size of a set of runner names.
LEMMA NamesFinite ==
  ASSUME NEW S \in SUBSET Names
  PROVE  IsFiniteSet(S) /\ Cardinality(S) \in Nat
BY NamesAssumption, FS_Subset, FS_CardinalityType

LEMMA NamesCounted ==
  ASSUME NEW S \in SUBSET Names, NEW T \in SUBSET S
  PROVE  Cardinality(T) <= Cardinality(S)
BY NamesFinite, FS_Subset

LEMMA CountNames ==
  /\ Counted \in SUBSET Names /\ count \in Nat
  /\ Counted' \in SUBSET Names /\ count' \in Nat
<1>1. Counted \in SUBSET Names /\ Counted' \in SUBSET Names
  BY DEF Counted, Tracked
<1> QED BY <1>1, NamesFinite DEF count

\* Every step but a reservation lets runners age.
LEMMA EverythingAges ==
  ASSUME TypeOK, [Next]_vars PROVE Ages \/ \E n \in Names : ReserveName(n)
<1>1. InstancesOK /\ worker.known \in BOOLEAN
  BY SplitTypes DEF TypeOK, WorkerType
<1>2. CASE UNCHANGED vars
  BY <1>2, NoChange DEF vars
<1>3. CASE Bystanders
  BY <1>1, <1>3, BystandersAge
<1>4. CASE Decide
  BY <1>1, <1>4, DecidingAges
<1>5. ASSUME NEW n \in Names, Start(n) \/ Clean(n) PROVE Ages
  BY <1>1, <1>5, StartingAges, CleaningAges
<1>6. CASE Stop
  BY <1>1, <1>6, StoppingAges
<1> QED BY <1>2, <1>3, <1>4, <1>5, <1>6 DEF Next, Over, Bystanders

\* An instance that ages comes no closer to being counted.
LEMMA AgesCount ==
  ASSUME TypeOK, TypeOK', RemovalReasons, RemovalReasons', Ages
  PROVE  Counted' \subseteq Counted
<1>1. Counted = {n \in Tracked : ~Terminal(n)}
  BY CountedTerminal, SplitTypes
<1>2. \A n \in Names : Terminal(n) /\ n \in Tracked' => Terminal(n)'
  BY DEF Ages, Terminal
<1>3. \A n \in Names : n \in Tracked' => n \in Tracked
  BY DEF Ages
<1>4. Counted' = {n \in Tracked' : ~Terminal(n)'} /\ Tracked' \subseteq Names
  BY CountedTerminal, SplitTypes DEF Tracked
<1> QED BY <1>1, <1>2, <1>3, <1>4

\* However early a runner is replaced, and whatever removals GitHub makes the
\* controller take back, the runners that may serve stay within max-runners.
THEOREM WithinMaxRunnersHolds == Spec => []WithinMaxRunners
<1>1. Init => WithinMaxRunners
  <2>1. Init => Counted = {}
    BY DEF Init, InitWith, initInstances, Counted, Tracked, Absent
  <2> QED BY <2>1, FS_EmptySet, SizesAssumption DEF WithinMaxRunners, count
<1>2. ASSUME TypeOK, TypeOK', RemovalReasons, RemovalReasons', WithinMaxRunners, [Next]_vars
      PROVE  WithinMaxRunners'
  <2>1. CASE Ages
    <3>1. count' <= count
      BY <1>2, <2>1, AgesCount, CountNames, NamesCounted DEF count
    <3> QED BY <1>2, <3>1, CountNames, SizesAssumption DEF WithinMaxRunners
  <2>2. ASSUME NEW n \in Names, ReserveName(n) PROVE WithinMaxRunners'
    <3>1. count < worker.target /\ worker.target \in 0 .. MaxRunners
      BY <1>2, <2>2 DEF ReserveName, MayStart, TypeOK, WorkerType
    <3>2. Counted' \subseteq Counted \cup {n}
      <4>1. Edit(n, "provisioning", "none", FALSE, FALSE, FALSE)
        BY <1>2, <2>2, StartEdits, SplitTypes DEF ReserveName, InstancePhases
      <4> QED BY <4>1 DEF Edit, Counted, Tracked, Removing, IsUnassignedRemoval
    <3>3. Cardinality(Counted \cup {n}) <= count + 1
      BY CountNames, NamesFinite, FS_AddElement DEF count
    <3>4. count' <= Cardinality(Counted \cup {n}) /\ Cardinality(Counted \cup {n}) \in Nat
      BY <3>2, CountNames, NamesCounted, NamesFinite DEF count
    <3> QED BY <3>1, <3>3, <3>4, CountNames, SizesAssumption DEF WithinMaxRunners
  <2> QED BY <1>2, <2>1, <2>2, EverythingAges
<1>3. IInv => TypeOK
  BY DEF IInv
<1> QED BY <1>1, <1>2, <1>3, Inductive, ReasonsHold, PTL DEF Spec

-----------------------------------------------------------------------------
(***************************************************************************)
(* Who moves what.                                                         *)
(***************************************************************************)

\* The kinds of step there are.
LEMMA StepKinds ==
  ASSUME [Next]_vars
  PROVE  \/ UNCHANGED vars
         \/ Bystanders \/ Decide \/ Stop
         \/ \E n \in Names : Start(n) \/ Clean(n)
BY DEF Next, Over, Bystanders

\* A name is taken, then registered; GitHub gives its runner a job and ends it,
\* or takes it off its list when a cleanup asks.
LEMMA GitHubMoves ==
  ASSUME TypeOK, [Next]_vars, NEW m \in Names
  PROVE  \/ github'[m] = github[m]
         \/ github[m] = "unused" /\ github'[m] = "absent" /\ ReserveName(m)
         \/ StartingOf(m) /\ worker.at = "jit" /\ Start(m) /\ worker'.at \in {"starting", "failing"} /\ github'[m] \in {"absent", "registered"}
         \/ github[m] = "registered" /\ github'[m] = "working"
         \/ github[m] = "working" /\ github'[m] = "finished"
         \/ github[m] = "registered" /\ github'[m] = "absent" /\ cleanup[m].at = "asking"
<1> DEFINE Moved ==
      \/ github'[m] = github[m]
      \/ github[m] = "unused" /\ github'[m] = "absent" /\ ReserveName(m)
      \/ StartingOf(m) /\ worker.at = "jit" /\ Start(m) /\ worker'.at \in {"starting", "failing"} /\ github'[m] \in {"absent", "registered"}
      \/ github[m] = "registered" /\ github'[m] = "working"
      \/ github[m] = "working" /\ github'[m] = "finished"
      \/ github[m] = "registered" /\ github'[m] = "absent" /\ cleanup[m].at = "asking"
<1>1. CASE UNCHANGED github
  BY <1>1
<1>2. ASSUME NEW n \in Names, World(n) PROVE Moved
  BY <1>2 DEF World, JobAssigned, JobEnds, ProcessExits, ProcessCrashes, TypeOK
<1>3. CASE Bystanders
  <2>1. Listen => UNCHANGED github
    BY DEF Listen, PendCompletion, SignalCompletion, SignalDesired, HandleDesiredRunnerCount,
           HandleJobStarted, HandleJobCompleted, Listening
  <2>2. \A o \in Observers : Observe(o) => UNCHANGED github
    BY DEF Observe, ObserverCancelled, ObserveExit, MarkExited, RaiseBarrier, ReportReady,
           ReportUnready, ObservedSuccess, ObservedFailure, ObserverSignals, Observing
  <2>3. /\ RetryDeadlinePasses \/ RetryTimerFires => UNCHANGED github
        /\ \A n \in Names : CleanupDeadlinePasses(n) \/ CleanupTimerFires(n) => UNCHANGED github
    BY DEF RetryDeadlinePasses, RetryTimerFires, CleanupDeadlinePasses, CleanupTimerFires, Waiting, worldVars
  <2> QED BY <1>1, <1>2, <1>3, <2>1, <2>2, <2>3 DEF Bystanders
<1>4. CASE Decide
  <2>1. ASSUME NEW n \in Names, ReserveName(n) PROVE Moved
    BY <2>1 DEF ReserveName, TypeOK
  <2> QED BY <1>1, <1>4, <2>1, DecidingFrame
<1>5. ASSUME NEW n \in Names, Start(n) PROVE Moved
  <2>1. CASE GenerateJIT(n) \/ GenerateJITFails(n)
    <3>1. worker.at = "jit" /\ worker.runner = n /\ worker'.at \in {"starting", "failing"}
      BY <1>5, <2>1, StartingWorker, StartingFrame
    <3> QED BY <1>5, <2>1, <3>1 DEF GenerateJIT, GenerateJITFails, StartingOf, StartSteps, TypeOK
  <2>2. ~GenerateJIT(n) /\ ~GenerateJITFails(n) => UNCHANGED github
    BY <1>5 DEF Start, RecordStartAttempt, ProviderStarts, ProviderStartFails, DropProvision, MarkStarted,
                RemoveOrphan, RecordStartSuccess, LaunchedRemoved, LaunchedDraining, LaunchedCleaned, LaunchedWatched
  <2> QED BY <1>1, <2>1, <2>2
<1>6. ASSUME NEW n \in Names, Clean(n) PROVE Moved
  <2>1. CASE AskGitHub(n)
    BY <2>1 DEF AskGitHub, TypeOK
  <2>2. ~AskGitHub(n) => UNCHANGED github
    BY <1>6 DEF Clean, LookUpRunner, Refused, SignalRestored, RemoveInstance, FinishRemoval, SignalRemoved
  <2> QED BY <1>1, <2>1, <2>2
<1> QED BY <1>1, <1>3, <1>4, <1>5, <1>6, StepKinds, StoppingFrame DEF vars, worldVars

\* The provider starts an instance, it exits, it is removed.
LEMMA ProcessMoves ==
  ASSUME TypeOK, [Next]_vars, NEW m \in Names
  PROVE  \/ process'[m] = process[m]
         \/ StartingOf(m) /\ worker.at = "starting" /\ worker'.at \in {"marking", "failing"}
         \/ process[m] = "up" /\ process'[m] = "exited"
         \/ process'[m] = "none" /\ (RemoveInstance(m) \/ RemoveOrphan(m) \/ ShutdownRemoves(m))
<1> DEFINE Moved ==
         \/ process'[m] = process[m]
         \/ StartingOf(m) /\ worker.at = "starting" /\ worker'.at \in {"marking", "failing"}
         \/ process[m] = "up" /\ process'[m] = "exited"
         \/ process'[m] = "none" /\ (RemoveInstance(m) \/ RemoveOrphan(m) \/ ShutdownRemoves(m))
<1>1. CASE UNCHANGED process
  BY <1>1
<1>2. ASSUME NEW n \in Names, World(n) PROVE Moved
  BY <1>2 DEF World, JobAssigned, JobEnds, ProcessExits, ProcessCrashes, TypeOK
<1>3. CASE Bystanders
  <2>1. Listen => UNCHANGED process
    BY DEF Listen, PendCompletion, SignalCompletion, SignalDesired, HandleDesiredRunnerCount,
           HandleJobStarted, HandleJobCompleted, Listening
  <2>2. \A o \in Observers : Observe(o) => UNCHANGED process
    BY DEF Observe, ObserverCancelled, ObserveExit, MarkExited, RaiseBarrier, ReportReady,
           ReportUnready, ObservedSuccess, ObservedFailure, ObserverSignals, Observing
  <2>3. /\ RetryDeadlinePasses \/ RetryTimerFires => UNCHANGED process
        /\ \A n \in Names : CleanupDeadlinePasses(n) \/ CleanupTimerFires(n) => UNCHANGED process
    BY DEF RetryDeadlinePasses, RetryTimerFires, CleanupDeadlinePasses, CleanupTimerFires, Waiting, worldVars
  <2> QED BY <1>1, <1>2, <1>3, <2>1, <2>2, <2>3 DEF Bystanders
<1>4. ASSUME NEW n \in Names, Start(n) PROVE Moved
  <2>1. CASE ProviderStarts(n) \/ ProviderStartFails(n)
    <3>1. worker.at = "starting" /\ worker.runner = n /\ worker'.at \in {"marking", "failing"}
      BY <1>4, <2>1, StartingWorker, StartingFrame
    <3> QED BY <2>1, <3>1 DEF ProviderStarts, ProviderStartFails, StartingOf, StartSteps, TypeOK
  <2>2. CASE RemoveOrphan(n)
    BY <2>2 DEF RemoveOrphan, TypeOK
  <2>3. ~ProviderStarts(n) /\ ~ProviderStartFails(n) /\ ~RemoveOrphan(n) => UNCHANGED process
    BY <1>4 DEF Start, RecordStartAttempt, GenerateJIT, GenerateJITFails, DropProvision, MarkStarted,
                RecordStartSuccess, LaunchedRemoved, LaunchedDraining, LaunchedCleaned, LaunchedWatched
  <2> QED BY <1>1, <2>1, <2>2, <2>3
<1>5. ASSUME NEW n \in Names, Clean(n) PROVE Moved
  <2>1. CASE RemoveInstance(n)
    BY <2>1 DEF RemoveInstance, TypeOK
  <2>2. ~RemoveInstance(n) => UNCHANGED process
    BY <1>5 DEF Clean, LookUpRunner, AskGitHub, Refused, SignalRestored, FinishRemoval, SignalRemoved
  <2> QED BY <1>1, <2>1, <2>2
<1>6. CASE Stop
  <2>1. ASSUME NEW n \in Names, ShutdownRemoves(n) PROVE Moved
    <3>1. UNCHANGED process \/ process' = [process EXCEPT ![n] = "none"]
      BY <2>1 DEF ShutdownRemoves
    <3> QED BY <2>1, <3>1 DEF TypeOK
  <2>2. (\A n \in Names : ~ShutdownRemoves(n)) => UNCHANGED process
    BY <1>6 DEF Stop, DrainBegins, DrainStopsWork, DrainBoundary, DrainCompletes, DrainExpires, SessionEnds,
                ShutdownBegins, ShutdownStopsWork, ShutdownDetaches, ShutdownEnds, DrainClaims
  <2> QED BY <1>1, <2>1, <2>2
<1> QED BY <1>1, <1>3, <1>4, <1>5, <1>6, StepKinds, DecidingFrame DEF vars, worldVars

\* A message is sent when a job starts or ends.
LEMMA InboxMoves ==
  ASSUME TypeOK, [Next]_vars, NEW m \in Names
  PROVE  /\ <<m, "started">> \in inbox' => <<m, "started">> \in inbox \/ github'[m] = "working"
         /\ <<m, "completed">> \in inbox' => <<m, "completed">> \in inbox \/ github'[m] = "finished"
<1> DEFINE Moved ==
         /\ <<m, "started">> \in inbox' => <<m, "started">> \in inbox \/ github'[m] = "working"
         /\ <<m, "completed">> \in inbox' => <<m, "completed">> \in inbox \/ github'[m] = "finished"
<1>1. CASE inbox' \subseteq inbox
  BY <1>1
<1>2. ASSUME NEW n \in Names, World(n) PROVE Moved
  BY <1>2 DEF World, JobAssigned, JobEnds, ProcessExits, ProcessCrashes, TypeOK
<1>3. CASE Bystanders
  <2>1. Listen => inbox' \subseteq inbox
    BY DEF Listen, PendCompletion, SignalCompletion, SignalDesired, HandleDesiredRunnerCount,
           HandleJobStarted, HandleJobCompleted, Listening
  <2>2. \A o \in Observers : Observe(o) => UNCHANGED inbox
    BY DEF Observe, ObserverCancelled, ObserveExit, MarkExited, RaiseBarrier, ReportReady,
           ReportUnready, ObservedSuccess, ObservedFailure, ObserverSignals, Observing
  <2>3. /\ RetryDeadlinePasses \/ RetryTimerFires => UNCHANGED inbox
        /\ \A n \in Names : CleanupDeadlinePasses(n) \/ CleanupTimerFires(n) => UNCHANGED inbox
    BY DEF RetryDeadlinePasses, RetryTimerFires, CleanupDeadlinePasses, CleanupTimerFires, Waiting, worldVars
  <2> QED BY <1>1, <1>2, <1>3, <2>1, <2>2, <2>3 DEF Bystanders
<1> QED BY <1>1, <1>3, StepKinds, DecidingFrame, StartingFrame, CleaningFrame, StoppingFrame DEF vars, worldVars

\* Observers begin when the worker has launched their runner.
LEMMA ObserversMove ==
  ASSUME TypeOK, [Next]_vars, NEW o \in Observers
  PROVE  \/ observers'[o].at = observers[o].at
         \/ StartingOf(o[1]) /\ LaunchedWatched(o[1]) /\ observers'[o].at = "waiting"
         \/ Observe(o) /\ observers[o].at # "none"
<1> DEFINE Moved ==
         \/ observers'[o].at = observers[o].at
         \/ StartingOf(o[1]) /\ LaunchedWatched(o[1]) /\ observers'[o].at = "waiting"
         \/ Observe(o) /\ observers[o].at # "none"
<1>1. CASE UNCHANGED observers
  BY <1>1
<1>2. ASSUME NEW p \in Observers, Observe(p) PROVE Moved
  <2>1. \A q \in Observers \ {p} : observers'[q] = observers[q]
    BY <1>2 DEF Observe, ObserverCancelled, ObserveExit, MarkExited, RaiseBarrier, ReportReady,
           ReportUnready, ObservedSuccess, ObservedFailure, ObserverSignals, observerGoes, TypeOK
  <2>2. observers[p].at # "none"
    BY <1>2 DEF Observe, ObserverCancelled, ObserveExit, MarkExited, RaiseBarrier, ReportReady,
           ReportUnready, ObservedSuccess, ObservedFailure, ObserverSignals
  <2> QED BY <1>2, <2>1, <2>2
<1>3. CASE Bystanders
  <2>1. observers' = [q \in Observers |-> [observers[q] EXCEPT !.fresh = FALSE]] => Moved
    BY DEF TypeOK, ObserverType
  <2> QED BY <1>1, <1>2, <1>3, <2>1, BystandersObserve
<1>4. ASSUME NEW n \in Names, Start(n) PROVE Moved
  <2>1. CASE LaunchedWatched(n)
    <3>1. worker.at = "launched" /\ worker.runner = n
      BY <1>4, <2>1, StartingWorker, StartingFrame
    <3>2. observers'[o] = IF o[1] = n /\ o[2] \in StartedKinds THEN ObserverAt("waiting") ELSE observers[o]
      BY <2>1 DEF LaunchedWatched
    <3> QED BY <2>1, <3>1, <3>2 DEF StartingOf, StartSteps, ObserverAt
  <2>2. ~LaunchedWatched(n) => UNCHANGED observers
    BY <1>4 DEF Start, RecordStartAttempt, GenerateJIT, GenerateJITFails, ProviderStarts, ProviderStartFails,
                DropProvision, MarkStarted, RemoveOrphan, RecordStartSuccess, LaunchedRemoved, LaunchedDraining,
                LaunchedCleaned
  <2> QED BY <1>1, <2>1, <2>2
<1> QED BY <1>1, <1>3, <1>4, StepKinds, DecidingFrame, CleaningFrame, StoppingFrame DEF vars, taskVars

\* The worker is at a start it was already at, or that it has just taken up.
LEMMA StartMoves ==
  ASSUME TypeOK, WorkerRunner, [Next]_vars, NEW m \in Names, StartingOf(m)'
  PROVE  \/ StartingOf(m) /\ (UNCHANGED worker \/ Start(m))
         \/ ReserveName(m) /\ worker'.at = "reserved"
<1>1. worker'.at \in StartSteps /\ worker'.runner = m /\ m # NoName
  BY NoNameAssumption DEF StartingOf
<1>2. CASE UNCHANGED worker
  BY <1>1, <1>2 DEF StartingOf
<1>3. CASE Decide
  BY <1>1, <1>3, DecidingWorker DEF WorkerRunner
<1>4. ASSUME NEW n \in Names, Start(n) PROVE StartingOf(m) /\ Start(m)
  <2>1. worker.runner = n /\ worker.at \in StartSteps \cup {"cleaning"}
    BY <1>4, StartingFrame
  <2>2. worker.at # "cleaning"
    BY <1>1, <1>4, StartingWorker DEF Start, StartSteps
  <2>3. worker'.runner \in {n, NoName}
    BY <1>4, StartingWorker DEF Start
  <2> QED BY <1>1, <1>4, <2>1, <2>2, <2>3 DEF StartingOf
<1> QED BY <1>2, <1>3, <1>4, StepKinds, BystandersFrame, CleaningFrame, StoppingFrame DEF vars

\* Shutdown is never taken back.
LEMMA ShutdownLasts ==
  ASSUME [Next]_vars, ShuttingDown PROVE ShuttingDown'
<1>1. CASE UNCHANGED stopper
  BY <1>1 DEF ShuttingDown
<1>2. CASE Stop
  BY <1>2 DEF ShuttingDown, Stop, DrainBegins, DrainStopsWork, DrainBoundary, DrainCompletes, DrainExpires,
         SessionEnds, ShutdownBegins, ShutdownStopsWork, ShutdownDetaches, ShutdownEnds, DrainClaims,
         ShutdownRemoves, stopVars
<1> QED BY <1>1, <1>2, StepKinds, BystandersFrame, DecidingFrame, StartingFrame, CleaningFrame DEF vars, stopVars

\* A cleanup begins with a claim, or with the drain that the worker finds when
\* its start returns.
LEMMA CleanupsMove ==
  ASSUME TypeOK, [Next]_vars, NEW m \in Names
  PROVE  \/ cleanup'[m] = cleanup[m]
         \/ (ClaimCleanup(m) \/ DrainClaims(m)) /\ claimRemoval(m) /\ cleanup'[m].at = "claimed"
         \/ LaunchedDraining(m) /\ cleanup'[m].at = "claimed"
         \/ /\ Clean(m) /\ cleanup[m].at # "none" /\ cleanup'[m].by \in {cleanup[m].by, "nobody"}
            /\ cleanup[m].at \in CleaningSteps \/ cleanup'[m].at = "none"
<1> DEFINE Moved ==
         \/ cleanup'[m] = cleanup[m]
         \/ (ClaimCleanup(m) \/ DrainClaims(m)) /\ claimRemoval(m) /\ cleanup'[m].at = "claimed"
         \/ LaunchedDraining(m) /\ cleanup'[m].at = "claimed"
         \/ /\ Clean(m) /\ cleanup[m].at # "none" /\ cleanup'[m].by \in {cleanup[m].by, "nobody"}
            /\ cleanup[m].at \in CleaningSteps \/ cleanup'[m].at = "none"
<1>1. CASE UNCHANGED cleanup
  BY <1>1
<1>2. ASSUME NEW n \in Names, ClaimCleanup(n) \/ DrainClaims(n) PROVE Moved
  <2>1. claimRemoval(n) /\ \E by \in {"goroutine", "drain"} :
                             cleanup' = [cleanup EXCEPT ![n] = [at |-> "claimed", by |-> by]]
    BY <1>2 DEF ClaimCleanup, DrainClaims
  <2> QED BY <1>2, <2>1 DEF TypeOK
<1>3. ASSUME NEW n \in Names, LaunchedDraining(n) PROVE Moved
  <2>1. cleanup' = [cleanup EXCEPT ![n] = [at |-> "claimed", by |-> "worker"]]
    BY <1>3 DEF LaunchedDraining
  <2> QED BY <1>3, <2>1 DEF TypeOK
<1>4. ASSUME NEW n \in Names, Clean(n) PROVE Moved
  <2>1. \/ UNCHANGED cleanup
        \/ cleanup[n].at \in CleaningSteps \cup {"signalling"} /\ cleanupEnds(n)
        \/ cleanup[n].at \in CleaningSteps /\ \E step \in CleanupSteps : cleanupSteps(n, step)
    BY <1>4 DEF Clean, LookUpRunner, AskGitHub, Refused, SignalRestored, RemoveInstance, FinishRemoval,
           SignalRemoved, removalFails, CleanupSteps, CleaningSteps
  <2>2. cleanupEnds(n) => cleanup' = [cleanup EXCEPT ![n] = NoCleanup] /\ cleanup'[n].by = "nobody" /\ cleanup'[n].at = "none"
    BY DEF cleanupEnds, NoCleanup, TypeOK
  <2>3. ASSUME NEW step, cleanupSteps(n, step) PROVE cleanup'[n].by = cleanup[n].by /\ (n # m => cleanup'[m] = cleanup[m])
    BY <2>3 DEF cleanupSteps, TypeOK, CleanupType
  <2> QED BY <1>1, <1>4, <2>1, <2>2, <2>3 DEF TypeOK, CleaningSteps
<1>5. CASE Decide
  BY <1>1, <1>2, <1>5
     DEF Decide, LoopStops, LoopWakes, EnterPass, NothingToClaim, ReadTarget, CompareCount,
           NothingToTrim, CheckSatisfied, ClearSatisfiedRetry, BeginAcquire, CapacityGranted, CapacityAbandoned,
           RereadTarget, AbandonStart, ScaleDown, ReserveName, OnlyWorker
<1>6. ASSUME NEW n \in Names, Start(n), ~LaunchedDraining(n) PROVE UNCHANGED cleanup
  BY <1>6 DEF Start, RecordStartAttempt, GenerateJIT, GenerateJITFails, ProviderStarts, ProviderStartFails,
           DropProvision, MarkStarted, RemoveOrphan, RecordStartSuccess, LaunchedRemoved, LaunchedCleaned,
           LaunchedWatched
<1>7. CASE Stop
  BY <1>1, <1>2, <1>7
     DEF Stop, DrainBegins, DrainStopsWork, DrainBoundary, DrainCompletes, DrainExpires, SessionEnds,
         ShutdownBegins, ShutdownStopsWork, ShutdownDetaches, ShutdownEnds, ShutdownRemoves
<1> QED BY <1>1, <1>3, <1>4, <1>5, <1>6, <1>7, StepKinds, BystandersFrame DEF vars, taskVars

-----------------------------------------------------------------------------
(***************************************************************************)
(* Whose job is spared.                                                    *)
(***************************************************************************)

\* What the controller believes of a job is so.
KnownJobs ==
    \A n \in Names :
       /\ <<n, "completed">> \in inbox => github[n] = "finished"
       /\ <<n, "started">> \in inbox => github[n] \in {"working", "finished"}
       /\ instances[n].reason = "job-completed" => github[n] = "finished"
       /\ StartingOf(n) /\ worker.at \in {"reserved", "jit"} => github[n] = "absent"

\* What it believes of an exit is so.
KnownExits ==
    /\ \A o \in Observers :
          /\ github[o[1]] = "unused" \/ StartingOf(o[1]) => observers[o].at = "none"
          /\ observers[o].at = "exiting" => process[o[1]] # "up"
    /\ \A n \in Names :
          /\ instances[n].reason = "exited" => process[n] # "up"
          /\ StartingOf(n) /\ worker.at \in {"reserved", "jit", "starting"} =>
                instances[n].reason # "exited"

\* A start keeps its entry, and a removal keeps the entry it works on.
StartKnown ==
    ~ShuttingDown =>
       \A n \in Names : StartingOf(n) =>
          /\ n \in Tracked /\ worker.at # "orphan"
          /\ worker.at \in {"succeeding", "launched"} =>
                instances[n].id /\ (worker.removeNow => n \in Removing)

CleanKnown ==
    ~ShuttingDown =>
       \A n \in Names : cleanup[n].at \in CleaningSteps => n \in Removing /\ instances[n].id

\* A removal that reaches the provider is of a runner without a live job.
CleanJob ==
    ~ShuttingDown =>
       \A n \in Names :
          cleanup[n].at = "removing" => github[n] \in {"absent", "finished"} \/ process[n] # "up"

JobInv == KnownJobs /\ KnownExits /\ StartKnown /\ CleanKnown /\ CleanJob

LEMMA InitJob == Init => JobInv
BY DEF Init, InitWith, initInstances, Absent, JobInv, KnownJobs, KnownExits, StartKnown, CleanKnown, CleanJob, ShuttingDown,
       StartingOf, StartSteps, WorkerAt, ObserverAt, NoCleanup, CleaningSteps

\* How a removal gets its reason.
LEMMA ReasonMoves ==
  ASSUME TypeOK, [Next]_vars, NEW m \in Names
  PROVE  \/ instances'[m].reason = instances[m].reason
         \/ instances'[m].reason \notin {"job-completed", "exited"}
         \/ instances'[m].reason = "job-completed" /\ HandleJobCompleted(m)
         \/ instances'[m].reason = "exited" /\ \E o \in Observers : o[1] = m /\ MarkExited(o)
<1> DEFINE Moved ==
         \/ instances'[m].reason = instances[m].reason
         \/ instances'[m].reason \notin {"job-completed", "exited"}
         \/ instances'[m].reason = "job-completed" /\ HandleJobCompleted(m)
         \/ instances'[m].reason = "exited" /\ \E o \in Observers : o[1] = m /\ MarkExited(o)
<1>1. InstancesOK
  BY SplitTypes
<1>2. ASSUME NEW n \in Names, NEW p, NEW r, NEW i, NEW f, NEW b, Edit(n, p, r, i, f, b),
             r = instances[n].reason \/ r \notin {"job-completed", "exited"}
      PROVE  Moved
  BY <1>2 DEF Edit
<1>3. UNCHANGED instances => Moved
  OBVIOUS
<1>4. CASE Bystanders
  <2>1. ASSUME NEW n \in Names, markBusy(n) PROVE Moved
    BY <1>1, <1>2, <2>1, JobEdits DEF Reasons
  <2>2. ASSUME NEW n \in Names, HandleJobCompleted(n), markDone(n, "job-completed") PROVE Moved
    BY <1>1, <2>2, JobEdits DEF Reasons, Edit
  <2>3. ASSUME NEW n \in Names, cleanupRetryDue(n) PROVE Moved
    BY <1>1, <1>2, <2>3, RemovalEdits
  <2>4. ASSUME NEW o \in Observers, MarkExited(o), markExited(o[1]) PROVE Moved
    <3>1. o[1] \in Names
      BY DEF Observers
    <3>2. Edit(o[1], "removing", "exited", instances[o[1]].id, instances[o[1]].inFlight, instances[o[1]].backoff)
      BY <1>1, <2>4, <3>1, JobEdits DEF Reasons
    <3> QED BY <2>4, <3>1, <3>2 DEF Edit
  <2>5. ASSUME NEW n \in Names, readinessResult(n, TRUE) \/ readinessResult(n, FALSE) PROVE Moved
    BY <1>1, <1>2, <2>5, ReadinessEdits
  <2> QED BY <1>3, <1>4, <2>1, <2>2, <2>3, <2>4, <2>5, BystandingEdits, ObservingEdits DEF Observers
<1>5. CASE Decide
  BY <1>1, <1>2, <1>3, <1>5, DecidingEdits, RemovalEdits, ReadinessEdits, StartEdits DEF InstancePhases
<1>6. ASSUME NEW n \in Names, Start(n) PROVE Moved
  <2>1. failProvision(n) => Moved
    BY <1>1, <1>2, <1>3, StartEdits DEF InstancePhases
  <2>2. \A known \in BOOLEAN :
           markStarted(n, known, "provisioning") \/ markStarted(n, known, "idle") => Moved
    BY <1>1, <1>2, StartEdits DEF InstancePhases
  <2>3. markDone(n, "drain") => Moved
    BY <1>1, <1>2, JobEdits DEF Reasons
  <2> QED BY <1>3, <1>6, <2>1, <2>2, <2>3, StartingEdits
<1>7. ASSUME NEW n \in Names, Clean(n) PROVE Moved
  BY <1>1, <1>2, <1>3, <1>7, CleaningEdits, RemovalEdits
<1>8. CASE Stop
  <2>1. idleForRemoval \/ detachAll => Moved
    BY <1>1, BoundaryEdits
  <2> QED BY <1>1, <1>2, <1>3, <1>8, <2>1, StoppingEdits, RemovalEdits
<1> QED BY <1>3, <1>4, <1>5, <1>6, <1>7, <1>8, StepKinds DEF vars

LEMMA NextJobs ==
  ASSUME TypeOK, WorkerRunner, KnownJobs, [Next]_vars PROVE KnownJobs'
<1> SUFFICES ASSUME NEW n \in Names
             PROVE  /\ <<n, "completed">> \in inbox' => github'[n] = "finished"
                    /\ <<n, "started">> \in inbox' => github'[n] \in {"working", "finished"}
                    /\ instances'[n].reason = "job-completed" => github'[n] = "finished"
                    /\ StartingOf(n)' /\ worker'.at \in {"reserved", "jit"} => github'[n] = "absent"
  BY DEF KnownJobs, StartingOf
<1>1. /\ <<n, "completed">> \in inbox => github[n] = "finished"
      /\ <<n, "started">> \in inbox => github[n] \in {"working", "finished"}
      /\ instances[n].reason = "job-completed" => github[n] = "finished"
      /\ StartingOf(n) /\ worker.at \in {"reserved", "jit"} => github[n] = "absent"
  BY DEF KnownJobs
<1>2. github[n] \in {"working", "finished"} => github'[n] = github[n] \/ github'[n] = "finished"
  BY <1>1, GitHubMoves
<1>3. HandleJobCompleted(n) => github[n] = "finished" /\ github'[n] = "finished"
  <2>1. HandleJobCompleted(n) => <<n, "completed">> \in inbox
    BY DEF HandleJobCompleted
  <2> QED BY <1>1, <1>2, <2>1
<1>4. instances'[n].reason = "job-completed" => instances[n].reason = "job-completed" \/ HandleJobCompleted(n)
  BY ReasonMoves
<1>5. ASSUME StartingOf(n)', worker'.at \in {"reserved", "jit"} PROVE github'[n] = "absent"
  <2>1. CASE ReserveName(n)
    BY <2>1 DEF ReserveName, TypeOK
  <2>2. CASE UNCHANGED worker /\ StartingOf(n)
    BY <1>1, <1>5, <2>2, GitHubMoves DEF ReserveName, StartingOf, StartSteps
  <2>3. CASE Start(n) /\ StartingOf(n)
    <3>1. RecordStartAttempt(n)
      BY <1>5, <2>3, StartingWorker DEF Start, StartingOf, StartSteps
    <3>2. worker.at = "reserved" /\ UNCHANGED github
      BY <3>1, StartingWorker DEF RecordStartAttempt
    <3> QED BY <1>1, <2>3, <3>2
  <2> QED BY <1>5, <2>1, <2>2, <2>3, StartMoves
<1> QED BY <1>1, <1>2, <1>3, <1>4, <1>5, InboxMoves

LEMMA NextExits ==
  ASSUME TypeOK, Owned, WorkerRunner, KnownExits, [Next]_vars PROVE KnownExits'
<1>1. ASSUME NEW o \in Observers, github'[o[1]] = "unused" \/ StartingOf(o[1])'
      PROVE  observers'[o].at = "none"
  <2>1. o[1] \in Names
    BY DEF Observers
  <2>2. github[o[1]] = "unused" \/ StartingOf(o[1])
    <3>1. github'[o[1]] = "unused" => github[o[1]] = "unused"
      BY <2>1, GitHubMoves
    <3>2. StartingOf(o[1])' => StartingOf(o[1]) \/ github[o[1]] = "unused"
      BY <2>1, StartMoves DEF ReserveName
    <3> QED BY <1>1, <3>1, <3>2
  <2>3. ~(StartingOf(o[1]) /\ LaunchedWatched(o[1]))
    <3> SUFFICES ASSUME StartingOf(o[1]), LaunchedWatched(o[1]) PROVE FALSE
      OBVIOUS
    <3>1. worker'.runner = NoName /\ UNCHANGED github /\ github[o[1]] # "unused"
      BY <2>1, StartingWorker DEF LaunchedWatched, Owned, StartOwned
    <3> QED BY <1>1, <2>1, <3>1, NoNameAssumption DEF StartingOf
  <2>4. observers[o].at = "none"
    BY <2>2 DEF KnownExits
  <2> QED BY <2>3, <2>4, ObserversMove
<1>2. ASSUME NEW n \in Names
      PROVE  process[n] # "up" => process'[n] # "up" \/ (StartingOf(n) /\ worker.at = "starting")
  <2>1. \/ process'[n] = process[n]
        \/ StartingOf(n) /\ worker.at = "starting"
        \/ process'[n] \in {"exited", "none"}
    BY ProcessMoves
  <2> QED BY <2>1
<1>3. ASSUME NEW o \in Observers, observers'[o].at = "exiting"
      PROVE  process'[o[1]] # "up"
  <2>1. o[1] \in Names
    BY DEF Observers
  <2>2. CASE observers[o].at = "exiting"
    <3>1. process[o[1]] # "up" /\ ~StartingOf(o[1])
      BY <2>2 DEF KnownExits
    <3> QED BY <1>2, <2>1, <3>1
  <2>3. CASE ObserveExit(o)
    BY <2>3 DEF ObserveExit, Observing
  <2>4. observers[o].at = "exiting" \/ ObserveExit(o)
    <3>1. observers[o].at = "exiting" \/ Observe(o)
      BY <1>3, ObserversMove
    <3>2. ASSUME Observe(o), ~ObserveExit(o), observers[o].at # "exiting" PROVE observers'[o].at # "exiting"
      <4>1. ASSUME NEW step, observerGoes(o, step) PROVE observers'[o].at = step
        BY <4>1 DEF observerGoes, ObserverAt, TypeOK
      <4>2. \E step \in ObserverSteps \ {"exiting"} : observerGoes(o, step)
        BY <3>2
           DEF Observe, ObserverCancelled, MarkExited, RaiseBarrier, ReportReady, ReportUnready, ObservedSuccess,
               ObservedFailure, ObserverSignals, ObserverSteps
      <4> QED BY <4>1, <4>2
    <3> QED BY <1>3, <3>1, <3>2
  <2> QED BY <2>2, <2>3, <2>4
<1>4. ASSUME NEW n \in Names, instances'[n].reason = "exited"
      PROVE  /\ process'[n] # "up"
             /\ ~(StartingOf(n)' /\ worker'.at \in {"reserved", "jit", "starting"})
  <2>1. CASE instances[n].reason = "exited"
    <3>1. process[n] # "up" /\ ~(StartingOf(n) /\ worker.at \in {"reserved", "jit", "starting"})
      BY <2>1 DEF KnownExits
    <3>2. process'[n] # "up"
      BY <1>2, <3>1
    <3>3. ASSUME StartingOf(n)', worker'.at \in {"reserved", "jit", "starting"} PROVE FALSE
      <4>1. CASE ReserveName(n)
        <5>1. Edit(n, "provisioning", "none", FALSE, FALSE, FALSE)
          BY <4>1, StartEdits, SplitTypes DEF ReserveName, InstancePhases
        <5> QED BY <1>4, <5>1 DEF Edit
      <4>2. CASE StartingOf(n) /\ UNCHANGED worker
        BY <3>1, <3>3, <4>2
      <4>3. CASE StartingOf(n) /\ Start(n)
        <5>1. worker.at \in {"reserved", "jit", "starting"}
          BY <3>3, <4>3, StartingWorker DEF Start, StartingOf, StartSteps
        <5> QED BY <3>1, <4>3, <5>1
      <4> QED BY <3>3, <4>1, <4>2, <4>3, StartMoves
    <3> QED BY <3>2, <3>3
  <2>2. ASSUME NEW o \in Observers, o[1] = n, MarkExited(o)
        PROVE  /\ process'[n] # "up"
               /\ ~(StartingOf(n)' /\ worker'.at \in {"reserved", "jit", "starting"})
    <3>1. observers[o].at = "exiting" /\ UNCHANGED <<process, worker>>
      BY <2>2 DEF MarkExited, Observing
    <3>2. process[n] # "up" /\ ~StartingOf(n)
      BY <2>2, <3>1 DEF KnownExits
    <3> QED BY <3>1, <3>2 DEF StartingOf
  <2> QED BY <1>4, <2>1, <2>2, ReasonMoves
<1> QED BY <1>1, <1>3, <1>4 DEF KnownExits, StartingOf

\* An entry with an instance that is being removed stays one, except ...
LEMMA RemovalStays ==
  ASSUME TypeOK, [Next]_vars, NEW m \in Names, m \in Tracked, ~ShuttingDown'
  PROVE  \/ m \in Tracked' /\ (instances[m].id => instances'[m].id) /\ (m \in Removing => m \in Removing')
         \/ DropProvision(m)
         \/ Refused(m) /\ deregistrationNeeded(m)
         \/ FinishRemoval(m)
         \/ ReserveName(m)
<1> DEFINE Stays ==
         m \in Tracked' /\ (instances[m].id => instances'[m].id) /\ (m \in Removing => m \in Removing')
<1>1. InstancesOK
  BY SplitTypes
<1>2. ASSUME NEW n \in Names, NEW p, NEW r, NEW i, NEW f, NEW b, Edit(n, p, r, i, f, b),
             \/ n # m
             \/ /\ p # "absent" /\ i \in {instances[n].id, TRUE}
                /\ instances[n].phase = "removing" => p = "removing"
      PROVE  Stays
  BY <1>2 DEF Edit, Tracked, Removing
<1>3. ASSUME NEW n \in Names, NEW p, NEW r, NEW i, NEW f, NEW b, Edit(n, p, r, i, f, b), n # m
      PROVE  Stays
  BY <1>3 DEF Edit, Tracked, Removing
<1>4. UNCHANGED instances => Stays
  BY DEF Tracked, Removing
<1>5. CASE Bystanders
  <2>1. ASSUME NEW n \in Names, acceptsJob(n), markBusy(n) PROVE Stays
    BY <1>1, <1>2, <2>1, JobEdits DEF Reasons, Removing
  <2>2. ASSUME NEW n \in Names, markDone(n, "job-completed") \/ markExited(n) PROVE Stays
    BY <1>1, <1>2, <2>2, JobEdits DEF Reasons
  <2>3. ASSUME NEW n \in Names, cleanupRetryDue(n) PROVE Stays
    <3>1. instances[n].phase = "absent" => n # m
      BY DEF Tracked
    <3> QED BY <1>1, <1>2, <2>3, <3>1, RemovalEdits
  <2>4. ASSUME NEW n \in Names, acceptsReadiness(n), readinessResult(n, TRUE) \/ readinessResult(n, FALSE)
        PROVE  Stays
    <3>1. instances[n].phase = "provisioning"
      BY <2>4 DEF acceptsReadiness
    <3>2. readinessResult(n, TRUE) => Stays
      BY <1>1, <1>2, ReadinessEdits
    <3>3. readinessResult(n, FALSE) =>
            Edit(n, "idle", instances[n].reason, instances[n].id, instances[n].inFlight, instances[n].backoff)
      BY <1>1, ReadinessEdits
    <3>4. "idle" # "absent" /\ instances[n].phase # "removing"
      BY <3>1
    <3> QED BY <1>2, <2>4, <3>2, <3>3, <3>4
  <2> QED BY <1>4, <1>5, <2>1, <2>2, <2>3, <2>4, BystandingEdits, ObservingEdits DEF Observers
<1>6. CASE Decide
  <2>1. ASSUME NEW n \in Names, claimRemoval(n) \/ markIdleAboveTarget(n) PROVE Stays
    <3>1. markIdleAboveTarget(n) => Stays
      BY <1>1, <1>2, ReadinessEdits
    <3>2. claimRemoval(n) => Stays
      BY <1>1, <1>2, RemovalEdits
    <3> QED BY <2>1, <3>1, <3>2
  <2>2. ASSUME NEW n \in Names, ReserveName(n), reserve(n) PROVE Stays \/ ReserveName(m)
    BY <1>1, <1>3, <2>2, StartEdits DEF InstancePhases
  <2> QED BY <1>4, <1>6, <2>1, <2>2, DecidingEdits
<1>7. ASSUME NEW n \in Names, Start(n) PROVE Stays \/ DropProvision(m)
  <2>1. failProvision(n) /\ DropProvision(n) => Stays \/ DropProvision(m)
    BY <1>1, <1>3, <1>4, StartEdits DEF InstancePhases
  <2>2. ASSUME NEW known \in BOOLEAN, n \in Tracked,
               markStarted(n, known, "provisioning") \/ markStarted(n, known, "idle")
        PROVE  Stays
    <3>1. instances[n].phase # "absent"
      BY <2>2 DEF Tracked
    <3>2. ASSUME NEW phase \in {"provisioning", "idle"}, markStarted(n, known, phase) PROVE Stays
      <4>1. phase \in InstancePhases
        BY DEF InstancePhases
      <4> DEFINE p == IF instances[n].phase = "provisioning" THEN phase ELSE instances[n].phase
      <4>2. p # "absent" /\ (instances[n].phase = "removing" => p = "removing")
        BY <3>1
      <4>3. Edit(n, p, instances[n].reason, TRUE, instances[n].inFlight, instances[n].backoff)
        BY <1>1, <3>2, <4>1, StartEdits
      <4> HIDE DEF p
      <4> QED BY <1>2, <4>2, <4>3
    <3> QED BY <2>2, <3>2
  <2>3. markDone(n, "drain") => Stays
    BY <1>1, <1>2, JobEdits DEF Reasons
  <2> QED BY <1>4, <1>7, <2>1, <2>2, <2>3, StartingEdits
<1>8. ASSUME NEW n \in Names, Clean(n)
      PROVE  Stays \/ (Refused(m) /\ deregistrationNeeded(m)) \/ FinishRemoval(m)
  <2>1. ASSUME canRetry(n), retryRemoval(n) PROVE Stays
    BY <1>1, <1>2, <2>1, RemovalEdits DEF canRetry, Removing
  <2>2. restoreBusy(n) /\ n # m => Stays
    BY <1>1, <1>3, RemovalEdits
  <2>3. finishRemoval(n) /\ n # m => Stays
    BY <1>1, <1>3, RemovalEdits
  <2> QED BY <1>4, <1>8, <2>1, <2>2, <2>3, CleaningEdits
<1>9. CASE Stop
  <2>1. idleForRemoval => Stays
    BY <1>1, BoundaryEdits DEF Tracked, Removing, InstancesOK, InstanceType, InstancePhases
  <2>2. ~ShutdownDetaches
    BY DEF ShutdownDetaches, ShuttingDown
  <2>3. ASSUME NEW n \in Names, claimRemoval(n) PROVE Stays
    BY <1>1, <1>2, <2>3, RemovalEdits
  <2> QED BY <1>4, <1>9, <2>1, <2>2, <2>3, StoppingEdits
<1> QED BY <1>4, <1>5, <1>6, <1>7, <1>8, <1>9, StepKinds DEF vars

LEMMA NextStarts ==
  ASSUME TypeOK, Owned, WorkerRunner, StartKnown, CleanKnown, [Next]_vars
  PROVE  StartKnown' /\ CleanKnown'
<1> SUFFICES ASSUME ~ShuttingDown', NEW n \in Names
             PROVE  /\ StartingOf(n)' =>
                         /\ n \in Tracked' /\ worker'.at # "orphan"
                         /\ worker'.at \in {"succeeding", "launched"} =>
                              instances'[n].id /\ (worker'.removeNow => n \in Removing')
                    /\ cleanup'[n].at \in CleaningSteps => n \in Removing' /\ instances'[n].id
  BY DEF StartKnown, CleanKnown, StartingOf
<1>1. ~ShuttingDown
  BY ShutdownLasts
<1>2. InstancesOK /\ worker.known \in BOOLEAN /\ worker.removeNow \in BOOLEAN
  BY SplitTypes DEF TypeOK, WorkerType
<1>3. StartingOf(n) =>
         /\ n \in Tracked /\ worker.at # "orphan" /\ cleanup[n].at = "none" /\ github[n] # "unused"
         /\ worker.at \in {"succeeding", "launched"} =>
              instances[n].id /\ (worker.removeNow => n \in Removing)
  BY <1>1 DEF StartKnown, Owned, StartOwned
<1>4. cleanup[n].at \in CleaningSteps => n \in Removing /\ n \in Tracked /\ instances[n].id /\ github[n] # "unused"
  BY <1>1 DEF CleanKnown, Removing, Tracked, Owned, UnusedNames, CleaningSteps
<1>5. ASSUME StartingOf(n)'
      PROVE  /\ n \in Tracked' /\ worker'.at # "orphan"
             /\ worker'.at \in {"succeeding", "launched"} =>
                  instances'[n].id /\ (worker'.removeNow => n \in Removing')
  <2>1. CASE ReserveName(n) /\ worker'.at = "reserved"
    <3>1. Edit(n, "provisioning", "none", FALSE, FALSE, FALSE)
      BY <1>2, <2>1, StartEdits DEF ReserveName, InstancePhases
    <3> QED BY <2>1, <3>1 DEF Edit, Tracked
  <2>2. CASE StartingOf(n) /\ UNCHANGED worker
    <3>1. ~DropProvision(n) /\ ~Refused(n) /\ ~FinishRemoval(n) /\ ~ReserveName(n)
      BY <1>3, <1>5, <2>2, StartingWorker DEF Refused, FinishRemoval, ReserveName, StartingOf, StartSteps
    <3> QED BY <1>1, <1>3, <2>2, <3>1, RemovalStays
  <2>3. CASE StartingOf(n) /\ Start(n)
    <3>1. ~DropProvision(n) /\ ~Refused(n) /\ ~FinishRemoval(n) /\ ~ReserveName(n)
      BY <1>3, <1>5, <2>3, StartingWorker DEF Refused, FinishRemoval, ReserveName, StartingOf, StartSteps
    <3>2. n \in Tracked' /\ (instances[n].id => instances'[n].id) /\ (n \in Removing => n \in Removing')
      BY <1>3, <2>3, <3>1, RemovalStays
    <3>3. CASE MarkStarted(n)
      <4>1. worker'.at \in {"launched", "succeeding"} /\ worker'.removeNow = (n \in Removing)
        <5>1. worker'.at \in {"launched", "succeeding"}
          BY <1>3, <2>3, <3>3, StartingWorker
        <5> DEFINE at == IF NeedsReadiness THEN "launched" ELSE "succeeding"
                   b == n \in Removing
        <5>2. worker' = [WorkerAt(at) EXCEPT !.runner = n, !.removeNow = b]
          BY <1>3, <2>3, <3>3 DEF MarkStarted
        <5> HIDE DEF at
        <5>3. worker'.removeNow = b
          BY <5>2 DEF WorkerAt
        <5> QED BY <5>1, <5>3
      <4>2. instances'[n].id
        <5>1. PICK phase \in {"provisioning", "idle"} : markStarted(n, worker.known, phase)
          BY <1>3, <2>3, <3>3 DEF MarkStarted, markProvisioned, markReady
        <5>2. phase \in InstancePhases
          BY DEF InstancePhases
        <5> QED BY <1>2, <5>1, <5>2, StartEdits DEF Edit
      <4> QED BY <3>2, <4>1, <4>2
    <3>4. CASE RecordStartSuccess(n)
      <4>1. worker.at = "succeeding" /\ worker'.at = "launched"
        BY <3>4, StartingWorker
      <4>2. worker'.removeNow = worker.removeNow
        BY <3>4 DEF RecordStartSuccess, workerSteps, TypeOK, WorkerType
      <4> QED BY <1>3, <2>3, <3>2, <4>1, <4>2
    <3>5. CASE ~MarkStarted(n) /\ ~RecordStartSuccess(n)
      <4>1. worker'.at \notin {"succeeding", "launched", "orphan"}
        BY <2>3, <3>5, StartingWorker DEF Start
      <4> QED BY <3>2, <4>1
    <3> QED BY <3>3, <3>4, <3>5
  <2> QED BY <1>5, <2>1, <2>2, <2>3, StartMoves
<1>6. ASSUME cleanup'[n].at \in CleaningSteps
      PROVE  n \in Removing' /\ instances'[n].id
  <2>1. CASE cleanup[n].at \in CleaningSteps
    <3>1. ~StartingOf(n)
      BY <1>3, <2>1 DEF CleaningSteps
    <3>2. ~DropProvision(n) /\ ~ReserveName(n)
      BY <1>4, <2>1, <3>1, StartingWorker DEF DropProvision, Starting, ReserveName, StartingOf, StartSteps
    <3>3. ~(Refused(n) /\ deregistrationNeeded(n)) /\ ~FinishRemoval(n)
      <4>1. Refused(n) /\ deregistrationNeeded(n) => cleanup'[n].at = "none"
        BY DEF Refused, cleanupEnds, NoCleanup, TypeOK
      <4>2. FinishRemoval(n) => cleanup'[n].at \in {"none", "signalling"}
        BY DEF FinishRemoval, cleanupEnds, cleanupSteps, NoCleanup, TypeOK, CleanupType
      <4> QED BY <1>6, <4>1, <4>2 DEF CleaningSteps
    <3> QED BY <1>4, <2>1, <3>2, <3>3, RemovalStays
  <2>2. CASE (ClaimCleanup(n) \/ DrainClaims(n)) /\ claimRemoval(n)
    <3>1. n \in Claimable /\ Edit(n, "removing", instances[n].reason, instances[n].id, TRUE, instances[n].backoff)
      BY <1>2, <2>2, RemovalEdits
    <3> QED BY <3>1 DEF Edit, Claimable, Removing
  <2>3. CASE LaunchedDraining(n)
    <3>1. StartingOf(n) /\ worker.at = "launched"
      BY <2>3 DEF LaunchedDraining, Starting, StartingOf, StartSteps
    <3>2. CASE markDone(n, "drain")
      BY <1>2, <1>3, <3>1, <3>2, JobEdits DEF Edit, Removing, Reasons
    <3>3. CASE UNCHANGED instances /\ (worker.removeNow \/ ~acceptsDone(n, "drain"))
      <4>1. n \in Removing
        BY <1>3, <3>1, <3>3 DEF acceptsDone
      <4> QED BY <1>3, <3>1, <3>3, <4>1 DEF Removing
    <3> QED BY <1>2, <2>3, <3>2, <3>3 DEF LaunchedDraining
  <2>4. \/ cleanup[n].at \in CleaningSteps
        \/ (ClaimCleanup(n) \/ DrainClaims(n)) /\ claimRemoval(n)
        \/ LaunchedDraining(n)
    BY <1>6, CleanupsMove DEF CleaningSteps
  <2> QED BY <2>1, <2>2, <2>3, <2>4
<1> QED BY <1>5, <1>6

\* A removal reaches the provider when the job or the instance has ended.
LEMMA NextCleanJob ==
  ASSUME TypeOK, Owned, RemovalReasons, WorkerRunner, JobInv, [Next]_vars
  PROVE  CleanJob'
<1> SUFFICES ASSUME ~ShuttingDown', NEW n \in Names, cleanup'[n].at = "removing"
             PROVE  github'[n] \in {"absent", "finished"} \/ process'[n] # "up"
  BY DEF CleanJob
<1>1. ~ShuttingDown
  BY ShutdownLasts
<1>2. InstancesOK
  BY SplitTypes
<1>3. cleanup[n].at \in CleaningSteps
  <2>1. cleanup'[n].at \notin {"none", "claimed"}
    OBVIOUS
  <2>2. cleanup'[n] = cleanup[n] => cleanup[n].at = "removing"
    OBVIOUS
  <2> QED BY <2>1, <2>2, CleanupsMove DEF CleaningSteps
<1>4. /\ github[n] # "unused" /\ ~StartingOf(n)
      /\ n \in Removing /\ instances[n].id
  BY <1>1, <1>3 DEF Owned, UnusedNames, StartOwned, JobInv, CleanKnown, CleaningSteps
<1>5. ~deregistrationNeeded(n) => github[n] = "finished" \/ process[n] # "up"
  <2>1. ~deregistrationNeeded(n) => instances[n].reason \in {"job-completed", "exited"}
    BY <1>2, <1>4
       DEF deregistrationNeeded, IsUnassignedRemoval, RemovalReasons, InstancesOK, InstanceType, Reasons
  <2> QED BY <2>1 DEF JobInv, KnownJobs, KnownExits
<1>6. github[n] \in {"absent", "finished"} => github'[n] \in {"absent", "finished"}
  BY <1>4, GitHubMoves
<1>7. process[n] # "up" => process'[n] # "up"
  <2>1. process'[n] = process[n] \/ process'[n] \in {"exited", "none"}
    BY <1>4, ProcessMoves
  <2> QED BY <2>1
<1>8. CASE cleanup[n].at = "removing"
  BY <1>1, <1>6, <1>7, <1>8 DEF JobInv, CleanJob
<1>9. CASE LookUpRunner(n)
  <2>1. ~deregistrationNeeded(n)
    BY <1>4, <1>9 DEF LookUpRunner, removalFails, cleanupEnds, cleanupSteps, NoCleanup, TypeOK, CleanupType
  <2> QED BY <1>5, <1>6, <1>7, <2>1
<1>10. CASE Refused(n)
  <2>1. ~deregistrationNeeded(n)
    BY <1>10 DEF Refused, cleanupEnds, NoCleanup, TypeOK
  <2> QED BY <1>5, <1>6, <1>7, <2>1
<1>11. CASE AskGitHub(n)
  <2>1. github'[n] = (IF github[n] = "registered" THEN "absent" ELSE github[n]) /\ github[n] # "working"
    BY <1>11 DEF AskGitHub, removalFails, cleanupEnds, cleanupSteps, NoCleanup, TypeOK, CleanupType
  <2> QED BY <1>4, <2>1 DEF TypeOK
<1>12. cleanup[n].at = "removing" \/ LookUpRunner(n) \/ Refused(n) \/ AskGitHub(n)
  <2>1. cleanup[n].at = "removing" \/ Clean(n)
    BY <1>3, CleanupsMove
  <2>2. ASSUME SignalRestored(n) \/ RemoveInstance(n) PROVE cleanup[n].at = "removing"
    BY <2>2 DEF SignalRestored, RemoveInstance
  <2>3. ASSUME FinishRemoval(n) \/ SignalRemoved(n) PROVE cleanup'[n].at # "removing"
    BY <2>3 DEF FinishRemoval, SignalRemoved, cleanupEnds, cleanupSteps, NoCleanup, TypeOK, CleanupType
  <2> QED BY <2>1, <2>2, <2>3 DEF Clean
<1> QED BY <1>8, <1>9, <1>10, <1>11, <1>12

LEMMA NextJob ==
  ASSUME TypeOK, Owned, RemovalReasons, WorkerRunner, JobInv, [Next]_vars
  PROVE  JobInv'
BY NextJobs, NextExits, NextStarts, NextCleanJob DEF JobInv

\* What the controller believes is so: a job it takes for started, completed or dead with
\* its runner has started, is finished, or has no process, whether the event is still on
\* its way (HandleJobStarted, HandleJobCompleted, watchInstance) or recorded; and before
\* Shutdown a removal that has reached the provider has GitHub's word, or the exit, that
\* the runner has no live job (removeClaimedInstance).
THEOREM JobsKnown == Spec => [](LeaseInv /\ RemovalReasons /\ JobInv)
<1>1. IInv /\ LeaseInv /\ [Next]_vars => LeaseInv'
  BY NextLease DEF IInv
<1>2. IInv /\ LeaseInv /\ RemovalReasons /\ JobInv /\ [Next]_vars => JobInv'
  BY NextJob DEF IInv, LeaseInv
<1> QED BY <1>1, <1>2, InitLease, InitJob, Inductive, ReasonsHold, PTL DEF Spec

\* Until Shutdown no live runner that holds a job is removed, although a removal
\* may race with the assignment of a job the controller has yet to hear of.
THEOREM NoJobKilledHolds == Spec => NoJobKilled
<1> DEFINE Step == \A n \in Names :
              process[n] = "up" /\ process'[n] = "none" /\ github[n] = "working" => ShuttingDown
<1>1. ASSUME IInv, LeaseInv, JobInv, [Next]_vars PROVE [Step]_vars
  <2> SUFFICES ASSUME NEW n \in Names, process[n] = "up", process'[n] = "none", github[n] = "working"
               PROVE  ShuttingDown
    OBVIOUS
  <2>1. TypeOK /\ Owned /\ ~(StartingOf(n) /\ worker.at = "starting")
    BY <1>1 DEF IInv, Owned, InstanceExpected
  <2>2. CASE RemoveInstance(n)
    BY <1>1, <2>2 DEF RemoveInstance, JobInv, CleanJob
  <2>3. CASE RemoveOrphan(n)
    BY <1>1, <2>3 DEF RemoveOrphan, Starting, StartingOf, StartSteps, JobInv, StartKnown
  <2>4. CASE ShutdownRemoves(n)
    BY <2>4 DEF ShutdownRemoves, ShuttingDown
  <2> QED BY <1>1, <2>1, <2>2, <2>3, <2>4, ProcessMoves
<1> QED BY <1>1, Inductive, JobsKnown, PTL DEF Spec, NoJobKilled

-----------------------------------------------------------------------------
(***************************************************************************)
(* Who wakes the worker.                                                   *)
(***************************************************************************)

\* Somebody will send the signal, or the worker is to end.
Owed ==
    \/ signal \/ workDone \/ draining
    \/ listener.at # "rest"
    \/ \E n \in Names : n \in restored \/ cleanup[n].at = "signalling"
    \/ \E o \in Observers : observers[o].at \in {"barrier", "failure", "success", "signalling"}

\* The worker has looked for removals to claim.
Looked ==
    {"target", "count", "trim", "satisfied", "clearing", "allowed", "waiting", "recheck", "verify",
     "reserved", "jit", "starting", "failing", "asleep"}

\* What has turned up behind the worker's back will be told: removals, ...
ClaimsTold == worker.at \in Looked => \A n \in Claimable : Owed \/ n \in cleanupTimers

\* ... another target than the one it works with, ...
TargetTold ==
    worker.at \in {"count", "trim", "satisfied", "verify"} /\ CanScale /\ worker.target # Target => Owed

\* ... missing runners, ...
CountTold ==
    /\ worker.at \in {"trim", "satisfied"} /\ count < worker.target => Owed
    /\ worker.at = "clearing" /\ CanScale /\ count < Target => Owed
    /\ worker.at = "asleep" /\ CanScale /\ count < Target /\ NamesLeft /\ retry = "none" => Owed

\* ... and runners too many.
TrimTold ==
    worker.at \in Looked \ {"target", "count", "trim"} /\ CanScale /\ count > Target /\ canTrim(Target) => Owed

Told == ClaimsTold /\ TargetTold /\ CountTold /\ TrimTold

\* A removal that backs off has its timer.
BackoffTimed == \A n \in Names : instances[n].backoff => n \in cleanupTimers \/ workDone \/ draining

\* The signal abandons the wait for capacity.
WaitTold == worker.at = "waiting" => cancelAcquire # "nil" /\ (signal <=> cancelAcquire = "fired")

\* A stop that is under way has been announced.
StopTold ==
    /\ stopper # "serving" /\ ~ShuttingDown => draining
    /\ worker.at = "cleaning" => draining
    /\ \A n \in Names : cleanup[n].by \in {"worker", "drain"} => draining

WakeInv == (~ShuttingDown => Told /\ BackoffTimed) /\ WaitTold /\ StopTold

LEMMA InitWake == Init => WakeInv
<1> SUFFICES ASSUME Init PROVE WakeInv
  OBVIOUS
<1>1. listener.at # "rest"
  BY DEF Init, InitWith, ListenerAt
<1>2. Owed
  BY <1>1 DEF Owed
<1>3. Told
  BY <1>2 DEF Told, ClaimsTold, TargetTold, CountTold, TrimTold
<1> QED BY <1>3
        DEF Init, InitWith, initInstances, Absent, WakeInv, BackoffTimed, WaitTold, StopTold, WorkerAt, NoCleanup

\* The stop is announced once.
LEMMA StopLasts ==
  ASSUME TypeOK, [Next]_vars
  PROVE  /\ draining => draining'
         /\ workDone => workDone'
         /\ stopper' # "serving" /\ ~ShuttingDown' => draining' \/ (stopper # "serving" /\ ~ShuttingDown)
<1> DEFINE Lasts ==
         /\ draining => draining'
         /\ workDone => workDone'
         /\ stopper' # "serving" /\ ~ShuttingDown' => draining' \/ (stopper # "serving" /\ ~ShuttingDown)
<1>1. CASE UNCHANGED stopVars
  BY <1>1 DEF stopVars, ShuttingDown
<1>2. CASE Stop
  BY <1>2 DEF ShuttingDown, Stop, DrainBegins, DrainStopsWork, stopWork, DrainBoundary, DrainCompletes, DrainExpires,
         SessionEnds, ShutdownBegins, ShutdownStopsWork, ShutdownDetaches, ShutdownEnds, DrainClaims,
         ShutdownRemoves, stopVars, TypeOK
<1> QED BY <1>1, <1>2, StepKinds, BystandersFrame, DecidingFrame, StartingFrame, CleaningFrame DEF vars, stopVars

LEMMA NextStopTold ==
  ASSUME TypeOK, StopTold, [Next]_vars PROVE StopTold'
<1>1. draining => draining'
  BY StopLasts
<1>2. stopper' # "serving" /\ ~ShuttingDown' => draining'
  BY <1>1, StopLasts DEF StopTold
<1>3. worker'.at = "cleaning" => draining'
  <2>1. CASE UNCHANGED worker
    BY <1>1, <2>1 DEF StopTold
  <2>2. CASE Decide
    BY <2>2, DecidingAt DEF StartSteps
  <2>3. ASSUME NEW n \in Names, Start(n), worker'.at = "cleaning" PROVE draining
    <3>1. LaunchedDraining(n)
      BY <2>3, StartingWorker DEF Start
    <3> QED BY <3>1 DEF LaunchedDraining
  <2> QED BY <1>1, <2>1, <2>2, <2>3, StepKinds, BystandersFrame, CleaningFrame, StoppingFrame DEF vars
<1>4. ASSUME NEW n \in Names, cleanup'[n].by \in {"worker", "drain"} PROVE draining'
  <2>1. CASE cleanup'[n] = cleanup[n]
    BY <1>1, <1>4, <2>1 DEF StopTold
  <2>2. CASE ClaimCleanup(n)
    BY <1>4, <2>2 DEF ClaimCleanup, TypeOK
  <2>3. CASE DrainClaims(n)
    BY <1>1, <2>3 DEF DrainClaims, StopTold, ShuttingDown
  <2>4. CASE LaunchedDraining(n)
    BY <1>1, <2>4 DEF LaunchedDraining
  <2>5. CASE cleanup'[n].by \in {cleanup[n].by, "nobody"}
    BY <1>1, <1>4, <2>5 DEF StopTold
  <2> QED BY <2>1, <2>2, <2>3, <2>4, <2>5, CleanupsMove
<1> QED BY <1>2, <1>3, <1>4 DEF StopTold

\* Only a cleanup that fails backs off, and it arms its timer.
LEMMA BackoffMoves ==
  ASSUME TypeOK, [Next]_vars, NEW m \in Names
  PROVE  instances'[m].backoff =>
            instances[m].backoff \/ (Clean(m) /\ canRetry(m) /\ removalFails(m) /\ cleanup[m].by # "worker")
<1> DEFINE Moved ==
      instances'[m].backoff =>
         instances[m].backoff \/ (Clean(m) /\ canRetry(m) /\ removalFails(m) /\ cleanup[m].by # "worker")
<1>1. InstancesOK
  BY SplitTypes
<1>2. ASSUME NEW n \in Names, NEW p, NEW r, NEW i, NEW f, NEW b \in {FALSE, instances[n].backoff}, Edit(n, p, r, i, f, b)
      PROVE  Moved
  BY <1>2 DEF Edit
<1>3. UNCHANGED instances => Moved
  OBVIOUS
<1>4. CASE Bystanders
  <2>1. ASSUME NEW n \in Names, markBusy(n) \/ markDone(n, "job-completed") \/ markExited(n) PROVE Moved
    BY <1>1, <1>2, <2>1, JobEdits DEF Reasons
  <2>2. ASSUME NEW n \in Names, cleanupRetryDue(n) PROVE Moved
    BY <1>1, <1>2, <2>2, RemovalEdits
  <2>3. ASSUME NEW n \in Names, readinessResult(n, TRUE) \/ readinessResult(n, FALSE) PROVE Moved
    BY <1>1, <1>2, <2>3, ReadinessEdits
  <2> QED BY <1>3, <1>4, <2>1, <2>2, <2>3, BystandingEdits, ObservingEdits DEF Observers
<1>5. CASE Decide
  BY <1>1, <1>2, <1>3, <1>5, DecidingEdits, RemovalEdits, ReadinessEdits, StartEdits DEF InstancePhases
<1>6. ASSUME NEW n \in Names, Start(n) PROVE Moved
  <2>1. failProvision(n) => Moved
    BY <1>1, <1>2, <1>3, StartEdits DEF InstancePhases
  <2>2. \A known \in BOOLEAN :
           markStarted(n, known, "provisioning") \/ markStarted(n, known, "idle") => Moved
    BY <1>1, <1>2, StartEdits DEF InstancePhases
  <2>3. markDone(n, "drain") => Moved
    BY <1>1, <1>2, JobEdits DEF Reasons
  <2> QED BY <1>3, <1>6, <2>1, <2>2, <2>3, StartingEdits
<1>7. ASSUME NEW n \in Names, Clean(n) PROVE Moved
  <2>1. ASSUME canRetry(n), retryRemoval(n), removalFails(n) PROVE Moved
    <3>1. n = m \/ instances'[m] = instances[m]
      BY <1>1, <2>1, RemovalEdits DEF Edit
    <3>2. cleanup[n].by = "worker" => UNCHANGED instances
      BY <2>1 DEF removalFails
    <3> QED BY <1>7, <2>1, <3>1, <3>2
  <2> QED BY <1>1, <1>2, <1>3, <1>7, <2>1, CleaningEdits, RemovalEdits
<1>8. CASE Stop
  <2>1. idleForRemoval \/ detachAll => Moved
    BY <1>1, BoundaryEdits
  <2> QED BY <1>1, <1>2, <1>3, <1>8, <2>1, StoppingEdits, RemovalEdits
<1> QED BY <1>3, <1>4, <1>5, <1>6, <1>7, <1>8, StepKinds DEF vars

LEMMA TimerMoves ==
  ASSUME [Next]_vars, NEW m \in cleanupTimers
  PROVE  m \in cleanupTimers' \/ (CleanupTimerFires(m) /\ ~instances[m].backoff /\ UNCHANGED instances)
<1>1. CASE Bystanders
  <2>1. \A n \in Names : World(n) => UNCHANGED cleanupTimers
    BY DEF World, JobAssigned, JobEnds, ProcessExits, ProcessCrashes, Outside, taskVars
  <2>2. Listen => UNCHANGED cleanupTimers
    BY DEF Listen, PendCompletion, SignalCompletion, SignalDesired, HandleDesiredRunnerCount,
           HandleJobStarted, HandleJobCompleted, Listening
  <2>3. \A o \in Observers : Observe(o) => UNCHANGED cleanupTimers
    BY DEF Observe, ObserverCancelled, ObserveExit, MarkExited, RaiseBarrier, ReportReady,
           ReportUnready, ObservedSuccess, ObservedFailure, ObserverSignals, Observing
  <2>4. \A n \in Names : CleanupTimerFires(n) =>
           cleanupTimers' = cleanupTimers \ {n} /\ ~instances[n].backoff /\ UNCHANGED instances
    BY DEF CleanupTimerFires
  <2> QED BY <1>1, <2>1, <2>2, <2>3, <2>4
          DEF Bystanders, RetryDeadlinePasses, RetryTimerFires, CleanupDeadlinePasses
<1>2. ASSUME NEW n \in Names, Clean(n) PROVE cleanupTimers \subseteq cleanupTimers'
  BY <1>2 DEF Clean, LookUpRunner, AskGitHub, Refused, SignalRestored, RemoveInstance, FinishRemoval,
              SignalRemoved, removalFails
<1> QED BY <1>1, <1>2, StepKinds, DecidingFrame, StartingFrame, StoppingFrame DEF vars, taskVars

LEMMA NextBackoff ==
  ASSUME TypeOK, StopTold, BackoffTimed, [Next]_vars PROVE BackoffTimed'
<1> SUFFICES ASSUME NEW n \in Names, instances'[n].backoff
             PROVE  n \in cleanupTimers' \/ workDone' \/ draining'
  BY DEF BackoffTimed
<1>1. CASE instances[n].backoff
  <2>1. n \in cleanupTimers \/ workDone \/ draining
    BY <1>1 DEF BackoffTimed
  <2> QED BY <1>1, <2>1, TimerMoves, StopLasts
<1>2. CASE Clean(n) /\ canRetry(n) /\ removalFails(n) /\ cleanup[n].by # "worker"
  <2>1. ContextDone(n) => workDone \/ draining
    BY DEF ContextDone, StopTold
  <2> QED BY <1>2, <2>1, StopLasts DEF removalFails
<1> QED BY <1>1, <1>2, BackoffMoves

\* A step of somebody else that gives the worker nothing new to find.
Calm ==
    /\ UNCHANGED <<worker, demandVars>>
    /\ Counted' = Counted /\ Idle' = Idle /\ (Tracked \ Removing)' = Tracked \ Removing
    /\ NamesLeft' => NamesLeft
    /\ retry' = "none" => retry = "none"
    /\ Owed => Owed'
    /\ Claimable' \subseteq Claimable \cup cleanupTimers'
    /\ ~Owed' => cleanupTimers \subseteq cleanupTimers'

LEMMA CalmTold ==
  ASSUME Told, Calm PROVE Told'
<1>1. CanScale' = CanScale /\ Target' = Target /\ worker' = worker
  BY DEF Calm, CanScale, Target, demandVars
<1>2. count' = count /\ (canTrim(worker.target)' <=> canTrim(worker.target)) /\ (canTrim(Target)' <=> canTrim(Target))
  BY <1>1 DEF Calm, count, canTrim, plannedCount
<1>3. ClaimsTold'
  BY DEF Told, ClaimsTold, Calm
<1>4. TargetTold'
  BY <1>1 DEF Told, TargetTold, Calm
<1>5. CountTold'
  BY <1>1, <1>2 DEF Told, CountTold, Calm
<1>6. TrimTold'
  BY <1>1, <1>2 DEF Told, TrimTold, Calm
<1> QED BY <1>3, <1>4, <1>5, <1>6 DEF Told

LEMMA OwedTold ==
  ASSUME Owed' PROVE Told'
BY DEF Told, ClaimsTold, TargetTold, CountTold, TrimTold

LEMMA SignalOwes ==
  ASSUME signalReconcile, UNCHANGED draining PROVE Owed'
BY DEF signalReconcile, wakeVars, Owed

\* Entries and the rest that an unremarkable step leaves as they are.
LEMMA SameEntries ==
  ASSUME UNCHANGED instances
  PROVE  /\ Counted' = Counted /\ Idle' = Idle /\ (Tracked \ Removing)' = Tracked \ Removing
         /\ Claimable' = Claimable
BY DEF Counted, Idle, Tracked, Removing, IsUnassignedRemoval, Claimable

LEMMA SamePhase ==
  ASSUME NEW n \in Names, NEW i, NEW f, NEW b, Edit(n, instances[n].phase, instances[n].reason, i, f, b)
  PROVE  /\ Counted' = Counted /\ Idle' = Idle /\ (Tracked \ Removing)' = Tracked \ Removing
         /\ Claimable' \subseteq Claimable \cup {n}
         /\ b => n \notin Claimable'
<1>1. \A m \in Names : instances'[m].phase = instances[m].phase /\ instances'[m].reason = instances[m].reason
  BY DEF Edit
<1>2. Tracked' = Tracked /\ Removing' = Removing /\ Idle' = Idle
  BY <1>1 DEF Tracked, Removing, Idle
<1>3. Counted' = Counted
  BY <1>1, <1>2 DEF Counted, IsUnassignedRemoval, Tracked
<1>4. Claimable' \subseteq Claimable \cup {n}
  BY <1>2 DEF Claimable, Edit, Removing
<1>5. b => n \notin Claimable'
  BY DEF Claimable, Edit
<1> QED BY <1>2, <1>3, <1>4, <1>5

LEMMA ListeningTold ==
  ASSUME Listen, ~ShuttingDown' PROVE Owed'
<1>1. CASE PendCompletion
  BY <1>1 DEF PendCompletion, listenerGoes, ListenerAt, Owed
<1>2. ASSUME NEW n \in Names, HandleJobStarted(n) PROVE Owed'
  BY <1>2 DEF HandleJobStarted, listenerGoes, ListenerAt, Owed
<1>3. ASSUME NEW n \in Names, HandleJobCompleted(n) PROVE Owed'
  BY <1>3 DEF HandleJobCompleted, listenerGoes, ListenerAt, Owed
<1>4. CASE SignalCompletion
  BY <1>4 DEF SignalCompletion, listenerGoes, ListenerAt, Owed
<1>5. CASE SignalDesired
  BY <1>5, SignalOwes DEF SignalDesired, Listening, stopVars
<1>6. ASSUME NEW d \in 0 .. MaxDemand, HandleDesiredRunnerCount(d) PROVE Owed'
  BY <1>6 DEF HandleDesiredRunnerCount, Listening, stopVars, ShuttingDown, listenerGoes, ListenerAt, Owed
<1> QED BY <1>1, <1>2, <1>3, <1>4, <1>5, <1>6 DEF Listen

LEMMA ObservingTold ==
  ASSUME TypeOK, NEW o \in Observers, Observe(o) PROVE Owed' \/ Calm
<1>1. CASE observerGoes(o, "failure") \/ observerGoes(o, "success") \/ observerGoes(o, "signalling")
  BY <1>1 DEF observerGoes, ObserverAt, Owed, TypeOK
<1>2. CASE MarkExited(o) /\ acceptsExit(o[1])
  <2>1. observers' = [observers EXCEPT ![o].at = "barrier", ![o].unassigned = exitedUnassigned(o[1])]
    BY <1>2 DEF MarkExited
  <2>2. observers[o] \in ObserverType
    BY DEF TypeOK
  <2>3. observers'[o].at = "barrier"
    BY <2>1, <2>2 DEF ObserverType, TypeOK
  <2> QED BY <2>3 DEF Owed
<1>3. CASE ObserverSignals(o)
  BY <1>3, SignalOwes DEF ObserverSignals, Observing, stopVars
<1>4. CASE ObserverCancelled(o) \/ ObserveExit(o) \/ (MarkExited(o) /\ ~acceptsExit(o[1]))
  <2>1. /\ UNCHANGED <<instances, retryVars, demandVars, wakeVars, worker, github, cleanup, restored, listener,
                       cleanupTimers, draining, workDone>>
        /\ observers[o].at \in {"waiting", "exiting"}
    BY <1>4 DEF ObserverCancelled, ObserveExit, MarkExited, Observing, demandVars, stopVars
  <2>2. \E e : observers' = [observers EXCEPT ![o] = e]
    BY <1>4 DEF ObserverCancelled, ObserveExit, MarkExited, observerGoes
  <2>3. Owed => Owed'
    BY <2>1, <2>2 DEF Owed, TypeOK, wakeVars
  <2> QED BY <2>1, <2>3, SameEntries DEF Calm, NamesLeft, retryVars
<1>5. CASE RaiseBarrier(o) \/ ReportReady(o) \/ ReportUnready(o) \/ ObservedSuccess(o) \/ ObservedFailure(o)
  BY <1>1, <1>5 DEF RaiseBarrier, ReportReady, ReportUnready, ObservedSuccess, ObservedFailure
<1> QED BY <1>2, <1>3, <1>4, <1>5 DEF Observe

LEMMA BystandersTold ==
  ASSUME TypeOK, BackoffTimed, Bystanders, ~ShuttingDown' PROVE Owed' \/ Calm
<1>1. CASE RetryDeadlinePasses
  <2>1. /\ UNCHANGED <<instances, demandVars, wakeVars, worker, github, cleanup, restored, listener, observers,
                       cleanupTimers, draining, workDone>>
        /\ retry' = "due"
    BY <1>1 DEF RetryDeadlinePasses, RetryDeadline, Waiting, stopVars, worldVars
  <2>2. Owed => Owed'
    BY <2>1 DEF Owed, wakeVars
  <2> QED BY <2>1, <2>2, SameEntries DEF Calm, NamesLeft
<1>2. ASSUME RetryTimerFires \/ \E n \in Names : CleanupTimerFires(n) PROVE Owed'
  BY <1>2, SignalOwes DEF RetryTimerFires, CleanupTimerFires, Waiting, stopVars
<1>3. ASSUME NEW n \in Names, CleanupDeadlinePasses(n) PROVE Owed' \/ Calm
  <2>1. /\ UNCHANGED <<retryVars, demandVars, wakeVars, worker, github, cleanup, restored, listener, observers,
                       cleanupTimers, draining, workDone>>
        /\ instances[n].backoff
        /\ Edit(n, instances[n].phase, instances[n].reason, instances[n].id, instances[n].inFlight, FALSE)
    BY <1>3, RemovalEdits, SplitTypes DEF CleanupDeadlinePasses, Waiting, stopVars, worldVars
  <2>2. Owed => Owed'
    BY <2>1 DEF Owed, wakeVars
  <2>3. n \in cleanupTimers \/ Owed
    BY <2>1 DEF BackoffTimed, Owed
  <2>4. ~Owed => Claimable' \subseteq Claimable \cup cleanupTimers'
    BY <2>1, <2>3, SamePhase
  <2> QED BY <2>1, <2>2, <2>4, SamePhase DEF Calm, NamesLeft, retryVars
<1>4. ASSUME NEW n \in Names, World(n) PROVE Owed' \/ Calm
  <2>1. UNCHANGED <<instances, retryVars, demandVars, wakeVars, worker, cleanup, restored, listener, observers,
                    cleanupTimers, draining, workDone>>
    BY <1>4 DEF World, JobAssigned, JobEnds, ProcessExits, ProcessCrashes, Outside, taskVars, stopVars
  <2>2. NamesLeft' => NamesLeft
    BY <1>4 DEF World, JobAssigned, JobEnds, ProcessExits, ProcessCrashes, NamesLeft, TypeOK
  <2>3. Owed => Owed'
    BY <2>1 DEF Owed, wakeVars
  <2> QED BY <2>1, <2>2, <2>3, SameEntries DEF Calm, retryVars
<1> QED BY <1>1, <1>2, <1>3, <1>4, ListeningTold, ObservingTold DEF Bystanders

LEMMA CleaningTold ==
  ASSUME TypeOK, StopTold, NEW n \in Names, Clean(n) PROVE Owed' \/ Calm
<1>1. CASE SignalRestored(n) \/ SignalRemoved(n)
  BY <1>1, SignalOwes DEF SignalRestored, SignalRemoved, Cleaning, stopVars
<1>2. CASE Refused(n) /\ deregistrationNeeded(n)
  BY <1>2 DEF Refused, Owed
<1>3. CASE FinishRemoval(n) /\ canFinish(n)
  <2>1. cleanup'[n].at = "signalling"
    BY <1>3 DEF FinishRemoval, cleanupSteps, TypeOK, CleanupType
  <2> QED BY <2>1 DEF Owed
<1>4. CASE \/ LookUpRunner(n) \/ AskGitHub(n) \/ RemoveInstance(n)
           \/ (Refused(n) /\ ~deregistrationNeeded(n)) \/ (FinishRemoval(n) /\ ~canFinish(n))
  <2>1. /\ UNCHANGED <<retryVars, demandVars, wakeVars, worker, restored, listener, observers, draining, workDone>>
        /\ cleanup[n].at # "signalling"
    BY <1>4 DEF LookUpRunner, AskGitHub, RemoveInstance, Refused, FinishRemoval, Cleaning, stopVars
  <2>2. Owed => Owed'
    <3>1. \E e : cleanup' = [cleanup EXCEPT ![n] = e] \/ \E step : cleanup' = [cleanup EXCEPT ![n].at = step]
      BY <1>4 DEF LookUpRunner, AskGitHub, RemoveInstance, Refused, FinishRemoval, removalFails, cleanupEnds, cleanupSteps
    <3>2. \A m \in Names \ {n} : cleanup'[m] = cleanup[m]
      BY <3>1 DEF TypeOK
    <3> QED BY <2>1, <3>2 DEF Owed, wakeVars
  <2>3. NamesLeft' => NamesLeft
    <3>1. UNCHANGED github \/ github' = [github EXCEPT ![n] = IF @ = "registered" THEN "absent" ELSE @]
      BY <1>4 DEF LookUpRunner, AskGitHub, RemoveInstance, Refused, FinishRemoval
    <3> QED BY <3>1 DEF NamesLeft, TypeOK
  <2>4. CASE UNCHANGED <<instances, cleanupTimers>>
    BY <2>1, <2>2, <2>3, <2>4, SameEntries DEF Calm, retryVars
  <2>5. CASE canRetry(n) /\ removalFails(n) /\ retryRemoval(n)
    <3>1. Edit(n, instances[n].phase, instances[n].reason, instances[n].id, FALSE, TRUE)
      BY <2>5, RemovalEdits, SplitTypes
    <3>2. cleanupTimers \subseteq cleanupTimers'
      BY <2>5 DEF removalFails
    <3>3. Claimable' \subseteq Claimable
      BY <3>1, SamePhase
    <3> QED BY <2>1, <2>2, <2>3, <3>1, <3>2, <3>3, SamePhase DEF Calm, retryVars
  <2> QED BY <1>4, <2>4, <2>5
      DEF LookUpRunner, AskGitHub, RemoveInstance, Refused, FinishRemoval, removalFails
<1> QED BY <1>1, <1>2, <1>3, <1>4 DEF Clean

LEMMA StoppingTold ==
  ASSUME TypeOK, StopTold, ~ShuttingDown, Stop, [Next]_vars PROVE Owed' \/ ShuttingDown'
<1>1. CASE stopper # "serving"
  BY <1>1, StopLasts DEF StopTold, Owed
<1>2. CASE stopper = "serving"
  <2>1. DrainBegins \/ SessionEnds
    BY <1>2 DEF Stop, DrainStopsWork, DrainBoundary, DrainCompletes, DrainExpires, ShutdownBegins, ShutdownStopsWork,
           ShutdownDetaches, ShutdownEnds, DrainClaims, ShutdownRemoves
  <2> QED BY <2>1 DEF DrainBegins, SessionEnds, Owed, ShuttingDown
<1> QED BY <1>1, <1>2

\* The worker's own steps.  A worker that has yet to look has missed nothing.
LEMMA FreshTold ==
  ASSUME worker'.at \notin Looked PROVE Told'
BY DEF Looked, Told, ClaimsTold, TargetTold, CountTold, TrimTold

\* What the worker finds is there until it acts.
Ponders ==
    UNCHANGED <<instances, demandVars, signal, cleanup, restored, observers, cleanupTimers, listener,
                draining, workDone, github>>

LEMMA PondersSame ==
  ASSUME Ponders
  PROVE  /\ Owed' <=> Owed
         /\ Claimable' = Claimable /\ count' = count /\ servingCount' = servingCount
         /\ (CanScale' <=> CanScale) /\ Target' = Target
         /\ (canTrim(Target)' <=> canTrim(Target)) /\ (NamesLeft' <=> NamesLeft)
<1>1. Owed' <=> Owed
  BY DEF Ponders, Owed
<1>2. (CanScale' <=> CanScale) /\ Target' = Target
  BY DEF Ponders, CanScale, Target, demandVars
<1>3. /\ Counted' = Counted /\ Idle' = Idle /\ Busy' = Busy /\ (Tracked \ Removing)' = Tracked \ Removing
      /\ Claimable' = Claimable
  BY SameEntries DEF Ponders, Busy
<1> QED BY <1>1, <1>2, <1>3 DEF count, servingCount, canTrim, plannedCount, NamesLeft, Ponders

\* Before and after one of the worker's decisions.
LEMMA DecidingFields ==
  ASSUME TypeOK
  PROVE  /\ EnterPass /\ ~draining => worker'.at = "claim"
         /\ EnterPass /\ draining => worker'.at = "asleep"
         /\ NothingToClaim => worker'.at = "target"
         /\ ReadTarget => IF CanScale THEN worker'.at = "count" /\ worker'.target = Target ELSE worker'.at = "asleep"
         /\ CompareCount => IF count < worker.target THEN worker'.at = "allowed"
                            ELSE /\ worker'.target = worker.target
                                 /\ worker'.at = IF count = worker.target THEN "satisfied" ELSE "trim"
         /\ NothingToTrim => worker'.at = "satisfied" /\ worker'.target = worker.target
         /\ CheckSatisfied => worker'.at = IF servingCount >= worker.target THEN "clearing" ELSE "asleep"
         /\ ClearSatisfiedRetry => worker'.at = "asleep"
         /\ BeginAcquire => worker'.at = IF retryAllowed /\ ~signal THEN "waiting" ELSE "asleep"
         /\ CapacityGranted => worker'.at = "recheck"
         /\ CapacityAbandoned => worker'.at = "asleep"
         /\ RereadTarget => IF CanScale /\ ~draining THEN worker'.at = "verify" /\ worker'.target = Target
                            ELSE worker'.at = "asleep"
         /\ AbandonStart => worker'.at = "asleep"
<1>1. \A step : WorkerAt(step).at = step
  BY DEF WorkerAt
<1>2. \A step : /\ [worker EXCEPT !.at = step].at = step /\ [worker EXCEPT !.at = step].target = worker.target
  BY DEF TypeOK, WorkerType
<1>3. \A step, t : /\ [WorkerAt(step) EXCEPT !.target = t].at = step
                   /\ [WorkerAt(step) EXCEPT !.target = t].target = t
  BY DEF WorkerAt
<1>4. /\ EnterPass /\ ~draining => worker'.at = "claim"
      /\ EnterPass /\ draining => worker'.at = "asleep"
      /\ NothingToClaim => worker'.at = "target"
  BY <1>1 DEF EnterPass, NothingToClaim, workerGoes
<1>5. ReadTarget => IF CanScale THEN worker'.at = "count" /\ worker'.target = Target ELSE worker'.at = "asleep"
  BY <1>1, <1>3 DEF ReadTarget
<1>6. CompareCount => IF count < worker.target THEN worker'.at = "allowed"
                      ELSE /\ worker'.target = worker.target
                           /\ worker'.at = IF count = worker.target THEN "satisfied" ELSE "trim"
  BY <1>1, <1>2 DEF CompareCount, workerGoes, workerSteps
<1>7. NothingToTrim => worker'.at = "satisfied" /\ worker'.target = worker.target
  BY <1>2 DEF NothingToTrim, workerSteps
<1>8. /\ CheckSatisfied => worker'.at = IF servingCount >= worker.target THEN "clearing" ELSE "asleep"
      /\ ClearSatisfiedRetry => worker'.at = "asleep"
  BY <1>1 DEF CheckSatisfied, ClearSatisfiedRetry, workerGoes
<1>9. BeginAcquire => worker'.at = IF retryAllowed /\ ~signal THEN "waiting" ELSE "asleep"
  BY <1>1 DEF BeginAcquire, workerGoes
<1>10. /\ CapacityGranted => worker'.at = "recheck"
       /\ CapacityAbandoned => worker'.at = "asleep"
       /\ AbandonStart => worker'.at = "asleep"
  BY <1>1 DEF CapacityGranted, CapacityAbandoned, AbandonStart, returnLease, workerGoes
<1>11. RereadTarget => IF CanScale /\ ~draining THEN worker'.at = "verify" /\ worker'.target = Target
                       ELSE worker'.at = "asleep"
  BY <1>1, <1>3 DEF RereadTarget, returnLease, workerGoes
<1> QED BY <1>4, <1>5, <1>6, <1>7, <1>8, <1>9, <1>10, <1>11

\* A decision that leaves the worker asleep or on its way.
LEMMA PonderingTold ==
  ASSUME TypeOK, Told, WaitTold, Decide, Ponders, ~LoopStops, ~EnterPass PROVE Told'
<1> SUFFICES ASSUME ~Owed' PROVE Told'
  BY OwedTold
<1>1. /\ ~Owed /\ Claimable' = Claimable /\ count' = count /\ servingCount' = servingCount
      /\ (CanScale' <=> CanScale) /\ Target' = Target
      /\ (canTrim(Target)' <=> canTrim(Target)) /\ (NamesLeft' <=> NamesLeft)
      /\ cleanupTimers' = cleanupTimers /\ ~signal /\ ~workDone /\ ~draining
  BY PondersSame DEF Ponders, Owed
<1>2. count \in Nat /\ Target \in 0 .. MaxRunners /\ worker.target \in 0 .. MaxRunners
  BY CountNames, TargetType, SplitTypes DEF TypeOK, WorkerType
<1>3. /\ worker.at \in Looked => \A n \in Claimable : n \in cleanupTimers
      /\ worker.at \in {"count", "trim", "satisfied", "verify"} /\ CanScale => worker.target = Target
      /\ worker.at \in {"trim", "satisfied"} => ~(count < worker.target)
      /\ worker.at = "clearing" /\ CanScale => ~(count < Target)
      /\ worker.at \in Looked \ {"target", "count", "trim"} /\ CanScale /\ count > Target => ~canTrim(Target)
  BY <1>1 DEF Told, ClaimsTold, TargetTold, CountTold, TrimTold
<1> DEFINE Found ==
      /\ worker'.at \in Looked => \A n \in Claimable : n \in cleanupTimers
      /\ worker'.at \in {"count", "trim", "satisfied", "verify"} /\ CanScale => worker'.target = Target
      /\ worker'.at \in {"trim", "satisfied"} => ~(count < worker'.target)
      /\ worker'.at = "clearing" /\ CanScale => ~(count < Target)
      /\ worker'.at = "asleep" /\ CanScale /\ NamesLeft /\ retry' = "none" => ~(count < Target)
      /\ worker'.at \in Looked \ {"target", "count", "trim"} /\ CanScale /\ count > Target => ~canTrim(Target)
<1>4. Found => Told'
  BY <1>1 DEF Told, ClaimsTold, TargetTold, CountTold, TrimTold
<1> USE <1>2 DEF Looked
<1>5. CASE NothingToClaim
  BY <1>4, <1>5, DecidingFields DEF NothingToClaim
<1>6. CASE ReadTarget
  BY <1>3, <1>4, <1>6, DecidingFields DEF ReadTarget
<1>7. CASE CompareCount
  <2>1. worker.at = "count"
    BY <1>7 DEF CompareCount
  <2>2. CASE count < worker.target
    BY <1>3, <1>4, <1>7, <2>1, <2>2, DecidingFields
  <2>3. CASE count >= worker.target
    BY <1>3, <1>4, <1>7, <2>1, <2>3, DecidingFields
  <2> QED BY <2>2, <2>3
<1>8. CASE NothingToTrim
  <2>1. worker.at = "trim" /\ ~canTrim(worker.target)
    BY <1>8 DEF NothingToTrim
  <2> QED BY <1>3, <1>4, <1>8, <2>1, DecidingFields
<1>9. CASE CheckSatisfied \/ ClearSatisfiedRetry
  <2>1. worker.at \in {"satisfied", "clearing"}
    BY <1>9 DEF CheckSatisfied, ClearSatisfiedRetry
  <2> QED BY <1>3, <1>4, <1>9, <2>1, DecidingFields DEF CheckSatisfied, ClearSatisfiedRetry
<1>10. CASE BeginAcquire
  <2>1. worker.at = "allowed" /\ (~retryAllowed => retry' # "none")
    BY <1>10 DEF BeginAcquire, retryAllowed, retryVars
  <2> QED BY <1>1, <1>3, <1>4, <1>10, <2>1, DecidingFields
<1>11. CASE CapacityGranted
  BY <1>3, <1>4, <1>11, DecidingFields DEF CapacityGranted
<1>12. CASE CapacityAbandoned
  BY <1>1, <1>12 DEF CapacityAbandoned, WaitTold
<1>13. CASE RereadTarget
  <2>1. worker.at = "recheck"
    BY <1>13 DEF RereadTarget
  <2> QED BY <1>1, <1>3, <1>4, <1>13, <2>1, DecidingFields
<1>14. CASE AbandonStart
  <2>1. worker.at = "verify" /\ ~MayStart /\ UNCHANGED retry
    BY <1>14 DEF AbandonStart, retryVars
  <2> QED BY <1>3, <1>4, <1>14, <2>1, DecidingFields DEF MayStart, retryAllowed
<1>15. CASE LoopWakes
  BY <1>1, <1>15 DEF LoopWakes
<1>16. ASSUME NEW n \in Names, ClaimCleanup(n) \/ ScaleDown(n) PROVE Told'
  <2>1. worker'.at = "entering"
    BY <1>16 DEF ClaimCleanup, ScaleDown, workerGoes, WorkerAt
  <2> QED BY <2>1, FreshTold
<1>17. ASSUME NEW n \in Names, ReserveName(n) PROVE FALSE
  BY <1>17 DEF ReserveName, Ponders, TypeOK
<1> QED BY <1>5, <1>6, <1>7, <1>8, <1>9, <1>10, <1>11, <1>12, <1>13, <1>14, <1>15, <1>16, <1>17 DEF Decide

LEMMA DecidingTold ==
  ASSUME TypeOK, Owned, Told, WaitTold, Decide PROVE Told'
<1>1. CASE LoopStops \/ LoopWakes
  <2>1. worker'.at \in {"stopped", "entering"}
    BY <1>1 DEF LoopStops, LoopWakes, workerGoes, WorkerAt
  <2> QED BY <2>1, FreshTold DEF Looked
<1>2. CASE EnterPass
  <2>1. CASE draining
    BY <1>2, <2>1, OwedTold DEF EnterPass, OnlyWorker, Deciding, stopVars, Owed
  <2>2. CASE ~draining
    BY <1>2, <2>2, DecidingFields, FreshTold DEF Looked
  <2> QED BY <2>1, <2>2
<1>3. ASSUME NEW n \in Names, ClaimCleanup(n) \/ ScaleDown(n) PROVE Told'
  <2>1. worker'.at = "entering"
    BY <1>3 DEF ClaimCleanup, ScaleDown, workerGoes, WorkerAt
  <2> QED BY <2>1, FreshTold DEF Looked
<1>4. ASSUME NEW n \in Names, ReserveName(n) PROVE Told'
  <2> SUFFICES ASSUME ~Owed' PROVE Told'
    BY OwedTold
  <2>1. /\ worker.at = "verify" /\ worker'.at = "reserved" /\ count < worker.target
        /\ UNCHANGED <<demandVars, wakeVars, cleanup, restored, observers, cleanupTimers, listener, stopVars>>
    BY <1>4 DEF ReserveName, MayStart, WorkerAt
  <2>2. ~Owed
    BY <2>1 DEF Owed, wakeVars, stopVars
  <2>3. Edit(n, "provisioning", "none", FALSE, FALSE, FALSE) /\ n \notin Tracked
    BY <1>4, StartEdits, SplitTypes DEF ReserveName, InstancePhases, Owned, UnusedNames
  <2>4. Claimable' \subseteq Claimable
    BY <2>3 DEF Edit, Claimable, Removing
  <2>5. Counted' \subseteq Counted \cup {n}
    BY <2>3 DEF Edit, Counted, Tracked, Removing, IsUnassignedRemoval
  <2>6. count' <= count + 1
    <3>1. Cardinality(Counted \cup {n}) <= count + 1
      BY CountNames, NamesFinite, FS_AddElement DEF count
    <3>2. count' <= Cardinality(Counted \cup {n}) /\ Cardinality(Counted \cup {n}) \in Nat
      BY <2>5, CountNames, NamesCounted, NamesFinite DEF count
    <3> QED BY <3>1, <3>2, CountNames
  <2>7. CanScale' = CanScale /\ Target' = Target
    BY <2>1 DEF demandVars, CanScale, Target
  <2>8. CanScale => worker.target = Target
    BY <2>1, <2>2 DEF Told, TargetTold
  <2>9. CanScale => ~(count' > Target)
    BY <2>1, <2>6, <2>8, CountNames, TargetType, SplitTypes DEF TypeOK, WorkerType
  <2>10. \A m \in Claimable : m \in cleanupTimers
    BY <2>1, <2>2 DEF Told, ClaimsTold, Looked
  <2> QED BY <2>1, <2>4, <2>7, <2>9, <2>10 DEF Told, ClaimsTold, TargetTold, CountTold, TrimTold
<1>5. CASE ~LoopStops /\ ~LoopWakes /\ ~EnterPass /\ \A n \in Names : ~ClaimCleanup(n) /\ ~ScaleDown(n) /\ ~ReserveName(n)
  <2>1. Ponders
    BY <1>5
       DEF Decide, NothingToClaim, ReadTarget, CompareCount, NothingToTrim,
         CheckSatisfied, ClearSatisfiedRetry, BeginAcquire, CapacityGranted, CapacityAbandoned, RereadTarget,
         AbandonStart, OnlyWorker, Deciding, Ponders, wakeVars, stopVars, worldVars
  <2> QED BY <1>5, <2>1, PonderingTold
<1> QED BY <1>1, <1>2, <1>3, <1>4, <1>5

LEMMA StartingTold ==
  ASSUME TypeOK, Told, StopTold, StartKnown, ~ShuttingDown, NEW n \in Names, Start(n) PROVE Told'
<1> SUFFICES ASSUME ~Owed' PROVE Told'
  BY OwedTold
<1>1. UNCHANGED <<demandVars, restored, cleanupTimers, listener, stopVars>> /\ worker.runner = n
  BY StartingFrame
<1>2. ~draining /\ ~workDone
  BY <1>1 DEF Owed, stopVars
<1>3. CanScale' = CanScale /\ Target' = Target
  BY <1>1 DEF demandVars, CanScale, Target
<1>4. CASE worker'.at \notin Looked
  BY <1>4, FreshTold
<1>5. ASSUME RecordStartAttempt(n) \/ GenerateJIT(n) \/ GenerateJITFails(n) \/ ProviderStartFails(n) PROVE Told'
  <2>1. /\ worker.at \in {"reserved", "jit", "starting"} /\ worker'.at \in {"jit", "starting", "failing"}
        /\ UNCHANGED <<instances, wakeVars, cleanup, observers>>
    BY <1>5, StartingWorker DEF RecordStartAttempt, GenerateJIT, GenerateJITFails, ProviderStartFails
  <2>2. ~Owed
    BY <1>1, <2>1 DEF Owed, wakeVars, stopVars
  <2>3. Claimable' = Claimable /\ count' = count /\ (canTrim(Target)' <=> canTrim(Target))
    BY <1>3, <2>1, SameEntries DEF count, canTrim, plannedCount
  <2>4. ClaimsTold'
    BY <1>1, <2>1, <2>2, <2>3 DEF Told, ClaimsTold, Looked
  <2>5. TrimTold'
    BY <1>3, <2>1, <2>2, <2>3 DEF Told, TrimTold, Looked
  <2> QED BY <2>1, <2>4, <2>5 DEF Told, TargetTold, CountTold
<1>6. CASE DropProvision(n)
  <2>1. worker.at = "failing" /\ worker'.at = "asleep" /\ UNCHANGED <<wakeVars, cleanup, observers>>
    BY <1>6, StartingWorker DEF DropProvision
  <2>2. ~Owed
    BY <1>1, <2>1 DEF Owed, wakeVars, stopVars
  <2>3. retry' = "backoff"
    BY <1>2, <1>6 DEF DropProvision, recordStartFailure
  <2>4. UNCHANGED instances \/ Edit(n, "absent", "none", FALSE, FALSE, FALSE)
    BY <1>6, StartEdits, SplitTypes DEF DropProvision, InstancePhases
  <2>5. /\ Claimable' \subseteq Claimable /\ Counted' \subseteq Counted /\ Idle' \subseteq Idle
        /\ (Tracked \ Removing)' \subseteq Tracked \ Removing
    <3>1. UNCHANGED instances => Claimable' = Claimable /\ Counted' = Counted /\ Idle' = Idle /\ (Tracked \ Removing)' = Tracked \ Removing
      BY SameEntries
    <3>2. ASSUME Edit(n, "absent", "none", FALSE, FALSE, FALSE)
          PROVE  /\ Claimable' \subseteq Claimable /\ Counted' \subseteq Counted /\ Idle' \subseteq Idle
                 /\ (Tracked \ Removing)' \subseteq Tracked \ Removing
      BY <3>2 DEF Edit, Claimable, Counted, Idle, Tracked, Removing, IsUnassignedRemoval
    <3> QED BY <2>4, <3>1, <3>2
  <2>6. count' <= count
    BY <2>5, CountNames, NamesCounted DEF count
  <2>7. plannedCount' <= plannedCount /\ plannedCount \in Nat /\ plannedCount' \in Nat
    <3>1. (Tracked \ Removing) \in SUBSET Names /\ (Tracked \ Removing)' \in SUBSET Names
      BY DEF Tracked
    <3> QED BY <2>5, <3>1, NamesCounted, NamesFinite DEF plannedCount
  <2>8. Target \in Nat
    BY TargetType, SplitTypes
  <2>9. count' > Target /\ canTrim(Target)' => count > Target /\ canTrim(Target)
    BY <1>3, <2>5, <2>6, <2>7, <2>8, CountNames DEF canTrim
  <2>10. ClaimsTold'
    BY <1>1, <2>1, <2>2, <2>5 DEF Told, ClaimsTold, Looked
  <2>11. TrimTold'
    BY <1>3, <2>1, <2>2, <2>9 DEF Told, TrimTold, Looked
  <2> QED BY <2>1, <2>3, <2>10, <2>11 DEF Told, TargetTold, CountTold
<1>7. CASE LaunchedCleaned(n)
  BY <1>2, <1>7, StartingWorker DEF StopTold
<1>8. CASE RemoveOrphan(n)
  BY <1>1, <1>8, StartingWorker DEF StartKnown, StartingOf, StartSteps
<1>9. ASSUME \/ ProviderStarts(n) \/ MarkStarted(n) \/ RecordStartSuccess(n) \/ LaunchedRemoved(n)
             \/ LaunchedDraining(n) \/ LaunchedWatched(n)
      PROVE  worker'.at \notin Looked
  <2>1. worker'.at \in {"marking", "launched", "succeeding", "orphan", "entering", "cleaning"}
    BY <1>9, StartingWorker
  <2> QED BY <2>1 DEF Looked
<1> QED BY <1>4, <1>5, <1>6, <1>7, <1>8, <1>9 DEF Start

\* The wait for capacity and the signal go together.
LEMMA NextWait ==
  ASSUME TypeOK, WaitTold, [Next]_vars PROVE WaitTold'
<1>1. CASE UNCHANGED <<wakeVars, worker>>
  BY <1>1 DEF WaitTold, wakeVars
<1>2. CASE signalReconcile /\ UNCHANGED worker
  BY <1>2 DEF WaitTold, signalReconcile, wakeVars
<1>3. CASE Decide
  <2>1. CASE BeginAcquire
    <3>1. worker'.at = "waiting" => retryAllowed /\ ~signal
      BY <2>1, DecidingFields
    <3> QED BY <2>1, <3>1 DEF BeginAcquire, WaitTold
  <2>2. CASE ~BeginAcquire
    <3>1. worker'.at # "waiting"
      BY <1>3, <2>2
         DEF Decide, LoopStops, LoopWakes, EnterPass, NothingToClaim, ReadTarget, CompareCount, NothingToTrim,
           CheckSatisfied, ClearSatisfiedRetry, CapacityGranted, CapacityAbandoned, RereadTarget,
           AbandonStart, ClaimCleanup, ScaleDown, ReserveName, OnlyWorker, workerGoes, workerSteps, WorkerAt,
           returnLease, TypeOK, WorkerType
    <3> QED BY <3>1 DEF WaitTold
  <2> QED BY <2>1, <2>2
<1>4. ASSUME NEW n \in Names, Start(n) PROVE worker'.at # "waiting"
  BY <1>4, StartingWorker DEF Start
<1>5. CASE Bystanders
  <2>1. Listen => UNCHANGED wakeVars \/ signalReconcile
    BY DEF Listen, PendCompletion, SignalCompletion, SignalDesired, HandleDesiredRunnerCount,
           HandleJobStarted, HandleJobCompleted
  <2>2. \A o \in Observers : Observe(o) => UNCHANGED wakeVars \/ signalReconcile
    BY DEF Observe, ObserverCancelled, ObserveExit, MarkExited, RaiseBarrier, ReportReady,
           ReportUnready, ObservedSuccess, ObservedFailure, ObserverSignals
  <2>3. \A n \in Names : World(n) => UNCHANGED wakeVars
    BY DEF World, JobAssigned, JobEnds, ProcessExits, ProcessCrashes, Outside
  <2>4. /\ RetryDeadlinePasses \/ RetryTimerFires => UNCHANGED wakeVars \/ signalReconcile
        /\ \A n \in Names : CleanupDeadlinePasses(n) \/ CleanupTimerFires(n) => UNCHANGED wakeVars \/ signalReconcile
    BY DEF RetryDeadlinePasses, RetryTimerFires, CleanupDeadlinePasses, CleanupTimerFires
  <2> QED BY <1>1, <1>2, <1>5, <2>1, <2>2, <2>3, <2>4, BystandersFrame DEF Bystanders
<1>6. ASSUME NEW n \in Names, Clean(n) PROVE WaitTold'
  <2>1. UNCHANGED wakeVars \/ signalReconcile
    BY <1>6 DEF Clean, LookUpRunner, AskGitHub, Refused, SignalRestored, RemoveInstance, FinishRemoval, SignalRemoved
  <2> QED BY <1>1, <1>2, <1>6, <2>1, CleaningFrame
<1> QED BY <1>1, <1>3, <1>4, <1>5, <1>6, StepKinds, StoppingFrame DEF vars, WaitTold

LEMMA NextWake ==
  ASSUME TypeOK, Owned, JobInv, WakeInv, [Next]_vars PROVE WakeInv'
<1>1. StopTold' /\ WaitTold'
  BY NextStopTold, NextWait DEF WakeInv
<1>2. ASSUME ~ShuttingDown' PROVE Told' /\ BackoffTimed'
  <2>1. ~ShuttingDown /\ Told /\ BackoffTimed /\ StopTold /\ WaitTold /\ StartKnown
    BY <1>2, ShutdownLasts DEF WakeInv, JobInv
  <2>2. BackoffTimed'
    BY <2>1, NextBackoff
  <2>3. CASE UNCHANGED vars
    <3>1. worker' = worker /\ retry' = retry /\ cleanupTimers' = cleanupTimers /\ Ponders
      BY <2>3 DEF vars, retryVars, wakeVars, taskVars, stopVars, worldVars, Ponders
    <3> QED BY <2>1, <2>2, <3>1, PondersSame DEF Told, ClaimsTold, TargetTold, CountTold, TrimTold
  <2>4. CASE Bystanders
    BY <1>2, <2>1, <2>2, <2>4, BystandersTold, OwedTold, CalmTold
  <2>5. ASSUME NEW n \in Names, Clean(n) PROVE Told'
    BY <2>1, <2>5, CleaningTold, OwedTold, CalmTold
  <2>6. CASE Stop
    BY <1>2, <2>1, <2>2, <2>6, StoppingTold, OwedTold
  <2>7. ASSUME NEW n \in Names, Start(n) PROVE Told'
    BY <2>1, <2>7, StartingTold
  <2>8. CASE Decide
    BY <2>1, <2>2, <2>8, DecidingTold
  <2> QED BY <2>2, <2>3, <2>4, <2>5, <2>6, <2>7, <2>8, StepKinds
<1> QED BY <1>1, <1>2 DEF WakeInv

\* No lost wake-up: until the process leaves, the worker never sleeps, nor waits
\* for host capacity, next to work that nobody is going to tell it about.
THEOREM NoLostWakeupHolds == Spec => []NoLostWakeup
<1>1. IInv /\ JobInv /\ WakeInv /\ [Next]_vars => WakeInv'
  BY NextWake DEF IInv
<1>2. ASSUME TypeOK, WakeInv PROVE NoLostWakeup
  <2> SUFFICES ASSUME worker.at \in {"asleep", "waiting"}, WorkAvailable, ~ShuttingDown, ~SignalOwed
               PROVE  FALSE
    BY DEF NoLostWakeup
  <2>1. ~Owed
    BY <1>2 DEF SignalOwed, Owed, WakeInv, WaitTold
  <2>2. ~ShuttingDown => Told /\ BackoffTimed
    BY <1>2 DEF WakeInv
  <2>3. ASSUME NEW n \in Claimable PROVE FALSE
    <3>1. n \in cleanupTimers /\ n \in Names /\ ~instances[n].backoff
      BY <2>1, <2>2, <2>3 DEF Told, ClaimsTold, Looked, Claimable, Removing
    <3> QED BY <3>1 DEF SignalOwed
  <2>4. CASE CanScale /\ count < Target /\ NamesLeft /\ retryAllowed /\ worker.at # "waiting"
    <3>1. retry = "none"
      BY <1>2, <2>4 DEF retryAllowed, TypeOK, RetryStates, SignalOwed
    <3> QED BY <2>1, <2>2, <2>4, <3>1 DEF Told, CountTold
  <2>5. CASE CanScale /\ count > Target /\ canTrim(Target)
    BY <2>1, <2>2, <2>5 DEF Told, TrimTold, Looked
  <2> QED BY <2>3, <2>4, <2>5 DEF WorkAvailable
<1>3. IInv => TypeOK
  BY DEF IInv
<1> QED BY <1>1, <1>2, <1>3, InitWake, Inductive, JobsKnown, PTL DEF Spec

=============================================================================
